SPECIFICATION Spec
CONSTANTS
  I = I
  R = R
  Slots = {1}
  MaxEph = 4
  MaxQueue = 1
  SilenceLimit = 1
  MaxDerp = 4
  MaxSends = 2
  SendsPerTick = FALSE
  MaxOutages = 0
  MaxUpsets = 1
  MaxWorkers = 0
  LateMap = FALSE
  Timely = TRUE
INVARIANTS
  KeysAgree
CHECK_DEADLOCK FALSE
