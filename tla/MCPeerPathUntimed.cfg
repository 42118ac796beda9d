SPECIFICATION Spec
CONSTANTS
  I = I
  R = R
  Slots = {1,2}
  MaxEph = 3
  MaxQueue = 1
  SilenceLimit = 0
  MaxDerp = 2
  MaxSends = 1
  SendsPerTick = FALSE
  MaxOutages = 0
  MaxUpsets = 1
  MaxWorkers = 2
  LateMap = TRUE
  Timely = FALSE
INVARIANTS
  NothingStranded
  ResponderHalfAgrees
  WorkerArmed
PROPERTIES
  SessionKept
CHECK_DEADLOCK FALSE
