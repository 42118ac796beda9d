SPECIFICATION HealingSpec
CONSTANTS
  I = I
  R = R
  Slots = {1}
  MaxEph = 4
  MaxQueue = 1
  SilenceLimit = 1
  MaxDerp = 4
  MaxSends = 1
  SendsPerTick = FALSE
  MaxOutages = 1
  MaxUpsets = 0
  MaxWorkers = 0
  LateMap = FALSE
  Timely = TRUE
INVARIANTS
  KeysAgree
PROPERTIES
  QueuedLeaves
  InitiatorUpgrades
