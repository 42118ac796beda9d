SPECIFICATION FairSpec
CONSTANTS
  None = None
  Conns = {c1, c2, c3}
  Ips = {home, away}
  Rids = {r1, r2}
  MaxConnsPerIp = 2
  MaxHosts = 1
INVARIANTS
  TypeOK
  EntryIsWatched
  PairExclusive
PROPERTIES
  SlotKept
  TornDownTogether
  LostHostLeaves
CHECK_DEADLOCK FALSE
