SPECIFICATION FairSpec
CONSTANTS
  None = None
  Conns = {c1, c2}
  Ips = {home, away}
  Rids = {r1}
  MaxConnsPerIp = 1
  MaxHosts = 1
PROPERTIES
  StaleEntryLeaves
CHECK_DEADLOCK FALSE
