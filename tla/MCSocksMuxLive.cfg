SPECIFICATION FairSpec
CONSTANTS
  None = None
  t1 = t1
  u1 = u1
  Tcp = {t1}
  Udp = {u1}
  MaxStreams = 1
  MaxRequests = 1
  MaxChunks = 2
INVARIANT
  EndIsTruthful
PROPERTIES
  BothEndsLeave
  BreakIsNoticed
CHECK_DEADLOCK FALSE
