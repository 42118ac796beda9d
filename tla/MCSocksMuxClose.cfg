SPECIFICATION FairSpec
CONSTANTS
  None = None
  t1 = t1
  Tcp = {t1}
  Udp = {}
  MaxStreams = 1
  MaxRequests = 1
  MaxChunks = 1
PROPERTY
  CloseReachesApplication
CHECK_DEADLOCK FALSE
