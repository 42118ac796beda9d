SPECIFICATION Spec
CONSTANTS
  None = None
  t1 = t1
  t2 = t2
  u1 = u1
  Tcp = {t1, t2}
  Udp = {u1}
  MaxStreams = 1
  MaxRequests = 2
  MaxChunks = 1
INVARIANTS
  WithinLimit
  ReplyFirst
SYMMETRY Interchangeable
CHECK_DEADLOCK FALSE
