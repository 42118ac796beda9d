SPECIFICATION FairSpec
CONSTANTS
  None = None
  ui = ui
  pong = pong
  Threads = {ui, pong}
  Pressers = {ui}
  Careless = {pong}
  Capacity = 2
  MaxRate = 2
  Second = 2
  MaxFrames = 4
  MaxTime = 3
INVARIANTS
  PressFollowsItsMove
  NothingAfterFailure
  RateBounded
PROPERTIES
  PromiseSpec
  SentArrives
CHECK_DEADLOCK FALSE
