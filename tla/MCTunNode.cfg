SPECIFICATION Spec
CONSTANTS
  None = None
  Setups <- AllSetups
  Coord = coord
  Ends = {e1}
  Cidrs = {lan1, lan2}
  MaxStarts = 2
  MaxChanges = 3
INVARIANTS
  TransportPinned
  AcceptedIsRouted
  NamesResolve
PROPERTIES
  ReturnsClean
  PinsSettle
CHECK_DEADLOCK FALSE
