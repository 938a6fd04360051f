CONSTANTS
  Host = {"a", "b", "c"}
  Port = {1, 2}
  NoAddress = NoAddress
  Pair <- MCPairs
  Socket = {50001, 50002, 50003}
  maxForwardEntries = 1
  MaxStops = 1
SPECIFICATION Spec
INVARIANTS LimitKept
CHECK_DEADLOCK FALSE
