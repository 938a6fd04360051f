CONSTANTS
  CloudMachine = {"s1", "s2"}
  CloudUser = {"a", "b"}
  ServerOf <- MCServerOf
  CloudKey = {"k"}
  MaxPosts = 2
  MaxGets = 1
  MaxDepartures = 0
INIT CloudInit
NEXT CloudNext
INVARIANTS NoUpdateMissed
CHECK_DEADLOCK FALSE
