SPECIFICATION FairSpec
CONSTANTS
  MaxBlock = 1
  Contents = {"none", "A"}
  Empty = "none"
  Depth = 1
  MaxGen = 2
PROPERTIES ClearedListenerStops
CHECK_DEADLOCK FALSE
