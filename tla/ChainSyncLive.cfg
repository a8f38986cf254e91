SPECIFICATION FairSpec
CONSTANTS
  MaxBlock = 2
  Contents = {"none", "A"}
  Empty = "none"
  Depth = 1
  MaxGen = 2
PROPERTIES ResetEnds ListenerCatchesUp
CHECK_DEADLOCK FALSE
