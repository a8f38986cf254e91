SPECIFICATION Spec
CONSTANTS
  MaxBlock = 3
  Contents = {"none", "A"}
  Empty = "none"
  Depth = 2
  MaxGen = 2
INVARIANTS Coverage SingleFeeder IInv SuccessorInv
PROPERTIES WatermarkMonotone ServedNeverRegresses
CHECK_DEADLOCK FALSE
