SPECIFICATION Spec
CONSTANTS
  Levels = 4
  CircomLength = 3
  MaxLeaves = 3
  MaxReorgs = 1
  MaxVersions = 2
INVARIANTS IInv RootIsReference PathVerifies OutputsMatchLeaves ReadIsWhole
PROPERTIES ServedLosesOnlyMoved
