SPECIFICATION Spec
CONSTANTS
  Levels = 4
  CircomLength = 3
  MaxLeaves = 2
  MaxReorgs = 1
  MaxVersions = 2
INVARIANTS AbsentCommitmentRefused
