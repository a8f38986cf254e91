SPECIFICATION Spec
CONSTANTS
  Requests <- MCRequests
  Earlier = 3
  WaitAttempts = 2
  SendRetries = 2
  MaxOthers = 1
  MaxTronSelfOutputs = 2
  BucketCap = 2
  Bps = 10
  BatchSize = 2
INVARIANTS
  IInv
  SpeculationSound
  ScheduleHonoursRequest
  DepositLandsOnce
PROPERTY
  CallEnds
CHECK_DEADLOCK FALSE
