SPECIFICATION Spec
CONSTANTS
  MaxNotes = 3
  Amount <- MCAmount
  Fees = {1, 2}
  MaxInputs = 2
  MaxCalls = 2
  MaxResets = 1
INVARIANTS
  IInv
  SentOnce
  HiddenOnlyIfSent
  ResultsReported
  QuietWithdrawsAll
  PaidByNotes
CHECK_DEADLOCK FALSE
