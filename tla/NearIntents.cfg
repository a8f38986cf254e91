SPECIFICATION Spec
CONSTANTS
  Claims = {c1, c2}
  Accounts = {current}
  Refunded = {"poa", "hotNative", "hotToken", "hotTon", "omniEvm", "omniBtc", "near", "wrapNear"}
  Amounts = {3}
  MaxFunds = 3
  MaxFee = 2
  MaxRotations = 1
  PublishAttempts = 2
  MaxPolls = 2
  MaxWatchErrors = 2
INVARIANTS
  IInv
  IntentsSpendExactly
  FreshSaltOnRetry
  FailureIsHonest
PROPERTY
  ImplementsRefundClaim
ACTION_CONSTRAINT
  OneClaimUnlessPoa
CHECK_DEADLOCK FALSE
