SPECIFICATION Spec
CONSTANTS
  c1 = c1
  c2 = c2
  sender = sender
  old = old
  Callers = {c1, c2}
  Payments = {c1, c2, sender, old}
  Sender = sender
  Sessions <- MCSessions
  Chains = {"main", "side"}
  Canonical = "main"
  InitServer <- MCInitServer
  Habits <- MCHabits
  AddressTTL = 2
  RecoveryTTL = 1
  MinTTL = 1
  MaxNow = 3
  MaxVersions = 2
  Buffer = 1
  InTransit = 0
  InitNonces <- MCInitNonces
  Amount = 4
  Refunds = {0, 1, 4}
  FlatFee = 1
  Rate = 1
  Bps = 4
INVARIANTS
  IInv
  NothingStranded
  AddressSuits
ACTION_CONSTRAINT
  UpgradeWhenClaiming
CHECK_DEADLOCK FALSE
