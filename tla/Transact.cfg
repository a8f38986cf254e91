SPECIFICATION Spec
CONSTANTS
  Bps = 10
  PrivateSendRate = 1
  SwapRate = 2
  DefaultSlippage = 1
  SmallInputs = 2
  LargeInputs = 3
  Strangers <- MCStrangers
  Wallet <- MCWallet
  Setups <- MCSetups
  Asks <- MCAsks
  Calls = {1, 2}
INVARIANTS
  TypeOK
  SignedAsAsked
CHECK_DEADLOCK FALSE
