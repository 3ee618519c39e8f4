SPECIFICATION Spec
CONSTANTS
  Investments = {"i1", "i2"}
  Shares <- MCShares
  Callers = {}
  Wallet <- MCWallet
  Params <- MCParams
  Admins = {"a1"}
  Verifiers = {"v"}
  Deliveries = {}
  Topics = {"settle"}
  MaxHolding = 3
  Deployments <- WithDistributor
PROPERTY EveryChangeRecorded
