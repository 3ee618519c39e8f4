SPECIFICATION FairSpec
CONSTANTS
  Investments = {"i1"}
  Shares <- MCShares
  Callers = {"hourly", "maturity"}
  Wallet <- MCWallet
  Params <- MCParams
  Admins = {}
  Verifiers = {"v"}
  Deliveries = {}
  Topics = {}
  MaxHolding = 3
  Deployments <- WithDistributor
PROPERTY AutomaticallySettled
CHECK_DEADLOCK FALSE
