SPECIFICATION FairSpec
CONSTANTS
  Investments = {"i1", "i2", "i3"}
  Shares <- MCShares
  Callers = {"s1", "s2", "stranger", "hourly", "maturity"}
  Wallet <- MCWallet
  Params <- MCParams
  Admins = {"a1"}
  Verifiers = {"v"}
  Deliveries = {"e"}
  Topics = {"settle", "payment"}
  MaxHolding = 2
  Deployments <- AllDeployments
INVARIANTS
  TypeOK
  PaidAtMostOnce
  IntentTellsTheTruth
  PayoutsMatchHoldings
  RecordMatchesPayout
PROPERTIES
  ImplementsPromise
  DirectlySettled
