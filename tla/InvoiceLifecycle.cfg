SPECIFICATION FairSpec
CONSTANTS
  Invoices = {"a", "b"}
  Calls = {"edit", "seller", "admin"}
  May <- MCMay
  On <- MCOn
  Ready = FALSE
  Events <- MCEvents
  Concurrency = 1
  MaxAttempts = 2
  MaxFaults = 2
  MaxReviews = 1
INVARIANTS
  TypeOK
  NotifiedForCause
  JobsAccounted
PROPERTIES
  ChangesRecorded
  EveryEventTold
CHECK_DEADLOCK FALSE
