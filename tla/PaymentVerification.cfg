SPECIFICATION FairSpec
CONSTANTS
  Investments = {"i1", "i2"}
  Payments = {"p1", "p2"}
  Matches <- MCMatches
  Asked <- MCAsked
  Requests = {"r1", "r2"}
  Workers = {"w1"}
  Drafts = {"d1"}
  Events = {"e1"}
  RetryAttempts = 2
  NoRow = "no row"
INVARIANTS
  TypeOK
  PaymentCreditedOnce
  CreditIsClaimed
  ConfirmedMeansPaid
  SuccessIsClaimed
  RefusalJustified
PROPERTIES
  EveryCallAnswered
CHECK_DEADLOCK FALSE
