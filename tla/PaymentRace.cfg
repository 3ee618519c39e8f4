SPECIFICATION Spec
CONSTANTS
  Investments = {"i1", "i2"}
  Payments = {"p1", "p2"}
  Matches <- MCMatches
  Asked <- MCAsked
  Requests = {"r1", "r2"}
  Workers = {}
  Drafts = {}
  Events = {}
  RetryAttempts = 2
  NoRow = "no row"
PROPERTY ConfirmedOnce
CHECK_DEADLOCK FALSE
