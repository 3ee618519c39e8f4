SPECIFICATION FairSpec
CONSTANTS
  Fractional = {"f1", "f2", "f3"}
  Committing = {"c1", "c2"}
  Uploads = {}
  Events = {}
  Whole <- MCWhole
  Rest <- MCRest
  Slot <- MCSlot
  Net = 3
  MaxAttempts = 2
INVARIANTS
  TypeOK
  NeverOverfunded
  FundedAmountIsSum
  FundedWhenFilled
  OneCommitmentPerSlot
  ConflictOnlyUnderContention
PROPERTIES
  CommitOnlyWhileOpen
  ImplementsLedger
  EveryRequestAnswered
CHECK_DEADLOCK FALSE
