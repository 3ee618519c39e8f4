SPECIFICATION FairSpec
CONSTANTS
  N = 18
  Ledger <- MCLedger
  Kind <- MCKind
  Known = 1
  Checkpointed = TRUE
  PageSize = 3
  MaxFaults = 2
  Voters = {"ann", "bob"}
  Subjects = {"ann", "bob", "contract", "key"}
  Subject <- MCSubject
  Support <- MCSupport
  Holders <- MCHolders
  Key <- MCKey
INVARIANTS
  TypeOK
  NothingSkipped
  StatusFollowsChain
  RowsExact
  TallyIsCount
PROPERTIES
  LatestGoesForward
  ImplementsDelivery
