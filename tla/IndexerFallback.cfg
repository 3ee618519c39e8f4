SPECIFICATION Spec
CONSTANTS
  N = 18
  Ledger <- MCLedger
  Kind <- MCKind
  Known = 1
  Checkpointed = FALSE
  PageSize = 3
  MaxFaults = 2
  Voters = {"ann", "bob"}
  Subjects = {"ann", "bob", "contract", "key"}
  Subject <- MCSubject
  Support <- MCSupport
  Holders <- MCHolders
  Key <- MCKey
INVARIANTS
  FailedIsRetried
