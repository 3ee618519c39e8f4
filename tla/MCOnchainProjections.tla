------------------------ MODULE MCOnchainProjections ------------------------
(***************************************************************************)
(* An instance of OnchainProjections for TLC: an escrow that is created,   *)
(* funded and settled; a dividend cycle with two holders, of whom one      *)
(* claims; two royalties paid in one transaction and one claimed; a swap;  *)
(* two entries of the ACL for one contract and a key configuration; and    *)
(* two proposals, on one of which a holder votes twice.                    *)
(***************************************************************************)
EXTENDS OnchainProjections

MCKind ==
    <<"create_escrow", "dividend_distributed", "fund_escrow", "royalty_paid", "royalty_paid",
      "merge_proposed", "merge_voted", "acl_updated", "payment_recorded", "dividend_claimed",
      "merge_voted", "merge_executed", "acl_updated", "royalty_claimed", "curve_migration_proposed",
      "curve_migration_executed", "key_config_updated", "atomic_swap_executed">>
MCLedger == <<1, 2, 2, 2, 2, 3, 3, 3, 3, 4, 4, 4, 4, 6, 6, 6, 6, 6>>
MCKey == [e \in Inserting |-> IF e = 5 THEN 4 ELSE e]
MCHolders == [e \in Inserting |-> IF e = 2 THEN 2 ELSE 0]
MCSubject ==
    [e \in Overwriting |-> CASE e \in {7, 11} -> "ann" [] e \in {8, 13} -> "contract" [] e = 17 -> "key"]
MCSupport == [e \in {7, 11} |-> e = 11]

\* The hypothesis of the theorem about the tally.
ASSUME MCVotes == VotesFollowProposal

-----------------------------------------------------------------------------
(* The read models, evaluated on every set of at most six rows of two      *)
(* times.                                                                  *)
Views == INSTANCE ReadModels

HistoryRow == [time : 1 .. 2, id : 1 .. 3]
Keyset(R, c) == Views!After(R, c)
ClaimCursor(R, c) == Views!ClaimsAfter(R, c)
TimeCursor(R, c) == Views!DistributionsAfter(R, c)

\* Every row of R is on one of the pages of n rows.
Complete(Rest(_, _), R, n) == UNION {Views!PageAt(Rest, R, n, k) : k \in 0 .. 6} = R

\* No row is on two pages, and the pages are in order.
InOrder(Rest(_, _), R, n) ==
    \A j, k \in 0 .. 6 : j < k =>
        \A r \in Views!PageAt(Rest, R, n, j), s \in Views!PageAt(Rest, R, n, k) :
            Views!Precedes(r, s)

\* Who follows the keyset cursors reads every row once, in order.
ASSUME KeysetReadsAll ==
    \A R \in SUBSET HistoryRow, n \in 1 .. 3 : Complete(Keyset, R, n) /\ InOrder(Keyset, R, n)

\* The cursor of the dividend claims does so while no two of them share a time;
\* of those that do, some are skipped or read again.
ASSUME ClaimsReadAllOfDistinctTimes ==
    \A R \in SUBSET HistoryRow, n \in 1 .. 3 :
        (\A r, s \in R : r.time = s.time => r = s) =>
            Complete(ClaimCursor, R, n) /\ InOrder(ClaimCursor, R, n)
ASSUME ClaimsOfOneTimeSkipped ==
    \E R \in SUBSET HistoryRow, n \in 1 .. 3 : ~Complete(ClaimCursor, R, n)
ASSUME ClaimsOfOneTimeRepeated ==
    \E R \in SUBSET HistoryRow, n \in 1 .. 3 : ~InOrder(ClaimCursor, R, n)

\* The cursor of an issuer's distributions skips the rest of a time.
ASSUME DistributionsOfOneTimeSkipped ==
    \E R \in SUBSET HistoryRow, n \in 1 .. 3 : ~Complete(TimeCursor, R, n)

\* The breakdown of a creator's earnings reads the newest rows up to its bound
\* on pages, and not the others.
ASSUME TransfersUpToTheBound ==
    \A R \in SUBSET HistoryRow, n \in 1 .. 3, m \in 1 .. 4 :
        Views!Transfers(R, Cardinality(R), n, m) = Views!Page(R, n * m)

\* At most two allocations and two claims, of one distribution or of none.
MoneyRow(k) ==
    [kind : {k}, id : 1 .. 2, distribution : {"none", "x"}, amount : 1 .. 2]
MoneyRows(k) ==
    {R \in SUBSET MoneyRow(k) : Cardinality(R) <= 2 /\ \A r, s \in R : r.id = s.id => r = s}

\* What a holder is shown as claimable is never less than what is left in all,
\* and is exactly that when no cycle has more claims than allocations.
ASSUME ClaimableCoversTheRest ==
    \A A \in MoneyRows("allocation"), C \in MoneyRows("claim") :
        Views!TotalClaimable(A, C) >= Views!Pending(A, C)
ASSUME ClaimableIsTheRest ==
    \A A \in MoneyRows("allocation"), C \in MoneyRows("claim") :
        (\A c \in Views!Cycles(A, C) :
            Views!SumOf(Views!Of(C, c)) <= Views!SumOf(Views!Of(A, c))) =>
                Views!TotalClaimable(A, C) = Views!SumOf(A) - Views!SumOf(C)
=============================================================================
