----------------------------- MODULE ReadModels -----------------------------
(***************************************************************************)
(* What the read models of the chain answer: pages of histories and sums   *)
(* of what was earned and claimed.  Pure functions of the rows that        *)
(* OnchainProjections writes.                                              *)
(*                                                                         *)
(* A history is a set of rows with a time and an id, newest first; the     *)
(* rows of one ledger have one time.                                       *)
(***************************************************************************)
EXTENDS Integers, FiniteSets

LOCAL INSTANCE FiniteSetsExt

\* The order of every history: by time, then by id, both descending.
Precedes(r, s) == r.time > s.time \/ (r.time = s.time /\ r.id > s.id)

\* The first n rows.
Page(R, n) == {r \in R : Cardinality({s \in R : Precedes(s, r)}) < n}

\* The last row of a page, whose time and id are the cursor to the next one.
Cursor(P) == CHOOSE c \in P : \A r \in P : r = c \/ Precedes(r, c)

-----------------------------------------------------------------------------
(* What follows a cursor                                                   *)

\* The keyset of the swaps, the royalty claims and the merge proposals.
After(R, c) == {r \in R : r.time < c.time \/ (r.time = c.time /\ r.id < c.id)}

\* The claims of dividends are read from the first row on that is older, or as
\* old with a larger id.
Follows(r, c) == r.time < c.time \/ (r.time = c.time /\ r.id > c.id)
ClaimsAfter(R, c) ==
    {r \in R : \E s \in R : Follows(s, c) /\ (s = r \/ Precedes(s, r))}

\* The distributions of an issuer: the cursor is a time only.
DistributionsAfter(R, c) == {r \in R : r.time < c.time}

\* The pages one gets by following the cursors, when Rest(R, c) is what follows c.
PageAt(Rest(_, _), R, n, k) ==
    LET left[j \in 0 .. k] ==
            IF j = 0 THEN R
            ELSE LET P == Page(left[j - 1], n)
                 IN  IF P = {} THEN {} ELSE Rest(R, Cursor(P))
    IN  Page(left[k], n)

\* The transfers of a creator are read by offset, until a page is short or as
\* many are there as were counted before, at most MaxPages.
Transfers(R, counted, n, MaxPages) ==
    LET read[k \in 0 .. MaxPages] ==
            IF k = 0 THEN [rows |-> {}, go |-> TRUE]
            ELSE LET before == read[k - 1]
                     rows == Page(R, Cardinality(before.rows) + n)
                 IN  IF before.go
                     THEN [rows |-> rows,
                           go |-> /\ Cardinality(rows) - Cardinality(before.rows) = n
                                  /\ Cardinality(rows) < counted]
                     ELSE before
    IN  read[MaxPages].rows

-----------------------------------------------------------------------------
(* What is earned, claimed and left                                        *)

\* The sum of the amounts of some rows.
SumOf(R) == MapThenSumSet(LAMBDA r : r.amount, R)

\* The cycle of a row: its distribution, else the row by itself.
CycleOf(r) == IF r.distribution = "none" THEN <<r.kind, r.id>> ELSE <<r.distribution>>
Cycles(A, C) == {CycleOf(r) : r \in A \cup C}

Of(R, cycle) == {r \in R : CycleOf(r) = cycle}

\* What is left of what was earned, never below zero.
Left(earned, claimed) == IF earned >= claimed THEN earned - claimed ELSE 0

\* The claimable view of a holder with allocations A and claims C, per cycle.
Claimable(A, C) ==
    [cycle \in Cycles(A, C) |-> Left(SumOf(Of(A, cycle)), SumOf(Of(C, cycle)))]

\* Its total.
TotalClaimable(A, C) ==
    MapThenSumSet(LAMBDA cycle : Claimable(A, C)[cycle], Cycles(A, C))

\* The earnings of a creator: one balance, whatever the claims are for.
Pending(E, C) == Left(SumOf(E), SumOf(C))
=============================================================================
