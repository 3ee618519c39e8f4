---------------------- MODULE InvestmentFundingProofs ----------------------
(***************************************************************************)
(* Proofs about InvestmentFunding for every set of requests, every amount  *)
(* and every net amount: type correctness, the agreement of funded_amount  *)
(* with the commitments, no over-funding, the refinement of the ledger,    *)
(* what a conflict is a sign of, and what is left of it all next to the    *)
(* handlers that save stale entities.                                      *)
(***************************************************************************)
EXTENDS InvestmentFunding, FiniteSetTheorems, TLAPS

-----------------------------------------------------------------------------
(* Totals                                                                  *)

\* What toFixed(4) stores of an amount is a natural number, at most one unit
\* above its whole units and within what has to be left for it.
LEMMA AmountType ==
    ASSUME NEW r \in Requests
    PROVE  /\ Whole[r] \in Nat /\ Amount[r] \in Nat /\ Needed[r] \in Nat
           /\ Whole[r] <= Amount[r] /\ Amount[r] <= Needed[r]
           /\ r \in Exact => Amount[r] = Whole[r] /\ Needed[r] = Whole[r]
           /\ r \notin Exact => Needed[r] = Whole[r] + 1
           /\ Rest[r] # "above" => Amount[r] = Whole[r]
           /\ r \in Fractional => r \in Exact
<1>1. /\ Whole[r] \in Nat /\ Rest[r] \in {"none", "below", "above"}
      /\ r \in Fractional => Rest[r] = "none"
  BY FundingAssumption
<1> QED  BY <1>1 DEF Amount, Needed, Exact

\* The units of one request: a finite set with Amount[r] elements.
LEMMA UnitsCardinality ==
    ASSUME NEW r \in Requests
    PROVE  IsFiniteSet(Units(r)) /\ Cardinality(Units(r)) = Amount[r]
<1>1. Amount[r] \in Nat  BY AmountType
<1>2. IsFiniteSet(1 .. Amount[r]) /\ Cardinality(1 .. Amount[r]) = Amount[r]
  BY <1>1, FS_Interval
<1>3. IsFiniteSet({r}) /\ Cardinality({r}) = 1  BY FS_Singleton
<1>4. /\ IsFiniteSet({r} \X (1 .. Amount[r]))
      /\ Cardinality({r} \X (1 .. Amount[r])) = 1 * Amount[r]
  BY <1>2, <1>3, FS_Product
<1> QED  BY <1>1, <1>4 DEF Units

\* There are finitely many requests.
LEMMA RequestsFinite == IsFiniteSet(Requests)
  BY FundingAssumption, FS_Union DEF Requests

\* The units of a set of requests are finitely many.
LEMMA UnitsOfFinite ==
    ASSUME NEW S \in SUBSET Requests
    PROVE  IsFiniteSet(UnitsOf(S)) /\ TotalOf(S) \in Nat
<1>1. IsFiniteSet(S)  BY RequestsFinite, FS_Subset
<1> DEFINE f == [r \in S |-> Units(r)]
           U == {Units(r) : r \in S}
<1>2. f \in Surjection(S, U)  BY DEF Surjection
<1>3. IsFiniteSet(U)  BY <1>1, <1>2, FS_Surjection
<1>4. \A T \in U : IsFiniteSet(T)  BY UnitsCardinality
<1>5. IsFiniteSet(UNION U)  BY <1>3, <1>4, FS_UNION
<1> QED  BY <1>5, FS_CardinalityType DEF UnitsOf, TotalOf

\* A further request adds its amount to the total.
LEMMA TotalOfAdd ==
    ASSUME NEW S \in SUBSET Requests, NEW r \in Requests \ S
    PROVE  TotalOf(S \cup {r}) = TotalOf(S) + Amount[r]
<1>1. UnitsOf(S \cup {r}) = UnitsOf(S) \cup Units(r)  BY DEF UnitsOf
<1>2. UnitsOf(S) \cap Units(r) = {}  BY DEF UnitsOf, Units
<1>3. IsFiniteSet(UnitsOf(S))  BY UnitsOfFinite
<1>4. IsFiniteSet(Units(r)) /\ Cardinality(Units(r)) = Amount[r]
  BY UnitsCardinality
<1>5. Cardinality(UnitsOf(S) \cup Units(r))
        = Cardinality(UnitsOf(S)) + Cardinality(Units(r)) - Cardinality({})
  BY <1>2, <1>3, <1>4, FS_Union
<1>6. Cardinality({}) = 0  BY FS_EmptySet
<1>7. Cardinality(UnitsOf(S)) \in Nat /\ Amount[r] \in Nat
  BY <1>3, FS_CardinalityType, AmountType
<1>8. TotalOf(S \cup {r}) = Cardinality(UnitsOf(S) \cup Units(r))
  BY <1>1 DEF TotalOf
<1>9. Cardinality(UnitsOf(S) \cup Units(r)) = Cardinality(UnitsOf(S)) + Amount[r]
  BY <1>4, <1>5, <1>6, <1>7
<1> QED  BY <1>8, <1>9 DEF TotalOf

\* Nothing committed amounts to zero.
LEMMA TotalOfEmpty == TotalOf({}) = 0
<1>1. UnitsOf({}) = {}  BY DEF UnitsOf
<1> QED  BY <1>1, FS_EmptySet DEF TotalOf

-----------------------------------------------------------------------------
(* Type correctness                                                        *)

\* A row built from a known status and two naturals is well typed.
LEMMA RowType ==
    ASSUME NEW s \in {"PUBLISHED", "FUNDED", "FAILED", "SETTLED"},
           NEW f \in Nat, NEW v \in Nat
    PROVE  Row(s, f, v) \in Rows
  BY DEF Row, Rows

\* An invoice starts well typed.
LEMMA PublishedType == Published \in Rows
  BY RowType DEF Published

\* The types hold initially ...
LEMMA InitType == Init => TypeOK
<1> SUFFICES ASSUME Init PROVE TypeOK
  OBVIOUS
<1>1. Published \in Rows  BY PublishedType
<1>2. attempt \in [Requests -> Nat]  BY DEF Init
<1>3. outcome \in [Requests -> Outcomes]  BY DEF Init, Outcomes
<1> QED  BY <1>1, <1>2, <1>3 DEF Init, TypeOK

\* ... and every action keeps them.
LEMMA NextType == TypeOK /\ [Next]_vars => TypeOK'
<1> SUFFICES ASSUME TypeOK, [Next]_vars PROVE TypeOK'
  OBVIOUS
<1> USE AmountType, PublishedType
<1>1. ASSUME NEW r \in Requests, Refuse(r) PROVE TypeOK'
  BY <1>1 DEF TypeOK, Refuse, Answer, Outcomes
<1>2. ASSUME NEW r \in Requests, ReadInvoice(r) PROVE TypeOK'
  BY <1>2 DEF TypeOK, ReadInvoice, Answer, Outcomes
<1>3. ASSUME NEW r \in Requests, CheckDuplicate(r) PROVE TypeOK'
  BY <1>3 DEF TypeOK, CheckDuplicate, Answer, Outcomes
<1>4. ASSUME NEW r \in Requests, CommitFractional(r) PROVE TypeOK'
  <2>1. row \in Rows /\ seen[r] \in Rows /\ Amount[r] \in Nat
    BY DEF TypeOK
  <2>2. row' \in Rows
    <3>1. /\ seen[r].fundedAmount + Amount[r] \in Nat
          /\ row.fundedAmount + Amount[r] \in Nat
          /\ row.version + 1 \in Nat /\ row.version + 2 \in Nat
      BY <2>1 DEF Rows
    <3>2. /\ Row("FUNDED", seen[r].fundedAmount + Amount[r], row.version + 2) \in Rows
          /\ Row("PUBLISHED", row.fundedAmount + Amount[r], row.version + 1) \in Rows
      BY <3>1, RowType
    <3> QED  BY <1>4, <2>1, <3>2 DEF CommitFractional, FillsUp
  <2>3. pc' \in [Requests \cup Editors -> {"ready", "read", "checked", "done"}]
    BY <1>4 DEF TypeOK, CommitFractional, Answer
  <2>4. outcome' \in [Requests -> Outcomes]
    BY <1>4 DEF TypeOK, CommitFractional, Answer, Outcomes
  <2>5. investment' \in [Requests -> {"none", "PENDING", "CONFIRMED", "SETTLED"}]
    BY <1>4 DEF TypeOK, CommitFractional
  <2>6. seen' \in [Requests \cup Editors -> Rows]
    BY <1>4 DEF TypeOK, CommitFractional, Answer
  <2> QED  BY <1>4, <2>2, <2>3, <2>4, <2>5, <2>6 DEF TypeOK, CommitFractional
<1>5. ASSUME NEW r \in Requests, Conflict(r) PROVE TypeOK'
  <2>2. attempt' \in [Requests -> Nat]
    BY <1>5 DEF TypeOK, Conflict
  <2>3. pc' \in [Requests \cup Editors -> {"ready", "read", "checked", "done"}]
    BY <1>5 DEF TypeOK, Conflict, Answer
  <2>4. outcome' \in [Requests -> Outcomes]
    BY <1>5 DEF TypeOK, Conflict, Answer, Outcomes
  <2>6. seen' \in [Requests \cup Editors -> Rows]
    BY <1>5 DEF TypeOK, Conflict, Answer
  <2> QED  BY <1>5, <2>2, <2>3, <2>4, <2>6 DEF TypeOK, Conflict
<1>6. ASSUME NEW r \in Requests, CreateInvestment(r) PROVE TypeOK'
  <2>1. TotalOf(Counted) + Amount[r] \in Nat
    BY UnitsOfFinite, AmountType DEF Counted
  <2>2. row' \in Rows
    <3>1. row \in Rows /\ row.version + 1 \in Nat  BY DEF TypeOK, Rows
    <3> QED  BY <1>6, <2>1, <3>1, RowType DEF CreateInvestment, FillsUp
  <2>3. pc' \in [Requests \cup Editors -> {"ready", "read", "checked", "done"}]
    BY <1>6 DEF TypeOK, CreateInvestment, Answer
  <2>4. outcome' \in [Requests -> Outcomes]
    BY <1>6 DEF TypeOK, CreateInvestment, Answer, Outcomes
  <2>5. investment' \in [Requests -> {"none", "PENDING", "CONFIRMED", "SETTLED"}]
    BY <1>6 DEF TypeOK, CreateInvestment
  <2>6. seen' \in [Requests \cup Editors -> Rows]
    BY <1>6 DEF TypeOK, CreateInvestment, Answer
  <2> QED  BY <1>6, <2>2, <2>3, <2>4, <2>5, <2>6 DEF TypeOK, CreateInvestment
<1>7. ASSUME NEW r \in Requests, ConfirmPayment(r) PROVE TypeOK'
  BY <1>7 DEF TypeOK, ConfirmPayment
<1>8. ASSUME Expire PROVE TypeOK'
  BY <1>8 DEF TypeOK, Expire
<1>9. ASSUME MarkUnderfunded PROVE TypeOK'
  <2>1. row' \in Rows
    <3>1. row.fundedAmount \in Nat /\ row.version + 1 \in Nat  BY DEF TypeOK, Rows
    <3> QED  BY <1>9, <3>1, RowType DEF MarkUnderfunded
  <2> QED  BY <1>9, <2>1 DEF TypeOK, MarkUnderfunded
<1>10. ASSUME SettleInvoice PROVE TypeOK'
  <2>1. row' \in Rows
    <3>1. row.fundedAmount \in Nat /\ row.version + 1 \in Nat  BY DEF TypeOK, Rows
    <3> QED  BY <1>10, <3>1, RowType DEF SettleInvoice
  <2>2. investment' \in [Requests -> {"none", "PENDING", "CONFIRMED", "SETTLED"}]
    BY <1>10 DEF TypeOK, SettleInvoice
  <2> QED  BY <1>10, <2>1, <2>2 DEF TypeOK, SettleInvoice
<1>11. CASE UNCHANGED vars
  BY <1>11 DEF TypeOK, vars
<1> QED
  BY <1>1, <1>2, <1>3, <1>4, <1>5, <1>6, <1>7, <1>8, <1>9, <1>10, <1>11
     DEF Next, Invest, Lifecycle

\* Every variable of the funding of an invoice keeps its type: in
\* particular funded_amount stays a natural number whatever is subtracted,
\* recomputed or written back.
THEOREM TypeCorrect == Spec => []TypeOK
<1> QED  BY InitType, NextType, PTL DEF Spec

-----------------------------------------------------------------------------
(* The agreement of the row with the commitments                           *)

\* A step that leaves the row and the commitments alone preserves the
\* invariant if nobody gets hold of an entity but by reading the row.
LEMMA RowUntouched ==
    ASSUME FundingInv, TypeOK', NotYetCommitted', NoneSettledEarly', row' = row, Committed' = Committed,
           \A r \in Fractional : pc'[r] \in {"read", "checked"} =>
                \/ seen'[r] = row
                \/ pc[r] \in {"read", "checked"} /\ seen'[r] = seen[r]
    PROVE  FundingInv'
<1>1. NeverOverfunded' /\ FundedAmountIsSum' /\ FundedWhenFilled'
  BY DEF FundingInv, NeverOverfunded, FundedAmountIsSum, FundedWhenFilled
<1>2. row.version \in Nat  BY DEF FundingInv, TypeOK, Rows
<1>3. SeenIsCurrent'  BY <1>2 DEF FundingInv, SeenIsCurrent
<1> QED  BY <1>1, <1>3 DEF FundingInv

\* A commitment of r that fits and brings the row in step preserves it.
LEMMA CommitStep ==
    ASSUME FundingInv, TypeOK', NotYetCommitted', NoneSettledEarly', NEW r \in Requests,
           row.status = "PUBLISHED", investment[r] = "none",
           investment' = [investment EXCEPT ![r] = "PENDING"],
           row.fundedAmount + Needed[r] <= Net,
           row'.fundedAmount = row.fundedAmount + Amount[r],
           row'.version \in Nat, row'.version > row.version,
           row'.status = IF row.fundedAmount + Whole[r] >= Net THEN "FUNDED" ELSE "PUBLISHED",
           pc' = [pc EXCEPT ![r] = "done"],
           \A s \in Requests \ {r} : seen'[s] = seen[s]
    PROVE  FundingInv'
<1>1. r \in Requests \ Committed /\ Committed \in SUBSET Requests  BY DEF Committed
<1>2. Committed' = Committed \cup {r}
  BY DEF Committed, FundingInv, TypeOK
<1>3. TotalOf(Committed)' = TotalOf(Committed) + Amount[r]
  BY <1>1, <1>2, TotalOfAdd DEF TotalOf, UnitsOf, Units
<1>4. row.fundedAmount = TotalOf(Committed)
  BY DEF FundingInv, FundedAmountIsSum
<1>5. row.fundedAmount \in Nat /\ row.version \in Nat /\ Net \in Nat
  BY FundingAssumption DEF FundingInv, TypeOK, Rows
<1>a. /\ Whole[r] \in Nat /\ Amount[r] \in Nat /\ Needed[r] \in Nat
      /\ Whole[r] <= Amount[r] /\ Amount[r] <= Needed[r]
      /\ r \in Exact => Amount[r] = Whole[r] /\ Needed[r] = Whole[r]
      /\ r \notin Exact => Needed[r] = Whole[r] + 1
      /\ Rest[r] # "above" => Amount[r] = Whole[r]
  BY AmountType
<1>b. NeverOverfunded' /\ FundedAmountIsSum'
  BY <1>3, <1>4, <1>5, <1>a DEF NeverOverfunded, FundedAmountIsSum
<1>c. FundedWhenFilled'
  <2>1. CASE row.fundedAmount + Whole[r] >= Net
    <3>1. r \in Exact  BY <1>5, <1>a, <2>1
    <3>2. row'.status = "FUNDED" /\ TotalOf(Committed)' = Net
      BY <1>3, <1>4, <1>5, <1>a, <2>1, <3>1
    <3> QED  BY <3>2 DEF FundedWhenFilled
  <2>2. CASE ~(row.fundedAmount + Whole[r] >= Net)
    <3>1. row'.status = "PUBLISHED"  BY <2>2
    <3>2. CASE Rest[r] = "above"
      <4>1. r \notin Exact  BY <3>2 DEF Exact
      <4>2. r \in Committing  BY <4>1, AmountType DEF Requests
      <4> QED  BY <1>2, <3>1, <3>2, <4>2 DEF FundedWhenFilled
    <3>3. CASE Rest[r] # "above"
      <4>1. TotalOf(Committed)' < Net
        BY <1>3, <1>4, <1>5, <1>a, <2>2, <3>3
      <4> QED  BY <3>1, <4>1 DEF FundedWhenFilled
    <3> QED  BY <3>2, <3>3
  <2> QED  BY <2>1, <2>2
<1>6. NeverOverfunded' /\ FundedAmountIsSum' /\ FundedWhenFilled'
  BY <1>b, <1>c
<1>7. ASSUME NEW s \in Fractional, pc'[s] \in {"read", "checked"}
      PROVE  seen'[s].version < row'.version
  <2>1. s # r /\ pc[s] \in {"read", "checked"}
    BY <1>7 DEF FundingInv, TypeOK, Requests
  <2>2. seen[s].version <= row.version
    BY <2>1 DEF FundingInv, SeenIsCurrent
  <2>3. seen[s].version \in Nat  BY DEF FundingInv, TypeOK, Rows, Requests
  <2>4. seen'[s] = seen[s]  BY <2>1 DEF Requests
  <2> QED  BY <1>5, <2>2, <2>3, <2>4
<1>8. SeenIsCurrent'
  <2> SUFFICES ASSUME NEW s \in Fractional, pc'[s] \in {"read", "checked"}
               PROVE  /\ seen'[s].version <= row'.version
                      /\ seen'[s].version # row'.version
    BY DEF SeenIsCurrent
  <2>1. seen'[s].version < row'.version  BY <1>7
  <2>2. seen'[s].version \in Nat  BY DEF FundingInv, TypeOK, Rows, Requests
  <2> QED  BY <2>1, <2>2
<1> QED  BY <1>6, <1>8 DEF FundingInv

\* A step that takes the invoice out of PUBLISHED or FUNDED keeps
\* funded_amount and the commitments.
LEMMA CloseStep ==
    ASSUME FundingInv, TypeOK', NotYetCommitted', NoneSettledEarly', Committed' = Committed,
           row'.fundedAmount = row.fundedAmount,
           \/ row'.status = "FAILED"
           \/ row.status = "FUNDED" /\ row'.status = "SETTLED"
    PROVE  FundingInv'
  BY DEF FundingInv, NeverOverfunded, FundedAmountIsSum, FundedWhenFilled, SeenIsCurrent

\* The inductive invariant holds initially.
LEMMA InitFunding == Init => FundingInv
<1> SUFFICES ASSUME Init PROVE FundingInv
  OBVIOUS
<1>1. Committed = {}  BY DEF Init, Committed
<1>2. TotalOf(Committed) = 0  BY <1>1, TotalOfEmpty
<1>3. row.status = "PUBLISHED" /\ row.fundedAmount = 0  BY DEF Init, Published, Row
<1>4. NeverOverfunded /\ FundedAmountIsSum /\ FundedWhenFilled
  BY <1>2, <1>3, FundingAssumption DEF NeverOverfunded, FundedAmountIsSum, FundedWhenFilled
<1>5. SeenIsCurrent  BY DEF Init, SeenIsCurrent, Requests
<1>6. NotYetCommitted  BY DEF Init, NotYetCommitted
<1>7. NoneSettledEarly  BY DEF Init, NoneSettledEarly, Outstanding
<1> QED  BY <1>4, <1>5, <1>6, <1>7, InitType DEF FundingInv

\* A request that is still being served has no investment row yet.
LEMMA NextNotYetCommitted ==
    TypeOK /\ NotYetCommitted /\ [Next]_vars => NotYetCommitted'
<1> SUFFICES ASSUME TypeOK, NotYetCommitted, [Next]_vars PROVE NotYetCommitted'
  OBVIOUS
<1> USE DEF TypeOK, NotYetCommitted
<1>1. ASSUME NEW r \in Requests, Refuse(r) PROVE NotYetCommitted'
  BY <1>1 DEF Refuse, Answer
<1>2. ASSUME NEW r \in Requests, ReadInvoice(r) PROVE NotYetCommitted'
  BY <1>2 DEF ReadInvoice, Answer
<1>3. ASSUME NEW r \in Requests, CheckDuplicate(r) PROVE NotYetCommitted'
  BY <1>3 DEF CheckDuplicate, Answer
<1>4. ASSUME NEW r \in Requests, CommitFractional(r) PROVE NotYetCommitted'
  BY <1>4 DEF CommitFractional, FillsUp, Answer
<1>5. ASSUME NEW r \in Requests, Conflict(r) PROVE NotYetCommitted'
  BY <1>5 DEF Conflict, Answer
<1>6. ASSUME NEW r \in Requests, CreateInvestment(r) PROVE NotYetCommitted'
  BY <1>6 DEF CreateInvestment, FillsUp, Answer
<1>7. ASSUME NEW r \in Requests, ConfirmPayment(r) PROVE NotYetCommitted'
  BY <1>7 DEF ConfirmPayment
<1>8. CASE Expire \/ MarkUnderfunded \/ UNCHANGED vars
  BY <1>8 DEF Expire, MarkUnderfunded, vars
<1>9. CASE SettleInvoice
  BY <1>9 DEF SettleInvoice
<1> QED
  BY <1>1, <1>2, <1>3, <1>4, <1>5, <1>6, <1>7, <1>8, <1>9 DEF Next, Invest, Lifecycle

\* What createInvestment sums up is, in every type-correct state, what has not
\* been settled.
LEMMA CountedIsOutstanding == TypeOK => Counted = Outstanding
  BY DEF TypeOK, Counted, Outstanding, Committed

\* Investments are settled together with their invoice.
LEMMA NextNoneSettledEarly ==
    TypeOK /\ NoneSettledEarly /\ [Next]_vars => NoneSettledEarly'
<1> SUFFICES ASSUME TypeOK, NoneSettledEarly, [Next]_vars PROVE NoneSettledEarly'
  OBVIOUS
<1> USE DEF NoneSettledEarly, Outstanding, Committed
<1>1. ASSUME NEW r \in Requests,
             Refuse(r) \/ ReadInvoice(r) \/ CheckDuplicate(r) \/ Conflict(r)
      PROVE  NoneSettledEarly'
  BY <1>1 DEF Refuse, ReadInvoice, CheckDuplicate, Conflict
<1>2. ASSUME NEW r \in Requests, CommitFractional(r) PROVE NoneSettledEarly'
  BY <1>2 DEF CommitFractional, UpdateMatches, TypeOK
<1>3. ASSUME NEW r \in Requests, CreateInvestment(r) PROVE NoneSettledEarly'
  BY <1>3 DEF CreateInvestment, TypeOK
<1>4. ASSUME NEW r \in Requests, ConfirmPayment(r) PROVE NoneSettledEarly'
  BY <1>4 DEF ConfirmPayment, TypeOK
<1>5. CASE Expire \/ MarkUnderfunded \/ UNCHANGED vars
  BY <1>5 DEF Expire, MarkUnderfunded, vars
<1>6. CASE SettleInvoice
  BY <1>6 DEF SettleInvoice, Row
<1> QED
  BY <1>1, <1>2, <1>3, <1>4, <1>5, <1>6 DEF Next, Invest, Lifecycle

\* Every step preserves the inductive invariant.
LEMMA NextFunding == FundingInv /\ [Next]_vars => FundingInv'
<1> SUFFICES ASSUME FundingInv, [Next]_vars PROVE FundingInv'
  OBVIOUS
<1>t. TypeOK /\ TypeOK' /\ NotYetCommitted' /\ NoneSettledEarly'
  BY NextType, NextNotYetCommitted, NextNoneSettledEarly DEF FundingInv
<1>1. ASSUME NEW r \in Requests, Refuse(r) PROVE FundingInv'
  BY <1>1, <1>t, RowUntouched DEF Refuse, Answer, Committed, TypeOK, Requests
<1>2. ASSUME NEW r \in Requests, ReadInvoice(r) PROVE FundingInv'
  BY <1>2, <1>t, RowUntouched DEF ReadInvoice, Answer, Committed, TypeOK, Requests
<1>3. ASSUME NEW r \in Requests, CheckDuplicate(r) PROVE FundingInv'
  BY <1>3, <1>t, RowUntouched DEF CheckDuplicate, Answer, Committed, TypeOK, Requests
<1>4. ASSUME NEW r \in Requests, CommitFractional(r) PROVE FundingInv'
  <2>1. CASE SlotTaken(r)
    BY <1>4, <2>1, <1>t, RowUntouched DEF CommitFractional, FillsUp, Answer, Committed, TypeOK, Requests
  <2>2. CASE ~SlotTaken(r)
    <3>1. /\ r \in Fractional /\ pc[r] = "checked"
          /\ row.version = seen[r].version /\ row.status = "PUBLISHED"
          /\ row.fundedAmount + Amount[r] <= Net
      BY <1>4 DEF CommitFractional, FillsUp, UpdateMatches
    <3>2. seen[r].fundedAmount = row.fundedAmount
      BY <3>1 DEF FundingInv, SeenIsCurrent
    <3>3. /\ row' = IF row.fundedAmount + Amount[r] >= Net
                    THEN Row("FUNDED", row.fundedAmount + Amount[r], row.version + 2)
                    ELSE Row("PUBLISHED", row.fundedAmount + Amount[r], row.version + 1)
          /\ investment' = [investment EXCEPT ![r] = "PENDING"]
          /\ pc' = [pc EXCEPT ![r] = "done"]
          /\ \A s \in Requests \ {r} : seen'[s] = seen[s]
      BY <1>4, <1>t, <2>2, <3>2 DEF CommitFractional, FillsUp, Answer, TypeOK
    <3>4. investment[r] = "none"  BY <3>1 DEF FundingInv, NotYetCommitted
    <3>5. row.version \in Nat  BY <1>t DEF TypeOK, Rows
    <3>6. Amount[r] = Whole[r] /\ Needed[r] = Amount[r]  BY <3>1, AmountType
    <3>7. /\ row'.status = IF row.fundedAmount + Whole[r] >= Net THEN "FUNDED" ELSE "PUBLISHED"
          /\ row'.fundedAmount = row.fundedAmount + Amount[r]
          /\ row'.version \in Nat /\ row'.version > row.version
          /\ row.fundedAmount + Needed[r] <= Net
      BY <3>1, <3>3, <3>5, <3>6 DEF Row
    <3> QED  BY <1>t, <3>1, <3>3, <3>4, <3>7, CommitStep
  <2> QED  BY <2>1, <2>2
<1>5. ASSUME NEW r \in Requests, Conflict(r) PROVE FundingInv'
  BY <1>5, <1>t, RowUntouched DEF Conflict, Answer, Committed, TypeOK, Requests
<1>6. ASSUME NEW r \in Requests, CreateInvestment(r) PROVE FundingInv'
  <2>1. CASE investment' = investment
    <3>1. row' = row
      <4>1. CASE Answer(r, "committed")
        <5>1. investment[r] = "none"
          BY <1>6 DEF FundingInv, NotYetCommitted, CreateInvestment
        <5> QED  BY <1>6, <1>t, <2>1, <5>1 DEF CreateInvestment, FillsUp, TypeOK
      <4> QED  BY <1>6, <4>1 DEF CreateInvestment, FillsUp
    <3> QED  BY <1>6, <1>t, <2>1, <3>1, RowUntouched
             DEF CreateInvestment, FillsUp, Answer, Committed, TypeOK, Requests
  <2>2. CASE investment' # investment
    <3>1. /\ r \in Committing /\ pc[r] = "ready" /\ row.status = "PUBLISHED"
          /\ ~(TotalOf(Counted) + Needed[r] > Net)
          /\ row' = Row(IF TotalOf(Counted) + Whole[r] >= Net THEN "FUNDED" ELSE "PUBLISHED",
                        TotalOf(Counted) + Amount[r], row.version + 1)
          /\ investment' = [investment EXCEPT ![r] = "PENDING"]
          /\ pc' = [pc EXCEPT ![r] = "done"]
          /\ \A s \in Requests \ {r} : seen'[s] = seen[s]
      BY <1>6, <2>2, <1>t DEF CreateInvestment, FillsUp, Answer, TypeOK, Rows
    <3>2. row.fundedAmount = TotalOf(Counted)
      BY <1>t, <3>1, CountedIsOutstanding DEF FundingInv, FundedAmountIsSum, NoneSettledEarly
    <3>3. investment[r] = "none"  BY <3>1 DEF FundingInv, NotYetCommitted
    <3>4. /\ row.version \in Nat /\ row.fundedAmount \in Nat
          /\ Needed[r] \in Nat /\ Net \in Nat
      BY <1>t, FundingAssumption, AmountType DEF TypeOK, Rows
    <3>5. /\ row'.status = IF row.fundedAmount + Whole[r] >= Net THEN "FUNDED" ELSE "PUBLISHED"
          /\ row'.fundedAmount = row.fundedAmount + Amount[r]
          /\ row'.version \in Nat /\ row'.version > row.version
          /\ row.fundedAmount + Needed[r] <= Net
      BY <3>1, <3>2, <3>4 DEF Row
    <3> QED  BY <1>t, <3>1, <3>3, <3>5, CommitStep
  <2> QED  BY <2>1, <2>2
<1>7. ASSUME NEW r \in Requests, ConfirmPayment(r) PROVE FundingInv'
  <2>1. Committed' = Committed  BY <1>7, <1>t DEF ConfirmPayment, Committed, TypeOK
  <2> QED  BY <1>7, <1>t, <2>1, RowUntouched DEF ConfirmPayment
<1>8. ASSUME Expire PROVE FundingInv'
  BY <1>8, <1>t, RowUntouched DEF Expire, Committed
<1>9. ASSUME MarkUnderfunded PROVE FundingInv'
  BY <1>9, <1>t, CloseStep DEF MarkUnderfunded, Committed, Row
<1>10. ASSUME SettleInvoice PROVE FundingInv'
  <2>1. Committed' = Committed  BY <1>10, <1>t DEF SettleInvoice, Committed, TypeOK
  <2> QED  BY <1>10, <1>t, <2>1, CloseStep DEF SettleInvoice, Row
<1>11. CASE UNCHANGED vars
  BY <1>11, <1>t, RowUntouched DEF vars, Committed
<1> QED
  BY <1>1, <1>2, <1>3, <1>4, <1>5, <1>6, <1>7, <1>8, <1>9, <1>10, <1>11
     DEF Next, Invest, Lifecycle

\* Over-funding is impossible for any requests, amounts and net amount: the
\* commitments that count never exceed net_amount, whichever of the two entry
\* points they came through.
THEOREM NoOverfunding == Spec => []NeverOverfunded
<1>1. FundingInv => NeverOverfunded  BY DEF FundingInv
<1> QED  BY <1>1, InitFunding, NextFunding, PTL DEF Spec

\* funded_amount is the sum of the commitments, although one entry point
\* increments it and the other recomputes it.
THEOREM FundedAmountAgrees == Spec => []FundedAmountIsSum
<1>1. FundingInv => FundedAmountIsSum  BY DEF FundingInv
<1> QED  BY <1>1, InitFunding, NextFunding, PTL DEF Spec

\* An invoice that is FUNDED or SETTLED is committed to the unit; one that is
\* still open has room left, unless an amount createInvestment rounded up took
\* the last unit.
THEOREM FundedWhenFull == Spec => []FundedWhenFilled
<1>1. FundingInv => FundedWhenFilled  BY DEF FundingInv
<1> QED  BY <1>1, InitFunding, NextFunding, PTL DEF Spec

-----------------------------------------------------------------------------
(* The refinement of the ledger                                            *)

\* A commitment of r that fits is the ledger's acceptance of r.
LEMMA AcceptStep ==
    ASSUME FundingInv, NEW r \in Requests,
           row.status = "PUBLISHED", investment[r] = "none",
           investment' = [investment EXCEPT ![r] = "PENDING"],
           \A s \in SameSlot[r] : investment[s] = "none",
           row.fundedAmount + Needed[r] <= Net,
           row'.status = IF row.fundedAmount + Whole[r] >= Net THEN "FUNDED" ELSE "PUBLISHED"
    PROVE  Ledger!Accept(r)
<1>1. r \in Requests \ Committed  BY DEF Committed
<1>2. Committed' = Committed \cup {r}  BY DEF Committed, FundingInv, TypeOK
<1>3. SameSlot[r] \cap Committed = {}  BY DEF Committed
<1>4. row.fundedAmount = TotalOf(Committed)  BY DEF FundingInv, FundedAmountIsSum
<1>6. row.fundedAmount \in Nat /\ Net \in Nat
  BY FundingAssumption DEF FundingInv, TypeOK, Rows
<1>8. row.fundedAmount + Whole[r] >= Net <=> r \in Exact /\ row.fundedAmount + Amount[r] = Net
  BY <1>6, AmountType
<1>5. /\ TotalOf(Committed) + Needed[r] <= Net
      /\ Phase' = IF r \in Exact /\ TotalOf(Committed) + Amount[r] = Net THEN "full" ELSE "open"
  BY <1>4, <1>8 DEF Phase
<1>7. Phase = "open"  BY DEF Phase
<1> QED  BY <1>1, <1>2, <1>3, <1>5, <1>7 DEF Ledger!Accept

\* A step that leaves the commitments and the status alone stutters in the ledger.
LEMMA LedgerStutter ==
    ASSUME row' = row, Committed' = Committed
    PROVE  UNCHANGED Ledger!ledgerVars
  BY DEF Ledger!ledgerVars, Phase

\* Leaving PUBLISHED and FUNDED without a commitment closes the ledger, once.
LEMMA CloseLedger ==
    ASSUME Committed' = Committed, row'.status \in {"FAILED", "SETTLED"}
    PROVE  [Ledger!LedgerNext]_(Ledger!ledgerVars)
<1>1. Phase' = "closed" /\ Phase \in {"open", "full", "closed"}  BY DEF Phase
<1>2. CASE Phase = "closed"  BY <1>1, <1>2 DEF Ledger!ledgerVars
<1>3. CASE Phase \in {"open", "full"}
  BY <1>1, <1>3 DEF Ledger!LedgerNext, Ledger!Close
<1> QED  BY <1>1, <1>2, <1>3

\* A published invoice is an open, empty ledger.
LEMMA InitLedger == Init => Ledger!LedgerInit
  BY DEF Init, Published, Row, Ledger!LedgerInit, Committed, Phase

\* Every step of the component is a step of the ledger or stutters.
LEMMA NextLedger == FundingInv /\ [Next]_vars => [Ledger!LedgerNext]_(Ledger!ledgerVars)
<1> SUFFICES ASSUME FundingInv, [Next]_vars
             PROVE  [Ledger!LedgerNext]_(Ledger!ledgerVars)
  OBVIOUS
<1>t. TypeOK  BY DEF FundingInv
<1>1. ASSUME NEW r \in Requests,
             Refuse(r) \/ ReadInvoice(r) \/ CheckDuplicate(r) \/ Conflict(r)
      PROVE  UNCHANGED Ledger!ledgerVars
  BY <1>1, LedgerStutter DEF Refuse, ReadInvoice, CheckDuplicate, Conflict, Committed
<1>2. ASSUME NEW r \in Requests, CommitFractional(r)
      PROVE  [Ledger!LedgerNext]_(Ledger!ledgerVars)
  <2>1. CASE SlotTaken(r)
    BY <1>2, <2>1, LedgerStutter DEF CommitFractional, FillsUp, Committed
  <2>2. CASE ~SlotTaken(r)
    <3>1. /\ r \in Fractional /\ pc[r] = "checked"
          /\ row.version = seen[r].version /\ row.status = "PUBLISHED"
          /\ row.fundedAmount + Amount[r] <= Net
      BY <1>2 DEF CommitFractional, FillsUp, UpdateMatches
    <3>2. seen[r].fundedAmount = row.fundedAmount
      BY <3>1 DEF FundingInv, SeenIsCurrent
    <3>6. Amount[r] = Whole[r] /\ Needed[r] = Amount[r]  BY <3>1, AmountType
    <3>3. /\ investment' = [investment EXCEPT ![r] = "PENDING"]
          /\ row'.status = IF row.fundedAmount + Whole[r] >= Net THEN "FUNDED" ELSE "PUBLISHED"
      BY <1>2, <2>2, <3>2, <3>6 DEF CommitFractional, FillsUp, Row
    <3>4. investment[r] = "none"  BY <3>1 DEF FundingInv, NotYetCommitted
    <3>5. Ledger!Accept(r)
      BY <2>2, <3>1, <3>3, <3>4, <3>6, AcceptStep DEF SlotTaken
    <3> QED  BY <3>5 DEF Ledger!LedgerNext
  <2> QED  BY <2>1, <2>2
<1>3. ASSUME NEW r \in Requests, CreateInvestment(r)
      PROVE  [Ledger!LedgerNext]_(Ledger!ledgerVars)
  <2>1. investment[r] = "none" /\ r \in Committing
    BY <1>3 DEF FundingInv, NotYetCommitted, CreateInvestment
  <2>2. CASE investment' = investment
    <3>1. row' = row
      BY <1>3, <1>t, <2>1, <2>2 DEF CreateInvestment, FillsUp, TypeOK
    <3> QED  BY <2>2, <3>1, LedgerStutter DEF Committed
  <2>3. CASE investment' # investment
    <3>1. /\ row.status = "PUBLISHED"
          /\ ~(TotalOf(Counted) + Needed[r] > Net)
          /\ row'.status = IF TotalOf(Counted) + Whole[r] >= Net THEN "FUNDED" ELSE "PUBLISHED"
          /\ investment' = [investment EXCEPT ![r] = "PENDING"]
      BY <1>3, <2>3, <1>t DEF CreateInvestment, FillsUp, TypeOK, Row
    <3>2. row.fundedAmount = TotalOf(Counted)
      BY <1>t, <3>1, CountedIsOutstanding DEF FundingInv, FundedAmountIsSum, NoneSettledEarly
    <3>3. row.fundedAmount \in Nat /\ Needed[r] \in Nat /\ Net \in Nat
      BY <1>t, FundingAssumption, AmountType DEF TypeOK, Rows
    <3>4. r \notin Fractional  BY <2>1, FundingAssumption
    <3>5. SameSlot[r] = {}  BY <3>4 DEF SameSlot
    <3>6. row.fundedAmount + Needed[r] <= Net
      BY <3>1, <3>2, <3>3
    <3>7. \A s \in SameSlot[r] : investment[s] = "none"
      BY <3>5
    <3>8. Ledger!Accept(r)
      BY <2>1, <3>1, <3>2, <3>6, <3>7, AcceptStep
    <3> QED  BY <3>8 DEF Ledger!LedgerNext
  <2> QED  BY <2>2, <2>3
<1>4. ASSUME NEW r \in Requests, ConfirmPayment(r) PROVE UNCHANGED Ledger!ledgerVars
  <2>1. Committed' = Committed  BY <1>4, <1>t DEF ConfirmPayment, Committed, TypeOK
  <2> QED  BY <1>4, <2>1, LedgerStutter DEF ConfirmPayment
<1>5. ASSUME Expire \/ UNCHANGED vars PROVE UNCHANGED Ledger!ledgerVars
  BY <1>5, LedgerStutter DEF Expire, vars, Committed
<1>6. ASSUME MarkUnderfunded PROVE [Ledger!LedgerNext]_(Ledger!ledgerVars)
  BY <1>6, CloseLedger DEF MarkUnderfunded, Committed, Row
<1>7. ASSUME SettleInvoice PROVE [Ledger!LedgerNext]_(Ledger!ledgerVars)
  <2>1. Committed' = Committed  BY <1>7, <1>t DEF SettleInvoice, Committed, TypeOK
  <2> QED  BY <1>7, <2>1, CloseLedger DEF SettleInvoice, Row
<1> QED
  BY <1>1, <1>2, <1>3, <1>4, <1>5, <1>6, <1>7 DEF Next, Invest, Lifecycle

\* Every behaviour of the row, the two entry points, their retries and the
\* closing writers is a behaviour of the ledger: what investors see is one
\* atomic acceptance per commitment, in some order, within the net amount.
THEOREM RefinesLedger == Spec => ImplementsLedger
<1>1. Init /\ [][Next]_vars => []FundingInv
  BY InitFunding, NextFunding, PTL
<1> QED
  BY <1>1, InitLedger, NextLedger, PTL DEF Spec, ImplementsLedger, Ledger!LedgerSpec

-----------------------------------------------------------------------------
(* What follows from the ledger                                            *)

\* Commitments are only added while the invoice is PUBLISHED, one at a time, and
\* none is withdrawn: the steps of the ledger do nothing else.
THEOREM CommittedWhileOpen == Spec => CommitOnlyWhileOpen
<1>1. FundingInv /\ [Next]_vars =>
         [Committed' # Committed =>
             row.status = "PUBLISHED" /\ Committed \subseteq Committed']_vars
  <2> SUFFICES ASSUME FundingInv, [Next]_vars, Committed' # Committed
               PROVE  row.status = "PUBLISHED" /\ Committed \subseteq Committed'
    OBVIOUS
  <2>1. PICK r \in Requests : Ledger!Accept(r)
    BY NextLedger DEF Ledger!LedgerNext, Ledger!Close, Ledger!ledgerVars
  <2>2. Phase = "open" /\ Committed' = Committed \cup {r}
    BY <2>1 DEF Ledger!Accept
  <2> QED  BY <2>2 DEF Phase
<1>2. Init /\ [][Next]_vars => []FundingInv
  BY InitFunding, NextFunding, PTL
<1> QED  BY <1>1, <1>2, PTL DEF Spec, CommitOnlyWhileOpen

\* Two requests of one wallet and funding block exclude each other.
LEMMA SameSlotSymmetric ==
    ASSUME NEW r \in Requests, NEW s \in SameSlot[r]
    PROVE  s \in Requests /\ s # r /\ r \in SameSlot[s]
  BY DEF SameSlot, Requests

\* One commitment per wallet, invoice and funding block, although the duplicate
\* lookup of both requests may come before either insert.
THEOREM OnePerSlot == Spec => []OneCommitmentPerSlot
<1>1. Init => OneCommitmentPerSlot
  BY DEF Init, OneCommitmentPerSlot, Committed
<1>2. FundingInv /\ OneCommitmentPerSlot /\ [Next]_vars => OneCommitmentPerSlot'
  <2> SUFFICES ASSUME FundingInv, OneCommitmentPerSlot, [Next]_vars,
                      NEW r \in Fractional, r \in Committed',
                      NEW s \in SameSlot[r], s \in Committed'
               PROVE  FALSE
    BY DEF OneCommitmentPerSlot
  <2>1. CASE Committed' = Committed
    BY <2>1 DEF OneCommitmentPerSlot
  <2>2. ASSUME NEW a \in Requests, Ledger!Accept(a)  PROVE FALSE
    <3>1. Committed' = Committed \cup {a} /\ SameSlot[a] \cap Committed = {}
      BY <2>2 DEF Ledger!Accept
    <3>2. r \in Requests  BY DEF Requests
    <3>3. s # r /\ r \in SameSlot[s]  BY <3>2, SameSlotSymmetric
    <3>4. ~(r \in Committed /\ s \in Committed)  BY DEF OneCommitmentPerSlot
    <3> QED  BY <3>1, <3>3, <3>4
  <2> QED
    BY <2>1, <2>2, NextLedger DEF Ledger!LedgerNext, Ledger!Close, Ledger!ledgerVars
<1>3. Init /\ [][Next]_vars => []FundingInv
  BY InitFunding, NextFunding, PTL
<1> QED  BY <1>1, <1>2, <1>3, PTL DEF Spec

-----------------------------------------------------------------------------
(* Conflicts                                                               *)

\* The row is not, or not any more, the one r has read.
Behind(r) == row.version # seen[r].version \/ row.status # "PUBLISHED"

\* What makes the promise about conflicts inductive: each failed attempt of a
\* request that is being served has its own commit of somebody else, and so has
\* the one in progress once the row it read is out of date; what was read has
\* room for the request.
ContentionInv ==
    /\ \A r \in Requests : pc[r] # "done" => outcome[r] = "none"
    /\ \A r \in Fractional :
          /\ pc[r] # "done" => Commits(r) >= attempt[r]
          /\ pc[r] \in {"read", "checked"} =>
                /\ seen[r].fundedAmount + Amount[r] <= Net
                /\ Behind(r) => Commits(r) >= attempt[r] + 1
          /\ outcome[r] = "conflict" => Commits(r) >= MaxAttempts

\* Those whose commitment counts as a conflict for r.
Winners(r) == {s \in Requests \ {r} : outcome[s] = "committed"}

\* Commits(r) is a natural number.
LEMMA CommitsType ==
    ASSUME NEW r \in Requests
    PROVE  IsFiniteSet(Winners(r)) /\ Commits(r) \in Nat
<1>1. IsFiniteSet(Winners(r))
  BY RequestsFinite, FS_Subset DEF Winners
<1>2. Cardinality(Winners(r)) \in Nat
  BY <1>1, FS_CardinalityType
<1> QED  BY <1>1, <1>2 DEF Commits, Winners

\* Without a new commitment or a failed invoice the count stands still.
LEMMA CommitsStand ==
    ASSUME NEW r \in Requests,
           \A s \in Requests : outcome'[s] = "committed" <=> outcome[s] = "committed",
           row'.status = "FAILED" <=> row.status = "FAILED"
    PROVE  Commits(r)' = Commits(r)
<1>1. Winners(r)' = Winners(r)  BY DEF Winners
<1> QED  BY <1>1 DEF Commits, Winners

\* A commitment of w counts once for everybody else.
LEMMA CommitsGrow ==
    ASSUME NEW w \in Requests, NEW r \in Requests \ {w},
           outcome[w] # "committed",
           outcome' = [outcome EXCEPT ![w] = "committed"], outcome \in [Requests -> Outcomes],
           row'.status = "FAILED" <=> row.status = "FAILED"
    PROVE  Commits(r)' = Commits(r) + 1
<1>1. Winners(r)' = Winners(r) \cup {w} /\ w \notin Winners(r)  BY DEF Winners
<1>2. IsFiniteSet(Winners(r))  BY CommitsType
<1>3. Cardinality(Winners(r) \cup {w}) = Cardinality(Winners(r)) + 1
  BY <1>1, <1>2, FS_AddElement
<1>4. Cardinality(Winners(r)) \in Nat  BY <1>2, FS_CardinalityType
<1>5. Cardinality(Winners(r)') = Cardinality(Winners(r)) + 1  BY <1>1, <1>3
<1> QED  BY <1>4, <1>5 DEF Commits, Winners

\* It holds initially.
LEMMA InitContention == Init => ContentionInv
<1> SUFFICES ASSUME Init PROVE ContentionInv
  OBVIOUS
<1>1. \A r \in Fractional : r \in Requests /\ pc[r] = "ready" /\ attempt[r] = 0 /\ outcome[r] = "none"
  BY DEF Init, Requests
<1>2. \A r \in Requests : outcome[r] = "none"  BY DEF Init
<1>3. \A r \in Fractional : Commits(r) \in Nat  BY <1>1, CommitsType
<1> QED  BY <1>1, <1>2, <1>3 DEF ContentionInv

\* A step of one request that commits nothing.
LEMMA ServedContention ==
    ASSUME FundingInv, TypeOK', ContentionInv, NEW r \in Requests,
           Refuse(r) \/ ReadInvoice(r) \/ CheckDuplicate(r)
    PROVE  ContentionInv'
<1> USE DEF Refuse, ReadInvoice, CheckDuplicate, Answer
<1>1. TypeOK /\ row' = row /\ attempt' = attempt /\ pc[r] # "done" /\ outcome[r] = "none"
  BY DEF FundingInv, ContentionInv
<1>2. \A s \in Requests : Commits(s)' = Commits(s)
  <2>1. \A s \in Requests : outcome'[s] = "committed" <=> outcome[s] = "committed"
    BY <1>1 DEF TypeOK
  <2> QED  BY <1>1, <2>1, CommitsStand
<1>3. \A s \in Requests : pc'[s] # "done" => outcome'[s] = "none"
  BY <1>1 DEF TypeOK, ContentionInv
<1>4. ASSUME NEW s \in Fractional
      PROVE  /\ pc'[s] # "done" => Commits(s)' >= attempt'[s]
             /\ pc'[s] \in {"read", "checked"} =>
                   /\ seen'[s].fundedAmount + Amount[s] <= Net
                   /\ Behind(s)' => Commits(s)' >= attempt'[s] + 1
             /\ outcome'[s] = "conflict" => Commits(s)' >= MaxAttempts
  <2>1. s \in Requests /\ Commits(s)' = Commits(s)
    BY <1>2 DEF Requests
  <2>2. CASE s # r
    <3>1. pc'[s] = pc[s] /\ seen'[s] = seen[s] /\ outcome'[s] = outcome[s]
      BY <1>1, <2>1, <2>2 DEF TypeOK
    <3> QED  BY <1>1, <2>1, <3>1 DEF ContentionInv, Behind
  <2>3. CASE s = r
    <3>1. outcome'[s] # "conflict"
      BY <1>1, <2>1, <2>3 DEF TypeOK
    <3>2. pc'[s] # "done" => Commits(s)' >= attempt'[s]
      BY <1>1, <2>1, <2>3 DEF ContentionInv
    <3>3. ASSUME pc'[s] \in {"read", "checked"}
          PROVE  /\ seen'[s].fundedAmount + Amount[s] <= Net
                 /\ Behind(s)' => Commits(s)' >= attempt'[s] + 1
      <4>1. CASE ReadInvoice(r)
        <5>1. /\ row.status = "PUBLISHED" /\ ~(Amount[r] > Net - row.fundedAmount)
              /\ seen'[r] = row
          BY <1>1, <2>3, <3>3, <4>1 DEF TypeOK
        <5>2. Amount[r] \in Nat /\ Net \in Nat /\ row.fundedAmount \in Nat
          BY <1>1, FundingAssumption, AmountType DEF TypeOK, Rows
        <5> QED  BY <1>1, <2>3, <5>1, <5>2 DEF Behind
      <4>2. CASE ~ReadInvoice(r)
        <5>1. pc[s] \in {"read", "checked"} /\ seen'[s] = seen[s]
          BY <1>1, <2>1, <2>3, <3>3, <4>2 DEF TypeOK
        <5> QED  BY <1>1, <2>1, <5>1 DEF ContentionInv, Behind
      <4> QED  BY <4>1, <4>2
    <3> QED  BY <3>1, <3>2, <3>3
  <2> QED  BY <2>2, <2>3
<1> QED  BY <1>3, <1>4 DEF ContentionInv

\* A conflict: the row is behind, so somebody else has committed since the read.
LEMMA ConflictContention ==
    ASSUME FundingInv, TypeOK', ContentionInv, NEW r \in Requests, Conflict(r)
    PROVE  ContentionInv'
<1> USE DEF Conflict, Answer
<1>1. TypeOK /\ row' = row /\ r \in Fractional /\ pc[r] = "checked" /\ outcome[r] = "none"
  BY DEF FundingInv, ContentionInv
<1>2. \A s \in Requests : Commits(s)' = Commits(s)
  <2>1. \A s \in Requests : outcome'[s] = "committed" <=> outcome[s] = "committed"
    BY <1>1 DEF TypeOK
  <2> QED  BY <1>1, <2>1, CommitsStand
<1>3. \A s \in Requests : pc'[s] # "done" => outcome'[s] = "none"
  BY <1>1 DEF TypeOK, ContentionInv
<1>4. Behind(r)
  <2> SUFFICES ASSUME row.version = seen[r].version, row.status = "PUBLISHED" PROVE FALSE
    BY DEF Behind
  <2>1. row.fundedAmount = seen[r].fundedAmount
    BY <1>1 DEF FundingInv, SeenIsCurrent
  <2>2. row.fundedAmount + Amount[r] <= Net
    BY <1>1, <2>1 DEF ContentionInv
  <2> QED  BY <2>2 DEF UpdateMatches
<1>5. Commits(r) >= attempt[r] + 1
  BY <1>1, <1>4 DEF ContentionInv
<1>6. attempt[r] \in Nat /\ MaxAttempts \in Nat /\ Commits(r) \in Nat
  BY <1>1, FundingAssumption, CommitsType DEF TypeOK
<1>7. ASSUME NEW s \in Fractional
      PROVE  /\ pc'[s] # "done" => Commits(s)' >= attempt'[s]
             /\ pc'[s] \in {"read", "checked"} =>
                   /\ seen'[s].fundedAmount + Amount[s] <= Net
                   /\ Behind(s)' => Commits(s)' >= attempt'[s] + 1
             /\ outcome'[s] = "conflict" => Commits(s)' >= MaxAttempts
  <2>1. s \in Requests /\ Commits(s)' = Commits(s)
    BY <1>2 DEF Requests
  <2>2. CASE s # r
    <3>1. /\ pc'[s] = pc[s] /\ seen'[s] = seen[s] /\ outcome'[s] = outcome[s]
          /\ attempt'[s] = attempt[s]
      BY <1>1, <2>1, <2>2 DEF TypeOK
    <3> QED  BY <1>1, <2>1, <3>1 DEF ContentionInv, Behind
  <2>3. CASE s = r
    <3>1. attempt'[s] = attempt[s] + 1 /\ pc'[s] \in {"ready", "done"}
      BY <1>1, <2>1, <2>3 DEF TypeOK
    <3>2. outcome'[s] = "conflict" => attempt[s] + 1 >= MaxAttempts
      BY <1>1, <2>1, <2>3 DEF TypeOK
    <3> QED  BY <1>5, <1>6, <2>1, <2>3, <3>1, <3>2
  <2> QED  BY <2>2, <2>3
<1> QED  BY <1>3, <1>7 DEF ContentionInv

\* A commitment of r: for everybody else it is one more, and it is the only one
\* that may leave them behind.
LEMMA CommitContention ==
    ASSUME FundingInv, TypeOK', ContentionInv, NEW r \in Requests, pc[r] # "done",
           row.status = "PUBLISHED", row'.status # "FAILED",
           attempt' = attempt,
           pc' = [pc EXCEPT ![r] = "done"],
           outcome' = [outcome EXCEPT ![r] = "committed"],
           \A s \in Requests \ {r} : seen'[s] = seen[s]
    PROVE  ContentionInv'
<1>1. TypeOK /\ outcome[r] = "none"
  BY DEF FundingInv, ContentionInv
<1>2. \A s \in Requests : pc'[s] # "done" => outcome'[s] = "none"
  BY <1>1 DEF TypeOK, ContentionInv
<1>3. ASSUME NEW s \in Fractional
      PROVE  /\ pc'[s] # "done" => Commits(s)' >= attempt'[s]
             /\ pc'[s] \in {"read", "checked"} =>
                   /\ seen'[s].fundedAmount + Amount[s] <= Net
                   /\ Behind(s)' => Commits(s)' >= attempt'[s] + 1
             /\ outcome'[s] = "conflict" => Commits(s)' >= MaxAttempts
  <2>1. s \in Requests  BY DEF Requests
  <2>2. CASE s = r
    BY <1>1, <2>1, <2>2 DEF TypeOK
  <2>3. CASE s # r
    <3>1. pc'[s] = pc[s] /\ seen'[s] = seen[s] /\ outcome'[s] = outcome[s]
      BY <1>1, <2>1, <2>3 DEF TypeOK
    <3>2. Commits(s)' = Commits(s) + 1
      BY <1>1, <2>1, <2>3, CommitsGrow DEF TypeOK
    <3>3. Commits(s) \in Nat /\ attempt[s] \in Nat /\ MaxAttempts \in Nat
      BY <1>1, <2>1, CommitsType, FundingAssumption DEF TypeOK
    <3>4. /\ pc[s] # "done" => Commits(s) >= attempt[s]
          /\ pc[s] \in {"read", "checked"} => seen[s].fundedAmount + Amount[s] <= Net
          /\ outcome[s] = "conflict" => Commits(s) >= MaxAttempts
      BY DEF ContentionInv
    <3> QED  BY <3>1, <3>2, <3>3, <3>4
  <2> QED  BY <2>2, <2>3
<1> QED  BY <1>2, <1>3 DEF ContentionInv

\* An invoice that is marked FAILED counts once for everybody.
LEMMA FailedContention ==
    ASSUME FundingInv, ContentionInv, MarkUnderfunded
    PROVE  ContentionInv'
<1>1. TypeOK /\ row.status = "PUBLISHED" /\ row'.status = "FAILED"
      /\ pc' = pc /\ seen' = seen /\ attempt' = attempt /\ outcome' = outcome
  BY DEF FundingInv, MarkUnderfunded, Row
<1>2. ASSUME NEW s \in Fractional
      PROVE  /\ pc'[s] # "done" => Commits(s)' >= attempt'[s]
             /\ pc'[s] \in {"read", "checked"} =>
                   /\ seen'[s].fundedAmount + Amount[s] <= Net
                   /\ Behind(s)' => Commits(s)' >= attempt'[s] + 1
             /\ outcome'[s] = "conflict" => Commits(s)' >= MaxAttempts
  <2>1. s \in Requests  BY DEF Requests
  <2>2. Commits(s) \in Nat /\ attempt[s] \in Nat /\ MaxAttempts \in Nat
    BY <1>1, <2>1, CommitsType, FundingAssumption DEF TypeOK
  <2>3. Commits(s)' = Commits(s) + 1
    <3>1. Winners(s)' = Winners(s) /\ Cardinality(Winners(s)) \in Nat
      BY <1>1, <2>1, CommitsType, FS_CardinalityType DEF Winners
    <3> QED  BY <1>1, <3>1 DEF Commits, Winners
  <2> QED  BY <1>1, <2>2, <2>3 DEF ContentionInv
<1> QED  BY <1>1, <1>2 DEF ContentionInv

\* Steps that leave the requests alone, and the row's status unless it was
\* FUNDED already.
LEMMA AsideContention ==
    ASSUME FundingInv, ContentionInv,
           pc' = pc, seen' = seen, attempt' = attempt, outcome' = outcome,
           \/ row' = row
           \/ row.status = "FUNDED" /\ row'.status = "SETTLED"
    PROVE  ContentionInv'
<1>1. \A s \in Requests : Commits(s)' = Commits(s)
  BY CommitsStand
<1>2. \A s \in Fractional : Behind(s)' => Behind(s)
  BY DEF Behind
<1> QED  BY <1>1, <1>2 DEF ContentionInv, Requests

\* Every step preserves it.
LEMMA NextContention == FundingInv /\ ContentionInv /\ [Next]_vars => ContentionInv'
<1> SUFFICES ASSUME FundingInv, ContentionInv, [Next]_vars PROVE ContentionInv'
  OBVIOUS
<1>t. TypeOK /\ TypeOK'
  BY NextType DEF FundingInv
<1>1. ASSUME NEW r \in Requests, Refuse(r) \/ ReadInvoice(r) \/ CheckDuplicate(r)
      PROVE  ContentionInv'
  BY <1>1, <1>t, ServedContention
<1>2. ASSUME NEW r \in Requests, CommitFractional(r) PROVE ContentionInv'
  <2>1. CASE SlotTaken(r)
    <3>1. /\ pc[r] = "checked" /\ row' = row /\ attempt' = attempt
          /\ pc' = [pc EXCEPT ![r] = "done"]
          /\ outcome' = [outcome EXCEPT ![r] = "duplicate"]
          /\ \A s \in Requests \ {r} : seen'[s] = seen[s]
      BY <1>2, <1>t, <2>1 DEF CommitFractional, Answer, TypeOK
    <3>2. outcome[r] = "none"  BY <3>1 DEF ContentionInv
    <3>3. \A s \in Requests : outcome'[s] = "committed" <=> outcome[s] = "committed"
      BY <1>t, <3>1, <3>2 DEF TypeOK
    <3>4. \A s \in Requests : Commits(s)' = Commits(s)
      BY <3>1, <3>3, CommitsStand
    <3>5. \A s \in Requests :
             \/ s # r /\ pc'[s] = pc[s] /\ outcome'[s] = outcome[s] /\ seen'[s] = seen[s]
             \/ s = r /\ pc'[s] = "done" /\ outcome'[s] = "duplicate"
      BY <1>t, <3>1 DEF TypeOK
    <3> QED  BY <3>1, <3>4, <3>5 DEF ContentionInv, Behind, Requests
  <2>2. CASE ~SlotTaken(r)
    <3>1. /\ pc[r] # "done" /\ row.status = "PUBLISHED" /\ row'.status # "FAILED"
          /\ attempt' = attempt
          /\ pc' = [pc EXCEPT ![r] = "done"]
          /\ outcome' = [outcome EXCEPT ![r] = "committed"]
          /\ \A s \in Requests \ {r} : seen'[s] = seen[s]
      BY <1>2, <1>t, <2>2 DEF CommitFractional, UpdateMatches, Answer, TypeOK, Row
    <3> QED  BY <1>t, <3>1, CommitContention
  <2> QED  BY <2>1, <2>2
<1>3. ASSUME NEW r \in Requests, Conflict(r) PROVE ContentionInv'
  BY <1>3, <1>t, ConflictContention
<1>4. ASSUME NEW r \in Requests, CreateInvestment(r) PROVE ContentionInv'
  <2> DEFINE open == Answer(r, "committed") /\ row.status = "PUBLISHED"
                     /\ row'.status \in {"FUNDED", "PUBLISHED"}
             refused == row' = row /\ (Answer(r, "no_capacity") \/ Answer(r, "not_open"))
  <2>0. pc[r] = "ready" /\ attempt' = attempt /\ (open \/ refused)
    BY <1>4 DEF CreateInvestment, Row
  <2>1. PICK o \in {"no_capacity", "not_open", "committed"} :
           /\ Answer(r, o)
           /\ IF o = "committed"
              THEN row.status = "PUBLISHED" /\ row'.status \in {"FUNDED", "PUBLISHED"}
              ELSE row' = row
    BY <2>0
  <2>2. /\ pc[r] = "ready" /\ attempt' = attempt
        /\ pc' = [pc EXCEPT ![r] = "done"]
        /\ outcome' = [outcome EXCEPT ![r] = o]
        /\ \A s \in Requests \ {r} : seen'[s] = seen[s]
    BY <2>0, <2>1, <1>t DEF Answer, TypeOK
  <2>3. CASE o = "committed"
    BY <1>t, <2>1, <2>2, <2>3, CommitContention
  <2>4. CASE o # "committed"
    <3>1. outcome[r] = "none"  BY <2>2 DEF ContentionInv
    <3>2. \A s \in Requests : outcome'[s] = "committed" <=> outcome[s] = "committed"
      BY <1>t, <2>2, <2>4, <3>1 DEF TypeOK
    <3>3. \A s \in Requests : Commits(s)' = Commits(s)
      BY <2>1, <2>4, <3>2, CommitsStand
    <3>4. \A s \in Requests :
             \/ s # r /\ pc'[s] = pc[s] /\ outcome'[s] = outcome[s] /\ seen'[s] = seen[s]
             \/ s = r /\ pc'[s] = "done" /\ outcome'[s] \notin {"none", "conflict"}
      BY <1>t, <2>1, <2>2 DEF TypeOK
    <3> QED  BY <2>1, <2>2, <2>4, <3>3, <3>4 DEF ContentionInv, Behind, Requests
  <2> QED  BY <2>3, <2>4
<1>5. ASSUME NEW r \in Requests, ConfirmPayment(r) PROVE ContentionInv'
  BY <1>5, AsideContention DEF ConfirmPayment
<1>6. CASE Expire \/ UNCHANGED vars
  BY <1>6, AsideContention DEF Expire, vars
<1>7. CASE MarkUnderfunded
  BY <1>7, FailedContention
<1>8. CASE SettleInvoice
  BY <1>8, AsideContention DEF SettleInvoice, Row
<1> QED
  BY <1>1, <1>2, <1>3, <1>4, <1>5, <1>6, <1>7, <1>8 DEF Next, Invest, Lifecycle

\* CONCURRENT_INVESTMENT_CONFLICT is only answered under contention: a request
\* that gave up lost each of its attempts to a different commitment of somebody
\* else, or one of them to the maturity job (the retry loop of investInInvoice).
THEOREM ConflictsHaveCause == Spec => []ConflictOnlyUnderContention
<1>1. FundingInv /\ ContentionInv => ConflictOnlyUnderContention
  BY DEF ContentionInv, ConflictOnlyUnderContention
<1> QED
  BY <1>1, InitFunding, NextFunding, InitContention, NextContention, PTL DEF Spec
-----------------------------------------------------------------------------
(* With the handlers that save an entity they loaded earlier               *)

\* A save that writes stale columns back still leaves a well typed row, so the
\* types survive the document upload and the event indexer ...
LEMMA NextWithEditsType == TypeOK /\ [NextWithEdits]_vars => TypeOK'
<1> SUFFICES ASSUME TypeOK, [NextWithEdits]_vars PROVE TypeOK'
  OBVIOUS
<1>1. CASE [Next]_vars
  BY <1>1, NextType
<1>2. ASSUME NEW w \in Editors,
             NEW status \in {"PUBLISHED", "FUNDED", "FAILED", "SETTLED"},
             Load(w, status)
      PROVE  TypeOK'
  <2>1. [row EXCEPT !.status = status] \in Rows
    BY DEF TypeOK, Rows
  <2>2. seen' \in [Requests \cup Editors -> Rows]
    BY <1>2, <2>1 DEF Load, TypeOK
  <2>3. pc' \in [Requests \cup Editors -> {"ready", "read", "checked", "done"}]
    BY <1>2 DEF Load, TypeOK
  <2> QED  BY <1>2, <2>2, <2>3 DEF Load, TypeOK
<1>3. ASSUME NEW w \in Editors, SaveEntity(w) PROVE TypeOK'
  <2>1. row \in Rows /\ seen[w] \in Rows
    BY DEF TypeOK
  <2>2. /\ seen[w].status \in {"PUBLISHED", "FUNDED", "FAILED", "SETTLED"}
        /\ seen[w].fundedAmount \in Nat
        /\ (IF seen[w].version = row.version THEN row.version + 1 ELSE seen[w].version) \in Nat
    BY <2>1 DEF Rows
  <2>3. Saved(seen[w]) \in Rows
    BY <2>2, RowType DEF Saved
  <2>4. pc' \in [Requests \cup Editors -> {"ready", "read", "checked", "done"}]
    BY <1>3 DEF SaveEntity, TypeOK
  <2> QED  BY <1>3, <2>3, <2>4 DEF SaveEntity, TypeOK
<1>4. row.status \in {"PUBLISHED", "FUNDED", "FAILED", "SETTLED"}
  BY DEF TypeOK, Rows
<1>5. ASSUME NEW w \in Editors, LoadForUpload(w) PROVE TypeOK'
  BY <1>2, <1>4, <1>5 DEF LoadForUpload
<1>6. ASSUME NEW w \in Editors, LoadForEvent(w) PROVE TypeOK'
  BY <1>2, <1>6 DEF LoadForEvent, EventStatus
<1> QED
  BY <1>1, <1>3, <1>5, <1>6 DEF NextWithEdits, Edit, SaveUploaded, SaveEvent

\* ... in every state of the system with those handlers.
THEOREM TypeCorrectWithEdits == SpecWithEdits => []TypeOK
<1> QED  BY InitType, NextWithEditsType, PTL DEF SpecWithEdits

\* Only createInvestment itself adds an investment of a request it serves.
LEMMA OnlyCreateInvestmentAdds ==
    ASSUME TypeOK, [NextWithEdits]_vars,
           NEW r \in Committing, r \in Committed', r \notin Committed
    PROVE  CreateInvestment(r) /\ investment' # investment
<1> USE DEF Committed, TypeOK
<1>1. investment' # investment /\ r \in Requests
  BY DEF Requests
<1>2. ASSUME NEW q \in Requests, CommitFractional(q) PROVE FALSE
  <2>1. q # r  BY <1>2, FundingAssumption DEF CommitFractional
  <2>2. investment'[r] = investment[r]
    BY <1>1, <1>2, <2>1 DEF CommitFractional
  <2> QED  BY <1>1, <2>2
<1>3. ASSUME NEW q \in Requests, CreateInvestment(q), q # r PROVE FALSE
  <2>1. investment'[r] = investment[r]
    BY <1>1, <1>3 DEF CreateInvestment
  <2> QED  BY <1>1, <2>1
<1>4. ASSUME NEW q \in Requests, ConfirmPayment(q) PROVE FALSE
  BY <1>1, <1>4 DEF ConfirmPayment
<1>5. ASSUME SettleInvoice PROVE FALSE
  BY <1>1, <1>5 DEF SettleInvoice
<1>6. ASSUME NEW q \in Requests,
             Refuse(q) \/ ReadInvoice(q) \/ CheckDuplicate(q) \/ Conflict(q)
      PROVE  FALSE
  BY <1>1, <1>6 DEF Refuse, ReadInvoice, CheckDuplicate, Conflict
<1>7. ASSUME Expire \/ MarkUnderfunded \/ Edit \/ UNCHANGED vars PROVE FALSE
  BY <1>1, <1>7 DEF Expire, MarkUnderfunded, Edit, LoadForUpload, SaveUploaded,
                    LoadForEvent, SaveEvent, Load, SaveEntity, vars
<1> QED
  BY <1>1, <1>2, <1>3, <1>4, <1>5, <1>6, <1>7
     DEF NextWithEdits, Next, Invest, Lifecycle

\* Whatever a stale save did to funded_amount or to the status, the investments
\* createInvestment adds to stay within the net amount: it sums the rows under
\* the lock of the invoice.
THEOREM RecomputationSafe == SpecWithEdits => RecomputedSumWithinNet
<1>1. TypeOK /\ [NextWithEdits]_vars =>
         [\A r \in Committing :
             (r \in Committed' /\ r \notin Committed) => TotalOf(Outstanding') <= Net]_vars
  <2> SUFFICES ASSUME TypeOK, [NextWithEdits]_vars,
                      NEW r \in Committing, r \in Committed', r \notin Committed
               PROVE  TotalOf(Outstanding') <= Net
    OBVIOUS
  <2>1. CreateInvestment(r) /\ investment' # investment
    BY OnlyCreateInvestmentAdds
  <2>2. Counted = Outstanding  BY CountedIsOutstanding
  <2>3. /\ investment' = [investment EXCEPT ![r] = "PENDING"]
        /\ ~(TotalOf(Counted) + Needed[r] > Net)
    BY <2>1 DEF CreateInvestment
  <2>4. r \in Requests \ Outstanding /\ Outstanding \in SUBSET Requests
    BY DEF Requests, Outstanding, Committed
  <2>5. Outstanding' = Outstanding \cup {r}
    BY <2>3, <2>4 DEF Outstanding, Committed, TypeOK
  <2>6. TotalOf(Outstanding \cup {r}) = TotalOf(Outstanding) + Amount[r]
    BY <2>4, TotalOfAdd
  <2>7. /\ TotalOf(Outstanding) \in Nat /\ Net \in Nat
        /\ Amount[r] \in Nat /\ Needed[r] \in Nat /\ Amount[r] <= Needed[r]
    BY <2>4, UnitsOfFinite, FundingAssumption, AmountType
  <2>8. TotalOf(Outstanding) + Amount[r] <= Net
    BY <2>2, <2>3, <2>7
  <2> QED  BY <2>5, <2>6, <2>8
<1>2. Init /\ [][NextWithEdits]_vars => []TypeOK
  BY InitType, NextWithEditsType, PTL
<1> QED  BY <1>1, <1>2, PTL DEF SpecWithEdits, RecomputedSumWithinNet

=============================================================================
