------------------------- MODULE InvestmentFunding -------------------------
(***************************************************************************)
(* The funding of one invoice: services/investment.service.ts, the other   *)
(* writers of the invoice row that hold its lock (the maturity job and the *)
(* settlement), and the two handlers that save an invoice entity they      *)
(* loaded earlier without one (the document upload, the event indexer).    *)
(*                                                                         *)
(* Postgres runs at READ COMMITTED.  A transaction that holds the row lock *)
(* of the invoice is one action: what it writes is invisible to everyone   *)
(* else until it commits, and who needs the lock waits for that.  What a   *)
(* handler reads before it holds the lock is an action of its own.         *)
(*                                                                         *)
(* TypeORM's save(entity) writes every column in which the entity differs  *)
(* from the row now stored, so an entity loaded before somebody else's     *)
(* commit writes the old values back (see Saved).                          *)
(***************************************************************************)
EXTENDS Integers, FiniteSets

CONSTANTS
    Fractional,    \* requests of POST /invoices/:id/invest (investInInvoice)
    Committing,    \* requests served by createInvestment
    Uploads,       \* uploadDocument calls
    Events,        \* escrow events the indexer applies to the invoice
    Whole,         \* Whole[r]: the whole units of 0.0001 request r asks for ...
    Rest,          \* Rest[r]: ... and the fraction of a unit it asks for beyond them:
                   \* "none", or "below" half a unit, or "above" (half and more)
    Slot,          \* Slot[r]: the (wallet, funding block) of a fractional request
    Net,           \* net_amount, in units of 0.0001
    MaxAttempts    \* MAX_ATTEMPTS

Requests == Fractional \cup Committing
Editors == Uploads \cup Events

\* toFixed(4) of what is asked for.  Only investInInvoice refuses more than four
\* decimals: createInvestment stores a rounded amount, which may be zero.
Amount == [r \in Requests |-> Whole[r] + (IF Rest[r] = "above" THEN 1 ELSE 0)]

\* The whole units that must be left: an amount that goes beyond Whole[r] fits
\* only where one unit more would.
Needed == [r \in Requests |-> Whole[r] + (IF Rest[r] = "none" THEN 0 ELSE 1)]

\* The requests that are stored as they were asked for.
Exact == {r \in Requests : Rest[r] = "none"}

SameSlot == [r \in Requests |->
               IF r \in Fractional THEN {s \in Fractional \ {r} : Slot[s] = Slot[r]}
               ELSE {}]

ASSUME FundingAssumption ==
    /\ IsFiniteSet(Fractional) /\ IsFiniteSet(Committing)
    /\ Fractional \cap Committing = {}
    /\ Requests \cap Editors = {} /\ Uploads \cap Events = {}
    /\ Whole \in [Requests -> Nat] /\ Rest \in [Requests -> {"none", "below", "above"}]
    /\ \A r \in Requests : Rest[r] = "none" => Whole[r] > 0
    /\ \A r \in Fractional : Rest[r] = "none"
    /\ Slot \in [Fractional -> Fractional]
    /\ Net \in Nat \ {0}
    /\ MaxAttempts \in Nat \ {0}

VARIABLES
    row,        \* the invoice row: status, fundedAmount, version
    overdue,    \* the due date or the funding deadline has passed
    investment, \* investment[r]: the row request r inserted, or "none"
    pc,         \* where request or editor p is
    seen,       \* the entity p holds in memory
    attempt,    \* attempts of request r that ended in a FundingConflictError
    outcome     \* what request r answered

vars == <<row, overdue, investment, pc, seen, attempt, outcome>>

Rows == [status : {"PUBLISHED", "FUNDED", "FAILED", "SETTLED"},
         fundedAmount : Nat, version : Nat]

Outcomes == {"none", "committed", "refused", "not_open", "no_capacity",
             "duplicate", "conflict"}

TypeOK ==
    /\ row \in Rows
    /\ overdue \in BOOLEAN
    /\ investment \in [Requests -> {"none", "PENDING", "CONFIRMED", "SETTLED"}]
    /\ pc \in [Requests \cup Editors -> {"ready", "read", "checked", "done"}]
    /\ seen \in [Requests \cup Editors -> Rows]
    /\ attempt \in [Requests -> Nat]
    /\ outcome \in [Requests -> Outcomes]

Row(status, funded, version) ==
    [status |-> status, fundedAmount |-> funded, version |-> version]

\* Mutant: funding opened before publication.
DraftOpened == Row("DRAFT", 0, 1)

Published == Row("PUBLISHED", 0, 1)

Init ==
    /\ row = Published
    /\ overdue = FALSE
    /\ investment = [r \in Requests |-> "none"]
    /\ pc = [p \in Requests \cup Editors |-> "ready"]
    /\ seen = [p \in Requests \cup Editors |-> Published]
    /\ attempt = [r \in Requests |-> 0]
    /\ outcome = [r \in Requests |-> "none"]

-----------------------------------------------------------------------------
\* A commitment of k units is k distinct units of the invoice: the total of a
\* set of investments is a cardinality.
Units(r) == {r} \X (1 .. Amount[r])
UnitsOf(S) == UNION {Units(r) : r \in S}
TotalOf(S) == Cardinality(UnitsOf(S))

\* The requests that have an investment row.
Committed == {r \in Requests : investment[r] # "none"}

\* The rows createInvestment sums up.  Mutant: without the pending ones.
CountedConfirmed == {r \in Requests : investment[r] = "CONFIRMED"}

Counted == {r \in Requests : investment[r] \in {"PENDING", "CONFIRMED"}}

\* A total that moves the invoice to FUNDED.  Mutant: one unit late.
FillsUpLate(total) == total > Net

FillsUp(total) == total >= Net

\* The slot of r holds an investment already.  Mutant: pending ones do not count.
SlotConfirmed(r) == \E s \in SameSlot[r] : investment[s] = "CONFIRMED"

SlotTaken(r) == \E s \in SameSlot[r] : investment[s] # "none"

\* The row after save(entity): a version that is still current is advanced, one
\* that is not is written back with the other stale columns.
Saved(entity) ==
    Row(entity.status, entity.fundedAmount,
        IF entity.version = row.version THEN row.version + 1 ELSE entity.version)

\* The answer ends the request; the entity it held is gone.
Answer(r, o) ==
    /\ pc' = [pc EXCEPT ![r] = "done"]
    /\ outcome' = [outcome EXCEPT ![r] = o]
    /\ seen' = [seen EXCEPT ![r] = Published]

-----------------------------------------------------------------------------
(* investInInvoice                                                         *)

\* Checks that do not depend on the invoice row (accreditation, amount, own
\* invoice, suitability), a database failure or a restart: rolled back.
Refuse(r) ==
    /\ pc[r] # "done"
    /\ Answer(r, "refused")
    /\ UNCHANGED <<row, overdue, investment, attempt>>

\* The plain read of the invoice and the checks on what it returned.
ReadInvoice(r) ==
    /\ r \in Fractional /\ pc[r] = "ready"
    /\ LET refusal == IF row.status # "PUBLISHED" \/ overdue THEN "not_open"
                      ELSE IF Amount[r] > Net - row.fundedAmount THEN "no_capacity"
                      ELSE "none"
       IN  IF refusal # "none"
           THEN Answer(r, refusal)
           ELSE /\ pc' = [pc EXCEPT ![r] = "read"]
                /\ seen' = [seen EXCEPT ![r] = row]
                /\ UNCHANGED outcome
    /\ UNCHANGED <<row, overdue, investment, attempt>>

\* The duplicate lookup for the same invoice, wallet and funding block.
CheckDuplicate(r) ==
    /\ r \in Fractional /\ pc[r] = "read"
    /\ IF SlotTaken(r)
       THEN Answer(r, "duplicate")
       ELSE pc' = [pc EXCEPT ![r] = "checked"] /\ UNCHANGED <<seen, outcome>>
    /\ UNCHANGED <<row, overdue, investment, attempt>>

\* Mutants of the WHERE clause: the capacity alone, the status alone, and a
\* strict comparison.
FitsOnly(r) == row.fundedAmount + Amount[r] <= Net

FitsWhenRead(r) == row.status = "PUBLISHED"

FitsStrictly(r) ==
    /\ row.version = seen[r].version
    /\ row.status = "PUBLISHED"
    /\ row.fundedAmount + Amount[r] < Net

\* The WHERE clause of the conditional UPDATE.
UpdateMatches(r) ==
    /\ row.version = seen[r].version
    /\ row.status = "PUBLISHED"
    /\ row.fundedAmount + Amount[r] <= Net

\* UPDATE, INSERT and, when the invoice fills up, the save of the FUNDED
\* transition: one transaction, under the row lock from the UPDATE on.  The
\* unique index on (invoice, wallet, funding block) refuses a second insert.
CommitFractional(r) ==
    /\ r \in Fractional /\ pc[r] = "checked"
    /\ UpdateMatches(r)
    /\ IF SlotTaken(r)
       THEN Answer(r, "duplicate") /\ UNCHANGED <<row, investment>>
       ELSE LET newFunded == seen[r].fundedAmount + Amount[r]
            IN  /\ row' = IF FillsUp(newFunded)
                          THEN Row("FUNDED", newFunded, row.version + 2)
                          ELSE Row("PUBLISHED", row.fundedAmount + Amount[r],
                                   row.version + 1)
                /\ investment' = [investment EXCEPT ![r] = "PENDING"]
                /\ Answer(r, "committed")
    /\ UNCHANGED <<overdue, attempt>>

\* Mutant: the last failed attempt never answers.
ConflictUnanswered(r) ==
    /\ r \in Fractional /\ pc[r] = "checked"
    /\ ~UpdateMatches(r)
    /\ attempt[r] + 1 < MaxAttempts
    /\ attempt' = [attempt EXCEPT ![r] = @ + 1]
    /\ pc' = [pc EXCEPT ![r] = "ready"]
    /\ UNCHANGED <<row, overdue, investment, seen, outcome>>

\* No row matched: FundingConflictError, retried from a fresh read until the
\* attempts are used up.
Conflict(r) ==
    /\ r \in Fractional /\ pc[r] = "checked"
    /\ ~UpdateMatches(r)
    /\ attempt' = [attempt EXCEPT ![r] = @ + 1]
    /\ IF attempt[r] + 1 >= MaxAttempts
       THEN Answer(r, "conflict")
       ELSE /\ pc' = [pc EXCEPT ![r] = "ready"]
            /\ seen' = [seen EXCEPT ![r] = Published]
            /\ UNCHANGED outcome
    /\ UNCHANGED <<row, overdue, investment>>

-----------------------------------------------------------------------------
(* createInvestment: everything under SELECT ... FOR UPDATE.  The capacity *)
(* and the transition are decided from the amount asked for, the row and   *)
(* funded_amount hold what toFixed(4) makes of it.                         *)

CreateInvestment(r) ==
    /\ r \in Committing /\ pc[r] = "ready"
    /\ LET total == TotalOf(Counted)
           refusal == IF row.status = "FUNDED" THEN "no_capacity"
                      ELSE IF row.status # "PUBLISHED" \/ overdue THEN "not_open"
                      ELSE IF total + Needed[r] > Net THEN "no_capacity"
                      ELSE "none"
       IN  IF refusal # "none"
           THEN Answer(r, refusal) /\ UNCHANGED <<row, investment>>
           ELSE /\ row' = Row(IF FillsUp(total + Whole[r]) THEN "FUNDED" ELSE "PUBLISHED",
                              total + Amount[r], row.version + 1)
                /\ investment' = [investment EXCEPT ![r] = "PENDING"]
                /\ Answer(r, "committed")
    /\ UNCHANGED <<overdue, attempt>>

\* verifyPayment or the indexer confirms the payment of an investment, also of one
\* that was settled already: only CONFIRMED is excluded (PaymentVerification).
ConfirmPayment(r) ==
    /\ investment[r] \in {"PENDING", "SETTLED"}
    /\ investment' = [investment EXCEPT ![r] = "CONFIRMED"]
    /\ UNCHANGED <<row, overdue, pc, seen, attempt, outcome>>

-----------------------------------------------------------------------------
(* The other writers of the row                                            *)

\* Time passes the due date or the funding deadline.
Expire ==
    /\ ~overdue
    /\ overdue' = TRUE
    /\ UNCHANGED <<row, investment, pc, seen, attempt, outcome>>

\* markUnderfunded of the maturity job, under the row lock.
MarkUnderfunded ==
    /\ overdue /\ row.status = "PUBLISHED" /\ row.fundedAmount < Net
    /\ row' = Row("FAILED", row.fundedAmount, row.version + 1)
    /\ UNCHANGED <<overdue, investment, pc, seen, attempt, outcome>>

\* The last transaction of a settlement, under the row lock: the confirmed
\* investments are settled, those still pending stay as they are (Settlement).
SettleInvoice ==
    /\ row.status = "FUNDED"
    /\ \E r \in Requests : investment[r] = "CONFIRMED"
    /\ row' = Row("SETTLED", row.fundedAmount, row.version + 1)
    /\ investment' = [r \in Requests |->
                        IF investment[r] = "CONFIRMED" THEN "SETTLED" ELSE investment[r]]
    /\ UNCHANGED <<overdue, pc, seen, attempt, outcome>>

\* A handler loads the entity without a lock, gives it the status it will have
\* and saves it whole later.
Load(w, status) ==
    /\ pc[w] = "ready"
    /\ seen' = [seen EXCEPT ![w] = [row EXCEPT !.status = status]]
    /\ pc' = [pc EXCEPT ![w] = "read"]
    /\ UNCHANGED <<row, overdue, investment, attempt, outcome>>

SaveEntity(w) ==
    /\ pc[w] = "read"
    /\ row' = Saved(seen[w])
    /\ pc' = [pc EXCEPT ![w] = "done"]
    /\ UNCHANGED <<overdue, investment, seen, attempt, outcome>>

\* uploadDocument, in any status: the IPFS upload runs between load and save.
LoadForUpload(w) == w \in Uploads /\ Load(w, row.status)

SaveUploaded(w) == w \in Uploads /\ SaveEntity(w)

\* applyEventStateTransition, one event at a time: fund_escrow, payment_recorded
\* and settle_escrow set the status the chain reports.
EventStatus == {t \in {"FUNDED", "SETTLED"} : t = "FUNDED" => row.status = "PUBLISHED"}

LoadForEvent(e) ==
    /\ e \in Events /\ \A f \in Events : pc[f] # "read"
    /\ \E status \in EventStatus : Load(e, status)

SaveEvent(e) == e \in Events /\ SaveEntity(e)

-----------------------------------------------------------------------------
Invest ==
    \E r \in Requests :
        \/ Refuse(r) \/ ReadInvoice(r) \/ CheckDuplicate(r) \/ CommitFractional(r)
        \/ Conflict(r) \/ CreateInvestment(r) \/ ConfirmPayment(r)

Lifecycle == Expire \/ MarkUnderfunded \/ SettleInvoice

Edit ==
    \E w \in Editors :
        \/ LoadForUpload(w) \/ SaveUploaded(w) \/ LoadForEvent(w) \/ SaveEvent(w)

\* Only the handlers whose writes are guarded.
Next == Invest \/ Lifecycle

\* With the handlers that save an entity loaded earlier.
NextWithEdits == Next \/ Edit

Spec == Init /\ [][Next]_vars
SpecWithEdits == Init /\ [][NextWithEdits]_vars

\* A request that is being served runs to its answer: nothing in it waits for
\* another request beyond the row lock, which every transaction releases.
Serve(r) == ReadInvoice(r) \/ CheckDuplicate(r) \/ CommitFractional(r)
            \/ Conflict(r) \/ CreateInvestment(r)

FairSpec == Spec /\ \A r \in Requests : WF_vars(Serve(r))
-----------------------------------------------------------------------------
\* The commitments that have not been settled.
Outstanding == Committed \ {r \in Requests : investment[r] = "SETTLED"}

\* The commitments never exceed the net amount, whatever requests,
\* settlements and maturity runs interleave ("Over-funding is prevented at
\* three levels", investInInvoice).
NeverOverfunded == TotalOf(Committed) <= Net

\* Both entry points agree on what is left: funded_amount is the sum of the
\* commitments, although one path increments it and the other recomputes it.
FundedAmountIsSum == row.fundedAmount = TotalOf(Committed)

\* The transition to FUNDED is never early, and it is missed only where an amount
\* was rounded up to the last unit (step 9 of createInvestment compares what was
\* asked for): an open invoice has room left or such a commitment, a funded one
\* is committed to the unit.
FundedWhenFilled ==
    /\ row.status = "PUBLISHED" =>
          \/ TotalOf(Committed) < Net
          \/ \E r \in Committed \cap Committing : Rest[r] = "above"
    /\ row.status \in {"FUNDED", "SETTLED"} => TotalOf(Committed) = Net

\* What makes the optimistic lock sound: as long as the invoice is open, a
\* version is never reused, so an entity whose version is still current holds
\* the current funded_amount.  (Not a promise of its own: it strengthens the
\* three invariants above to an inductive one.)
SeenIsCurrent ==
    \A r \in Fractional :
        pc[r] \in {"read", "checked"} /\ row.status = "PUBLISHED" =>
            /\ seen[r].version <= row.version
            /\ seen[r].version = row.version => seen[r].fundedAmount = row.fundedAmount

\* Two more facts it takes to make the three invariants inductive.
NotYetCommitted == \A r \in Requests : pc[r] # "done" => investment[r] = "none"

NoneSettledEarly == row.status # "SETTLED" => Outstanding = Committed

FundingInv ==
    /\ TypeOK /\ NotYetCommitted /\ NoneSettledEarly /\ SeenIsCurrent
    /\ NeverOverfunded /\ FundedAmountIsSum /\ FundedWhenFilled

\* One commitment per wallet, invoice and funding block
\* (duplicateInvestmentError), also when identical requests pass the
\* duplicate lookup together.
OneCommitmentPerSlot ==
    \A r \in Fractional : r \in Committed => SameSlot[r] \cap Committed = {}

\* CONCURRENT_INVESTMENT_CONFLICT is only answered under real contention: each
\* of the attempts lost to a different commit of somebody else.
Commits(r) == Cardinality({s \in Requests \ {r} : outcome[s] = "committed"})
              + (IF row.status = "FAILED" THEN 1 ELSE 0)
ConflictOnlyUnderContention ==
    \A r \in Fractional : outcome[r] = "conflict" => Commits(r) >= MaxAttempts

\* A commitment is only added while the invoice is still PUBLISHED, although
\* the maturity job or a settlement may have closed it after the request read
\* it; and none is ever withdrawn.
CommitOnlyWhileOpen ==
    [][Committed' # Committed =>
          row.status = "PUBLISHED" /\ Committed \subseteq Committed']_vars

\* createInvestment sums the outstanding investments instead of trusting
\* funded_amount, so what it adds keeps them within the net amount even when a
\* stale save reset that column or reopened the invoice.
RecomputedSumWithinNet ==
    [][\A r \in Committing :
          (r \in Committed' /\ r \notin Committed) => TotalOf(Outstanding') <= Net]_vars

\* Every request gets its answer: the retry loop ends.
EveryRequestAnswered == \A r \in Requests : <>(pc[r] = "done")

-----------------------------------------------------------------------------
Phase == IF row.status = "PUBLISHED" THEN "open"
         ELSE IF row.status = "FUNDED" THEN "full" ELSE "closed"

Ledger == INSTANCE FundingLedger WITH committed <- Committed, phase <- Phase

\* The versioned row, the two entry points and their retries implement the
\* ledger: each commitment is one atomic acceptance within the net amount.
ImplementsLedger == Ledger!LedgerSpec
=============================================================================
