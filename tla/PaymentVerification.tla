------------------------ MODULE PaymentVerification ------------------------
(***************************************************************************)
(* The confirmation of investments by payments made on the ledger:         *)
(* services/stellar/verify-payment.service.ts, called by requests and by   *)
(* the reconciliation worker, next to the two others that write the same   *)
(* rows: orchestrate-investment-funding.service.ts, which records a draft, *)
(* and the event indexer, which confirms an investment on its own.         *)
(*                                                                         *)
(* findInvestmentByIdForUpdate and findTransactionsByInvestmentIdForUpdate *)
(* are plain reads, so each read is an action of its own and what it       *)
(* returned is all the later steps know.  The writes of a call become      *)
(* visible together, when its transaction commits.                         *)
(*                                                                         *)
(* A payment is one operation of one ledger transaction.  Its hash may be  *)
(* written in two cases; claims and transaction rows keep it in upper case *)
(* and investments as it was given, and the code compares them as strings. *)
(***************************************************************************)
EXTENDS Integers, FiniteSets

CONSTANTS
    Investments,
    Payments,       \* payments to the escrow account
    Matches,        \* <<p, i>>: payment p has the amount and the wallet of i
    Requests,       \* calls of verifyPayment, one target each
    Asked,          \* the targets they may name
    Workers,        \* reconciliation workers (one: singleReplicaAssumption)
    Drafts,         \* calls of orchestrateFunding
    Events,         \* investment_funded events of the escrow contract
    RetryAttempts,  \* failed fetches after which Horizon counts as unavailable
    NoRow           \* no transaction row

Calls == Requests \cup Workers
Actors == Calls \cup Drafts \cup Events
Writers == Calls \cup Drafts      \* who may insert a transaction row

Hashes == [payment : Payments, case : {"lower", "upper"}]
Null == [payment |-> "none", case |-> "upper"]

\* The transaction of the escrow contract an event came from: the indexer stores its
\* hash with the investment.  It invokes a contract, so it has no payment in it.
ChainHash == [payment |-> "event", case |-> "lower"]

\* What a caller may name.
Named == Hashes \cup {ChainHash}

ASSUME PaymentAssumption ==
    /\ Matches \subseteq Payments \X Investments
    /\ Asked \subseteq [investment : Investments, hash : Named]
    /\ RetryAttempts \in Nat \ {0}
    /\ NoRow \notin Writers
    /\ {"none", "event"} \cap Payments = {} /\ "none" \notin Investments
    /\ Requests \cap Workers = {} /\ Drafts \cap Events = {}
    /\ Calls \cap (Drafts \cup Events) = {}
    /\ IsFiniteSet(Writers)

VARIABLES
    investment,   \* investment[i]: status and transactionHash
    transaction,  \* transaction[w]: the transaction row w inserted, or Absent
    claim,        \* claim[p]: the investment payment p is credited to, or "none"
    pc,           \* where actor a is
    target,       \* target[a]: the investment and the hash a works on
    seen,         \* seen[a]: the investment as read, the row found and its hash
    attempt,      \* attempt[c]: failed fetches of call c
    outcome       \* what call c answered

vars == <<investment, transaction, claim, pc, target, seen, attempt, outcome>>

Absent == [investment |-> "none", status |-> "none", hash |-> Null]
Nothing == [investment |-> [status |-> "PENDING", hash |-> Null],
            row |-> NoRow, hash |-> Null]

InvestmentRows == [status : {"PENDING", "CONFIRMED", "SETTLED"},
                   hash : Hashes \cup {Null, ChainHash}]
TransactionRows == [investment : Investments, status : {"PENDING", "COMPLETED"},
                    hash : Hashes \cup {Null}]
Outcomes == {"none", "verified", "already_verified", "reconciliation_conflict",
             "already_used", "invalid_payment", "horizon_unavailable", "failed"}

TypeOK ==
    /\ investment \in [Investments -> InvestmentRows]
    /\ transaction \in [Writers -> TransactionRows \cup {Absent}]
    /\ claim \in [Payments -> Investments \cup {"none"}]
    /\ pc \in [Actors -> {"idle", "found", "matched", "locked", "linked", "claim",
                          "credit", "done"}]
    /\ target \in [Actors -> [investment : Investments, hash : Named \cup {Null}]
                              \cup {Absent}]
    /\ seen \in [Actors -> [investment : InvestmentRows, row : Writers \cup {NoRow},
                            hash : Hashes \cup {Null}]]
    /\ attempt \in [Calls -> 0 .. RetryAttempts - 1]
    /\ outcome \in [Calls -> Outcomes]

Init ==
    /\ investment = [i \in Investments |-> [status |-> "PENDING", hash |-> Null]]
    /\ transaction = [w \in Writers |-> Absent]
    /\ claim = [p \in Payments |-> "none"]
    /\ pc = [a \in Actors |-> "idle"]
    /\ target = [a \in Actors |-> Absent]
    /\ seen = [a \in Actors |-> Nothing]
    /\ attempt = [c \in Calls |-> 0]
    /\ outcome = [c \in Calls |-> "none"]

-----------------------------------------------------------------------------
\* What transaction rows keep (sanitizeTransactionData).
Upper(h) == [h EXCEPT !.case = "upper"]

\* The rows linked to investment i.
RowsOf(i) == {w \in Writers : transaction[w].investment = i}

Mine(c) == target[c].investment
Payment(c) == target[c].hash.payment

\* A request ends with its answer; the worker logs it and goes on.
Answer(c, o) ==
    /\ pc' = [pc EXCEPT ![c] = IF c \in Workers THEN "idle" ELSE "done"]
    /\ target' = [target EXCEPT ![c] = IF c \in Workers THEN Absent ELSE @]
    /\ seen' = [seen EXCEPT ![c] = Nothing]
    /\ attempt' = [attempt EXCEPT ![c] = 0]
    /\ outcome' = [outcome EXCEPT ![c] = o]

Proceed(c, to) ==
    /\ pc' = [pc EXCEPT ![c] = to]
    /\ UNCHANGED <<attempt, outcome>>

-----------------------------------------------------------------------------
(* verifyPayment                                                           *)

\* findPendingCandidates: the pending investments and transactions that have a
\* hash.
Candidates ==
    {[investment |-> i, hash |-> investment[i].hash] :
        i \in {j \in Investments :
                 investment[j].status = "PENDING" /\ investment[j].hash # Null}}
    \cup {[investment |-> transaction[w].investment, hash |-> transaction[w].hash] :
        w \in {v \in Writers :
                 transaction[v].status = "PENDING" /\ transaction[v].hash # Null}}

\* A request, or the worker for one of its candidates, loads the investment
\* and compares the hash of one that is confirmed.
Begin(c, t) ==
    /\ c \in Calls /\ pc[c] = "idle"
    /\ IF investment[t.investment].status = "CONFIRMED"
       THEN /\ pc' = [pc EXCEPT ![c] = IF c \in Workers THEN "idle" ELSE "done"]
            /\ target' = [target EXCEPT ![c] = IF c \in Workers THEN Absent ELSE t]
            /\ outcome' = [outcome EXCEPT ![c] =
                             IF investment[t.investment].hash = t.hash
                             THEN "already_verified" ELSE "reconciliation_conflict"]
       ELSE /\ pc' = [pc EXCEPT ![c] = "found"]
            /\ target' = [target EXCEPT ![c] = t]
            /\ UNCHANGED outcome
    /\ UNCHANGED <<investment, transaction, claim, seen, attempt>>

\* Mutant: a payment from another wallet or of another amount will do.
FetchUnmatched(c) ==
    /\ c \in Calls /\ pc[c] = "found"
    /\ IF Payment(c) \in Payments
       THEN Proceed(c, "matched") /\ UNCHANGED <<target, seen>>
       ELSE Answer(c, "invalid_payment")
    /\ UNCHANGED <<investment, transaction, claim>>

\* The two GETs from Horizon: the operation matches or it does not.
Fetch(c) ==
    /\ c \in Calls /\ pc[c] = "found"
    /\ IF <<Payment(c), Mine(c)>> \in Matches
       THEN Proceed(c, "matched") /\ UNCHANGED <<target, seen>>
       ELSE Answer(c, "invalid_payment")
    /\ UNCHANGED <<investment, transaction, claim>>

\* Mutants: one attempt too many, and attempts that are never used up.
FetchFailsLate(c) ==
    /\ c \in Calls /\ pc[c] = "found"
    /\ IF attempt[c] = RetryAttempts
       THEN Answer(c, "horizon_unavailable")
       ELSE /\ attempt' = [attempt EXCEPT ![c] = @ + 1]
            /\ UNCHANGED <<pc, target, seen, outcome>>
    /\ UNCHANGED <<investment, transaction, claim>>

FetchFailsForever(c) ==
    /\ c \in Calls /\ pc[c] = "found"
    /\ attempt' = [attempt EXCEPT ![c] = (@ + 1) % RetryAttempts]
    /\ UNCHANGED <<investment, transaction, claim, pc, target, seen, outcome>>

\* A transient failure of Horizon: tried again until the attempts are used up.
FetchFails(c) ==
    /\ c \in Calls /\ pc[c] = "found"
    /\ IF attempt[c] + 1 = RetryAttempts
       THEN Answer(c, "horizon_unavailable")
       ELSE /\ attempt' = [attempt EXCEPT ![c] = @ + 1]
            /\ UNCHANGED <<pc, target, seen, outcome>>
    /\ UNCHANGED <<investment, transaction, claim>>

\* findInvestmentByIdForUpdate.
ReadInvestment(c) ==
    /\ c \in Calls /\ pc[c] = "matched"
    /\ seen' = [seen EXCEPT ![c].investment = investment[Mine(c)]]
    /\ Proceed(c, "locked")
    /\ UNCHANGED <<investment, transaction, claim, target>>

\* The row found carries another hash; a draft's carries none.  Mutant: a
\* draft's counts as another.
LinkedToAnyOther(c) == \E w \in RowsOf(Mine(c)) : transaction[w].hash # target[c].hash

LinkedElsewhere(c) ==
    \E w \in RowsOf(Mine(c)) : transaction[w].hash \notin {Null, target[c].hash}

\* findTransactionsByInvestmentIdForUpdate and the checks that follow it.
ReadTransactions(c) ==
    /\ c \in Calls /\ pc[c] = "locked"
    /\ LET rows == RowsOf(Mine(c))
           confirmed == seen[c].investment.status = "CONFIRMED"
       IN  \/ /\ confirmed /\ Cardinality(rows) <= 1
              /\ seen[c].investment.hash = target[c].hash
              /\ Answer(c, "already_verified")
           \/ /\ \/ Cardinality(rows) > 1
                 \/ confirmed /\ seen[c].investment.hash # target[c].hash
                 \/ ~confirmed /\ LinkedElsewhere(c)
              /\ Answer(c, "reconciliation_conflict")
           \/ /\ ~confirmed /\ Cardinality(rows) <= 1 /\ ~LinkedElsewhere(c)
              /\ seen' = [seen EXCEPT ![c].row =
                            IF rows = {} THEN NoRow ELSE CHOOSE w \in rows : TRUE]
              /\ Proceed(c, "linked") /\ UNCHANGED target
    /\ UNCHANGED <<investment, transaction, claim>>

\* Mutant: a claim of another investment passes for one's own.
LookUpAnyClaim(c) ==
    /\ c \in Calls /\ pc[c] = "linked"
    /\ Proceed(c, IF claim[Payment(c)] = "none" THEN "claim" ELSE "credit")
    /\ UNCHANGED <<investment, transaction, claim, target, seen>>

\* claimPayment looks the claim up before it inserts its own.
LookUpClaim(c) ==
    /\ c \in Calls /\ pc[c] = "linked"
    /\ \/ claim[Payment(c)] = "none" /\ Proceed(c, "claim") /\ UNCHANGED <<target, seen>>
       \/ claim[Payment(c)] = Mine(c) /\ Proceed(c, "credit") /\ UNCHANGED <<target, seen>>
       \/ claim[Payment(c)] \notin {"none", Mine(c)} /\ Answer(c, "already_used")
    /\ UNCHANGED <<investment, transaction, claim>>

\* The insert meets a row somebody committed since.  Mutant: it does not care.
ClaimUnchecked(c) == FALSE

ClaimCollides(c) == pc[c] = "claim" /\ claim[Payment(c)] # "none"

\* The row of call c after its save: its own, or the one it found.
Row(c) == IF seen[c].row = NoRow THEN c ELSE seen[c].row

\* The claim, the transaction row and the investment, in one commit.
Credit(c) ==
    /\ c \in Calls /\ pc[c] \in {"claim", "credit"} /\ ~ClaimCollides(c)
    /\ claim' = IF pc[c] = "claim" THEN [claim EXCEPT ![Payment(c)] = Mine(c)] ELSE claim
    /\ transaction' = [transaction EXCEPT ![Row(c)] =
                         [investment |-> Mine(c), status |-> "COMPLETED",
                          hash |-> Upper(target[c].hash)]]
    /\ investment' = [investment EXCEPT ![Mine(c)] =
                        [status |-> "CONFIRMED", hash |-> target[c].hash]]
    /\ Answer(c, "verified")

\* The unique index refuses the claim: the transaction rolls back.
LoseClaim(c) ==
    /\ c \in Calls /\ ClaimCollides(c)
    /\ Answer(c, "already_used")
    /\ UNCHANGED <<investment, transaction, claim>>

\* Any other failure, a crash included: nothing of the call is kept.
Fail(c) ==
    /\ c \in Calls /\ pc[c] \notin {"idle", "done"}
    /\ Answer(c, "failed")
    /\ UNCHANGED <<investment, transaction, claim>>

-----------------------------------------------------------------------------
(* The other writers                                                       *)

\* orchestrateFunding: only a pending investment; the escrow client prepares
\* the transaction after this read.
BeginDraft(d, i) ==
    /\ d \in Drafts /\ pc[d] = "idle"
    /\ target' = [target EXCEPT ![d] = [investment |-> i, hash |-> Null]]
    /\ pc' = [pc EXCEPT ![d] = IF investment[i].status = "PENDING" THEN "found" ELSE "done"]
    /\ UNCHANGED <<investment, transaction, claim, seen, attempt, outcome>>

DraftFails(d) ==
    /\ d \in Drafts /\ pc[d] = "found"
    /\ Proceed(d, "done")
    /\ UNCHANGED <<investment, transaction, claim, target, seen>>

\* The newest row of the investment, if it has one; which of two rows is newer
\* depends on when their transactions began.
ReadDraftRow(d) ==
    /\ d \in Drafts /\ pc[d] = "found"
    /\ \/ /\ RowsOf(Mine(d)) = {}
          /\ UNCHANGED seen
       \/ \E w \in RowsOf(Mine(d)) :
             seen' = [seen EXCEPT ![d].row = w, ![d].hash = transaction[w].hash]
    /\ Proceed(d, "linked")
    /\ UNCHANGED <<investment, transaction, claim, target>>

\* Saved as PENDING with the hash it was read with, whatever became of the row
\* and the investment since.
SaveDraft(d) ==
    /\ d \in Drafts /\ pc[d] = "linked"
    /\ transaction' = [transaction EXCEPT ![Row(d)] =
                         [investment |-> Mine(d), status |-> "PENDING",
                          hash |-> seen[d].hash]]
    /\ Proceed(d, "done")
    /\ UNCHANGED <<investment, claim, target, seen>>

\* The event indexer, topic investment_funded: read, then save.
ReadEvent(e, i) ==
    /\ e \in Events /\ pc[e] = "idle"
    /\ target' = [target EXCEPT ![e] = [investment |-> i, hash |-> Null]]
    /\ Proceed(e, "found")
    /\ UNCHANGED <<investment, transaction, claim, seen>>

SaveEvent(e) ==
    /\ e \in Events /\ pc[e] = "found"
    /\ investment' = [investment EXCEPT ![Mine(e)] =
                        [status |-> "CONFIRMED", hash |-> ChainHash]]
    /\ Proceed(e, "done")
    /\ UNCHANGED <<transaction, claim, target, seen>>

\* The settlement of the invoice.
Settle(i) ==
    /\ investment[i].status = "CONFIRMED"
    /\ investment' = [investment EXCEPT ![i].status = "SETTLED"]
    /\ UNCHANGED <<transaction, claim, pc, target, seen, attempt, outcome>>

-----------------------------------------------------------------------------
Advance(c) == Fetch(c) \/ ReadInvestment(c) \/ ReadTransactions(c) \/ LookUpClaim(c)
              \/ Credit(c) \/ LoseClaim(c)

Next ==
    \/ \E c \in Calls :
          \/ \E t \in IF c \in Workers THEN Candidates ELSE Asked : Begin(c, t)
          \/ Advance(c) \/ FetchFails(c) \/ Fail(c)
    \/ \E i \in Investments :
          \/ Settle(i)
          \/ \E d \in Drafts : BeginDraft(d, i)
          \/ \E e \in Events : ReadEvent(e, i)
    \/ \E d \in Drafts : DraftFails(d) \/ ReadDraftRow(d) \/ SaveDraft(d)
    \/ \E e \in Events : SaveEvent(e)

Spec == Init /\ [][Next]_vars

\* A request that was begun goes on: Horizon answers or the fetch fails, and
\* the database serves its statements.
FairSpec == Spec /\ \A r \in Requests : WF_vars(Advance(r) \/ FetchFails(r))
-----------------------------------------------------------------------------
\* One payment never counts for two investments, although it may match both
\* and both verifications may look for the claim before either inserts it.
PaymentCreditedOnce ==
    \A i, j \in Investments :
        i # j /\ investment[i].hash.payment \in Payments =>
            investment[i].hash.payment # investment[j].hash.payment

\* Whatever a row is credited with is backed by a claim of its investment:
\* the claim table, the transactions and the investments never disagree on
\* who a payment belongs to.
CreditIsClaimed ==
    /\ \A i \in Investments : investment[i].hash.payment \in Payments =>
          claim[investment[i].hash.payment] = i
    /\ \A w \in Writers : transaction[w].hash # Null =>
          claim[transaction[w].hash.payment] = transaction[w].investment

\* "Final DB confirmation still comes from Horizon verification ..., not from
\* the draft preparation call alone": an investment that left PENDING was
\* paid by a matching payment or confirmed by the escrow contract's event.
ConfirmedMeansPaid ==
    \A i \in Investments : investment[i].status # "PENDING" =>
        \/ investment[i].hash = ChainHash
        \/ <<investment[i].hash.payment, i>> \in Matches

\* A caller told that its payment is verified owns the claim, for good.  Who names
\* the escrow contract's transaction has no payment to claim: it is told no more
\* than that the investment is verified already, and only of one that the indexer
\* confirmed and that stays so.
TruthTold(r) ==
    outcome[r] \in {"verified", "already_verified"} =>
        IF target[r].hash = ChainHash
        THEN outcome[r] = "already_verified" /\ investment[Mine(r)].status # "PENDING"
        ELSE claim[Payment(r)] = Mine(r)

SuccessIsClaimed == \A r \in Requests : TruthTold(r)

\* What makes these inductive: an actor knows what it works on, a call has
\* matched its payment before it claims and claimed it before it credits, and a
\* hash once seen with an investment is, and stays, claimed by it.
Knows(a) ==
    /\ pc[a] = "idle" => seen[a] = Nothing
    /\ pc[a] # "idle" => Mine(a) \in Investments /\ (a \in Calls => target[a].hash \in Named)

SeenClaimed(a) ==
    pc[a] # "idle" => \A h \in {seen[a].hash, seen[a].investment.hash} :
        h.payment \in Payments => claim[h.payment] = Mine(a)

Earned(c) ==
    /\ pc[c] \in {"matched", "locked", "linked", "claim", "credit"} =>
          <<Payment(c), Mine(c)>> \in Matches
    /\ pc[c] = "credit" => claim[Payment(c)] = Mine(c)

Answered(r) ==
    /\ outcome[r] # "none" => pc[r] = "done"
    /\ TruthTold(r)

PendingUnpaid ==
    \A i \in Investments : investment[i].status = "PENDING" => investment[i].hash = Null

ActorInv(a) ==
    /\ Knows(a) /\ SeenClaimed(a)
    /\ a \in Calls => Earned(a)
    /\ a \in Requests => Answered(a)

PaymentInv ==
    /\ TypeOK /\ PendingUnpaid /\ CreditIsClaimed /\ ConfirmedMeansPaid
    /\ \A a \in Actors : ActorInv(a)

\* A caller is refused for a reason that lasts: its payment is claimed, or its
\* investment is confirmed or has transaction rows nobody can tell apart.
RefusalJustified ==
    \A r \in Requests :
        /\ outcome[r] = "already_used" => claim[Payment(r)] # "none"
        /\ outcome[r] = "reconciliation_conflict" =>
              investment[Mine(r)].status # "PENDING" \/ Cardinality(RowsOf(Mine(r))) > 1

\* The verification of a payment ends, however often Horizon fails.
EveryCallAnswered == \A r \in Requests : (pc[r] # "idle") ~> (pc[r] = "done")

\* "Investment is already confirmed with a different Stellar payment": once
\* confirmed by a payment, an investment keeps that payment.
ConfirmedOnce ==
    [][\A i \in Investments :
          investment[i].status = "CONFIRMED" =>
              investment'[i].hash = investment[i].hash]_vars
=============================================================================
