--------------------------- MODULE WorkerBatches ---------------------------
(***************************************************************************)
(* What the background jobs take up at each tick, and what a tick leaves:  *)
(* workers/invoice-maturity.worker.ts, workers/settlement.worker.ts and    *)
(* both workers of reconcile-pending-stellar-state.worker.ts.              *)
(*                                                                         *)
(* Each job reads its oldest rows up to a batch size, handles them one by  *)
(* one, and logs what fails.  InvestmentFunding, PaymentVerification and   *)
(* Settlement say what handling one row does, and what meets it; here its  *)
(* result is given by the row, and the rows are many.  Rows of one age are *)
(* ordered as the database likes, so a tick has a set of outcomes.         *)
(***************************************************************************)
EXTENDS Integers, FiniteSets

LOCAL INSTANCE FiniteSetsExt

None == 0  \* no deadline

\* The choices of the oldest rows of S, at most `limit` of them.
Oldest(S, age, limit) ==
    {B \in SUBSET S : /\ Cardinality(B) = Min({limit, Cardinality(S)})
                      /\ \A b \in B, s \in S \ B : age[b] <= age[s]}

-----------------------------------------------------------------------------
(* Matured invoices: rows with a status, a due date, perhaps a deadline of *)
(* their funding, whether all of it is committed, and whether the          *)
(* settlement service accepts to settle it.                                *)

\* findMaturedInvoices
Matured(R, now) ==
    {i \in DOMAIN R :
        \/ R[i].status \in {"PUBLISHED", "FUNDED"} /\ R[i].due <= now
        \/ R[i].status = "PUBLISHED" /\ R[i].deadline # None /\ R[i].deadline <= now}

\* settleInvoice on behalf of a job.
Settled(r) == IF r.status = "FUNDED" /\ r.accepted THEN [r EXCEPT !.status = "SETTLED"] ELSE r

\* markUnderfunded
Underfunded(r) == IF r.status = "PUBLISHED" /\ ~r.full THEN [r EXCEPT !.status = "FAILED"] ELSE r

\* InvoiceMaturityWorker.runTick
Disposed(r) == IF r.status = "FUNDED" THEN Settled(r) ELSE Underfunded(r)

MaturityTick(R, now, limit) ==
    {[i \in DOMAIN R |-> IF i \in B THEN Disposed(R[i]) ELSE R[i]] :
        B \in Oldest(Matured(R, now), [i \in DOMAIN R |-> R[i].due], limit)}

\* processMaturedInvoices has no batch: all that are FUNDED and due.
SettlementCycle(R, now) ==
    [i \in DOMAIN R |-> IF R[i].due <= now THEN Settled(R[i]) ELSE R[i]]

-----------------------------------------------------------------------------
(* Pending payments: investments with a status, a creation time and        *)
(* perhaps a hash, and transactions of type INVESTMENT with a status, a    *)
(* time, an investment and perhaps a hash.  The times of the transactions  *)
(* of one investment differ.                                               *)

\* One candidate per investment; what its row says comes before its transactions.
Candidates(I, T) ==
    {[investment |-> i.id, hash |-> i.hash, source |-> "investment", queued |-> i.created] : i \in I}
    \cup {[investment |-> t.investment, hash |-> t.hash, source |-> "transaction", queued |-> t.time] :
            t \in {u \in T : \A i \in I : i.id # u.investment}}

\* The rows of the two queries, either of them cut off at the limit.
PendingInvestments(I, cutoff) ==
    {i \in I : i.status = "PENDING" /\ i.created <= cutoff /\ i.hash # "null"}
PendingTransactions(T, cutoff) ==
    {t \in T : t.status = "PENDING" /\ t.time <= cutoff /\ t.investment # "null" /\ t.hash # "null"}

\* findPendingCandidates: of several transactions of one investment the oldest
\* counts; the sort is on what is left of both queries.
FindPendingCandidates(I, T, cutoff, limit) ==
    LET invs == PendingInvestments(I, cutoff)
        txs == PendingTransactions(T, cutoff)
        rows(A, B) == Candidates(A, {t \in B : \A u \in B : u.investment = t.investment => t.time <= u.time})
    IN  UNION {UNION {Oldest(rows(A, B), [c \in rows(A, B) |-> c.queued], limit) :
                        A \in Oldest(invs, [i \in invs |-> i.created], limit)} :
                    B \in Oldest(txs, [t \in txs |-> t.time], limit)}

-----------------------------------------------------------------------------
(* Submitted Soroban transactions whose confirmation timed out: rows with  *)
(* a status, a creation time, and what the network says of the hash.       *)

\* PendingStellarConfirmationWorker.runTick; an answer that does not come, or
\* says NOT_FOUND, leaves the status as it is.
Confirmed(r) ==
    CASE r.network = "SUCCESS" -> [r EXCEPT !.status = "COMPLETED"]
      [] r.network = "FAILED" -> [r EXCEPT !.status = "FAILED"]
      [] OTHER -> r

ConfirmationTick(R, limit) ==
    LET pending == {i \in DOMAIN R : R[i].status = "PENDING_CONFIRMATION"}
    IN  {[i \in DOMAIN R |-> IF i \in B THEN Confirmed(R[i]) ELSE R[i]] :
            B \in Oldest(pending, [i \in DOMAIN R |-> R[i].created], limit)}
=============================================================================
