-------------------------- MODULE InvoiceLifecycle --------------------------
(***************************************************************************)
(* The life of an invoice up to its funding: the state machine             *)
(* (lib/invoice-state-machine.ts) and the operations of                    *)
(* services/invoice.service.ts that use it or write beside it, with the    *)
(* event indexer that writes statuses as well, composed with the           *)
(* NotificationDispatcher that the side effects feed.                      *)
(*                                                                         *)
(* An operation loads its invoices, checks them in memory, and saves them  *)
(* without a lock.  A save is two statements: the row is read again, and   *)
(* the columns in which the entity differs from it are written.            *)
(***************************************************************************)
EXTENDS NotificationDispatcher

CONSTANTS
    Invoices,   \* the invoices, all of one seller
    Calls,      \* requests
    May,        \* May[c]: the operations c may ask for
    On,         \* On[op]: the invoices op is asked for
    Ready,      \* whether an edit leaves the invoice publishable
    MaxReviews  \* bound on changes of the seller's KYC status

Edits == {"update", "delete"}

\* The indexer applies an escrow event (create_escrow, fund, payment, settle).
Indexed == {"created", "funded", "paid", "settled"}

\* What writes no history.
Unrecorded == Edits \cup Indexed
Ops == Unrecorded \cup {"submit", "publish", "batch", "approve", "reject"}
Statuses == {"DRAFT", "PENDING", "PUBLISHED", "REJECTED", "FUNDED", "SETTLED"}

ASSUME LifecycleAssumption ==
    /\ May \in [Calls -> SUBSET Ops]
    /\ On \in [Ops -> (SUBSET Invoices) \ {{}}]
    /\ Ready \in BOOLEAN
    /\ Events = Invoices \X {"approved", "rejected", "funded"}
    /\ MaxReviews \in Nat

VARIABLES
    row,      \* row[i]: status, whether it passes the validation, deletedAt
    history,  \* history[i]: its transitions, oldest first
    kyc,      \* the KYC status of the seller
    reviews,  \* changes of it so far
    pc,       \* where call c is: "ready", at an operation it checked, "done"
    seen,     \* seen[c]: the entities it loaded
    base,     \* base[c]: the rows its saves have read again
    outbox,   \* committed transitions whose effects have not run
    crashed   \* the process has crashed

invoiceVars == <<row, history>>
callVars == <<pc, seen, base>>
vars == <<dispatcherVars, invoiceVars, kyc, reviews, callVars, outbox, crashed>>

Rows == [status : Statuses, ready : BOOLEAN, deleted : BOOLEAN]
Transitions == [from : Statuses, to : Statuses, by : Ops \cup {"invest"}]

\* The rows of some of the invoices.
PartOf(S) == UNION {[T -> Rows] : T \in SUBSET S}

TypeOK ==
    /\ DispatcherTypeOK
    /\ row \in [Invoices -> Rows]
    /\ history \in [Invoices -> Seq(Transitions)]
    /\ kyc \in {"PENDING", "APPROVED", "REJECTED"} /\ reviews \in 0 .. MaxReviews
    /\ pc \in [Calls -> Ops \cup {"ready", "done"}]
    /\ \A c \in Calls : seen[c] \in PartOf(Invoices) /\ base[c] \in PartOf(Invoices)
    /\ outbox \subseteq Events /\ crashed \in BOOLEAN

NoRows == [i \in {} |-> [status |-> "DRAFT", ready |-> TRUE, deleted |-> FALSE]]

Init ==
    /\ DispatcherInit
    /\ row = [i \in Invoices |-> [status |-> "DRAFT", ready |-> TRUE, deleted |-> FALSE]]
    /\ history = [i \in Invoices |-> <<>>]
    /\ kyc = "PENDING" /\ reviews = 0
    /\ pc = [c \in Calls |-> "ready"]
    /\ seen = [c \in Calls |-> NoRows] /\ base = [c \in Calls |-> NoRows]
    /\ outbox = {} /\ crashed = FALSE

-----------------------------------------------------------------------------
(* The state machine                                                       *)

\* TRANSITION_RULES, with the operations in the place of the roles.
Rules ==
    {<<"DRAFT", "PENDING", "submit">>, <<"DRAFT", "PUBLISHED", "publish">>,
     <<"DRAFT", "PUBLISHED", "batch">>, <<"PENDING", "PUBLISHED", "approve">>,
     <<"DRAFT", "REJECTED", "reject">>, <<"PENDING", "REJECTED", "reject">>,
     <<"PUBLISHED", "FUNDED", "invest">>}

Goal(op) ==
    CASE op = "submit" -> "PENDING"
      [] op \in {"publish", "batch", "approve", "created"} -> "PUBLISHED"
      [] op = "reject" -> "REJECTED"
      [] op \in {"invest", "funded"} -> "FUNDED"
      [] op \in {"paid", "settled"} -> "SETTLED"

\* Only drafts are edited.
Editable(r) == r.status = "DRAFT"

\* assertTransition: the step is in the graph, and the guard of its rule holds.
Permitted(op, r) ==
    /\ <<r.status, Goal(op), op>> \in Rules
    /\ op # "reject" => r.ready

\* Who publishes by himself has passed KYC; whom an administrator approves need not.
Vetted(op) == op \in {"publish", "batch"} => kyc = "APPROVED"

\* The statuses an event is applied in: a settlement in any.
EventRules ==
    {<<"DRAFT", "created">>, <<"PUBLISHED", "funded">>, <<"FUNDED", "paid">>}
        \cup (Statuses \X {"settled"})

Allowed(op, r) ==
    /\ ~r.deleted
    /\ \/ op \in Edits /\ Editable(r)
       \/ op \in Indexed /\ <<r.status, op>> \in EventRules
       \/ op \notin Unrecorded /\ Vetted(op) /\ Permitted(op, r)

\* The history row of a transition.
Entry(op, r) == [from |-> r.status, to |-> Goal(op), by |-> op]

\* lifecycleEventForTransition: the events an operation on S raises.
EventsOf(op, S) ==
    CASE op = "approve" -> S \X {"approved"}
      [] op = "reject" -> S \X {"rejected"}
      [] op = "invest" -> S \X {"funded"}
      [] OTHER -> {}

-----------------------------------------------------------------------------
(* An operation                                                            *)

\* The invoices are loaded and checked; one that fails fails the call.
Load(c, op) ==
    /\ pc[c] = "ready" /\ op \in May[c]
    /\ IF \A i \in On[op] : Allowed(op, row[i])
       THEN /\ seen' = [seen EXCEPT ![c] = [i \in On[op] |-> row[i]]]
            /\ pc' = [pc EXCEPT ![c] = op]
       ELSE pc' = [pc EXCEPT ![c] = "done"] /\ UNCHANGED seen
    /\ UNCHANGED <<dispatcherVars, invoiceVars, kyc, reviews, base, outbox, crashed>>

Updated(r) == [r EXCEPT !.ready = Ready]
Deleted(r) == [r EXCEPT !.deleted = TRUE]

\* What the operation makes of an entity.
Changed(op, r) ==
    CASE op = "update" -> Updated(r)
      [] op = "delete" -> Deleted(r)
      [] OTHER -> [r EXCEPT !.status = Goal(op)]

\* A save reads the row again.
Reload(c, i) ==
    /\ i \in DOMAIN seen[c] \ DOMAIN base[c]
    /\ base' = [base EXCEPT ![c] = [j \in DOMAIN @ \cup {i} |->
                                        IF j = i THEN row[i] ELSE @[j]]]
    /\ UNCHANGED <<dispatcherVars, invoiceVars, kyc, reviews, pc, seen, outbox, crashed>>

\* It writes the columns of entity e that differ from the row b it read.
Written(e, b, r) == [f \in DOMAIN r |-> IF e[f] # b[f] THEN e[f] ELSE r[f]]

\* The transaction commits with the rows and, for a transition, their history.
Commit(c) ==
    LET op == pc[c] IN
    /\ op \in Ops /\ DOMAIN base[c] = On[op]
    /\ row' = [i \in Invoices |->
                 IF i \in On[op] THEN Written(Changed(op, seen[c][i]), base[c][i], row[i])
                 ELSE row[i]]
    /\ history' = [i \in Invoices |->
                     IF i \in On[op] /\ op \notin Unrecorded
                     THEN Append(history[i], Entry(op, seen[c][i]))
                     ELSE history[i]]
    /\ outbox' = outbox \cup EventsOf(op, On[op])
    /\ pc' = [pc EXCEPT ![c] = "done"]
    /\ seen' = [seen EXCEPT ![c] = NoRows] /\ base' = [base EXCEPT ![c] = NoRows]
    /\ UNCHANGED <<dispatcherVars, kyc, reviews, crashed>>

\* An investment fills the invoice (InvestmentFunding), under its row lock.
\* Mutant: the status is saved without the state machine.
FundUnrecorded(i) ==
    /\ row[i].status = "PUBLISHED" /\ ~row[i].deleted
    /\ row' = [row EXCEPT ![i].status = "FUNDED"]
    /\ outbox' = outbox \cup EventsOf("invest", {i})
    /\ UNCHANGED <<dispatcherVars, kyc, reviews, callVars, crashed, history>>

Fund(i) ==
    /\ row[i].status = "PUBLISHED" /\ ~row[i].deleted
    /\ row' = [row EXCEPT ![i].status = "FUNDED"]
    /\ history' = [history EXCEPT ![i] = Append(@, Entry("invest", row[i]))]
    /\ outbox' = outbox \cup EventsOf("invest", {i})
    /\ UNCHANGED <<dispatcherVars, kyc, reviews, callVars, crashed>>

\* The effects of a committed transition: the dispatcher is handed its event.
Dispatch(e) ==
    /\ e \in outbox
    /\ outbox' = outbox \ {e}
    /\ Enqueue(e)
    /\ UNCHANGED <<invoiceVars, kyc, reviews, callVars, crashed>>

-----------------------------------------------------------------------------
\* The seller submits documents, or a provider or an administrator decides.
ReviewKyc ==
    /\ reviews < MaxReviews
    /\ kyc' \in {"PENDING", "APPROVED", "REJECTED"} \ {kyc}
    /\ reviews' = reviews + 1
    /\ UNCHANGED <<dispatcherVars, invoiceVars, callVars, outbox, crashed>>

\* The process dies with its jobs, its requests and their pending effects.
Crash ==
    /\ LoseJobs
    /\ pc' = [c \in Calls |-> IF pc[c] \in Ops THEN "done" ELSE pc[c]]
    /\ seen' = [c \in Calls |-> NoRows] /\ base' = [c \in Calls |-> NoRows]
    /\ outbox' = {} /\ crashed' = TRUE
    /\ UNCHANGED <<invoiceVars, kyc, reviews>>

Operate ==
    \E c \in Calls :
        \/ \E op \in Ops : Load(c, op)
        \/ \E i \in Invoices : Reload(c, i)
        \/ Commit(c)

Deliveries ==
    /\ Dispatching \/ \E e \in Events : FailDelivery(e)
    /\ UNCHANGED <<invoiceVars, kyc, reviews, callVars, outbox, crashed>>

Next ==
    \/ Operate \/ ReviewKyc \/ Crash
    \/ \E i \in Invoices : Fund(i)
    \/ (\E e \in Events : Dispatch(e)) \/ Deliveries

Spec == Init /\ [][Next]_vars

\* The event loop goes on: effects of what is committed run, timers fire and
\* deliveries return.
EventLoop ==
    \/ \E e \in Events : Dispatch(e)
    \/ Dispatching /\ UNCHANGED <<invoiceVars, kyc, reviews, callVars, outbox, crashed>>

FairSpec == Spec /\ WF_vars(EventLoop)
-----------------------------------------------------------------------------
\* The step writes a transition of i that leads to the status the row gets.
Recorded(i) ==
    /\ Len(history'[i]) = Len(history[i]) + 1
    /\ history'[i][Len(history'[i])].to = row'[i].status

\* Call c saves i, as one of the operations in S.
Saves(c, i, S) == pc[c] \in S /\ pc'[c] = "done" /\ i \in DOMAIN base[c]

\* An edit checked the invoice as a draft, and its save found it in another
\* status: it writes DRAFT back.
TakenBack(i) ==
    /\ \E c \in Calls : Saves(c, i, Edits) /\ base[c][i].status # "DRAFT"
    /\ row'[i].status = "DRAFT"

\* The indexer writes the status of an event.
SetByEvent(i) ==
    \E c \in Calls : Saves(c, i, Indexed) /\ row'[i].status = Goal(pc[c])

\* A transition is recorded whose save found its status written already.
FoundDone(i) ==
    /\ row'[i].status = row[i].status
    /\ \E c \in Calls :
          /\ Saves(c, i, Ops \ Unrecorded)
          /\ history'[i] = Append(history[i], Entry(pc[c], seen[c][i]))
          /\ base[c][i].status = Goal(pc[c])

\* invoice-state-machine.ts:29-32 says of every change of status that it is
\* recorded in invoice_status_history.  It is, whatever operations overlap, but
\* for a stale edit that takes the invoice back to a draft and for the writes of
\* the indexer; and a row tells of a change, or of one that another call made.
ChangesRecorded ==
    [][\A i \in Invoices :
          /\ row'[i].status # row[i].status => Recorded(i) \/ TakenBack(i) \/ SetByEvent(i)
          /\ history'[i] # history[i] => Recorded(i) \/ FoundDone(i)]_vars

\* The committed transitions that raise event e.
Causes(e) ==
    {k \in 1 .. Len(history[e[1]]) : e \in EventsOf(history[e[1]][k].by, {e[1]})}

\* Nobody is told twice of an event, nor of one that was not committed
\* ("side effects fire exactly once after the change is committed").
NotifiedForCause ==
    \A e \in Events : notified[e] <= 1 /\ (notified[e] = 1 => Causes(e) # {})

\* In the end every recipient of a committed event has been told, or there is a
\* dead letter, unless the process crashed in between.
EveryEventTold ==
    <>[](\A e \in Events : Causes(e) # {} => notified[e] = 1 \/ e \in dead \/ crashed)
=============================================================================
