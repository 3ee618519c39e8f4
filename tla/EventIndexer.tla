---------------------------- MODULE EventIndexer ----------------------------
(***************************************************************************)
(* The background poller of contract events:                               *)
(* services/stellar/event-indexer.service.ts, up to the hand-over of an    *)
(* event to the projections (OnchainProjections).                          *)
(*                                                                         *)
(* A poll reads the pages after the last indexed ledger and ingests the    *)
(* events one by one; every await is a step of its own, at which the poll  *)
(* may fail or the process may crash.  The event log and the checkpoint    *)
(* are rows, the last indexed and the latest observed ledger are fields of *)
(* the service and are lost in a crash.                                    *)
(***************************************************************************)
EXTENDS Integers, FiniteSets

CONSTANTS
    N,            \* the events are 1 .. N, in the order of the chain
    Ledger,       \* Ledger[e]: the ledger of event e
    Kind,         \* Kind[e]: its topic
    Known,        \* the events that were processed before this deployment
    Checkpointed, \* whether they left a checkpoint row
    PageSize,     \* the limit of a getEvents request
    MaxFaults     \* bound on failed polls, crashes and failed handlers

Event == 1 .. N
Past == IF Known = 0 THEN 0 ELSE Ledger[Known]
LastLedger == IF N = 0 THEN 0 ELSE Ledger[N]

ASSUME IndexerAssumption ==
    /\ N \in Nat /\ Known \in 0 .. N /\ Checkpointed \in BOOLEAN
    /\ Ledger \in [Event -> Nat \ {0}]
    /\ \A e, f \in Event : e <= f => Ledger[e] <= Ledger[f]
    /\ \A e \in Event : Ledger[e] <= Past => e <= Known
    /\ PageSize \in Nat \ {0} /\ MaxFaults \in Nat

VARIABLES
    tip,        \* the latest closed ledger
    log,        \* log[e]: the row of event e: "none", "open", "processed"
    checkpoint, \* the checkpoint row, 0 when there is none
    last,       \* lastIndexedLedger of the service, 0 when unknown
    observed,   \* latestObservedLedger
    pc,         \* where the poll is: "idle", "fetch", "ingest"
    todo,       \* the decoded events it has not dealt with
    stage,      \* the next await for the first of them
    high,       \* highestProcessedLedger
    status,     \* the status of the invoice the escrow events are about
    applied,    \* the newest event that was applied to it
    faults      \* faults so far

rows == <<log, checkpoint>>
memory == <<last, observed>>
working == <<pc, todo, stage, high>>
indexerVars == <<tip, log, checkpoint, last, observed, pc, todo, stage, high,
                 status, applied, faults>>

Larger(a, b) == IF a >= b THEN a ELSE b

IndexerTypeOK ==
    /\ tip \in Past .. Larger(Past, LastLedger)
    /\ log \in [Event -> {"none", "open", "processed"}]
    /\ checkpoint \in 0 .. tip /\ last \in 0 .. tip /\ observed \in 0 .. tip
    /\ high \in 0 .. tip
    /\ pc \in {"idle", "fetch", "ingest"}
    /\ todo \in SUBSET Event
    /\ stage \in {"check", "apply", "insight", "dispatch", "mark"}
    /\ status \in {"DRAFT", "PUBLISHED", "FUNDED", "SETTLED"}
    /\ applied \in Known .. N
    /\ faults \in 0 .. MaxFaults

-----------------------------------------------------------------------------
\* applyEventStateTransition: which topic moves an invoice from where to where.
\* settle_escrow asks for no status.
Transitions ==
    {<<"create_escrow", "DRAFT", "PUBLISHED">>, <<"fund_escrow", "PUBLISHED", "FUNDED">>,
     <<"payment_recorded", "FUNDED", "SETTLED">>}
        \cup {<<"settle_escrow", s, "SETTLED">> : s \in {"DRAFT", "PUBLISHED", "FUNDED", "SETTLED"}}

\* The status after an event of kind k.
After(k, s) ==
    IF \E t \in Transitions : t[1] = k /\ t[2] = s
    THEN (CHOOSE t \in Transitions : t[1] = k /\ t[2] = s)[3]
    ELSE s

\* The status the first n events of the chain lead to.
StatusAfter[n \in 0 .. N] ==
    IF n = 0 THEN "DRAFT" ELSE After(Kind[n], StatusAfter[n - 1])

IndexerInit ==
    /\ tip = Past
    /\ log = [e \in Event |-> IF e <= Known THEN "processed" ELSE "none"]
    /\ checkpoint = IF Checkpointed THEN Past ELSE 0
    /\ last = 0 /\ observed = 0
    /\ pc = "idle" /\ todo = {} /\ stage = "check" /\ high = 0
    /\ status = StatusAfter[Known] /\ applied = Known
    /\ faults = 0

-----------------------------------------------------------------------------
(* Polling                                                                 *)

\* A ledger closes, with its events.
CloseLedger ==
    /\ tip < LastLedger
    /\ tip' = tip + 1
    /\ UNCHANGED <<rows, memory, working, status, applied, faults>>

\* The newest ledger in the event log, processed or not.
LatestLogged ==
    LET logged == {e \in Event : log[e] # "none"}
    IN  IF logged = {} THEN 0
        ELSE LET e == CHOOSE f \in logged : \A g \in logged : g <= f IN Ledger[e]

\* getLastIndexedLedger: the field, else the checkpoint, else the event log.
\* Mutant: the event log is preferred to the checkpoint.
FromLog == IF last > 0 THEN last ELSE IF LatestLogged > 0 THEN LatestLogged ELSE checkpoint

LastIndexedLedger ==
    IF last > 0 THEN last ELSE IF checkpoint > 0 THEN checkpoint ELSE LatestLogged

\* The timer fires and no poll is in flight.
Poll ==
    /\ pc = "idle"
    /\ last' = LastIndexedLedger
    /\ pc' = "fetch" /\ todo' = {}
    /\ UNCHANGED <<tip, rows, observed, stage, high, status, applied, faults>>

\* The events the node serves after the last indexed ledger and the cursor.
Pending == {e \in Event : last < Ledger[e] /\ Ledger[e] <= tip} \ todo
Page == {e \in Pending : Cardinality({f \in Pending : f < e}) < PageSize}

\* One getEvents request.  The node is asked again until its cursor stands
\* still; a poll without an event ends, the others go on to ingest.
\* Mutant: only the first page is read.
FetchOne ==
    /\ pc = "fetch"
    /\ todo' = todo \cup Page
    /\ observed' = Larger(observed, tip)
    /\ pc' = IF todo' = {} THEN "idle" ELSE "ingest"
    /\ stage' = "check" /\ high' = last
    /\ UNCHANGED <<tip, rows, last, status, applied, faults>>

FetchPage ==
    /\ pc = "fetch"
    /\ todo' = todo \cup Page
    /\ observed' = Larger(observed, tip)
    /\ pc' = IF Page # {} THEN "fetch" ELSE IF todo' = {} THEN "idle" ELSE "ingest"
    /\ stage' = "check" /\ high' = last
    /\ UNCHANGED <<tip, rows, last, status, applied, faults>>

-----------------------------------------------------------------------------
(* Ingesting one event                                                     *)

\* The event in hand, at the await called s.  Mutant: the newest comes first.
AtNewest(e, s) ==
    /\ pc = "ingest" /\ stage = s
    /\ e \in todo /\ \A f \in todo : e >= f

At(e, s) ==
    /\ pc = "ingest" /\ stage = s
    /\ e \in todo /\ \A f \in todo : e <= f

\* An event that was processed before is skipped.
\* Mutant: so is one whose row is merely there.
SkipLogged(e) ==
    /\ At(e, "check") /\ log[e] # "none"
    /\ todo' = todo \ {e} /\ high' = Larger(high, Ledger[e])
    /\ UNCHANGED <<tip, rows, memory, pc, stage, status, applied, faults>>

Skip(e) ==
    /\ At(e, "check") /\ log[e] = "processed"
    /\ todo' = todo \ {e} /\ high' = Larger(high, Ledger[e])
    /\ UNCHANGED <<tip, rows, memory, pc, stage, status, applied, faults>>

\* The row is inserted, or kept open.
LogEvent(e) ==
    /\ At(e, "check") /\ log[e] # "processed"
    /\ log' = [log EXCEPT ![e] = "open"]
    /\ stage' = "apply"
    /\ UNCHANGED <<tip, checkpoint, memory, pc, todo, high, status, applied, faults>>

\* applyEventStateTransition.
ApplyEvent(e) ==
    /\ At(e, "apply")
    /\ status' = After(Kind[e], status)
    /\ applied' = e
    /\ stage' = "insight"
    /\ UNCHANGED <<tip, rows, memory, pc, todo, high, faults>>

\* investorInsightsService.processEvent, where it is wired: rows keyed by the
\* event and alerts that carry an idempotency key.
ProcessInsight(e) ==
    /\ At(e, "insight")
    /\ stage' = "dispatch"
    /\ UNCHANGED <<tip, rows, memory, pc, todo, high, status, applied, faults>>

\* The event is done.
MarkProcessed(e) ==
    /\ At(e, "mark")
    /\ log' = [log EXCEPT ![e] = "processed"]
    /\ todo' = todo \ {e} /\ high' = Larger(high, Ledger[e])
    /\ stage' = "check"
    /\ UNCHANGED <<tip, checkpoint, memory, pc, status, applied, faults>>

\* After the last event the checkpoint moves to the latest observed ledger.
\* Mutant: to the ledger the next poll starts at.
SaveNext ==
    /\ pc = "ingest" /\ todo = {}
    /\ checkpoint' = Larger(high, observed) + 1
    /\ last' = Larger(high, observed) + 1
    /\ pc' = "idle"
    /\ UNCHANGED <<tip, log, observed, todo, stage, high, status, applied, faults>>

SaveCheckpoint ==
    /\ pc = "ingest" /\ todo = {}
    /\ checkpoint' = Larger(high, observed)
    /\ last' = Larger(high, observed)
    /\ pc' = "idle"
    /\ UNCHANGED <<tip, log, observed, todo, stage, high, status, applied, faults>>

-----------------------------------------------------------------------------
(* Failures                                                                *)

\* A request or a statement of the indexer fails: the poll ends, the fields
\* stay; when it is the checkpoint, every event of the batch has been counted.
\* While a projection has the event, nothing reaches the indexer.
\* Mutant: the field follows the events dealt with so far.
FailAhead ==
    /\ pc # "idle" /\ stage # "dispatch" /\ faults < MaxFaults
    /\ last' = IF pc = "ingest" THEN Larger(high, observed) ELSE last
    /\ pc' = "idle" /\ todo' = {} /\ stage' = "check"
    /\ faults' = faults + 1
    /\ UNCHANGED <<tip, rows, observed, high, status, applied>>

PollFails ==
    /\ pc # "idle" /\ stage # "dispatch" /\ faults < MaxFaults
    /\ last' = IF pc = "ingest" /\ todo = {} THEN high ELSE last
    /\ pc' = "idle" /\ todo' = {} /\ stage' = "check"
    /\ faults' = faults + 1
    /\ UNCHANGED <<tip, rows, observed, high, status, applied>>

\* The process crashes and is started again.
Crash ==
    /\ faults < MaxFaults
    /\ last' = 0 /\ observed' = 0
    /\ pc' = "idle" /\ todo' = {} /\ stage' = "check" /\ high' = 0
    /\ faults' = faults + 1
    /\ UNCHANGED <<tip, rows, status, applied>>

-----------------------------------------------------------------------------
Ingest ==
    \/ \E e \in todo :
          Skip(e) \/ LogEvent(e) \/ ApplyEvent(e) \/ ProcessInsight(e) \/ MarkProcessed(e)
    \/ SaveCheckpoint

\* What the indexer does by itself, without the projections.
IndexerNext == CloseLedger \/ Poll \/ FetchPage \/ Ingest \/ PollFails \/ Crash
-----------------------------------------------------------------------------
\* Nothing is passed over: every event up to the checkpoint, or up to the last
\* indexed ledger of the process, is processed (ingestEvents saves the
\* checkpoint after the batch, a failure leaves it where it was).
NothingSkipped ==
    \A e \in Event :
        Ledger[e] <= checkpoint \/ Ledger[e] <= last => log[e] = "processed"

\* Replays do no harm to the invoice: its status is the one the events of the
\* chain lead to, up to the newest that was applied.
StatusFollowsChain == status = StatusAfter[applied]

\* "Failed state updates remain unprocessed and are retried from their ledger
\* on the next poll" (docs/INDEXER.md): the next poll starts no later than
\* the ledger of an event that is logged and not processed.
FailedIsRetried ==
    \A e \in Event : log[e] = "open" => LastIndexedLedger < Ledger[e]
=============================================================================
