----------------------- MODULE NotificationDispatcher -----------------------
(***************************************************************************)
(* The queue of lifecycle notifications: lib/notification-dispatcher.ts,   *)
(* over the notifications table (createDedupedNotificationStore).          *)
(*                                                                         *)
(* Everything but the rows is in memory.  An event id names at most one    *)
(* job, so a job is its event id.  Which events are enqueued, and when, is *)
(* up to the module that extends this one.                                 *)
(***************************************************************************)
EXTENDS Integers, Sequences, FiniteSets

CONSTANTS
    Events,       \* the event ids
    Concurrency,  \* jobs that may run at a time
    MaxAttempts,  \* attempts before a job is dead-lettered
    MaxFaults     \* bound on failed deliveries and crashes

ASSUME DispatcherAssumption ==
    /\ IsFiniteSet(Events)
    /\ Concurrency \in Nat \ {0} /\ MaxAttempts \in Nat \ {0} /\ MaxFaults \in Nat

VARIABLES
    queue,     \* the jobs that wait for a slot, oldest first
    pending,   \* event ids queued, running or awaiting a retry
    running,   \* the jobs that occupy a slot
    retrying,  \* the jobs whose retry timer runs
    attempts,  \* attempts[e]: the attempts of the job of e, 0 if there is none
    wake,      \* a pump is deferred to the event loop (setImmediate)
    notified,  \* notified[e]: how often each recipient of e has its row
    dead,      \* the dead letters
    faults     \* faults so far

jobs == <<queue, pending, running, retrying, attempts, wake>>
dispatcherVars == <<jobs, notified, dead, faults>>

DispatcherTypeOK ==
    /\ queue \in Seq(Events)
    /\ pending \subseteq Events /\ running \subseteq Events /\ retrying \subseteq Events
    /\ attempts \in [Events -> 0 .. MaxAttempts] /\ wake \in BOOLEAN
    /\ notified \in [Events -> Nat]
    /\ dead \subseteq Events
    /\ faults \in 0 .. MaxFaults

DispatcherInit ==
    /\ queue = <<>> /\ pending = {} /\ running = {} /\ retrying = {}
    /\ attempts = [e \in Events |-> 0] /\ wake = FALSE
    /\ notified = [e \in Events |-> 0]
    /\ dead = {} /\ faults = 0

Queued(q) == {q[i] : i \in 1 .. Len(q)}

-----------------------------------------------------------------------------
\* enqueue: a no-op for an event that is pending.
\* Mutant: only the queue is looked at.
EnqueueUnqueued(e) ==
    /\ IF e \in Queued(queue) THEN UNCHANGED <<queue, pending, wake>>
       ELSE /\ pending' = pending \cup {e}
            /\ queue' = Append(queue, e)
            /\ wake' = TRUE
    /\ UNCHANGED <<attempts, running, retrying, notified, dead, faults>>

Enqueue(e) ==
    /\ IF e \in pending THEN UNCHANGED <<queue, pending, wake>>
       ELSE /\ pending' = pending \cup {e}
            /\ queue' = Append(queue, e)
            /\ wake' = TRUE
    /\ UNCHANGED <<attempts, running, retrying, notified, dead, faults>>

\* pump, when the jobs in q wait and those in r run: as many as there are free
\* slots start, and each start is an attempt.  A job that is not in p is over.
Starting(q, r) ==
    LET free == Concurrency - Cardinality(r)
    IN  {q[i] : i \in {j \in 1 .. Len(q) : j <= free}}

PumpFrom(q, r, p) ==
    /\ queue' = SubSeq(q, Cardinality(Starting(q, r)) + 1, Len(q))
    /\ running' = r \cup Starting(q, r)
    /\ pending' = p
    /\ attempts' = [e \in Events |-> IF e \notin p THEN 0
                                      ELSE attempts[e] + IF e \in Starting(q, r) THEN 1 ELSE 0]

\* The pump that enqueue defers to the event loop.
Pump ==
    /\ wake /\ wake' = FALSE
    /\ PumpFrom(queue, running, pending)
    /\ UNCHANGED <<retrying, notified, dead, faults>>

\* insertIgnoringDuplicates: one statement for all recipients, skipping the
\* rows whose dedupe key is there.  Mutant: they are not skipped.
StoredAgain(e) == [notified EXCEPT ![e] = @ + 1]

Stored(e) == [notified EXCEPT ![e] = IF @ = 0 THEN 1 ELSE @]

\* The rows are written, the job is done and its slot is free.
\* Mutant: the slot is not given to the next job.
DeliverIdly(e) ==
    /\ e \in running
    /\ notified' = Stored(e)
    /\ pending' = pending \ {e} /\ running' = running \ {e}
    /\ attempts' = [attempts EXCEPT ![e] = 0]
    /\ UNCHANGED <<queue, retrying, wake, dead, faults>>

Deliver(e) ==
    /\ e \in running
    /\ notified' = Stored(e)
    /\ PumpFrom(queue, running \ {e}, pending \ {e})
    /\ UNCHANGED <<retrying, wake, dead, faults>>

\* Whether a job that failed is not retried.  Mutant: one attempt too many.
SpentPast(e) == attempts[e] > MaxAttempts

Spent(e) == attempts[e] >= MaxAttempts

\* A delivery fails, before its rows are written or although they are: the job
\* is retried later, or dead-lettered after its last attempt.
FailDelivery(e) ==
    /\ e \in running /\ faults < MaxFaults
    /\ notified' \in {notified, Stored(e)}
    /\ IF Spent(e)
       THEN /\ dead' = dead \cup {e} /\ UNCHANGED retrying
            /\ PumpFrom(queue, running \ {e}, pending \ {e})
       ELSE /\ retrying' = retrying \cup {e} /\ UNCHANGED dead
            /\ PumpFrom(queue, running \ {e}, pending)
    /\ faults' = faults + 1 /\ UNCHANGED wake

\* The retry timer of a job fires.
Retry(e) ==
    /\ e \in retrying
    /\ retrying' = retrying \ {e}
    /\ PumpFrom(Append(queue, e), running, pending)
    /\ UNCHANGED <<wake, notified, dead, faults>>

\* The process dies: every job and the dead letters are gone.
LoseJobs ==
    /\ faults < MaxFaults
    /\ queue' = <<>> /\ pending' = {} /\ running' = {} /\ retrying' = {}
    /\ attempts' = [e \in Events |-> 0] /\ wake' = FALSE
    /\ dead' = {} /\ faults' = faults + 1
    /\ UNCHANGED notified

\* What the event loop does by itself.
Dispatching == Pump \/ \E e \in Events : Deliver(e) \/ Retry(e)
-----------------------------------------------------------------------------
\* The event ids that are pending are the jobs there are, each in one place;
\* no more run than there are slots, and none waits beside a free slot unless a
\* pump is on its way (run, its finally, the retry timer and enqueue share
\* these fields).
JobsAccounted ==
    /\ pending = Queued(queue) \cup running \cup retrying
    /\ Cardinality(pending) = Len(queue) + Cardinality(running) + Cardinality(retrying)
    /\ Cardinality(running) <= Concurrency
    /\ queue # <<>> /\ Cardinality(running) < Concurrency => wake
=============================================================================
