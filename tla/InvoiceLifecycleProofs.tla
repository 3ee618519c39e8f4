----------------------- MODULE InvoiceLifecycleProofs -----------------------
(***************************************************************************)
(* Proofs about InvoiceLifecycle and the NotificationDispatcher it feeds.  *)
(*                                                                         *)
(* JobsInv says where every job of the dispatcher is; each of its steps    *)
(* ends in a pump, which PumpFacts is about.  LifeInv says what a request  *)
(* that is between two of its statements has in its hands, and why an      *)
(* event is in the outbox, in a job or told.                               *)
(***************************************************************************)
EXTENDS InvoiceLifecycle, FiniteSetTheorems, SequenceTheorems, TLAPS

\* Where the jobs are, when q wait, r run, t await a retry, p are the pending
\* ids and a counts the attempts.
Placed(q, r, t, p, a) ==
    /\ q \in Seq(Events)
    /\ r \subseteq Events /\ t \subseteq Events
    /\ a \in [Events -> 0 .. MaxAttempts]
    /\ \A i, j \in 1 .. Len(q) : q[i] = q[j] => i = j
    /\ \A i \in 1 .. Len(q) : q[i] \notin r /\ q[i] \notin t
    /\ r \cap t = {}
    /\ p = Queued(q) \cup r \cup t
    /\ \A e \in Events \ r : e \in p => a[e] < MaxAttempts
    /\ Cardinality(r) <= Concurrency

NoAttempts(p, a) == \A e \in Events \ p : a[e] = 0

SlotsUsed(q, r) == q = <<>> \/ Cardinality(r) = Concurrency

JobsInv ==
    /\ DispatcherTypeOK
    /\ Placed(queue, running, retrying, pending, attempts)
    /\ NoAttempts(pending, attempts)
    /\ wake \/ SlotsUsed(queue, running)

-----------------------------------------------------------------------------
(* The dispatcher                                                          *)

LEMMA DispatcherConstants ==
  /\ IsFiniteSet(Events) /\ Concurrency \in Nat /\ Concurrency > 0
  /\ MaxAttempts \in Nat /\ MaxAttempts > 0 /\ MaxFaults \in Nat
BY DispatcherAssumption

LEMMA FiniteJobs ==
  ASSUME NEW r \in SUBSET Events
  PROVE  IsFiniteSet(r) /\ Cardinality(r) \in Nat
BY DispatcherConstants, FS_Subset, FS_CardinalityType

\* The first k jobs of a queue without repetitions are k jobs.
LEMMA FirstJobs ==
  ASSUME NEW q \in Seq(Events), NEW k \in 0 .. Len(q),
         \A i, j \in 1 .. Len(q) : q[i] = q[j] => i = j
  PROVE  /\ IsFiniteSet({q[i] : i \in 1 .. k})
         /\ Cardinality({q[i] : i \in 1 .. k}) = k
<1> DEFINE S == {q[i] : i \in 1 .. k}
           f == [i \in 1 .. k |-> q[i]]
<1>1. Len(q) \in Nat /\ k \in Nat /\ 1 .. k \subseteq 1 .. Len(q)
  BY LenProperties
<1>2. f \in Bijection(1 .. k, S)
  BY <1>1 DEF Bijection, Injection, Surjection, IsInjective
<1>3. ExistsBijection(1 .. k, S)
  BY <1>2 DEF ExistsBijection
<1>4. Cardinality(S) = k
  BY <1>1, <1>3, FS_CountingElements
<1>5. IsFiniteSet(S)
  BY <1>1, <1>3, FS_NatBijection
<1> QED BY <1>4, <1>5

\* What starts is the head of the queue, as long as there are slots.
LEMMA StartingFacts ==
  ASSUME NEW q \in Seq(Events), NEW r \in SUBSET Events,
         \A i, j \in 1 .. Len(q) : q[i] = q[j] => i = j,
         Cardinality(r) <= Concurrency
  PROVE  \E k \in 0 .. Len(q) :
            /\ Starting(q, r) = {q[i] : i \in 1 .. k}
            /\ Cardinality(Starting(q, r)) = k
            /\ IsFiniteSet(Starting(q, r))
            /\ k <= Concurrency - Cardinality(r)
            /\ k = Len(q) \/ k = Concurrency - Cardinality(r)
<1> DEFINE free == Concurrency - Cardinality(r)
           k == IF free <= Len(q) THEN free ELSE Len(q)
<1>1. Len(q) \in Nat /\ free \in Nat
  BY LenProperties, FiniteJobs, DispatcherConstants
<1>2. k \in 0 .. Len(q) /\ k <= free /\ (k = Len(q) \/ k = free)
  BY <1>1
<1>3. {j \in 1 .. Len(q) : j <= free} = 1 .. k
  BY <1>1
<1>4. Starting(q, r) = {q[i] : i \in 1 .. k}
  BY <1>3 DEF Starting
<1> HIDE DEF k, free
<1>5. IsFiniteSet(Starting(q, r)) /\ Cardinality(Starting(q, r)) = k
  BY <1>2, <1>4, FirstJobs
<1> QED BY <1>2, <1>4, <1>5 DEF free

\* A pump leaves every job in one place, and no slot free while a job waits.
LEMMA PumpFacts ==
  ASSUME NEW q, NEW r, NEW t, NEW p,
         Placed(q, r, t, p, attempts), PumpFrom(q, r, p)
  PROVE  /\ Placed(queue', running', t, pending', attempts')
         /\ NoAttempts(pending', attempts')
         /\ SlotsUsed(queue', running')
<1>1. q \in Seq(Events) /\ r \in SUBSET Events /\ t \in SUBSET Events
  BY DEF Placed
<1>2. PICK k \in 0 .. Len(q) :
            /\ Starting(q, r) = {q[i] : i \in 1 .. k}
            /\ Cardinality(Starting(q, r)) = k
            /\ IsFiniteSet(Starting(q, r))
            /\ k <= Concurrency - Cardinality(r)
            /\ k = Len(q) \/ k = Concurrency - Cardinality(r)
  BY <1>1, StartingFacts DEF Placed
<1> DEFINE S == Starting(q, r)
<1>3. Len(q) \in Nat /\ q \in [1 .. Len(q) -> Events] /\ k \in Nat /\ k <= Len(q)
  BY <1>1, <1>2, LenProperties
<1>4. queue' = SubSeq(q, k + 1, Len(q))
  BY <1>2 DEF PumpFrom
<1>5. /\ queue' \in Seq(Events)
      /\ Len(queue') = Len(q) - k
      /\ \A i \in 1 .. Len(q) - k : queue'[i] = q[k + i]
  <2>1. \A i \in k + 1 .. Len(q) : q[i] \in Events
    BY <1>3
  <2>2. /\ SubSeq(q, k + 1, Len(q)) \in Seq(Events)
        /\ Len(SubSeq(q, k + 1, Len(q))) = IF k + 1 <= Len(q) THEN Len(q) - (k + 1) + 1 ELSE 0
        /\ \A i \in 1 .. Len(q) - (k + 1) + 1 : SubSeq(q, k + 1, Len(q))[i] = q[k + 1 + i - 1]
    BY <1>3, <2>1, SubSeqProperties
  <2> QED BY <1>3, <1>4, <2>2
<1>6. running' = r \cup S /\ pending' = p /\ S \subseteq Events /\ r \cap S = {} /\ t \cap S = {}
  BY <1>2, <1>3 DEF PumpFrom, Placed
<1>7. Cardinality(running') = Cardinality(r) + k /\ Cardinality(r) \in Nat
  <2>1. IsFiniteSet(r) /\ Cardinality(r) \in Nat
    BY <1>1, FiniteJobs
  <2>2. Cardinality(r \cup S) = Cardinality(r) + Cardinality(S) - Cardinality(r \cap S)
    BY <1>2, <2>1, FS_Union
  <2>3. Cardinality(r \cap S) = 0
    BY <1>6, FS_EmptySet
  <2> QED BY <1>2, <1>3, <1>6, <2>1, <2>2, <2>3
<1>8. Queued(q) = Queued(queue') \cup S
  <2>1. ASSUME NEW i \in 1 .. Len(q)
        PROVE  q[i] \in Queued(queue') \cup S
    <3>1. CASE i <= k
      BY <1>2, <1>3, <3>1
    <3>2. CASE i > k
      <4>1. i - k \in 1 .. Len(queue') /\ queue'[i - k] = q[k + (i - k)] /\ k + (i - k) = i
        BY <1>3, <1>5, <3>2
      <4> QED BY <4>1 DEF Queued
    <3> QED BY <1>3, <3>1, <3>2
  <2>2. ASSUME NEW i \in 1 .. Len(queue')
        PROVE  queue'[i] \in Queued(q)
    <3>1. k + i \in 1 .. Len(q) /\ queue'[i] = q[k + i]
      BY <1>3, <1>5
    <3> QED BY <3>1 DEF Queued
  <2>3. S \subseteq Queued(q)
    <3>1. \A i \in 1 .. k : i \in 1 .. Len(q)
      BY <1>3
    <3>2. \A i \in 1 .. k : q[i] \in Queued(q)
      BY <3>1 DEF Queued
    <3> QED BY <1>2, <3>2
  <2>4. Queued(q) \subseteq Queued(queue') \cup S
    BY <2>1 DEF Queued
  <2>5. Queued(queue') \subseteq Queued(q)
    BY <2>2 DEF Queued
  <2> QED BY <2>3, <2>4, <2>5
<1>9. \A i, j \in 1 .. Len(queue') : queue'[i] = queue'[j] => i = j
  <2> TAKE i, j \in 1 .. Len(queue')
  <2> HAVE queue'[i] = queue'[j]
  <2>1. k + i \in 1 .. Len(q) /\ k + j \in 1 .. Len(q) /\ q[k + i] = q[k + j]
    BY <1>3, <1>5
  <2>2. k + i = k + j
    BY <2>1 DEF Placed
  <2> QED BY <1>3, <1>5, <2>2
<1>10. \A i \in 1 .. Len(queue') : queue'[i] \notin running' /\ queue'[i] \notin t
  <2> TAKE i \in 1 .. Len(queue')
  <2>1. k + i \in 1 .. Len(q) /\ queue'[i] = q[k + i] /\ i > 0 /\ i \in Nat
    BY <1>3, <1>5
  <2>2. q[k + i] \notin r /\ q[k + i] \notin t
    BY <2>1 DEF Placed
  <2>3. q[k + i] \notin S
    <3> SUFFICES ASSUME NEW j \in 1 .. k, q[j] = q[k + i]
                 PROVE  FALSE
      BY <1>2
    <3>1. j \in 1 .. Len(q) /\ j = k + i
      BY <1>3, <2>1 DEF Placed
    <3> QED BY <1>3, <2>1, <3>1
  <2> QED BY <1>6, <2>1, <2>2, <2>3
<1>11. /\ attempts' = [e \in Events |-> IF e \notin p THEN 0
                                        ELSE attempts[e] + IF e \in S THEN 1 ELSE 0]
       /\ attempts \in [Events -> 0 .. MaxAttempts]
       /\ \A e \in Events \ r : e \in p => attempts[e] < MaxAttempts
       /\ p = Queued(q) \cup r \cup t
  BY DEF PumpFrom, Placed
<1>12. /\ attempts' \in [Events -> 0 .. MaxAttempts]
       /\ \A e \in Events \ running' : e \in p => attempts'[e] < MaxAttempts
       /\ \A e \in Events \ p : attempts'[e] = 0
  <2>1. ASSUME NEW e \in Events
        PROVE  /\ attempts'[e] \in 0 .. MaxAttempts
               /\ e \notin running' /\ e \in p => attempts'[e] < MaxAttempts
               /\ e \notin p => attempts'[e] = 0
    BY <1>6, <1>11, DispatcherConstants
  <2> QED BY <1>11, <2>1
<1>13. p = Queued(queue') \cup running' \cup t
  BY <1>6, <1>8, <1>11
<1>14. running' \cap t = {} /\ running' \subseteq Events
  BY <1>1, <1>6 DEF Placed
<1>15. Cardinality(running') <= Concurrency
  BY <1>2, <1>3, <1>7, DispatcherConstants
<1>16. SlotsUsed(queue', running')
  <2>1. CASE k = Len(q)
    <3>1. Len(queue') = 0
      BY <1>3, <1>5, <2>1
    <3> QED BY <1>5, <3>1, EmptySeq DEF SlotsUsed
  <2>2. CASE k = Concurrency - Cardinality(r)
    BY <1>3, <1>7, <2>2, DispatcherConstants DEF SlotsUsed
  <2> QED BY <1>2, <2>1, <2>2
<1> QED
  BY <1>1, <1>5, <1>6, <1>9, <1>10, <1>12, <1>13, <1>14, <1>15, <1>16 DEF Placed, NoAttempts

LEMMA StoredType ==
  ASSUME notified \in [Events -> Nat], NEW e \in Events
  PROVE  Stored(e) \in [Events -> Nat]
BY DEF Stored

\* A pump also keeps the types.
LEMMA PumpType ==
  ASSUME NEW q, NEW r, NEW t, NEW p,
         Placed(q, r, t, p, attempts), PumpFrom(q, r, p), t = retrying',
         notified' \in [Events -> Nat], dead' \subseteq Events, faults' \in 0 .. MaxFaults,
         wake' \in BOOLEAN
  PROVE  JobsInv'
<1>1. Placed(queue', running', retrying', pending', attempts')
      /\ NoAttempts(pending', attempts') /\ SlotsUsed(queue', running')
  BY PumpFacts
<1>2. pending' \subseteq Events
  <2>1. \A i \in 1 .. Len(queue') : queue'[i] \in Events
    BY <1>1, ElementOfSeq DEF Placed
  <2> QED BY <1>1, <2>1 DEF Placed, Queued
<1> QED BY <1>1, <1>2 DEF JobsInv, DispatcherTypeOK, Placed

LEMMA JobsStart == DispatcherInit => JobsInv
<1> SUFFICES ASSUME DispatcherInit
             PROVE  JobsInv
  OBVIOUS
<1>1. queue \in Seq(Events) /\ Len(queue) = 0
  BY EmptySeq DEF DispatcherInit
<1>2. Cardinality(running) = 0
  BY FS_EmptySet DEF DispatcherInit
<1>3. 0 \in 0 .. MaxAttempts /\ 0 \in 0 .. MaxFaults /\ 0 <= Concurrency
  BY DispatcherConstants
<1>4. Queued(queue) = {}
  BY <1>1 DEF Queued
<1>5. attempts \in [Events -> 0 .. MaxAttempts] /\ \A e \in Events : attempts[e] = 0
  BY <1>3 DEF DispatcherInit
<1>6. Placed(queue, running, retrying, pending, attempts)
  <2>1. /\ running = {} /\ retrying = {} /\ pending = {}
        /\ \A i \in 1 .. Len(queue) : FALSE
    BY <1>1 DEF DispatcherInit
  <2>2. Cardinality(running) <= Concurrency
    BY <1>2, <1>3
  <2>3. pending = Queued(queue) \cup running \cup retrying /\ running \cap retrying = {}
    BY <1>4, <2>1
  <2>4. \A i, j \in 1 .. Len(queue) : queue[i] = queue[j] => i = j
    BY <2>1
  <2>5. \A i \in 1 .. Len(queue) : queue[i] \notin running /\ queue[i] \notin retrying
    BY <2>1
  <2>6. /\ running \subseteq Events /\ retrying \subseteq Events
        /\ \A e \in Events \ running : e \in pending => attempts[e] < MaxAttempts
    BY <2>1
  <2> QED BY <1>1, <1>5, <2>2, <2>3, <2>4, <2>5, <2>6 DEF Placed
<1>7. DispatcherTypeOK /\ queue = <<>>
  BY <1>1, <1>3, <1>5 DEF DispatcherInit, DispatcherTypeOK
<1> QED BY <1>5, <1>6, <1>7 DEF JobsInv, SlotsUsed, NoAttempts

LEMMA EnqueueKeepsJobs ==
  ASSUME JobsInv, NEW e \in Events, Enqueue(e)
  PROVE  JobsInv'
<1>1. CASE e \in pending
  BY <1>1 DEF Enqueue, JobsInv, DispatcherTypeOK, Placed, SlotsUsed, Queued, NoAttempts
<1>2. CASE e \notin pending
  <2>1. queue \in Seq(Events) /\ Len(queue) \in Nat
    BY LenProperties DEF JobsInv, Placed
  <2>2. /\ queue' = Append(queue, e) /\ pending' = pending \cup {e} /\ wake' = TRUE
        /\ UNCHANGED <<attempts, running, retrying, notified, dead, faults>>
    BY <1>2 DEF Enqueue
  <2>3. /\ queue' \in Seq(Events)
        /\ Len(queue') = Len(queue) + 1
        /\ \A i \in 1 .. Len(queue) : queue'[i] = queue[i]
        /\ queue'[Len(queue) + 1] = e
    BY <2>1, <2>2, AppendProperties
  <2>4. \A i \in 1 .. Len(queue') : i \in 1 .. Len(queue) \/ i = Len(queue) + 1
    BY <2>1, <2>3
  <2>5. \A i \in 1 .. Len(queue) : queue[i] \in pending
    BY DEF JobsInv, Placed, Queued
  <2>6. \A i, j \in 1 .. Len(queue') : queue'[i] = queue'[j] => i = j
    BY <1>2, <2>3, <2>4, <2>5 DEF JobsInv, Placed
  <2>7. \A i \in 1 .. Len(queue') : queue'[i] \notin running /\ queue'[i] \notin retrying
    BY <1>2, <2>3, <2>4 DEF JobsInv, Placed
  <2>8. Queued(queue') = Queued(queue) \cup {e}
    <3>1. \A i \in 1 .. Len(queue') : queue'[i] \in Queued(queue) \cup {e}
      BY <2>3, <2>4 DEF Queued
    <3>2. \A i \in 1 .. Len(queue) : i \in 1 .. Len(queue') /\ queue[i] = queue'[i]
      BY <2>1, <2>3
    <3>3. \A i \in 1 .. Len(queue) : queue[i] \in Queued(queue')
      BY <3>2 DEF Queued
    <3>4. e \in Queued(queue')
      <4>1. Len(queue) + 1 \in 1 .. Len(queue')
        BY <2>1, <2>3
      <4> QED BY <4>1, <2>3 DEF Queued
    <3>5. Queued(queue') \subseteq Queued(queue) \cup {e}
      BY <3>1 DEF Queued
    <3>6. Queued(queue) \subseteq Queued(queue')
      BY <3>3 DEF Queued
    <3> QED BY <3>4, <3>5, <3>6
  <2>9. attempts[e] < MaxAttempts
    BY <1>2, DispatcherConstants DEF JobsInv, NoAttempts
  <2>10. Placed(queue', running', retrying', pending', attempts')
    BY <2>2, <2>3, <2>6, <2>7, <2>8, <2>9 DEF JobsInv, Placed
  <2> QED BY <2>2, <2>3, <2>10 DEF JobsInv, DispatcherTypeOK, NoAttempts
<1> QED BY <1>1, <1>2

LEMMA PumpKeepsJobs ==
  ASSUME JobsInv, Pump
  PROVE  JobsInv'
<1>1. Placed(queue, running, retrying, pending, attempts) /\ PumpFrom(queue, running, pending)
  BY DEF JobsInv, Pump
<1>2. /\ retrying = retrying' /\ notified' \in [Events -> Nat] /\ dead' \subseteq Events
      /\ faults' \in 0 .. MaxFaults /\ wake' \in BOOLEAN
  BY DEF JobsInv, DispatcherTypeOK, Pump
<1> QED BY <1>1, <1>2, PumpType

\* A job that gives up its slot leaves the others where they are.
LEMMA SlotFreed ==
  ASSUME JobsInv, NEW e \in running
  PROVE  /\ e \in Events /\ running \ {e} \subseteq Events
         /\ Cardinality(running \ {e}) <= Concurrency
         /\ \A i \in 1 .. Len(queue) : queue[i] # e
         /\ e \notin Queued(queue) /\ e \notin retrying
<1>1. running \in SUBSET Events /\ e \in Events
  BY DEF JobsInv, Placed
<1>2. Cardinality(running) \in Nat /\ Cardinality(running \ {e}) = Cardinality(running) - 1
  BY <1>1, FiniteJobs, FS_RemoveElement
<1>3. Cardinality(running) <= Concurrency
  BY DEF JobsInv, Placed
<1>4. \A i \in 1 .. Len(queue) : queue[i] # e
  BY DEF JobsInv, Placed
<1> QED BY <1>1, <1>2, <1>3, <1>4, DispatcherConstants DEF JobsInv, Placed, Queued

\* It is over.
LEMMA JobOver ==
  ASSUME JobsInv, NEW e \in running
  PROVE  Placed(queue, running \ {e}, retrying, pending \ {e}, attempts)
<1>1. pending \ {e} = Queued(queue) \cup (running \ {e}) \cup retrying
  BY SlotFreed DEF JobsInv, Placed
<1>2. \A x \in Events \ (running \ {e}) : x \in pending \ {e} => attempts[x] < MaxAttempts
  BY DEF JobsInv, Placed
<1>3. /\ queue \in Seq(Events) /\ retrying \subseteq Events
      /\ attempts \in [Events -> 0 .. MaxAttempts]
      /\ \A i, j \in 1 .. Len(queue) : queue[i] = queue[j] => i = j
      /\ \A i \in 1 .. Len(queue) : queue[i] \notin running \ {e} /\ queue[i] \notin retrying
      /\ (running \ {e}) \cap retrying = {}
  BY DEF JobsInv, Placed
<1> QED BY <1>1, <1>2, <1>3, SlotFreed DEF Placed

\* It waits for its retry timer.
LEMMA JobWaits ==
  ASSUME JobsInv, NEW e \in running, ~ Spent(e)
  PROVE  Placed(queue, running \ {e}, retrying \cup {e}, pending, attempts)
<1>1. pending = Queued(queue) \cup (running \ {e}) \cup (retrying \cup {e})
  BY DEF JobsInv, Placed
<1>2. attempts[e] < MaxAttempts
  BY SlotFreed, DispatcherConstants DEF JobsInv, Placed, Spent
<1>3. \A x \in Events \ (running \ {e}) : x \in pending => attempts[x] < MaxAttempts
  BY <1>2 DEF JobsInv, Placed
<1>4. /\ queue \in Seq(Events) /\ retrying \cup {e} \subseteq Events
      /\ attempts \in [Events -> 0 .. MaxAttempts]
      /\ \A i, j \in 1 .. Len(queue) : queue[i] = queue[j] => i = j
      /\ \A i \in 1 .. Len(queue) :
            queue[i] \notin running \ {e} /\ queue[i] \notin retrying \cup {e}
      /\ (running \ {e}) \cap (retrying \cup {e}) = {}
  BY SlotFreed DEF JobsInv, Placed
<1> QED BY <1>1, <1>3, <1>4, SlotFreed DEF Placed

LEMMA DeliverKeepsJobs ==
  ASSUME JobsInv, NEW e \in Events, Deliver(e)
  PROVE  JobsInv'
<1>1. e \in running /\ PumpFrom(queue, running \ {e}, pending \ {e})
  BY DEF Deliver
<1>2. Placed(queue, running \ {e}, retrying, pending \ {e}, attempts)
  BY <1>1, JobOver
<1>3. Stored(e) \in [Events -> Nat]
  BY StoredType DEF JobsInv, DispatcherTypeOK
<1>4. /\ retrying = retrying' /\ notified' \in [Events -> Nat] /\ dead' \subseteq Events
      /\ faults' \in 0 .. MaxFaults /\ wake' \in BOOLEAN
  BY <1>3 DEF JobsInv, DispatcherTypeOK, Deliver
<1> QED BY <1>1, <1>2, <1>4, PumpType

LEMMA FailKeepsJobs ==
  ASSUME JobsInv, NEW e \in Events, FailDelivery(e)
  PROVE  JobsInv'
<1>1. e \in running /\ faults < MaxFaults /\ faults' = faults + 1 /\ wake' = wake
      /\ notified' \in {notified, Stored(e)}
  BY DEF FailDelivery
<1>2. Stored(e) \in [Events -> Nat]
  BY StoredType DEF JobsInv, DispatcherTypeOK
<1>3. /\ notified' \in [Events -> Nat]
      /\ faults' \in 0 .. MaxFaults /\ wake' \in BOOLEAN
  BY <1>1, <1>2, DispatcherConstants DEF JobsInv, DispatcherTypeOK
<1>4. CASE Spent(e)
  <2>1. /\ retrying = retrying' /\ dead' \subseteq Events
        /\ PumpFrom(queue, running \ {e}, pending \ {e})
    BY <1>4 DEF JobsInv, DispatcherTypeOK, FailDelivery
  <2>2. Placed(queue, running \ {e}, retrying, pending \ {e}, attempts)
    BY <1>1, JobOver
  <2> QED BY <1>3, <2>1, <2>2, PumpType
<1>5. CASE ~ Spent(e)
  <2>1. /\ retrying' = retrying \cup {e} /\ dead' \subseteq Events
        /\ PumpFrom(queue, running \ {e}, pending)
    BY <1>5 DEF JobsInv, DispatcherTypeOK, FailDelivery
  <2>2. Placed(queue, running \ {e}, retrying \cup {e}, pending, attempts)
    BY <1>1, <1>5, JobWaits
  <2> QED BY <1>3, <2>1, <2>2, PumpType
<1> QED BY <1>4, <1>5

LEMMA RetryKeepsJobs ==
  ASSUME JobsInv, NEW e \in Events, Retry(e)
  PROVE  JobsInv'
<1> DEFINE q == Append(queue, e)
           t == retrying \ {e}
<1>1. /\ e \in retrying /\ PumpFrom(q, running, pending)
      /\ t = retrying' /\ notified' \in [Events -> Nat] /\ dead' \subseteq Events
      /\ faults' \in 0 .. MaxFaults /\ wake' \in BOOLEAN
  BY DEF JobsInv, DispatcherTypeOK, Retry
<1>2. queue \in Seq(Events) /\ Len(queue) \in Nat
  BY LenProperties DEF JobsInv, Placed
<1>3. /\ q \in Seq(Events)
      /\ Len(q) = Len(queue) + 1
      /\ \A i \in 1 .. Len(queue) : q[i] = queue[i]
      /\ q[Len(queue) + 1] = e
  BY <1>2, AppendProperties
<1>4. \A i \in 1 .. Len(q) : i \in 1 .. Len(queue) \/ i = Len(queue) + 1
  BY <1>2, <1>3
<1>5. \A i \in 1 .. Len(queue) : queue[i] # e
  BY <1>1 DEF JobsInv, Placed
<1> HIDE DEF q
<1>6. \A i, j \in 1 .. Len(q) : q[i] = q[j] => i = j
  BY <1>3, <1>4, <1>5 DEF JobsInv, Placed
<1>7. e \notin running
  BY <1>1 DEF JobsInv, Placed
<1>8. \A i \in 1 .. Len(q) : q[i] \notin running /\ q[i] \notin t
  <2> TAKE i \in 1 .. Len(q)
  <2>1. CASE i \in 1 .. Len(queue)
    BY <1>3, <2>1 DEF JobsInv, Placed
  <2>2. CASE i = Len(queue) + 1
    BY <1>3, <1>7, <2>2
  <2> QED BY <1>4, <2>1, <2>2
<1>9. Queued(q) = Queued(queue) \cup {e}
  <2>1. \A i \in 1 .. Len(q) : q[i] \in Queued(queue) \cup {e}
    BY <1>3, <1>4 DEF Queued
  <2>2. \A i \in 1 .. Len(queue) : i \in 1 .. Len(q) /\ queue[i] = q[i]
    BY <1>2, <1>3
  <2>3. \A i \in 1 .. Len(queue) : queue[i] \in Queued(q)
    BY <2>2 DEF Queued
  <2>4. e \in Queued(q)
    <3>1. Len(queue) + 1 \in 1 .. Len(q)
      BY <1>2, <1>3
    <3> QED BY <3>1, <1>3 DEF Queued
  <2>5. Queued(q) \subseteq Queued(queue) \cup {e}
    BY <2>1 DEF Queued
  <2>6. Queued(queue) \subseteq Queued(q)
    BY <2>3 DEF Queued
  <2> QED BY <2>4, <2>5, <2>6
<1>10. pending = Queued(q) \cup running \cup t
  <2>1. pending = Queued(queue) \cup running \cup retrying
    BY DEF JobsInv, Placed
  <2> QED BY <1>1, <1>9, <2>1
<1>11. Placed(q, running, t, pending, attempts)
  BY <1>3, <1>6, <1>8, <1>10 DEF JobsInv, Placed
<1> QED BY <1>1, <1>11, PumpType

LEMMA LoseKeepsJobs ==
  ASSUME JobsInv, LoseJobs
  PROVE  JobsInv'
<1>1. /\ queue' \in Seq(Events) /\ Len(queue') = 0 /\ queue' = <<>>
      /\ running' = {} /\ retrying' = {} /\ pending' = {}
  BY EmptySeq DEF LoseJobs
<1>2. Cardinality(running') <= Concurrency
  BY <1>1, FS_EmptySet, DispatcherConstants
<1>3. attempts' \in [Events -> 0 .. MaxAttempts] /\ \A e \in Events : attempts'[e] = 0
  BY DispatcherConstants DEF LoseJobs
<1>4. Queued(queue') = {} /\ \A i \in 1 .. Len(queue') : FALSE
  BY <1>1 DEF Queued
<1>5. Placed(queue', running', retrying', pending', attempts')
  <2>1. pending' = Queued(queue') \cup running' \cup retrying' /\ running' \cap retrying' = {}
    BY <1>1, <1>4
  <2>2. /\ \A i, j \in 1 .. Len(queue') : queue'[i] = queue'[j] => i = j
        /\ \A i \in 1 .. Len(queue') : queue'[i] \notin running' /\ queue'[i] \notin retrying'
    BY <1>4
  <2>3. /\ running' \subseteq Events /\ retrying' \subseteq Events
        /\ \A e \in Events \ running' : e \in pending' => attempts'[e] < MaxAttempts
    BY <1>1
  <2> QED BY <1>1, <1>2, <1>3, <2>1, <2>2, <2>3 DEF Placed
<1>6. faults' \in 0 .. MaxFaults /\ notified' \in [Events -> Nat] /\ dead' = {} /\ wake' = FALSE
  BY DispatcherConstants DEF JobsInv, DispatcherTypeOK, LoseJobs
<1> QED BY <1>1, <1>3, <1>5, <1>6 DEF JobsInv, DispatcherTypeOK, SlotsUsed, NoAttempts

\* JobsInv says of the numbers of jobs what JobsAccounted does.
LEMMA JobsCounted == JobsInv => JobsAccounted
<1> SUFFICES ASSUME JobsInv
             PROVE  JobsAccounted
  OBVIOUS
<1>1. queue \in Seq(Events) /\ Len(queue) \in Nat
  BY LenProperties DEF JobsInv, Placed
<1>2. IsFiniteSet(Queued(queue)) /\ Cardinality(Queued(queue)) = Len(queue)
  <2>1. Len(queue) \in 0 .. Len(queue)
    BY <1>1
  <2> QED BY <1>1, <2>1, FirstJobs DEF JobsInv, Placed, Queued
<1>3. /\ IsFiniteSet(running) /\ Cardinality(running) \in Nat
      /\ IsFiniteSet(retrying) /\ Cardinality(retrying) \in Nat
  BY FiniteJobs DEF JobsInv, Placed
<1>4. Queued(queue) \cap running = {} /\ (Queued(queue) \cup running) \cap retrying = {}
  <2>1. \A x \in Queued(queue) : x \notin running /\ x \notin retrying
    BY DEF Queued, JobsInv, Placed
  <2> QED BY <2>1 DEF JobsInv, Placed
<1>5. /\ IsFiniteSet(Queued(queue) \cup running)
      /\ Cardinality(Queued(queue) \cup running) = Len(queue) + Cardinality(running)
  <2>1. Cardinality(Queued(queue) \cap running) = 0
    BY <1>4, FS_EmptySet
  <2>2. /\ IsFiniteSet(Queued(queue) \cup running)
        /\ Cardinality(Queued(queue) \cup running) =
              Cardinality(Queued(queue)) + Cardinality(running) - Cardinality(Queued(queue) \cap running)
    BY <1>2, <1>3, FS_Union
  <2> QED BY <1>1, <1>2, <1>3, <2>1, <2>2
<1>6. Cardinality(pending) = Len(queue) + Cardinality(running) + Cardinality(retrying)
  <2>1. Cardinality((Queued(queue) \cup running) \cap retrying) = 0
    BY <1>4, FS_EmptySet
  <2>2. Cardinality((Queued(queue) \cup running) \cup retrying) =
           Cardinality(Queued(queue) \cup running) + Cardinality(retrying)
           - Cardinality((Queued(queue) \cup running) \cap retrying)
    BY <1>3, <1>5, FS_Union
  <2>3. pending = (Queued(queue) \cup running) \cup retrying
    BY DEF JobsInv, Placed
  <2> QED BY <1>1, <1>3, <1>5, <2>1, <2>2, <2>3
<1>7. pending = Queued(queue) \cup running \cup retrying /\ Cardinality(running) <= Concurrency
  BY DEF JobsInv, Placed
<1>8. queue # <<>> /\ Cardinality(running) < Concurrency => wake
  BY <1>3, DispatcherConstants DEF JobsInv, DispatcherTypeOK, SlotsUsed
<1> QED BY <1>6, <1>7, <1>8 DEF JobsAccounted

-----------------------------------------------------------------------------
(* The invoices                                                            *)

\* A request that is under way has all its invoices, and those of an edit are
\* drafts.
LifeInv ==
    /\ TypeOK
    /\ seen \in [Calls -> PartOf(Invoices)]
    /\ \A c \in Calls : pc[c] \in Ops => DOMAIN seen[c] = On[pc[c]]
    /\ \A c \in Calls : pc[c] \in Edits => \A i \in DOMAIN seen[c] : seen[c][i].status = "DRAFT"

\* Transitions are only added.
HistoryGrows ==
    \A i \in Invoices :
        /\ Len(history[i]) <= Len(history'[i])
        /\ \A k \in 1 .. Len(history[i]) : history'[i][k] = history[i][k]

LEMMA LifeConstants ==
  /\ May \in [Calls -> SUBSET Ops]
  /\ On \in [Ops -> SUBSET Invoices]
  /\ Ready \in BOOLEAN
  /\ \A e \in Events : e[1] \in Invoices
  /\ \A i \in Invoices, x \in {"approved", "rejected", "funded"} : <<i, x>> \in Events
  /\ MaxReviews \in Nat
<1>1. /\ May \in [Calls -> SUBSET Ops] /\ On \in [Ops -> (SUBSET Invoices) \ {{}}]
      /\ Ready \in BOOLEAN /\ Events = Invoices \X {"approved", "rejected", "funded"}
      /\ MaxReviews \in Nat
  BY LifecycleAssumption
<1>2. On \in [Ops -> SUBSET Invoices]
  BY <1>1
<1> QED BY <1>1, <1>2

LEMMA PartFacts ==
  ASSUME NEW x
  PROVE  /\ x \in PartOf(Invoices) => DOMAIN x \in SUBSET Invoices /\ x \in [DOMAIN x -> Rows]
         /\ \A T \in SUBSET Invoices : x \in [T -> Rows] => x \in PartOf(Invoices)
<1>1. ASSUME x \in PartOf(Invoices)
      PROVE  DOMAIN x \in SUBSET Invoices /\ x \in [DOMAIN x -> Rows]
  <2>1. PICK T \in SUBSET Invoices : x \in [T -> Rows]
    BY <1>1 DEF PartOf
  <2> QED BY <2>1
<1>2. ASSUME NEW T \in SUBSET Invoices, x \in [T -> Rows]
      PROVE  x \in PartOf(Invoices)
  BY <1>2 DEF PartOf
<1> QED BY <1>1, <1>2

LEMMA NoRowsFacts == NoRows \in PartOf(Invoices) /\ DOMAIN NoRows = {}
<1>1. DOMAIN NoRows = {} /\ NoRows \in [{} -> Rows]
  BY DEF NoRows
<1> QED BY <1>1, PartFacts

LEMMA ChangedFacts ==
  ASSUME NEW op \in Ops, NEW r \in Rows
  PROVE  /\ Changed(op, r) \in Rows
         /\ Changed(op, r).status = IF op \in Edits THEN r.status ELSE Goal(op)
<1>1. CASE op = "update"
  BY <1>1, LifeConstants DEF Changed, Updated, Rows, Edits
<1>2. CASE op = "delete"
  BY <1>2 DEF Changed, Deleted, Rows, Edits
<1>3. CASE op \notin Edits
  <2>1. Goal(op) \in Statuses
    BY <1>3 DEF Goal, Ops, Unrecorded, Indexed, Edits, Statuses
  <2>2. Changed(op, r) = [r EXCEPT !.status = Goal(op)]
    BY <1>3 DEF Changed, Edits
  <2> QED BY <1>3, <2>1, <2>2 DEF Rows
<1> QED BY <1>1, <1>2, <1>3 DEF Edits

LEMMA WrittenFacts ==
  ASSUME NEW e \in Rows, NEW b \in Rows, NEW r \in Rows
  PROVE  /\ Written(e, b, r) \in Rows
         /\ Written(e, b, r).status = IF e.status # b.status THEN e.status ELSE r.status
BY DEF Written, Rows

LEMMA EntryFacts ==
  ASSUME NEW op \in Ops \cup {"invest"}, op \notin Unrecorded, NEW r \in Rows
  PROVE  /\ Entry(op, r) \in Transitions
         /\ Entry(op, r).from = r.status /\ Entry(op, r).to = Goal(op) /\ Entry(op, r).by = op
<1>1. Goal(op) \in Statuses
  BY DEF Goal, Ops, Unrecorded, Edits, Statuses
<1> QED BY <1>1 DEF Entry, Transitions, Rows

LEMMA EventsOfFacts ==
  ASSUME NEW op \in Ops \cup {"invest"}, NEW S \in SUBSET Invoices
  PROVE  /\ EventsOf(op, S) \subseteq Events
         /\ \A e \in EventsOf(op, S) : e[1] \in S /\ e \in EventsOf(op, {e[1]}) /\ op \notin Unrecorded
<1>1. ASSUME NEW x \in {"approved", "rejected", "funded"}, EventsOf(op, S) = S \X {x},
             \A i : EventsOf(op, {i}) = {i} \X {x}, op \notin Unrecorded
      PROVE  /\ EventsOf(op, S) \subseteq Events
             /\ \A e \in EventsOf(op, S) : e[1] \in S /\ e \in EventsOf(op, {e[1]})
  <2>1. ASSUME NEW e \in EventsOf(op, S)
        PROVE  e \in Events /\ e[1] \in S /\ e \in EventsOf(op, {e[1]})
    <3>1. PICK i \in S : e = <<i, x>>
      BY <1>1
    <3>2. e \in Events /\ e[1] = i
      BY <1>1, <3>1, LifeConstants
    <3>3. e \in {i} \X {x}
      BY <3>1
    <3> QED BY <1>1, <3>2, <3>3
  <2> QED BY <2>1
<1>2. CASE op = "approve"
  BY <1>1, <1>2 DEF EventsOf, Unrecorded, Edits, Indexed
<1>3. CASE op = "reject"
  BY <1>1, <1>3 DEF EventsOf, Unrecorded, Edits, Indexed
<1>4. CASE op = "invest"
  BY <1>1, <1>4 DEF EventsOf, Unrecorded, Edits, Indexed
<1>5. CASE op \notin {"approve", "reject", "invest"}
  BY <1>5 DEF EventsOf
<1> QED BY <1>2, <1>3, <1>4, <1>5

\* What caused an event remains so.
LEMMA GrowsFacts ==
  ASSUME history \in [Invoices -> Seq(Transitions)], HistoryGrows
  PROVE  \A e \in Events : Causes(e) # {} => Causes(e)' # {}
<1>1. ASSUME NEW i \in Invoices, NEW k \in 1 .. Len(history[i])
      PROVE  k \in 1 .. Len(history'[i]) /\ history'[i][k] = history[i][k]
  <2>1. history[i] \in Seq(Transitions) /\ Len(history[i]) <= Len(history'[i])
    BY DEF HistoryGrows
  <2>2. Len(history[i]) \in Nat
    BY <2>1, LenProperties
  <2>3. k \in 1 .. Len(history'[i])
    BY <2>1, <2>2
  <2> QED BY <2>3 DEF HistoryGrows
<1>3. ASSUME NEW e \in Events, Causes(e) # {}
      PROVE  Causes(e)' # {}
  <2>1. e[1] \in Invoices
    BY LifeConstants
  <2>2. PICK k \in 1 .. Len(history[e[1]]) : e \in EventsOf(history[e[1]][k].by, {e[1]})
    BY <1>3 DEF Causes
  <2>3. k \in 1 .. Len(history'[e[1]]) /\ e \in EventsOf(history'[e[1]][k].by, {e[1]})
    BY <1>1, <2>1, <2>2
  <2> QED BY <2>3 DEF Causes
<1> QED BY <1>3

\* Why an event is on its way or told, and how often it is told.
CauseInv ==
    \A e \in Events :
        /\ notified[e] <= 1
        /\ e \in outbox \cup pending \/ notified[e] = 1 => Causes(e) # {}

Inv == JobsInv /\ LifeInv /\ CauseInv

LEMMA InitInv == Init => Inv
<1> SUFFICES ASSUME Init
             PROVE  Inv
  OBVIOUS
<1>1. JobsInv
  BY JobsStart DEF Init
<1>2. TypeOK
  <2>1. \A i \in Invoices : history[i] = <<>> /\ history[i] \in Seq(Transitions)
    BY EmptySeq DEF Init
  <2>2. history \in [Invoices -> Seq(Transitions)]
    BY <2>1 DEF Init
  <2>3. row \in [Invoices -> Rows]
    BY DEF Init, Rows, Statuses
  <2>4. \A c \in Calls : seen[c] \in PartOf(Invoices) /\ base[c] \in PartOf(Invoices)
    BY NoRowsFacts DEF Init
  <2>5. reviews \in 0 .. MaxReviews /\ outbox \subseteq Events /\ crashed \in BOOLEAN
    <3>1. reviews = 0 /\ outbox = {} /\ crashed = FALSE
      BY DEF Init
    <3>2. 0 \in 0 .. MaxReviews
      BY LifeConstants
    <3> QED BY <3>1, <3>2
  <2>6. pc \in [Calls -> Ops \cup {"ready", "done"}] /\ kyc \in {"PENDING", "APPROVED", "REJECTED"}
    BY DEF Init
  <2> QED BY <1>1, <2>2, <2>3, <2>4, <2>5, <2>6 DEF TypeOK, JobsInv
<1>4. \A c \in Calls : pc[c] \notin Ops /\ DOMAIN seen[c] = {}
  BY NoRowsFacts DEF Init, Ops, Unrecorded, Edits, Indexed
<1>5. CauseInv
  BY DEF Init, DispatcherInit, CauseInv
<1>6. seen \in [Calls -> PartOf(Invoices)]
  BY NoRowsFacts DEF Init
<1>7. \A c \in Calls : pc[c] \notin Edits
  BY <1>4 DEF Ops, Unrecorded
<1> QED BY <1>1, <1>2, <1>4, <1>5, <1>6, <1>7 DEF Inv, LifeInv

\* A step that leaves the requests, the invoices and the reviews alone.
LEMMA QuietStep ==
  ASSUME LifeInv, JobsInv', UNCHANGED <<invoiceVars, kyc, reviews, callVars, crashed>>,
         outbox' \subseteq Events
  PROVE  LifeInv'
<1>1. TypeOK'
  BY DEF TypeOK, LifeInv, JobsInv, invoiceVars, callVars
<1> QED BY <1>1 DEF LifeInv, callVars

\* A step that tells at most an event in a job.
LEMMA ToldFacts ==
  ASSUME DispatcherTypeOK, CauseInv, NEW e \in pending, notified' \in {notified, Stored(e)},
         UNCHANGED history, outbox' \subseteq outbox, pending' \subseteq pending
  PROVE  CauseInv'
<1>1. \A x \in Events : Causes(x)' = Causes(x)
  BY DEF Causes
<1>2. ASSUME NEW x \in Events
      PROVE  notified'[x] <= 1 /\ (notified'[x] = 1 => notified[x] = 1 \/ x = e)
  BY DEF CauseInv, Stored, DispatcherTypeOK
<1> QED BY <1>1, <1>2 DEF CauseInv

LEMMA DeliveriesKeepInv ==
  ASSUME Inv, Deliveries
  PROVE  Inv'
<1>1. UNCHANGED <<invoiceVars, kyc, reviews, callVars, outbox, crashed>>
  BY DEF Deliveries
<1>2. history' = history /\ outbox' = outbox /\ outbox \subseteq Events
  BY <1>1 DEF invoiceVars, Inv, LifeInv, TypeOK
<1>3. running \subseteq pending /\ DispatcherTypeOK
  BY DEF Inv, JobsInv, Placed
<1>4. ASSUME notified' = notified, pending' \subseteq pending
      PROVE  CauseInv'
  <2>1. \A x \in Events : Causes(x)' = Causes(x)
    BY <1>2 DEF Causes
  <2> QED BY <1>2, <1>4, <2>1 DEF Inv, CauseInv
<1>5. JobsInv' /\ CauseInv'
  <2>1. CASE Pump
    <3>1. notified' = notified /\ pending' = pending
      BY <2>1 DEF Pump, PumpFrom
    <3> QED BY <1>4, <2>1, <3>1, PumpKeepsJobs DEF Inv
  <2>2. ASSUME NEW e \in Events, Deliver(e)
        PROVE  JobsInv' /\ CauseInv'
    <3>1. e \in running /\ notified' = Stored(e) /\ pending' \subseteq pending
      BY <2>2 DEF Deliver, PumpFrom
    <3>2. CauseInv'
      BY <1>2, <1>3, <3>1, ToldFacts DEF Inv
    <3> QED BY <2>2, <3>2, DeliverKeepsJobs DEF Inv
  <2>3. ASSUME NEW e \in Events, Retry(e)
        PROVE  JobsInv' /\ CauseInv'
    <3>1. notified' = notified /\ pending' = pending
      BY <2>3 DEF Retry, PumpFrom
    <3> QED BY <1>4, <2>3, <3>1, RetryKeepsJobs DEF Inv
  <2>4. ASSUME NEW e \in Events, FailDelivery(e)
        PROVE  JobsInv' /\ CauseInv'
    <3>1. e \in running /\ notified' \in {notified, Stored(e)} /\ pending' \subseteq pending
      BY <2>4 DEF FailDelivery, PumpFrom
    <3>2. CauseInv'
      BY <1>2, <1>3, <3>1, ToldFacts DEF Inv
    <3> QED BY <2>4, <3>2, FailKeepsJobs DEF Inv
  <2> QED BY <2>1, <2>2, <2>3, <2>4 DEF Deliveries, Dispatching
<1>6. LifeInv'
  BY <1>1, <1>2, <1>5, QuietStep DEF Inv
<1> QED BY <1>5, <1>6 DEF Inv

LEMMA DispatchKeepsInv ==
  ASSUME Inv, NEW e \in Events, Dispatch(e)
  PROVE  Inv'
<1>1. /\ e \in outbox /\ outbox' = outbox \ {e} /\ Enqueue(e)
      /\ UNCHANGED <<invoiceVars, kyc, reviews, callVars, crashed>>
  BY DEF Dispatch
<1>2. JobsInv'
  BY <1>1, EnqueueKeepsJobs DEF Inv
<1>3. LifeInv'
  <2>1. outbox' \subseteq Events
    BY <1>1 DEF Inv, LifeInv, TypeOK
  <2> QED BY <1>1, <1>2, <2>1, QuietStep DEF Inv
<1>4. CauseInv'
  <2>1. notified' = notified /\ pending' \subseteq pending \cup {e} /\ history' = history
    BY <1>1 DEF Enqueue, invoiceVars
  <2>2. \A x \in Events : Causes(x)' = Causes(x)
    BY <2>1 DEF Causes
  <2> QED BY <1>1, <2>1, <2>2 DEF Inv, CauseInv
<1> QED BY <1>2, <1>3, <1>4 DEF Inv

\* A step that leaves the dispatcher, the history and the outbox alone.
LEMMA UncausedStep ==
  ASSUME JobsInv, CauseInv, UNCHANGED <<dispatcherVars, history, outbox>>
  PROVE  JobsInv' /\ CauseInv'
<1>1. JobsInv'
  BY DEF JobsInv, DispatcherTypeOK, dispatcherVars, jobs, Placed, NoAttempts, SlotsUsed, Queued
<1>2. \A x \in Events : Causes(x)' = Causes(x)
  BY DEF Causes
<1>3. CauseInv'
  BY <1>2 DEF CauseInv, dispatcherVars, jobs
<1> QED BY <1>1, <1>3

LEMMA LoadKeepsInv ==
  ASSUME Inv, NEW c \in Calls, NEW op \in Ops, Load(c, op)
  PROVE  Inv'
<1>1. JobsInv' /\ CauseInv'
  BY UncausedStep DEF Load, Inv, invoiceVars
<1>2. /\ UNCHANGED <<row, history, kyc, reviews, base, outbox, crashed>>
      /\ JobsInv' => DispatcherTypeOK'
  BY DEF Load, invoiceVars, JobsInv
<1>3. TypeOK /\ op \in May[c] /\ LifeInv
  BY DEF Inv, LifeInv, Load
<1>4. CASE \A i \in On[op] : Allowed(op, row[i])
  <2> DEFINE s == [i \in On[op] |-> row[i]]
  <2>1. /\ seen' = [seen EXCEPT ![c] = s] /\ pc' = [pc EXCEPT ![c] = op]
    BY <1>4 DEF Load
  <2>2. On[op] \in SUBSET Invoices /\ s \in [On[op] -> Rows] /\ DOMAIN s = On[op]
    BY <1>3, LifeConstants DEF TypeOK
  <2>3. s \in PartOf(Invoices)
    BY <2>2, PartFacts
  <2>4. op \in Edits => \A i \in DOMAIN s : s[i].status = "DRAFT"
    BY <1>4 DEF Allowed, Editable, Indexed, Edits, Unrecorded
  <2> HIDE DEF s
  <2>5. TypeOK' /\ seen' \in [Calls -> PartOf(Invoices)]
    BY <1>1, <1>2, <1>3, <2>1, <2>3 DEF TypeOK, LifeInv
  <2>6. ASSUME NEW d \in Calls
        PROVE  /\ pc'[d] \in Ops => DOMAIN seen'[d] = On[pc'[d]]
               /\ pc'[d] \in Edits => \A i \in DOMAIN seen'[d] : seen'[d][i].status = "DRAFT"
    <3>1. CASE d = c
      <4>1. seen'[d] = s /\ pc'[d] = op
        BY <1>3, <2>1, <3>1 DEF TypeOK, LifeInv
      <4> QED BY <2>2, <2>4, <4>1
    <3>2. CASE d # c
      <4>1. seen'[d] = seen[d] /\ pc'[d] = pc[d]
        BY <1>3, <2>1, <3>2 DEF TypeOK, LifeInv
      <4> QED BY <1>3, <4>1 DEF LifeInv
    <3> QED BY <3>1, <3>2
  <2> QED BY <1>1, <2>5, <2>6 DEF Inv, LifeInv
<1>5. CASE ~ \A i \in On[op] : Allowed(op, row[i])
  <2>1. seen' = seen /\ pc' = [pc EXCEPT ![c] = "done"] /\ "done" \notin Ops
    BY <1>5 DEF Load, Ops, Unrecorded, Edits, Indexed
  <2>2. TypeOK'
    BY <1>1, <1>2, <1>3, <2>1 DEF TypeOK
  <2>3. Edits \subseteq Ops
    BY DEF Ops, Unrecorded
  <2>4. \A d \in Calls : pc'[d] \in Ops => pc'[d] = pc[d]
    BY <1>3, <2>1 DEF TypeOK
  <2>5. seen' \in [Calls -> PartOf(Invoices)]
    BY <1>3, <2>1 DEF LifeInv
  <2> QED BY <1>1, <1>3, <2>1, <2>2, <2>3, <2>4, <2>5 DEF Inv, LifeInv
<1> QED BY <1>4, <1>5

LEMMA ReloadKeepsInv ==
  ASSUME Inv, NEW c \in Calls, NEW i \in Invoices, Reload(c, i)
  PROVE  Inv'
<1> DEFINE b == [j \in DOMAIN base[c] \cup {i} |-> IF j = i THEN row[i] ELSE base[c][j]]
<1>1. JobsInv' /\ CauseInv'
  BY UncausedStep DEF Reload, Inv, invoiceVars
<1>2. /\ UNCHANGED <<row, history, kyc, reviews, pc, seen, outbox, crashed>>
      /\ base' = [base EXCEPT ![c] = b]
  BY DEF Reload, invoiceVars
<1>3. TypeOK
  BY DEF Inv, LifeInv
<1>4. b \in PartOf(Invoices)
  <2>1. DOMAIN base[c] \in SUBSET Invoices /\ base[c] \in [DOMAIN base[c] -> Rows]
    BY <1>3, PartFacts DEF TypeOK
  <2>2. DOMAIN base[c] \cup {i} \in SUBSET Invoices
    BY <2>1
  <2>3. b \in [DOMAIN base[c] \cup {i} -> Rows]
    BY <1>3, <2>1 DEF TypeOK
  <2> QED BY <2>2, <2>3, PartFacts
<1> HIDE DEF b
<1>5. TypeOK'
  BY <1>1, <1>2, <1>3, <1>4 DEF TypeOK, JobsInv
<1> QED BY <1>1, <1>2, <1>5 DEF Inv, LifeInv

LEMMA ReviewKeepsInv ==
  ASSUME Inv, ReviewKyc
  PROVE  Inv'
<1>1. JobsInv' /\ CauseInv'
  BY UncausedStep DEF ReviewKyc, Inv, invoiceVars
<1>2. /\ UNCHANGED <<row, history, pc, seen, base, outbox, crashed>>
      /\ kyc' \in {"PENDING", "APPROVED", "REJECTED"}
      /\ reviews < MaxReviews /\ reviews' = reviews + 1
  BY DEF ReviewKyc, invoiceVars, callVars
<1>3. reviews' \in 0 .. MaxReviews
  BY <1>2, LifeConstants DEF Inv, LifeInv, TypeOK
<1>4. TypeOK'
  BY <1>1, <1>2, <1>3 DEF TypeOK, JobsInv, Inv, LifeInv
<1> QED BY <1>1, <1>2, <1>4 DEF Inv, LifeInv

LEMMA CrashKeepsInv ==
  ASSUME Inv, Crash
  PROVE  Inv'
<1>1. /\ LoseJobs /\ outbox' = {} /\ crashed' = TRUE /\ UNCHANGED <<row, history, kyc, reviews>>
      /\ pc' = [c \in Calls |-> IF pc[c] \in Ops THEN "done" ELSE pc[c]]
      /\ seen' = [c \in Calls |-> NoRows] /\ base' = [c \in Calls |-> NoRows]
  BY DEF Crash, invoiceVars
<1>2. JobsInv'
  BY <1>1, LoseKeepsJobs DEF Inv
<1>3. TypeOK'
  <2>1. TypeOK
    BY DEF Inv, LifeInv
  <2>2. pc' \in [Calls -> Ops \cup {"ready", "done"}]
    BY <1>1, <2>1 DEF TypeOK
  <2>3. \A c \in Calls : seen'[c] \in PartOf(Invoices) /\ base'[c] \in PartOf(Invoices)
    BY <1>1, NoRowsFacts
  <2> QED BY <1>1, <1>2, <2>1, <2>2, <2>3 DEF TypeOK, JobsInv
<1>4. \A c \in Calls : pc'[c] \notin Ops /\ DOMAIN seen'[c] = {}
  BY <1>1, NoRowsFacts DEF Ops, Unrecorded, Edits, Indexed
<1>5. LifeInv'
  <2>1. seen' \in [Calls -> PartOf(Invoices)]
    BY <1>1, NoRowsFacts
  <2>2. \A c \in Calls : pc'[c] \notin Edits
    BY <1>4 DEF Ops, Unrecorded
  <2> QED BY <1>1, <1>3, <1>4, <2>1, <2>2 DEF Inv, LifeInv
<1>6. CauseInv'
  <2>1. notified' = notified /\ pending' = {}
    BY <1>1 DEF LoseJobs
  <2>2. \A x \in Events : Causes(x)' = Causes(x)
    BY <1>1 DEF Causes
  <2> QED BY <1>1, <2>1, <2>2 DEF Inv, CauseInv
<1> QED BY <1>2, <1>5, <1>6 DEF Inv

LEMMA RecordFacts ==
  ASSUME history \in [Invoices -> Seq(Transitions)], NEW i \in Invoices, NEW x \in Transitions,
         history'[i] = Append(history[i], x)
  PROVE  /\ history'[i] \in Seq(Transitions)
         /\ Len(history'[i]) = Len(history[i]) + 1 /\ Len(history[i]) \in Nat
         /\ \A k \in 1 .. Len(history[i]) : history'[i][k] = history[i][k]
         /\ Len(history[i]) + 1 \in 1 .. Len(history'[i])
         /\ history'[i][Len(history[i]) + 1] = x /\ history'[i][Len(history'[i])] = x
<1>1. history[i] \in Seq(Transitions) /\ Len(history[i]) \in Nat
  BY LenProperties
<1> QED BY <1>1, AppendProperties

\* The status a save of op writes where it differs.
Target(op) == IF op \in Edits THEN "DRAFT" ELSE Goal(op)

\* What the commit of call c does to an invoice.
LEMMA CommitFacts ==
  ASSUME Inv, NEW c \in Calls, Commit(c), NEW i \in Invoices
  PROVE  /\ pc[c] \in Ops /\ pc'[c] = "done"
         /\ row'[i] \in Rows
         /\ i \notin On[pc[c]] => row'[i] = row[i]
         /\ i \in On[pc[c]] =>
              /\ i \in DOMAIN base[c]
              /\ row'[i].status = IF Target(pc[c]) # base[c][i].status THEN Target(pc[c])
                                  ELSE row[i].status
         /\ i \notin On[pc[c]] \/ pc[c] \in Unrecorded => history'[i] = history[i]
         /\ i \in On[pc[c]] /\ pc[c] \notin Unrecorded =>
              \E x \in Transitions :
                 /\ x = Entry(pc[c], seen[c][i]) /\ x.to = Goal(pc[c]) /\ x.by = pc[c]
                 /\ history'[i] = Append(history[i], x)
<1> DEFINE op == pc[c]
           e == Changed(op, seen[c][i])
<1>1. /\ op \in Ops /\ DOMAIN base[c] = On[op]
      /\ row' = [j \in Invoices |->
                   IF j \in On[op] THEN Written(Changed(op, seen[c][j]), base[c][j], row[j])
                   ELSE row[j]]
      /\ history' = [j \in Invoices |-> IF j \in On[op] /\ op \notin Unrecorded
                                        THEN Append(history[j], Entry(op, seen[c][j]))
                                        ELSE history[j]]
      /\ pc' = [pc EXCEPT ![c] = "done"]
  BY DEF Commit
<1>2. TypeOK /\ LifeInv /\ row[i] \in Rows
  BY DEF Inv, LifeInv, TypeOK
<1>3. pc'[c] = "done"
  BY <1>1, <1>2 DEF TypeOK
<1>4. CASE i \in On[op]
  <2>1. DOMAIN seen[c] = On[op] /\ (op \in Edits => seen[c][i].status = "DRAFT")
    BY <1>1, <1>2, <1>4 DEF LifeInv
  <2>2. seen[c][i] \in Rows /\ base[c][i] \in Rows
    BY <1>1, <1>2, <1>4, <2>1, PartFacts DEF TypeOK
  <2>3. e \in Rows /\ e.status = Target(op)
    <3>1. e \in Rows /\ e.status = IF op \in Edits THEN seen[c][i].status ELSE Goal(op)
      BY <1>1, <2>2, ChangedFacts
    <3> QED BY <2>1, <3>1 DEF Target
  <2>4. row'[i] = Written(e, base[c][i], row[i])
    BY <1>1, <1>4
  <2> HIDE DEF e
  <2>5. /\ row'[i] \in Rows
        /\ row'[i].status = IF Target(op) # base[c][i].status THEN Target(op) ELSE row[i].status
    BY <1>2, <2>2, <2>3, <2>4, WrittenFacts
  <2>6. ASSUME op \notin Unrecorded
        PROVE  \E x \in Transitions :
                 /\ x = Entry(op, seen[c][i]) /\ x.to = Goal(op) /\ x.by = op
                 /\ history'[i] = Append(history[i], x)
    <3>1. history'[i] = Append(history[i], Entry(op, seen[c][i]))
      BY <1>1, <1>4, <2>6
    <3>2. /\ Entry(op, seen[c][i]) \in Transitions
          /\ Entry(op, seen[c][i]).to = Goal(op) /\ Entry(op, seen[c][i]).by = op
      BY <1>1, <2>2, <2>6, EntryFacts
    <3> QED BY <3>1, <3>2
  <2>7. op \in Unrecorded => history'[i] = history[i]
    BY <1>1
  <2> QED BY <1>1, <1>3, <1>4, <2>5, <2>6, <2>7
<1>5. CASE i \notin On[op]
  <2>1. row'[i] = row[i] /\ history'[i] = history[i]
    BY <1>1, <1>5
  <2> QED BY <1>1, <1>2, <1>3, <1>5, <2>1
<1> QED BY <1>4, <1>5

LEMMA CommitKeepsInv ==
  ASSUME Inv, NEW c \in Calls, Commit(c)
  PROVE  Inv'
<1> DEFINE op == pc[c]
<1>1. /\ op \in Ops
      /\ outbox' = outbox \cup EventsOf(op, On[op])
      /\ pc' = [pc EXCEPT ![c] = "done"]
      /\ seen' = [seen EXCEPT ![c] = NoRows] /\ base' = [base EXCEPT ![c] = NoRows]
      /\ UNCHANGED <<dispatcherVars, kyc, reviews, crashed>>
      /\ row' = [i \in Invoices |-> row'[i]] /\ history' = [i \in Invoices |-> history'[i]]
  <2>1. row' = [i \in Invoices |-> row'[i]] /\ history' = [i \in Invoices |-> history'[i]]
    BY DEF Commit
  <2>2. /\ op \in Ops
        /\ outbox' = outbox \cup EventsOf(op, On[op])
        /\ pc' = [pc EXCEPT ![c] = "done"]
        /\ seen' = [seen EXCEPT ![c] = NoRows] /\ base' = [base EXCEPT ![c] = NoRows]
        /\ UNCHANGED <<dispatcherVars, kyc, reviews, crashed>>
    BY DEF Commit
  <2> QED BY <2>1, <2>2
<1>2. TypeOK /\ LifeInv /\ CauseInv /\ JobsInv /\ seen \in [Calls -> PartOf(Invoices)]
  BY DEF Inv, LifeInv
<1>3. On[op] \in SUBSET Invoices
  BY <1>1, LifeConstants
<1>4. history \in [Invoices -> Seq(Transitions)]
  BY <1>2 DEF TypeOK
<1> HIDE DEF op
<1>5. ASSUME NEW i \in Invoices
      PROVE  /\ row'[i] \in Rows /\ history'[i] \in Seq(Transitions)
             /\ Len(history[i]) <= Len(history'[i])
             /\ \A k \in 1 .. Len(history[i]) : history'[i][k] = history[i][k]
             /\ i \in On[op] /\ op \notin Unrecorded =>
                  /\ Len(history[i]) + 1 \in 1 .. Len(history'[i])
                  /\ history'[i][Len(history[i]) + 1].by = op
  <2>1. row'[i] \in Rows /\ Len(history[i]) \in Nat
    BY <1>4, CommitFacts, LenProperties
  <2>2. CASE i \in On[op] /\ op \notin Unrecorded
    <3>1. PICK x \in Transitions : x.by = op /\ history'[i] = Append(history[i], x)
      BY <2>2, CommitFacts DEF op
    <3> QED BY <1>4, <2>1, <2>2, <3>1, RecordFacts
  <2>3. CASE ~ (i \in On[op] /\ op \notin Unrecorded)
    <3>1. history'[i] = history[i]
      BY <2>3, CommitFacts DEF op
    <3> QED BY <1>4, <2>1, <2>3, <3>1
  <2> QED BY <2>2, <2>3
<1>6. HistoryGrows
  BY <1>5 DEF HistoryGrows
<1>7. \A e \in Events : Causes(e) # {} => Causes(e)' # {}
  BY <1>4, <1>6, GrowsFacts
<1>8. JobsInv'
  BY <1>1, <1>2
  DEF JobsInv, DispatcherTypeOK, dispatcherVars, jobs, Placed, NoAttempts, SlotsUsed, Queued
<1>9. EventsOf(op, On[op]) \subseteq Events
      /\ \A e \in EventsOf(op, On[op]) :
            e[1] \in On[op] /\ e \in EventsOf(op, {e[1]}) /\ op \notin Unrecorded
  BY <1>1, <1>3, EventsOfFacts
<1>10. TypeOK' /\ seen' \in [Calls -> PartOf(Invoices)]
  <2>1. row' \in [Invoices -> Rows] /\ history' \in [Invoices -> Seq(Transitions)]
    BY <1>1, <1>5
  <2>2. seen' \in [Calls -> PartOf(Invoices)] /\ \A d \in Calls : base'[d] \in PartOf(Invoices)
    BY <1>1, <1>2, NoRowsFacts DEF TypeOK
  <2>3. outbox' \subseteq Events
    BY <1>1, <1>2, <1>9 DEF TypeOK
  <2>4. pc' \in [Calls -> Ops \cup {"ready", "done"}]
    BY <1>1, <1>2 DEF TypeOK
  <2> QED BY <1>1, <1>2, <1>8, <2>1, <2>2, <2>3, <2>4 DEF TypeOK, JobsInv
<1>11. ASSUME NEW d \in Calls
       PROVE  /\ pc'[d] \in Ops => DOMAIN seen'[d] = On[pc'[d]]
              /\ pc'[d] \in Edits => \A i \in DOMAIN seen'[d] : seen'[d][i].status = "DRAFT"
  <2>1. CASE d = c
    <3>1. pc'[d] = "done"
      BY <1>1, <1>2, <2>1 DEF TypeOK
    <3> QED BY <3>1 DEF Ops, Unrecorded, Edits, Indexed
  <2>2. CASE d # c
    <3>1. seen'[d] = seen[d] /\ pc'[d] = pc[d]
      BY <1>1, <1>2, <2>2 DEF TypeOK
    <3> QED BY <1>2, <3>1 DEF LifeInv
  <2> QED BY <2>1, <2>2
<1>12. CauseInv'
  <2>1. ASSUME NEW e \in EventsOf(op, On[op])
        PROVE  Causes(e)' # {}
    <3>1. /\ e[1] \in On[op] /\ e[1] \in Invoices /\ e \in EventsOf(op, {e[1]})
          /\ op \notin Unrecorded
      BY <1>3, <1>9
    <3>2. PICK k \in 1 .. Len(history'[e[1]]) : history'[e[1]][k].by = op
      BY <1>5, <3>1
    <3> QED BY <3>1, <3>2 DEF Causes
  <2>2. notified' = notified /\ pending' = pending
    BY <1>1 DEF dispatcherVars, jobs
  <2> QED BY <1>1, <1>2, <1>7, <2>1, <2>2 DEF CauseInv
<1> QED BY <1>8, <1>10, <1>11, <1>12 DEF Inv, LifeInv

\* What the funding of invoice i does to an invoice.
LEMMA FundFacts ==
  ASSUME Inv, NEW i \in Invoices, Fund(i)
  PROVE  /\ row' \in [Invoices -> Rows] /\ row'[i].status = "FUNDED"
         /\ \A j \in Invoices : j # i => row'[j] = row[j] /\ history'[j] = history[j]
         /\ \E x \in Transitions :
               /\ x.to = "FUNDED" /\ x.by = "invest"
               /\ history' = [history EXCEPT ![i] = Append(@, x)]
               /\ history'[i] = Append(history[i], x)
<1> DEFINE x == Entry("invest", row[i])
<1>1. /\ row' = [row EXCEPT ![i].status = "FUNDED"]
      /\ history' = [history EXCEPT ![i] = Append(@, x)]
  BY DEF Fund
<1>2. row \in [Invoices -> Rows] /\ history \in [Invoices -> Seq(Transitions)]
  BY DEF Inv, LifeInv, TypeOK
<1>3. x \in Transitions /\ x.to = "FUNDED" /\ x.by = "invest"
  <2>1. row[i] \in Rows /\ "invest" \notin Unrecorded /\ Goal("invest") = "FUNDED"
    BY <1>2 DEF Unrecorded, Indexed, Edits, Goal
  <2> QED BY <2>1, EntryFacts
<1> HIDE DEF x
<1>4. /\ row' \in [Invoices -> Rows] /\ row'[i].status = "FUNDED"
      /\ \A j \in Invoices : j # i => row'[j] = row[j] /\ history'[j] = history[j]
      /\ history'[i] = Append(history[i], x)
  BY <1>1, <1>2 DEF Rows, Statuses
<1> QED BY <1>1, <1>3, <1>4

LEMMA FundKeepsInv ==
  ASSUME Inv, NEW i \in Invoices, Fund(i)
  PROVE  Inv'
<1>1. /\ outbox' = outbox \cup EventsOf("invest", {i})
      /\ UNCHANGED <<dispatcherVars, kyc, reviews, pc, seen, base, crashed>>
  BY DEF Fund, callVars
<1>2. TypeOK /\ LifeInv /\ CauseInv /\ JobsInv /\ history \in [Invoices -> Seq(Transitions)]
  BY DEF Inv, LifeInv, TypeOK
<1>3. /\ row' \in [Invoices -> Rows]
      /\ \A j \in Invoices : j # i => history'[j] = history[j]
  BY FundFacts
<1>4. PICK x \in Transitions :
         /\ x.by = "invest" /\ history' = [history EXCEPT ![i] = Append(@, x)]
         /\ history'[i] = Append(history[i], x)
  BY FundFacts
<1>5. /\ history'[i] \in Seq(Transitions)
      /\ Len(history'[i]) = Len(history[i]) + 1 /\ Len(history[i]) \in Nat
      /\ \A k \in 1 .. Len(history[i]) : history'[i][k] = history[i][k]
      /\ Len(history[i]) + 1 \in 1 .. Len(history'[i])
      /\ history'[i][Len(history[i]) + 1].by = "invest"
  BY <1>2, <1>4, RecordFacts
<1>6. history' \in [Invoices -> Seq(Transitions)]
  BY <1>2, <1>4, <1>5
<1>7. HistoryGrows
  <2> SUFFICES ASSUME NEW j \in Invoices
               PROVE  /\ Len(history[j]) <= Len(history'[j])
                      /\ \A k \in 1 .. Len(history[j]) : history'[j][k] = history[j][k]
    BY DEF HistoryGrows
  <2>1. Len(history[j]) \in Nat
    BY <1>2, LenProperties
  <2>2. CASE j = i
    BY <1>5, <2>2
  <2>3. CASE j # i
    BY <1>3, <2>1, <2>3
  <2> QED BY <2>2, <2>3
<1>8. \A e \in Events : Causes(e) # {} => Causes(e)' # {}
  BY <1>2, <1>7, GrowsFacts
<1>9. JobsInv'
  BY <1>1, <1>2
  DEF JobsInv, DispatcherTypeOK, dispatcherVars, jobs, Placed, NoAttempts, SlotsUsed, Queued
<1>10. /\ EventsOf("invest", {i}) \subseteq Events
       /\ \A e \in EventsOf("invest", {i}) : e[1] = i /\ e \in EventsOf("invest", {e[1]})
  BY EventsOfFacts
<1>11. TypeOK'
  <2>1. outbox' \subseteq Events
    BY <1>1, <1>2, <1>10 DEF TypeOK
  <2> QED BY <1>1, <1>2, <1>3, <1>6, <1>9, <2>1 DEF TypeOK, JobsInv
<1>12. LifeInv'
  BY <1>1, <1>2, <1>11 DEF LifeInv
<1>13. CauseInv'
  <2>1. ASSUME NEW e \in EventsOf("invest", {i})
        PROVE  Causes(e)' # {}
    BY <1>5, <1>10 DEF Causes
  <2>2. notified' = notified /\ pending' = pending
    BY <1>1 DEF dispatcherVars, jobs
  <2> QED BY <1>1, <1>2, <1>8, <2>1, <2>2 DEF CauseInv
<1> QED BY <1>9, <1>12, <1>13 DEF Inv

LEMMA NextInv == Inv /\ [Next]_vars => Inv'
<1> SUFFICES ASSUME Inv, [Next]_vars
             PROVE  Inv'
  OBVIOUS
<1>1. CASE Operate
  BY <1>1, LoadKeepsInv, ReloadKeepsInv, CommitKeepsInv DEF Operate
<1>2. CASE ReviewKyc
  BY <1>2, ReviewKeepsInv
<1>3. CASE Crash
  BY <1>3, CrashKeepsInv
<1>4. CASE \E i \in Invoices : Fund(i)
  BY <1>4, FundKeepsInv
<1>5. CASE \E e \in Events : Dispatch(e)
  BY <1>5, DispatchKeepsInv
<1>6. CASE Deliveries
  BY <1>6, DeliveriesKeepInv
<1>7. CASE UNCHANGED vars
  <2>1. UNCHANGED <<dispatcherVars, history, outbox, row, kyc, reviews, pc, seen, base, crashed>>
    BY <1>7 DEF vars, invoiceVars, callVars
  <2>2. JobsInv' /\ CauseInv'
    BY <2>1, UncausedStep DEF Inv
  <2>3. LifeInv'
    <3>1. outbox' \subseteq Events
      BY <2>1 DEF Inv, LifeInv, TypeOK
    <3> QED BY <2>1, <2>2, <3>1, QuietStep DEF Inv, invoiceVars, callVars
  <2> QED BY <2>2, <2>3 DEF Inv
<1> QED BY <1>1, <1>2, <1>3, <1>4, <1>5, <1>6, <1>7 DEF Next

LEMMA SpecInv == Spec => []Inv
BY InitInv, NextInv, PTL DEF Spec

-----------------------------------------------------------------------------
(* The theorems                                                            *)

\* Every variable keeps its type, the attempts of a job within MaxAttempts.
THEOREM TypeCorrect == Spec => []TypeOK
<1>1. Inv => TypeOK
  BY DEF Inv, LifeInv
<1> QED BY <1>1, SpecInv, PTL

\* Whatever operations of invoice.service.ts and events of the indexer overlap on
\* an invoice, and wherever the process dies, a status that changes is recorded
\* in the same step unless a stale edit takes the invoice back to a draft or an
\* event sets it; and what is recorded has happened, or was found done.
THEOREM ChangesAreRecorded == Spec => ChangesRecorded
<1> DEFINE Told(i) ==
        /\ row'[i].status # row[i].status => Recorded(i) \/ TakenBack(i) \/ SetByEvent(i)
        /\ history'[i] # history[i] => Recorded(i) \/ FoundDone(i)
<1>1. ASSUME Inv, [Next]_vars, NEW i \in Invoices
      PROVE  Told(i)
  <2>1. history \in [Invoices -> Seq(Transitions)]
    BY <1>1 DEF Inv, LifeInv, TypeOK
  <2>2. ASSUME NEW x \in Transitions, history'[i] = Append(history[i], x), x.to = row'[i].status
        PROVE  Recorded(i)
    <3>1. Len(history'[i]) = Len(history[i]) + 1 /\ history'[i][Len(history'[i])] = x
      BY <2>1, <2>2, RecordFacts
    <3> QED BY <2>2, <3>1 DEF Recorded
  <2>3. ASSUME row'[i] = row[i], history'[i] = history[i]
        PROVE  Told(i)
    BY <2>3
  <2>4. ASSUME NEW c \in Calls, Commit(c)
        PROVE  Told(i)
    <3>1. CASE i \notin On[pc[c]]
      BY <1>1, <2>3, <2>4, <3>1, CommitFacts
    <3>2. CASE i \in On[pc[c]] /\ pc[c] \in Edits
      <4>1. /\ history'[i] = history[i] /\ Saves(c, i, Edits)
            /\ row'[i].status # row[i].status =>
                 base[c][i].status # "DRAFT" /\ row'[i].status = "DRAFT"
        BY <1>1, <2>4, <3>2, CommitFacts DEF Saves, Unrecorded, Target
      <4> QED BY <4>1 DEF TakenBack
    <3>3. CASE i \in On[pc[c]] /\ pc[c] \in Indexed
      <4>1. Target(pc[c]) = Goal(pc[c])
        BY <3>3 DEF Target, Indexed, Edits
      <4>2. /\ history'[i] = history[i] /\ Saves(c, i, Indexed)
            /\ row'[i].status # row[i].status => row'[i].status = Goal(pc[c])
        BY <1>1, <2>4, <3>3, <4>1, CommitFacts DEF Saves, Unrecorded
      <4> QED BY <4>2 DEF SetByEvent
    <3>4. CASE i \in On[pc[c]] /\ pc[c] \notin Unrecorded
      <4>1. /\ Saves(c, i, Ops \ Unrecorded)
            /\ row'[i].status = IF Goal(pc[c]) # base[c][i].status THEN Goal(pc[c])
                                ELSE row[i].status
        BY <1>1, <2>4, <3>4, CommitFacts DEF Saves, Unrecorded, Target
      <4>2. PICK x \in Transitions :
               /\ x = Entry(pc[c], seen[c][i]) /\ x.to = Goal(pc[c])
               /\ history'[i] = Append(history[i], x)
        BY <1>1, <2>4, <3>4, CommitFacts
      <4>3. CASE row'[i].status = Goal(pc[c])
        BY <2>2, <4>2, <4>3
      <4>4. CASE row'[i].status # Goal(pc[c])
        <5>1. row'[i].status = row[i].status /\ base[c][i].status = Goal(pc[c])
          BY <4>1, <4>4
        <5>2. FoundDone(i)
          BY <4>1, <4>2, <5>1 DEF FoundDone
        <5> QED BY <5>1, <5>2
      <4> QED BY <4>3, <4>4
    <3> QED BY <3>1, <3>2, <3>3, <3>4 DEF Unrecorded
  <2>5. ASSUME NEW j \in Invoices, Fund(j)
        PROVE  Told(i)
    <3>1. CASE i = j
      <4>1. row'[i].status = "FUNDED"
        BY <1>1, <2>5, <3>1, FundFacts
      <4>2. PICK x \in Transitions : x.to = "FUNDED" /\ history'[i] = Append(history[i], x)
        BY <1>1, <2>5, <3>1, FundFacts
      <4> QED BY <2>2, <4>1, <4>2
    <3>2. CASE i # j
      BY <1>1, <2>3, <2>5, <3>2, FundFacts
    <3> QED BY <3>1, <3>2
  <2>6. \/ UNCHANGED <<row, history>>
        \/ \E c \in Calls : Commit(c)
        \/ \E j \in Invoices : Fund(j)
    BY <1>1 DEF Next, Operate, Load, Reload, ReviewKyc, Crash, Dispatch, Deliveries, vars, invoiceVars
  <2> QED BY <2>3, <2>4, <2>5, <2>6
<1>2. Inv /\ [Next]_vars => [\A i \in Invoices : Told(i)]_vars
  BY <1>1
<1> QED BY <1>2, SpecInv, PTL DEF Spec, ChangesRecorded

\* A recipient is told at most once of an event, and only of one that a
\* committed transition raised, through retries, repeated events and crashes.
THEOREM ToldForCause == Spec => []NotifiedForCause
<1>1. Inv => NotifiedForCause
  BY DEF Inv, CauseInv, NotifiedForCause
<1> QED BY <1>1, SpecInv, PTL

\* The dispatcher never loses a job nor holds one twice, never runs more than it
\* has slots for, and leaves no job waiting beside a free slot unless a pump is
\* on its way: the bookkeeping of enqueue, pump, run and the retry timer agrees
\* for any number of events, slots and attempts.
THEOREM JobsAreAccounted == Spec => []JobsAccounted
<1>1. Inv => JobsAccounted
  BY JobsCounted DEF Inv
<1> QED BY <1>1, SpecInv, PTL

=============================================================================
