---------------------- MODULE OnchainProjectionsProofs ----------------------
(***************************************************************************)
(* Proofs about EventIndexer and OnchainProjections.                       *)
(*                                                                         *)
(* IdxInv strengthens the type invariant of the indexer; it holds of every *)
(* deployment.  OrderInv relates the event log, the checkpoint and the     *)
(* work in hand; it holds of a deployment that starts from a checkpoint,   *)
(* the others may pass an event over (FailedIsRetried).  RowsInv says what *)
(* a handler has written when it is cut short, VoteInv when the tally of   *)
(* the key merge is up to date.                                            *)
(***************************************************************************)
EXTENDS OnchainProjections, FiniteSetTheorems, WellFoundedInduction, TLAPS

Statuses == {"DRAFT", "PUBLISHED", "FUNDED", "SETTLED"}

-----------------------------------------------------------------------------
(* Numbers: the least-number principle, from which the largest element of  *)
(* a set of events and the values of StatusAfter follow.                   *)

\* A set of natural numbers has a least element.
LEMMA Least ==
  ASSUME NEW T \in SUBSET Nat, T # {}
  PROVE  \E x \in T : \A y \in T : x <= y
<1> DEFINE R == {ss \in Nat \X Nat : ss[1] < ss[2]}
<1>1. IsWellFoundedOn(R, Nat)
  BY NatLessThanWellFounded DEF OpToRel
<1> HIDE DEF R
<1>2. PICK x \in T : \A y \in T : ~ (<<y, x>> \in R)
  BY <1>1, WFMin
<1>3. \A y \in T : x <= y
  <2> TAKE y \in T
  <2>1. x \in Nat /\ y \in Nat /\ ~ (<<y, x>> \in R)
    BY <1>2
  <2> QED BY <2>1 DEF R
<1> QED BY <1>3

\* A set of events has a newest one.
LEMMA Newest ==
  ASSUME NEW T \in SUBSET Event, T # {}, N \in Nat
  PROVE  \E x \in T : \A y \in T : y <= x
<1> DEFINE D == {N - x : x \in T}
<1>1. D \in SUBSET Nat /\ D # {}
  BY DEF Event
<1>2. PICK d \in D : \A c \in D : d <= c
  BY <1>1, Least
<1>3. PICK x \in T : d = N - x
  BY <1>2
<1>4. \A y \in T : y <= x
  <2> TAKE y \in T
  <2>1. N - y \in D
    OBVIOUS
  <2>2. N - x <= N - y /\ x \in Int /\ y \in Int
    BY <1>2, <1>3, <2>1 DEF Event
  <2> QED BY <2>2
<1> QED BY <1>4

-----------------------------------------------------------------------------
(* The constants                                                           *)

LEMMA ConstantFacts ==
  /\ N \in Nat /\ Known \in 0 .. N /\ MaxFaults \in Nat /\ PageSize \in Nat \ {0}
  /\ Past \in Nat /\ LastLedger \in Nat
  /\ Known = 0 => Past = 0
  /\ Known > 0 => Past > 0
  /\ \A e \in Event : /\ Ledger[e] \in Nat /\ Ledger[e] > 0
                      /\ Ledger[e] <= LastLedger
                      /\ e <= Known <=> Ledger[e] <= Past
                      /\ e \in Nat /\ e > 0
  /\ \A e, f \in Event : e <= f => Ledger[e] <= Ledger[f]
<1>1. N \in Nat /\ Known \in 0 .. N /\ MaxFaults \in Nat /\ PageSize \in Nat \ {0}
      /\ Ledger \in [Event -> Nat \ {0}]
  BY IndexerAssumption
<1>2. \A e, f \in Event : e <= f => Ledger[e] <= Ledger[f]
  BY IndexerAssumption
<1>3. \A e \in Event : e \in Nat /\ e > 0 /\ N \in Event /\ (e <= Known => Known \in Event)
  BY <1>1 DEF Event
<1>4. N > 0 => N \in Event
  BY <1>1 DEF Event
<1>5. Known > 0 => Known \in Event
  BY <1>1 DEF Event
<1>6. Past \in Nat /\ LastLedger \in Nat /\ (Known = 0 => Past = 0) /\ (Known > 0 => Past > 0)
  BY <1>1, <1>4, <1>5 DEF Past, LastLedger
<1>7. ASSUME NEW e \in Event
      PROVE  /\ Ledger[e] \in Nat /\ Ledger[e] > 0 /\ Ledger[e] <= LastLedger
             /\ e <= Known <=> Ledger[e] <= Past
  <2>1. Ledger[e] \in Nat /\ Ledger[e] > 0
    BY <1>1
  <2>2. e <= N /\ N \in Event /\ N # 0
    BY <1>1, <1>3 DEF Event
  <2>3. Ledger[e] <= LastLedger
    BY <2>2, <1>2 DEF LastLedger
  <2>4. Ledger[e] <= Past => e <= Known
    BY IndexerAssumption
  <2>5. e <= Known => Ledger[e] <= Past
    <3> HAVE e <= Known
    <3>1. Known \in Event /\ Known # 0
      BY <1>1, <1>3
    <3>2. Ledger[e] <= Ledger[Known]
      BY <3>1, <1>2
    <3> QED BY <3>1, <3>2 DEF Past
  <2> QED BY <2>1, <2>3, <2>4, <2>5
<1> QED BY <1>1, <1>2, <1>3, <1>6, <1>7

LEMMA LargerFacts ==
  ASSUME NEW a \in Int, NEW b \in Int
  PROVE  /\ Larger(a, b) \in {a, b} /\ Larger(a, b) >= a /\ Larger(a, b) >= b
BY DEF Larger

LEMMA AfterType ==
  ASSUME NEW k, NEW s \in Statuses
  PROVE  After(k, s) \in Statuses
<1>1. \A t \in Transitions : t[3] \in Statuses
  BY DEF Transitions, Statuses
<1>2. CASE \E t \in Transitions : t[1] = k /\ t[2] = s
  <2>1. (CHOOSE t \in Transitions : t[1] = k /\ t[2] = s) \in Transitions
    BY <1>2
  <2> QED BY <2>1, <1>1, <1>2 DEF After
<1>3. CASE ~ \E t \in Transitions : t[1] = k /\ t[2] = s
  BY <1>3 DEF After
<1> QED BY <1>2, <1>3

\* An event that is applied again changes nothing.
LEMMA AfterTwice ==
  ASSUME NEW k, NEW s \in Statuses
  PROVE  After(k, After(k, s)) = After(k, s)
<1> DEFINE Fits(t, r) == t \in Transitions /\ t[1] = k /\ t[2] = r
<1>1. \A t, r : Fits(t, r) => After(k, r) = t[3]
  <2> TAKE t, r
  <2> HAVE Fits(t, r)
  <2> DEFINE u == CHOOSE v \in Transitions : v[1] = k /\ v[2] = r
  <2>1. u \in Transitions /\ u[1] = k /\ u[2] = r
    OBVIOUS
  <2>2. After(k, r) = u[3]
    BY <2>1 DEF After
  <2>3. \A v, w \in Transitions : v[1] = w[1] /\ v[2] = w[2] => v[3] = w[3]
    BY DEF Transitions
  <2> QED BY <2>1, <2>2, <2>3
<1>2. \A r : (~ \E t : Fits(t, r)) => After(k, r) = r
  BY DEF After
<1>3. CASE \E t : Fits(t, s)
  <2>1. PICK t : Fits(t, s)
    BY <1>3
  <2>2. After(k, s) = t[3]
    BY <1>1, <2>1
  <2>3. \A u : Fits(u, t[3]) => u[3] = t[3]
    BY <2>1 DEF Transitions
  <2> QED BY <1>1, <1>2, <2>2, <2>3
<1>4. CASE ~ \E t : Fits(t, s)
  BY <1>2, <1>4
<1> QED BY <1>3, <1>4

\* StatusAfter is the function its definition says it is.
LEMMA StatusAfterDef ==
  StatusAfter = [n \in 0 .. N |-> IF n = 0 THEN "DRAFT" ELSE After(Kind[n], StatusAfter[n - 1])]
<1> DEFINE Upto(f, m) == f = [n \in 0 .. m |-> IF n = 0 THEN "DRAFT" ELSE After(Kind[n], f[n - 1])]
           Bad == {m \in Nat : ~ \E f : Upto(f, m)}
<1>1. Bad = {}
  <2> SUFFICES ASSUME Bad # {} PROVE FALSE
    OBVIOUS
  <2>1. PICK m \in Bad : \A y \in Bad : m <= y
    BY Least
  <2>2. m \in Nat
    BY <2>1
  <2>3. CASE m = 0
    <3> DEFINE f == [n \in 0 .. 0 |-> "DRAFT"]
    <3>1. f = [n \in 0 .. 0 |-> IF n = 0 THEN "DRAFT" ELSE After(Kind[n], f[n - 1])]
      <4>1. \A n \in 0 .. 0 : n = 0
        OBVIOUS
      <4> QED BY <4>1
    <3>2. Upto(f, m)
      BY <2>3, <3>1
    <3> QED BY <3>2, <2>1
  <2>4. CASE m > 0
    <3>1. m - 1 \in Nat /\ m - 1 \notin Bad
      BY <2>1, <2>2, <2>4
    <3>2. PICK g : Upto(g, m - 1)
      BY <3>1
    <3> DEFINE f == [n \in 0 .. m |-> IF n = m THEN After(Kind[m], g[m - 1]) ELSE g[n]]
    <3>3. \A n \in 0 .. m : f[n] = IF n = 0 THEN "DRAFT" ELSE After(Kind[n], f[n - 1])
      <4> TAKE n \in 0 .. m
      <4>0. n \in Int /\ 0 <= n /\ n <= m
        BY <2>2
      <4>1. CASE n = m
        <5>1. m - 1 \in 0 .. m /\ m - 1 # m /\ n # 0
          BY <2>2, <2>4, <4>1
        <5>2. f[n] = After(Kind[m], g[m - 1]) /\ f[m - 1] = g[m - 1]
          BY <4>1, <5>1
        <5> QED BY <4>1, <5>1, <5>2
      <4>2. CASE n # m
        <5>1. n \in 0 .. m - 1 /\ f[n] = g[n]
          BY <2>2, <4>0, <4>2
        <5>2. g[n] = IF n = 0 THEN "DRAFT" ELSE After(Kind[n], g[n - 1])
          BY <3>2, <5>1
        <5>3. n # 0 => n - 1 \in 0 .. m /\ n - 1 # m
          BY <2>2, <4>0
        <5>4. n # 0 => f[n - 1] = g[n - 1]
          BY <5>3
        <5> QED BY <5>1, <5>2, <5>4
      <4> QED BY <4>1, <4>2
    <3>4. f = [n \in 0 .. m |-> f[n]]
      OBVIOUS
    <3> HIDE DEF f
    <3>5. Upto(f, m)
      BY <3>3, <3>4
    <3> QED BY <3>5, <2>1
  <2> QED BY <2>2, <2>3, <2>4
<1>2. N \in Nat
  BY ConstantFacts
<1>3. \E f : Upto(f, N)
  BY <1>1, <1>2
<1> QED BY <1>3 DEF StatusAfter

LEMMA StatusAfterStep ==
  \A n \in Event : StatusAfter[n] = After(Kind[n], StatusAfter[n - 1])
BY StatusAfterDef, ConstantFacts DEF Event

LEMMA StatusAfterType ==
  \A n \in 0 .. N : StatusAfter[n] \in Statuses
<1> DEFINE Bad == {n \in 0 .. N : StatusAfter[n] \notin Statuses}
<1> SUFFICES ASSUME Bad # {} PROVE FALSE
  OBVIOUS
<1>1. Bad \in SUBSET Nat /\ N \in Nat
  BY ConstantFacts
<1>2. PICK m \in Bad : \A y \in Bad : m <= y
  BY <1>1, Least
<1>3. m \in 0 .. N /\ m \in Nat
  BY <1>1, <1>2
<1>4. CASE m = 0
  BY <1>2, <1>4, StatusAfterDef, <1>3 DEF Statuses
<1>5. CASE m # 0
  <2>1. m - 1 \in 0 .. N /\ m - 1 \notin Bad /\ m \in Event
    BY <1>1, <1>2, <1>3, <1>5 DEF Event
  <2> QED BY <1>2, <2>1, StatusAfterStep, AfterType
<1> QED BY <1>4, <1>5

-----------------------------------------------------------------------------
(* The indexer, in every deployment                                        *)

LogInv ==
    \A e \in Event :
        /\ e <= Known => log[e] = "processed"
        /\ log[e] # "none" => Ledger[e] <= tip

BoundsInv ==
    /\ checkpoint = 0 \/ Past <= checkpoint
    /\ last = 0 \/ Past <= last
    /\ pc # "idle" => Past <= last

WorkInv ==
    /\ pc = "idle" => todo = {}
    /\ \A e \in todo : last < Ledger[e] /\ Ledger[e] <= tip
    /\ pc = "ingest" => /\ last <= high /\ high <= observed /\ last <= observed
                        /\ \A e \in todo : Ledger[e] <= observed
    /\ stage # "check" => pc = "ingest" /\ todo # {}

IdxInv == IndexerTypeOK /\ LogInv /\ BoundsInv /\ WorkInv

\* The fields of IdxInv as numbers and sets.
LEMMA IdxTypes ==
  ASSUME IdxInv
  PROVE  /\ tip \in Nat /\ checkpoint \in Nat /\ last \in Nat /\ observed \in Nat /\ high \in Nat
         /\ checkpoint <= tip /\ last <= tip /\ observed <= tip /\ high <= tip
         /\ Past <= tip /\ tip <= Larger(Past, LastLedger)
         /\ log \in [Event -> {"none", "open", "processed"}]
         /\ todo \subseteq Event /\ applied \in Known .. N /\ applied \in Nat
         /\ faults \in 0 .. MaxFaults
<1>1. Past \in Nat /\ LastLedger \in Nat /\ Known \in Nat /\ N \in Nat
  BY ConstantFacts
<1>2. Larger(Past, LastLedger) \in Nat
  BY <1>1 DEF Larger
<1> QED BY <1>1, <1>2 DEF IdxInv, IndexerTypeOK

LEMMA LatestLoggedType ==
  ASSUME IdxInv
  PROVE  LatestLogged \in 0 .. tip /\ Past <= LatestLogged
<1> DEFINE logged == {e \in Event : log[e] # "none"}
<1>1. N \in Nat /\ tip \in Nat
  BY ConstantFacts, IdxTypes
<1>2. CASE logged = {}
  <2>1. Known = 0
    <3> SUFFICES ASSUME Known # 0 PROVE FALSE
      OBVIOUS
    <3>1. Known \in Event
      BY ConstantFacts, <1>1 DEF Event
    <3>2. log[Known] = "processed"
      BY <3>1, ConstantFacts DEF IdxInv, LogInv
    <3> QED BY <3>1, <3>2, <1>2
  <2> QED BY <2>1, <1>1, <1>2, ConstantFacts DEF LatestLogged
<1>3. CASE logged # {}
  <2> DEFINE m == CHOOSE f \in logged : \A g \in logged : g <= f
  <2>1. logged \in SUBSET Event
    OBVIOUS
  <2> HIDE DEF logged
  <2>2. m \in logged /\ \A g \in logged : g <= m
    BY <2>1, <1>1, <1>3, Newest
  <2> USE DEF logged
  <2>3. LatestLogged = Ledger[m]
    BY <1>3 DEF LatestLogged
  <2>4. m \in Event /\ Ledger[m] <= tip /\ Ledger[m] \in Nat
    BY <2>2, ConstantFacts DEF IdxInv, LogInv
  <2>5. Past <= Ledger[m]
    <3>1. CASE Known = 0
      BY <3>1, <2>4, ConstantFacts
    <3>2. CASE Known # 0
      <4>1. Known \in Event
        BY <3>2, ConstantFacts, <1>1 DEF Event
      <4>2. Known \in logged
        BY <4>1, ConstantFacts DEF IdxInv, LogInv
      <4>3. Ledger[Known] <= Ledger[m]
        BY <2>2, <2>4, <4>1, <4>2, ConstantFacts
      <4> QED BY <4>3, <3>2 DEF Past
    <3> QED BY <3>1, <3>2
  <2> QED BY <2>3, <2>4, <2>5, <1>1
<1> QED BY <1>2, <1>3

LEMMA LastIndexedType ==
  ASSUME IdxInv
  PROVE  LastIndexedLedger \in 0 .. tip /\ Past <= LastIndexedLedger
BY IdxTypes, LatestLoggedType DEF LastIndexedLedger, IdxInv, BoundsInv

LEMMA IdxInit == IndexerInit => IdxInv
<1> SUFFICES ASSUME IndexerInit PROVE IdxInv
  OBVIOUS
<1> USE ConstantFacts DEF IndexerInit
<1>1. status \in Statuses
  BY StatusAfterType
<1>2. IndexerTypeOK
  BY <1>1 DEF IndexerTypeOK, Statuses, Larger
<1>3. LogInv
  BY DEF LogInv
<1>4. BoundsInv /\ WorkInv
  BY DEF BoundsInv, WorkInv
<1> QED BY <1>2, <1>3, <1>4 DEF IdxInv

\* With nothing on the page, the node has nothing more to serve.
LEMMA EmptyPage ==
  Page = {} => Pending = {}
<1> SUFFICES ASSUME Pending # {} PROVE Page # {}
  OBVIOUS
<1>1. Pending \in SUBSET Nat
  BY ConstantFacts DEF Pending
<1>2. PICK m \in Pending : \A y \in Pending : m <= y
  BY <1>1, Least
<1>3. {f \in Pending : f < m} = {}
  <2>1. m \in Int /\ \A f \in Pending : f \in Int /\ m <= f
    BY <1>1, <1>2
  <2>2. \A f \in Pending : ~ (f < m)
    BY <2>1
  <2> QED BY <2>2
<1>4. Cardinality({f \in Pending : f < m}) = 0
  BY <1>3, FS_EmptySet
<1>5. m \in Page
  BY <1>2, <1>4, ConstantFacts DEF Page
<1> QED BY <1>5

LEMMA IdxPoll == ASSUME IdxInv, Poll PROVE IdxInv'
<1> USE ConstantFacts, IdxTypes
<1>1. last' \in 0 .. tip /\ Past <= last'
  BY LastIndexedType DEF Poll
<1>2. IndexerTypeOK'
  BY <1>1 DEF Poll, rows, IdxInv, IndexerTypeOK
<1>3. LogInv' /\ BoundsInv'
  BY <1>1 DEF Poll, rows, IdxInv, LogInv, BoundsInv
<1>4. WorkInv'
  BY DEF Poll, rows, IdxInv, WorkInv
<1> QED BY <1>2, <1>3, <1>4 DEF IdxInv

LEMMA IdxFetch == ASSUME IdxInv, FetchPage PROVE IdxInv'
<1> USE ConstantFacts, IdxTypes
<1>1. observed' = tip /\ high' = last /\ last <= tip
  BY LargerFacts DEF FetchPage, Larger
<1>2. \A e \in todo' : e \in Event /\ last < Ledger[e] /\ Ledger[e] <= tip
  BY DEF FetchPage, Page, Pending, IdxInv, WorkInv
<1>3. IndexerTypeOK'
  BY <1>1, <1>2 DEF FetchPage, rows, IdxInv, IndexerTypeOK
<1>4. LogInv' /\ BoundsInv'
  BY DEF FetchPage, rows, IdxInv, LogInv, BoundsInv
<1>5. WorkInv'
  BY <1>1, <1>2 DEF FetchPage, rows, IdxInv, WorkInv
<1> QED BY <1>3, <1>4, <1>5 DEF IdxInv

LEMMA IdxSkip == ASSUME IdxInv, NEW e \in todo, Skip(e) PROVE IdxInv'
<1> USE ConstantFacts, IdxTypes
<1>0. e \in Event /\ pc = "ingest" /\ Ledger[e] <= tip /\ Ledger[e] <= observed /\ Ledger[e] \in Nat
  BY DEF Skip, At, IdxInv, WorkInv
<1>1. high' \in {high, Ledger[e]}
  BY <1>0, LargerFacts DEF Skip
<1>2. IndexerTypeOK'
  BY <1>0, <1>1 DEF Skip, rows, memory, IdxInv, IndexerTypeOK
<1>3. LogInv' /\ BoundsInv'
  BY DEF Skip, rows, memory, IdxInv, LogInv, BoundsInv
<1>4. WorkInv'
  <2>1. todo' = todo \ {e} /\ stage = "check" /\ UNCHANGED <<tip, last, observed, pc, stage>>
    BY DEF Skip, At, memory
  <2>2. last <= high' /\ high' <= observed
    BY <1>0, <1>1 DEF IdxInv, WorkInv
  <2> QED BY <1>0, <2>1, <2>2 DEF IdxInv, WorkInv
<1> QED BY <1>2, <1>3, <1>4 DEF IdxInv

LEMMA IdxLog == ASSUME IdxInv, NEW e \in todo, LogEvent(e) PROVE IdxInv'
<1> USE ConstantFacts, IdxTypes
<1>0. e \in Event /\ pc = "ingest" /\ Ledger[e] <= tip
  BY DEF LogEvent, At, IdxInv, WorkInv
<1>2. IndexerTypeOK'
  BY <1>0 DEF LogEvent, memory, IdxInv, IndexerTypeOK
<1>3. LogInv' /\ BoundsInv'
  BY <1>0 DEF LogEvent, memory, IdxInv, LogInv, BoundsInv
<1>4. WorkInv'
  BY <1>0 DEF LogEvent, memory, IdxInv, WorkInv
<1> QED BY <1>2, <1>3, <1>4 DEF IdxInv

LEMMA IdxApply == ASSUME IdxInv, NEW e \in todo, ApplyEvent(e) PROVE IdxInv'
<1> USE ConstantFacts, IdxTypes
<1>0. e \in Event /\ pc = "ingest" /\ last < Ledger[e] /\ Past <= last /\ e <= N
  BY DEF ApplyEvent, At, IdxInv, WorkInv, BoundsInv, Event
<1>1. e > Known /\ e \in Known .. N
  BY <1>0
<1>2. status' \in Statuses
  BY AfterType DEF ApplyEvent, IdxInv, IndexerTypeOK, Statuses
<1>3. IndexerTypeOK'
  BY <1>1, <1>2 DEF ApplyEvent, rows, memory, IdxInv, IndexerTypeOK, Statuses
<1>4. LogInv' /\ BoundsInv'
  BY DEF ApplyEvent, rows, memory, IdxInv, LogInv, BoundsInv
<1>5. WorkInv'
  BY <1>0 DEF ApplyEvent, rows, memory, IdxInv, WorkInv
<1> QED BY <1>3, <1>4, <1>5 DEF IdxInv

LEMMA IdxMark == ASSUME IdxInv, NEW e \in todo, MarkProcessed(e) PROVE IdxInv'
<1> USE ConstantFacts, IdxTypes
<1>0. e \in Event /\ pc = "ingest" /\ Ledger[e] <= tip /\ Ledger[e] <= observed /\ Ledger[e] \in Nat
  BY DEF MarkProcessed, At, IdxInv, WorkInv
<1>1. high' \in {high, Ledger[e]}
  BY <1>0, LargerFacts DEF MarkProcessed
<1>2. IndexerTypeOK'
  BY <1>0, <1>1 DEF MarkProcessed, memory, IdxInv, IndexerTypeOK
<1>3. LogInv' /\ BoundsInv'
  BY <1>0 DEF MarkProcessed, memory, IdxInv, LogInv, BoundsInv
<1>4. WorkInv'
  <2>1. todo' = todo \ {e} /\ stage' = "check" /\ UNCHANGED <<tip, last, observed, pc>>
    BY DEF MarkProcessed, At, memory
  <2>2. last <= high' /\ high' <= observed
    BY <1>0, <1>1 DEF IdxInv, WorkInv
  <2> QED BY <1>0, <2>1, <2>2 DEF IdxInv, WorkInv
<1> QED BY <1>2, <1>3, <1>4 DEF IdxInv

LEMMA IdxSave == ASSUME IdxInv, SaveCheckpoint PROVE IdxInv'
<1> USE ConstantFacts, IdxTypes
<1>0. Larger(high, observed) = observed /\ last <= observed /\ Past <= last
  BY DEF SaveCheckpoint, Larger, IdxInv, WorkInv, BoundsInv
<1>2. IndexerTypeOK'
  BY <1>0 DEF SaveCheckpoint, IdxInv, IndexerTypeOK
<1>3. LogInv' /\ BoundsInv'
  BY <1>0 DEF SaveCheckpoint, IdxInv, LogInv, BoundsInv
<1>4. WorkInv'
  BY <1>0 DEF SaveCheckpoint, IdxInv, WorkInv
<1> QED BY <1>2, <1>3, <1>4 DEF IdxInv

LEMMA IdxFault == ASSUME IdxInv, PollFails \/ Crash PROVE IdxInv'
<1> USE ConstantFacts, IdxTypes
<1>0. last' \in 0 .. tip /\ (last' = 0 \/ Past <= last') /\ faults' \in 0 .. MaxFaults
  <2>1. CASE PollFails
    <3>1. pc = "ingest" /\ todo = {} => Past <= high
      BY <2>1 DEF PollFails, IdxInv, BoundsInv, WorkInv
    <3> QED BY <2>1, <3>1 DEF PollFails, IdxInv, BoundsInv
  <2>2. CASE Crash
    BY <2>2 DEF Crash
  <2> QED BY <2>1, <2>2
<1>1. /\ UNCHANGED <<tip, log, checkpoint, status, applied>> /\ pc' = "idle" /\ todo' = {} /\ stage' = "check"
      /\ observed' \in {0, observed} /\ high' \in {0, high}
  BY DEF PollFails, Crash, rows
<1>2. IndexerTypeOK'
  BY <1>0, <1>1 DEF IdxInv, IndexerTypeOK
<1>3. LogInv' /\ BoundsInv' /\ WorkInv'
  BY <1>0, <1>1 DEF IdxInv, LogInv, BoundsInv, WorkInv
<1> QED BY <1>2, <1>3 DEF IdxInv

\* What a handler does to the fields of the indexer.
HandlerStep ==
    \/ UNCHANGED indexerVars
    \/ \E e \in todo : At(e, "dispatch") /\ stage' = "mark" /\ faults' \in 0 .. MaxFaults
                       /\ UNCHANGED <<tip, rows, memory, pc, todo, high, status, applied>>

\* What a handler writes: a row unless there is one, a row over what is there,
\* or a proposal and its tally.
InsertStep(e) == At(e, "dispatch") /\ e \in Inserting /\ Insert(e)

OverwriteStep(e) ==
    /\ At(e, "dispatch") /\ e \in Overwriting /\ Overwrite(e)
    /\ \/ Kind[e] = "merge_voted" /\ UNCHANGED appended
       \/ appended' = [appended EXCEPT ![e] = @ + 1]

ProposalStep(e) ==
    /\ At(e, "dispatch") /\ e \notin Inserting
    /\ e \in Overwriting => Kind[e] = "merge_voted"
    /\ \/ \E k \in ProposedKinds : RecordProposal(e, k)
       \/ \E k \in ExecutedKinds : RecordExecution(e, k)
       \/ CountVotes(e)

LEMMA HandlerCases ==
  ASSUME IdxInv, Handle
  PROVE  \E e \in todo :
            InsertStep(e) \/ OverwriteStep(e) \/ ProposalStep(e) \/ Dispatched(e)
<1>1. PICK e \in todo :
         \/ RecordDividend(e) \/ RecordDividendClaim(e)
         \/ RecordRoyalty(e) \/ RecordRoyaltyClaim(e) \/ RecordSwap(e)
         \/ RecordVote(e) \/ CountVotes(e)
         \/ \E k \in {"acl_updated", "key_config_updated"} : Update(e, k)
         \/ \E k \in ProposedKinds : RecordProposal(e, k)
         \/ \E k \in ExecutedKinds : RecordExecution(e, k)
         \/ Dispatched(e)
  BY DEF Handle
<1>2. e \in Event
  BY IdxTypes
<1>3. CASE RecordDividend(e) \/ RecordDividendClaim(e)
           \/ RecordRoyalty(e) \/ RecordRoyaltyClaim(e) \/ RecordSwap(e)
  <2>1. InHand(e, Kind[e]) /\ Kind[e] \in InsertKinds /\ Insert(e)
    BY <1>3 DEF RecordDividend, RecordDividendClaim, RecordRoyalty, RecordRoyaltyClaim, RecordSwap,
      InHand, InsertKinds
  <2> QED BY <1>2, <2>1 DEF InHand, InsertStep, Inserting
<1>4. CASE RecordVote(e)
  BY <1>2, <1>4 DEF RecordVote, InHand, OverwriteStep, Overwriting, OverwriteKinds
<1>5. CASE \E k \in {"acl_updated", "key_config_updated"} : Update(e, k)
  BY <1>2, <1>5 DEF Update, InHand, OverwriteStep, Overwriting, OverwriteKinds
<1>6. CASE CountVotes(e)
  BY <1>6 DEF CountVotes, InHand, ProposalStep, Inserting, InsertKinds
<1>7. CASE \/ \E k \in ProposedKinds : RecordProposal(e, k)
           \/ \E k \in ExecutedKinds : RecordExecution(e, k)
  <2>1. At(e, "dispatch") /\ Kind[e] \in ProposedKinds \cup ExecutedKinds
    BY <1>7 DEF RecordProposal, RecordExecution, InHand
  <2>2. e \notin Inserting /\ e \notin Overwriting
    BY <2>1 DEF ProposedKinds, ExecutedKinds, Inserting, InsertKinds, Overwriting, OverwriteKinds
  <2> QED BY <1>7, <2>1, <2>2 DEF ProposalStep
<1> QED BY <1>1, <1>3, <1>4, <1>5, <1>6, <1>7

LEMMA HandlersOfIndexer ==
  ASSUME IdxInv, Handle \/ (\E e \in todo : HandlerFails(e)) \/ UNCHANGED vars
  PROVE  HandlerStep
<1> USE IdxTypes, ConstantFacts
<1>1. CASE UNCHANGED vars
  BY <1>1 DEF vars, HandlerStep
<1>2. CASE \E e \in todo : HandlerFails(e)
  <2>1. PICK e \in todo : HandlerFails(e)
    BY <1>2
  <2>2. {e} # {} /\ faults + 1 \in 0 .. MaxFaults
    BY <2>1 DEF HandlerFails
  <2> QED BY <2>1, <2>2 DEF HandlerFails, Return, HandlerStep
<1>3. CASE Handle
  <2>1. PICK e \in todo : InsertStep(e) \/ OverwriteStep(e) \/ ProposalStep(e) \/ Dispatched(e)
    BY <1>3, HandlerCases
  <2>2. CASE Dispatched(e)
    BY <2>2 DEF Dispatched, Return, HandlerStep
  <2>3. CASE InsertStep(e) \/ OverwriteStep(e) \/ ProposalStep(e)
    BY <2>3 DEF InsertStep, Insert, OverwriteStep, Overwrite, ProposalStep, RecordProposal,
      RecordExecution, CountVotes, HandlerStep
  <2> QED BY <2>1, <2>2, <2>3
<1> QED BY <1>1, <1>2, <1>3

LEMMA IdxStep == ASSUME IdxInv, [Next]_vars PROVE IdxInv'
<1> USE ConstantFacts, IdxTypes
<1>1. CASE HandlerStep
  <2>1. CASE UNCHANGED indexerVars
    BY <2>1 DEF indexerVars, IdxInv, IndexerTypeOK, LogInv, BoundsInv, WorkInv
  <2>2. ASSUME NEW e \in todo, At(e, "dispatch"), stage' = "mark", faults' \in 0 .. MaxFaults,
               UNCHANGED <<tip, rows, memory, pc, todo, high, status, applied>>
        PROVE  IdxInv'
    <3>1. IndexerTypeOK' /\ LogInv' /\ BoundsInv'
      BY <2>2 DEF rows, memory, IdxInv, IndexerTypeOK, LogInv, BoundsInv
    <3>2. WorkInv'
      BY <2>2 DEF rows, memory, At, IdxInv, WorkInv
    <3> QED BY <3>1, <3>2 DEF IdxInv
  <2> QED BY <1>1, <2>1, <2>2 DEF HandlerStep
<1>2. CASE CloseLedger
  <2>1. tip' = tip + 1 /\ tip' <= Larger(Past, LastLedger)
    BY <1>2, LargerFacts DEF CloseLedger
  <2>2. IndexerTypeOK'
    BY <1>2, <2>1, LargerFacts DEF CloseLedger, rows, memory, working, IdxInv, IndexerTypeOK
  <2>3. LogInv' /\ BoundsInv'
    BY <1>2, <2>1 DEF CloseLedger, rows, memory, working, IdxInv, LogInv, BoundsInv
  <2>4. WorkInv'
    BY <1>2, <2>1 DEF CloseLedger, rows, memory, working, IdxInv, WorkInv
  <2> QED BY <2>2, <2>3, <2>4 DEF IdxInv
<1>3. ASSUME NEW e \in todo, ProcessInsight(e) PROVE IdxInv'
  BY <1>3 DEF ProcessInsight, At, rows, memory, IdxInv, IndexerTypeOK, LogInv, BoundsInv, WorkInv
<1>4. CASE IndexerNext
  BY <1>2, <1>3, <1>4, IdxPoll, IdxFetch, IdxSkip, IdxLog, IdxApply, IdxMark, IdxSave, IdxFault
  DEF IndexerNext, Ingest
<1> QED BY <1>1, <1>4, HandlersOfIndexer DEF Next, Indexer

-----------------------------------------------------------------------------
(* The rows of the projections have their types.                           *)

RowTypes ==
    /\ \A e \in Inserting : stored[e] \in [0 .. Holders[e] -> Nat]
    /\ stored = [e \in Inserting |-> stored[e]]
    /\ latest \in [Subjects -> {0} \cup Overwriting]
    /\ appended \in [Overwriting -> Nat]
    /\ proposal \in [{"merge", "migration"} -> {"none", "pending", "completed"}]
    /\ tally \in [yes : Nat, no : Nat]
    /\ written \in Nat
    /\ lost \in SUBSET Event

LEMMA RowTypesInit == Init => RowTypes
BY ProjectionAssumption DEF Init, RowTypes

LEMMA VotesType == \A b \in BOOLEAN : Votes(b) \in Nat
<1> TAKE b \in BOOLEAN
<1>1. {v \in Voters : latest[v] # 0 /\ Support[latest[v]] = b} \subseteq Voters
  OBVIOUS
<1>2. IsFiniteSet({v \in Voters : latest[v] # 0 /\ Support[latest[v]] = b})
  BY <1>1, ProjectionAssumption, FS_Subset
<1> QED BY <1>2, FS_CardinalityType DEF Votes

\* What an insertion does to the rows.
LEMMA InsertFacts ==
  ASSUME RowTypes, NEW e \in todo, InsertStep(e)
  PROVE  /\ e \in Inserting /\ Holders[e] \in Nat /\ written \in 0 .. Holders[e]
         /\ written' = written + 1
         /\ UNCHANGED <<indexerVars, latest, appended, proposal, tally, lost>>
         /\ stored' = [f \in Inserting |-> stored'[f]]
         /\ \A f \in Inserting : f # e => stored'[f] = stored[f]
         /\ stored'[e] \in [0 .. Holders[e] -> Nat]
         /\ \A k \in 0 .. Holders[e] :
               stored'[e][k] = IF k = written /\ ~ Taken(e, written) THEN 1 ELSE stored[e][k]
<1>1. e \in Inserting /\ Holders[e] \in Nat /\ written \in 0 .. Holders[e] /\ written' = written + 1
      /\ UNCHANGED <<indexerVars, latest, appended, proposal, tally, lost>>
  BY ProjectionAssumption DEF InsertStep, Insert, RowTypes
<1>2. stored[e] \in [0 .. Holders[e] -> Nat] /\ stored = [f \in Inserting |-> stored[f]]
  BY <1>1 DEF RowTypes
<1>3. CASE Taken(e, written)
  BY <1>1, <1>2, <1>3 DEF InsertStep, Insert
<1>4. CASE ~ Taken(e, written)
  <2> DEFINE row == [stored[e] EXCEPT ![written] = 1]
  <2>1. stored' = [stored EXCEPT ![e] = row]
    BY <1>4 DEF InsertStep, Insert
  <2>2. row \in [0 .. Holders[e] -> Nat]
        /\ \A k \in 0 .. Holders[e] : row[k] = IF k = written THEN 1 ELSE stored[e][k]
    BY <1>1, <1>2
  <2> HIDE DEF row
  <2>3. stored'[e] = row /\ \A f \in Inserting : f # e => stored'[f] = stored[f]
    BY <1>1, <1>2, <2>1
  <2>4. stored' = [f \in Inserting |-> stored'[f]]
    BY <1>2, <2>1
  <2> QED BY <1>1, <1>4, <2>2, <2>3, <2>4
<1> QED BY <1>3, <1>4

LEMMA RowTypesStep == ASSUME IdxInv, RowTypes, [Next]_vars PROVE RowTypes'
<1> USE ProjectionAssumption DEF projections
<1>1. CASE UNCHANGED vars
  BY <1>1 DEF vars, RowTypes
<1>2. CASE Indexer
  BY <1>2 DEF Indexer, RowTypes
<1>3. ASSUME NEW e \in todo, HandlerFails(e) PROVE RowTypes'
  <2>1. e \in Event
    BY IdxTypes
  <2> QED BY <1>3, <2>1 DEF HandlerFails, Return, RowTypes
<1>4. ASSUME NEW e \in todo, InsertStep(e) PROVE RowTypes'
  <2> HIDE ProjectionAssumption
  <2>1. \A f \in Inserting : stored'[f] \in [0 .. Holders[f] -> Nat]
    BY <1>4, InsertFacts DEF RowTypes
  <2>2. stored' = [f \in Inserting |-> stored'[f]] /\ written' \in Nat
        /\ UNCHANGED <<latest, appended, proposal, tally, lost>>
    BY <1>4, InsertFacts
  <2> QED BY <2>1, <2>2 DEF RowTypes
<1>5. ASSUME NEW e \in todo, OverwriteStep(e) PROVE RowTypes'
  <2>1. e \in Overwriting /\ Subject[e] \in Subjects
    BY <1>5 DEF OverwriteStep
  <2>2. latest' = [latest EXCEPT ![Subject[e]] = e] /\ written' = 1
        /\ UNCHANGED <<stored, proposal, tally, lost>>
    BY <1>5 DEF OverwriteStep, Overwrite
  <2>3. appended' = appended \/ appended' = [appended EXCEPT ![e] = @ + 1]
    BY <1>5 DEF OverwriteStep
  <2>4. latest \in [Subjects -> {0} \cup Overwriting] /\ appended \in [Overwriting -> Nat]
    BY DEF RowTypes
  <2> HIDE ProjectionAssumption
  <2>5. latest' \in [Subjects -> {0} \cup Overwriting]
    BY <2>1, <2>2, <2>4
  <2>6. appended[e] + 1 \in Nat
    BY <2>1, <2>4
  <2>7. appended' \in [Overwriting -> Nat]
    BY <2>1, <2>3, <2>4, <2>6
  <2>8. (\A f \in Inserting : stored'[f] \in [0 .. Holders[f] -> Nat])
        /\ stored' = [f \in Inserting |-> stored'[f]]
    BY <2>2 DEF RowTypes
  <2> QED BY <2>2, <2>5, <2>7, <2>8 DEF RowTypes
<1>6. ASSUME NEW e \in todo, ProposalStep(e) PROVE RowTypes'
  <2>1. CASE CountVotes(e)
    BY <2>1, VotesType DEF CountVotes, Counted, RowTypes
  <2>2. ASSUME NEW k, RecordProposal(e, k) \/ RecordExecution(e, k) PROVE RowTypes'
    BY <2>2 DEF RecordProposal, RecordExecution, RowTypes
  <2> QED BY <1>6, <2>1, <2>2 DEF ProposalStep
<1>7. ASSUME NEW e \in todo, Dispatched(e) PROVE RowTypes'
  BY <1>7 DEF Dispatched, Return, RowTypes
<1> QED BY <1>1, <1>2, <1>3, <1>4, <1>5, <1>6, <1>7, HandlerCases DEF Next

\* Every variable keeps its type in every deployment: in particular neither the
\* checkpoint nor the fields of the service run ahead of the closed ledgers
\* (saveLastIndexedLedger, getLastIndexedLedger with its fallback).
THEOREM TypeCorrect == Spec => []TypeOK
<1>1. Init => IdxInv /\ RowTypes
  BY IdxInit, RowTypesInit DEF Init
<1>2. IdxInv /\ RowTypes /\ [Next]_vars => (IdxInv /\ RowTypes)'
  BY IdxStep, RowTypesStep
<1>3. IdxInv /\ RowTypes => TypeOK
  BY DEF IdxInv, RowTypes, TypeOK
<1> QED BY <1>1, <1>2, <1>3, PTL DEF Spec

-----------------------------------------------------------------------------
(* A deployment that starts from a checkpoint                              *)

\* e is the event the poll deals with.
First(e) == e \in todo /\ \A f \in todo : e <= f

FetchedInv ==
    pc = "ingest" =>
        \A e \in Event : last < Ledger[e] /\ Ledger[e] <= observed =>
                            e \in todo \/ log[e] = "processed"

AppliedInv ==
    /\ \A e \in Event : e < applied => log[e] = "processed"
    /\ \A e \in Event : e > applied => log[e] # "processed"
    /\ stage # "check" => \A e \in todo : First(e) => log[e] = "open"
    /\ stage \in {"insight", "dispatch", "mark"} => First(applied)

OrderInv == checkpoint > 0 /\ NothingSkipped /\ FetchedInv /\ AppliedInv

LEMMA OrderInit ==
  ASSUME Checkpointed, Known > 0, IndexerInit
  PROVE  OrderInv
BY ConstantFacts DEF IndexerInit, OrderInv, NothingSkipped, FetchedInv, AppliedInv

\* The events before the one in hand are processed, and the one in hand is the
\* newest that was applied or the one after it.
LEMMA InHandNext ==
  ASSUME IdxInv, OrderInv, pc = "ingest", NEW e \in todo, First(e), log[e] # "processed"
  PROVE  /\ \A f \in Event : f < e => log[f] = "processed"
         /\ e \in {applied, applied + 1}
<1> USE ConstantFacts, IdxTypes
<1>1. e \in Event /\ Ledger[e] <= observed /\ applied \in Nat
  BY DEF IdxInv, WorkInv
<1>2. ASSUME NEW f \in Event, f < e PROVE log[f] = "processed"
  <2>1. Ledger[f] <= Ledger[e] /\ Ledger[f] <= observed
    BY <1>1, <1>2
  <2>2. CASE Ledger[f] <= last
    BY <2>2 DEF OrderInv, NothingSkipped
  <2>3. CASE last < Ledger[f]
    <3>1. f \notin todo
      BY <1>1, <1>2 DEF First
    <3> QED BY <2>1, <2>3, <3>1 DEF OrderInv, FetchedInv
  <2> QED BY <1>1, <2>2, <2>3
<1>3. e >= applied
  BY <1>1 DEF OrderInv, AppliedInv
<1>4. e <= applied + 1
  <2> SUFFICES ASSUME e > applied + 1 PROVE FALSE
    BY <1>1
  <2>1. e - 1 \in Event /\ e - 1 > applied /\ e - 1 < e
    BY <1>1 DEF Event
  <2> QED BY <2>1, <1>2 DEF OrderInv, AppliedInv
<1> QED BY <1>1, <1>2, <1>3, <1>4

LEMMA OrderFetch == ASSUME IdxInv, OrderInv, FetchPage PROVE OrderInv'
<1> USE ConstantFacts, IdxTypes
<1>1. observed' = tip /\ UNCHANGED <<tip, log, checkpoint, last, applied>>
  BY LargerFacts DEF FetchPage, Larger, rows
<1>2. pc' = "ingest" => Pending = {} /\ todo' = todo
  BY EmptyPage DEF FetchPage
<1>3. FetchedInv'
  BY <1>1, <1>2 DEF FetchedInv, Pending
<1>4. stage' = "check"
  BY DEF FetchPage
<1> QED BY <1>1, <1>3, <1>4 DEF OrderInv, NothingSkipped, AppliedInv

LEMMA OrderSkip == ASSUME IdxInv, OrderInv, NEW e \in todo, Skip(e) PROVE OrderInv'
<1>1. UNCHANGED <<tip, log, checkpoint, last, observed, pc, stage, applied>>
      /\ stage = "check" /\ log[e] = "processed" /\ todo' = todo \ {e}
  BY DEF Skip, At, rows, memory
<1> QED BY <1>1 DEF OrderInv, NothingSkipped, FetchedInv, AppliedInv

LEMMA OrderLog == ASSUME IdxInv, OrderInv, NEW e \in todo, LogEvent(e) PROVE OrderInv'
<1> USE ConstantFacts, IdxTypes
<1>1. /\ UNCHANGED <<tip, checkpoint, last, observed, pc, todo, applied>>
      /\ log[e] # "processed" /\ log' = [log EXCEPT ![e] = "open"] /\ stage' = "apply"
      /\ pc = "ingest" /\ First(e) /\ e \in Event
  BY DEF LogEvent, At, memory, First
<1>2. NothingSkipped'
  BY <1>1 DEF OrderInv, NothingSkipped
<1>3. FetchedInv'
  BY <1>1 DEF OrderInv, FetchedInv
<1>4. AppliedInv'
  <2>1. \A f \in todo : First(f)' => f = e
    BY <1>1 DEF First
  <2>2. ~ (e < applied)
    BY <1>1 DEF OrderInv, AppliedInv
  <2> QED BY <1>1, <2>1, <2>2 DEF OrderInv, AppliedInv
<1> QED BY <1>1, <1>2, <1>3, <1>4 DEF OrderInv

LEMMA OrderApply ==
  ASSUME IdxInv, OrderInv, NEW e \in todo, ApplyEvent(e)
  PROVE  OrderInv' /\ e \in {applied, applied + 1}
<1> USE ConstantFacts, IdxTypes
<1>1. /\ UNCHANGED <<tip, log, checkpoint, last, observed, pc, todo>>
      /\ applied' = e /\ stage = "apply" /\ pc = "ingest" /\ First(e) /\ e \in Event
  BY DEF ApplyEvent, At, rows, memory, First
<1>2. log[e] = "open"
  BY <1>1 DEF OrderInv, AppliedInv
<1>3. (\A f \in Event : f < e => log[f] = "processed") /\ e \in {applied, applied + 1}
  BY <1>1, <1>2, InHandNext
<1>4. AppliedInv'
  <2>1. \A f \in todo : First(f)' => f = e
    BY <1>1 DEF First
  <2>2. First(applied)'
    BY <1>1 DEF First
  <2>3. \A f \in Event : f > e => log[f] # "processed"
    BY <1>3 DEF OrderInv, AppliedInv
  <2> QED BY <1>1, <1>2, <1>3, <2>1, <2>2, <2>3 DEF AppliedInv
<1>5. (NothingSkipped /\ FetchedInv)' /\ checkpoint' > 0
  BY <1>1 DEF OrderInv, NothingSkipped, FetchedInv
<1> QED BY <1>3, <1>4, <1>5 DEF OrderInv

LEMMA OrderMark == ASSUME IdxInv, OrderInv, NEW e \in todo, MarkProcessed(e) PROVE OrderInv'
<1> USE ConstantFacts, IdxTypes
<1>1. /\ UNCHANGED <<tip, checkpoint, last, observed, pc, applied>> /\ todo' = todo \ {e}
      /\ log' = [log EXCEPT ![e] = "processed"] /\ stage' = "check" /\ stage = "mark"
      /\ First(e) /\ e \in Event
  BY DEF MarkProcessed, At, memory, First
<1>2. e = applied
  BY <1>1 DEF OrderInv, AppliedInv, First
<1> QED BY <1>1, <1>2 DEF OrderInv, NothingSkipped, FetchedInv, AppliedInv

LEMMA OrderSave == ASSUME Known > 0, IdxInv, OrderInv, SaveCheckpoint PROVE OrderInv'
<1> USE ConstantFacts, IdxTypes
<1>1. /\ Larger(high, observed) = observed /\ last <= observed /\ todo = {} /\ pc = "ingest"
      /\ checkpoint' = observed /\ last' = observed /\ pc' = "idle"
      /\ stage = "check" /\ UNCHANGED <<log, todo, stage, applied>>
  BY DEF SaveCheckpoint, Larger, IdxInv, WorkInv
<1>2. \A e \in Event : Ledger[e] <= observed => log[e] = "processed"
  BY <1>1 DEF OrderInv, NothingSkipped, FetchedInv
<1>3. observed > 0
  BY <1>1 DEF IdxInv, BoundsInv
<1> QED BY <1>1, <1>2, <1>3 DEF OrderInv, NothingSkipped, FetchedInv, AppliedInv

LEMMA OrderFault == ASSUME IdxInv, OrderInv, PollFails \/ Crash PROVE OrderInv'
<1> USE ConstantFacts, IdxTypes
<1>1. /\ UNCHANGED <<tip, log, checkpoint, status, applied>> /\ pc' = "idle" /\ todo' = {} /\ stage' = "check"
      /\ \/ last' \in {0, last}
         \/ last' = high /\ pc = "ingest" /\ todo = {}
  BY DEF PollFails, Crash, rows
<1>2. ASSUME NEW e \in Event, Ledger[e] <= last' PROVE log[e] = "processed"
  <2>1. CASE last' \in {0, last}
    BY <1>2, <2>1 DEF OrderInv, NothingSkipped
  <2>2. CASE last' = high /\ pc = "ingest" /\ todo = {}
    <3>1. Ledger[e] <= observed
      BY <1>2, <2>2 DEF IdxInv, WorkInv
    <3> QED BY <2>2, <3>1 DEF OrderInv, NothingSkipped, FetchedInv
  <2> QED BY <1>1, <2>1, <2>2
<1> QED BY <1>1, <1>2 DEF OrderInv, NothingSkipped, FetchedInv, AppliedInv

LEMMA OrderStep ==
  ASSUME Known > 0, IdxInv, OrderInv, [Next]_vars
  PROVE  OrderInv'
<1> USE ConstantFacts, IdxTypes
<1>1. CASE HandlerStep
  <2>1. CASE UNCHANGED indexerVars
    BY <2>1 DEF indexerVars, OrderInv, NothingSkipped, FetchedInv, AppliedInv, First
  <2>2. ASSUME NEW e \in todo, At(e, "dispatch"), stage' = "mark",
               UNCHANGED <<tip, rows, memory, pc, todo, high, status, applied>>
        PROVE  OrderInv'
    BY <2>2 DEF rows, memory, At, OrderInv, NothingSkipped, FetchedInv, AppliedInv, First
  <2> QED BY <1>1, <2>1, <2>2 DEF HandlerStep
<1>2. CASE CloseLedger
  BY <1>2 DEF CloseLedger, rows, memory, working, OrderInv, NothingSkipped, FetchedInv, AppliedInv, First
<1>3. ASSUME NEW e \in todo, ProcessInsight(e) PROVE OrderInv'
  BY <1>3 DEF ProcessInsight, At, rows, memory, OrderInv, NothingSkipped, FetchedInv, AppliedInv, First
<1>4. CASE Poll
  <2>1. last' \in {last, checkpoint} /\ pc' = "fetch" /\ todo' = {} /\ stage = "check"
        /\ UNCHANGED <<log, checkpoint, stage, applied>>
    BY <1>4 DEF Poll, LastIndexedLedger, OrderInv, rows, IdxInv, WorkInv
  <2> QED BY <2>1 DEF OrderInv, NothingSkipped, FetchedInv, AppliedInv
<1>5. CASE IndexerNext
  BY <1>2, <1>3, <1>4, <1>5, OrderFetch, OrderSkip, OrderLog, OrderApply, OrderMark, OrderSave, OrderFault
  DEF IndexerNext, Ingest
<1> QED BY <1>1, <1>5, HandlersOfIndexer DEF Next, Indexer

\* A deployment that starts from a checkpoint passes no event over, whatever
\* polls fail and whenever the process crashes (ingestEvents: the checkpoint is
\* saved after the batch, a failed poll leaves it alone).
THEOREM NoEventIsSkipped ==
  ASSUME Checkpointed, Known > 0
  PROVE  Spec => []NothingSkipped
<1>1. Init => IdxInv /\ OrderInv
  BY IdxInit, OrderInit DEF Init
<1>2. IdxInv /\ OrderInv /\ [Next]_vars => (IdxInv /\ OrderInv)'
  BY IdxStep, OrderStep
<1>3. IdxInv /\ OrderInv => NothingSkipped
  BY DEF OrderInv
<1> QED BY <1>1, <1>2, <1>3, PTL DEF Spec

-----------------------------------------------------------------------------
(* The status of the invoice                                               *)

\* An application is a replay of the newest event or the next one.
LEMMA ApplyFollows ==
  ASSUME IdxInv, OrderInv, StatusFollowsChain, NEW e \in todo, ApplyEvent(e)
  PROVE  StatusFollowsChain'
<1> USE ConstantFacts, IdxTypes
<1>1. e \in {applied, applied + 1} /\ status' = After(Kind[e], status) /\ applied' = e
      /\ e \in Event
  BY OrderApply DEF ApplyEvent
<1>2. status = StatusAfter[applied] /\ applied \in 0 .. N
  BY DEF StatusFollowsChain
<1>3. StatusAfter[e] = After(Kind[e], StatusAfter[e - 1])
  BY <1>1, StatusAfterStep
<1>4. CASE e = applied + 1
  <2>1. e - 1 = applied
    BY <1>2, <1>4
  <2> QED BY <1>1, <1>2, <1>3, <2>1 DEF StatusFollowsChain
<1>5. CASE e = applied
  <2>1. e - 1 \in 0 .. N
    BY <1>1 DEF Event
  <2>2. StatusAfter[e - 1] \in Statuses
    BY <2>1, StatusAfterType
  <2>3. After(Kind[e], StatusAfter[e]) = StatusAfter[e]
    BY <1>3, <2>2, AfterTwice
  <2> QED BY <1>1, <1>2, <1>5, <2>3 DEF StatusFollowsChain
<1> QED BY <1>1, <1>4, <1>5

LEMMA StatusStep ==
  ASSUME Known > 0, IdxInv, OrderInv, StatusFollowsChain, [Next]_vars
  PROVE  StatusFollowsChain'
<1>1. CASE HandlerStep
  BY <1>1 DEF HandlerStep, indexerVars, StatusFollowsChain
<1>2. CASE IndexerNext
  <2>1. ASSUME ~ (\E e \in todo : ApplyEvent(e)) PROVE UNCHANGED <<status, applied>>
    BY <1>2, <2>1 DEF IndexerNext, Ingest, CloseLedger, Poll, FetchPage, Skip, LogEvent,
      ProcessInsight, MarkProcessed, SaveCheckpoint, PollFails, Crash
  <2> QED BY <2>1, ApplyFollows DEF StatusFollowsChain
<1> QED BY <1>1, <1>2, HandlersOfIndexer DEF Next, Indexer

\* The status of the invoice is the one the chain leads to, up to the newest
\* event that was applied, although a crash has an event applied again
\* (applyEventStateTransition runs before the event is marked as processed).
THEOREM StatusIsOfTheChain ==
  ASSUME Checkpointed, Known > 0
  PROVE  Spec => []StatusFollowsChain
<1> DEFINE I == IdxInv /\ OrderInv /\ StatusFollowsChain
<1>1. Init => I
  BY IdxInit, OrderInit DEF Init, IndexerInit, StatusFollowsChain
<1>2. I /\ [Next]_vars => I'
  BY IdxStep, OrderStep, StatusStep
<1>3. I => StatusFollowsChain
  OBVIOUS
<1> HIDE DEF I
<1> QED BY <1>1, <1>2, <1>3, PTL DEF Spec

-----------------------------------------------------------------------------
(* The refinement: every step is a step of EventDelivery                   *)

\* The events up to a ledger are the first ones.
LEMMA FirstEvents ==
  ASSUME NEW t \in Nat
  PROVE  \E c \in 0 .. N : /\ c = Cardinality({e \in Event : Ledger[e] <= t})
                            /\ \A e \in Event : e <= c <=> Ledger[e] <= t
<1> USE ConstantFacts
<1> DEFINE V == {e \in Event : Ledger[e] <= t}
<1>1. CASE V = {}
  <2>1. 0 = Cardinality(V)
    BY <1>1, FS_EmptySet
  <2>2. \A e \in Event : e <= 0 <=> Ledger[e] <= t
    BY <1>1
  <2>3. 0 \in 0 .. N
    OBVIOUS
  <2> QED BY <2>1, <2>2, <2>3
<1>2. CASE V # {}
  <2>1. V \in SUBSET Event
    OBVIOUS
  <2> HIDE DEF V
  <2>2. PICK m \in V : \A y \in V : y <= m
    BY <1>2, <2>1, Newest
  <2> USE DEF V
  <2>3. m \in Event /\ m \in Nat /\ Ledger[m] <= t
    BY <2>2
  <2>4. \A e \in Event : e <= m <=> Ledger[e] <= t
    <3> TAKE e \in Event
    <3>1. e <= m => Ledger[e] <= Ledger[m]
      BY <2>3
    <3>2. Ledger[e] <= t => e <= m
      BY <2>2
    <3> QED BY <2>3, <3>1, <3>2
  <2>5. V = 1 .. m
    BY <2>3, <2>4 DEF Event
  <2>6. Cardinality(1 .. m) = m
    <3>1. Cardinality(1 .. m) = IF 1 > m THEN 0 ELSE m - 1 + 1
      BY <2>3, FS_Interval
    <3> QED BY <2>3, <3>1
  <2>7. m \in 0 .. N
    BY <2>3 DEF Event
  <2>8. m = Cardinality(V)
    <3> HIDE DEF V
    <3> QED BY <2>5, <2>6
  <2> QED BY <2>4, <2>7, <2>8
<1> QED BY <1>1, <1>2

\* The events on the chain are 1 .. Visible.
LEMMA VisibleFacts ==
  ASSUME IdxInv
  PROVE  /\ Visible \in 0 .. N
         /\ \A e \in Event : e <= Visible <=> Ledger[e] <= tip
BY IdxTypes, FirstEvents DEF Visible

LEMMA DeliveryInit ==
  ASSUME IdxInv, IndexerInit
  PROVE  Delivery!Init
<1> USE ConstantFacts, VisibleFacts
<1>1. Known <= Visible
  <2>1. CASE Known = 0
    BY <2>1
  <2>2. CASE Known # 0
    <3>1. Known \in Event
      BY <2>2 DEF Event
    <3>2. Ledger[Known] <= tip
      BY <3>1 DEF IndexerInit
    <3> QED BY <3>1, <3>2
  <2> QED BY <2>1, <2>2
<1> QED BY <1>1 DEF IndexerInit, Delivery!Init

LEMMA DeliveryStep ==
  ASSUME Known > 0, IdxInv, IdxInv', OrderInv, [Next]_vars
  PROVE  [Delivery!Next]_<<Visible, applied>>
<1> USE ConstantFacts, IdxTypes
<1>1. CASE HandlerStep
  BY <1>1 DEF HandlerStep, indexerVars, Visible
<1>2. CASE CloseLedger
  <2>1. tip' = tip + 1 /\ applied' = applied
    BY <1>2 DEF CloseLedger
  <2>2. Visible \in 0 .. N /\ \A e \in Event : e <= Visible <=> Ledger[e] <= tip
    BY VisibleFacts
  <2>3. Visible' \in 0 .. N /\ \A e \in Event : e <= Visible' <=> Ledger[e] <= tip'
    BY <2>1, FirstEvents DEF Visible
  <2>4. Visible <= Visible'
    <3> SUFFICES ASSUME Visible > Visible' PROVE FALSE
      BY <2>2, <2>3
    <3>1. Visible \in Event /\ Ledger[Visible] <= tip
      BY <2>2, <2>3 DEF Event
    <3> QED BY <2>1, <2>2, <2>3, <3>1
  <2> QED BY <2>1, <2>2, <2>3, <2>4 DEF Delivery!Next, Delivery!Emit
<1>3. ASSUME NEW e \in todo, ApplyEvent(e) PROVE [Delivery!Next]_<<Visible, applied>>
  <2>1. tip' = tip /\ applied' = e /\ e \in {applied, applied + 1} /\ e \in Event /\ Ledger[e] <= tip
    BY <1>3, OrderApply DEF ApplyEvent, IdxInv, WorkInv
  <2>2. Visible' = Visible
    BY <2>1 DEF Visible
  <2>3. e <= Visible /\ Visible \in Nat
    BY <2>1, VisibleFacts
  <2> QED BY <2>1, <2>2, <2>3 DEF Delivery!Next, Delivery!Deliver
<1>4. CASE IndexerNext
  <2>1. ASSUME ~ (\E e \in todo : ApplyEvent(e)), ~ CloseLedger PROVE UNCHANGED <<tip, applied>>
    BY <1>4, <2>1 DEF IndexerNext, Ingest, Poll, FetchPage, Skip, LogEvent,
      ProcessInsight, MarkProcessed, SaveCheckpoint, PollFails, Crash
  <2> QED BY <1>2, <1>3, <2>1 DEF Visible
<1> QED BY <1>1, <1>4, HandlersOfIndexer DEF Next, Indexer

\* A deployment that starts from a checkpoint has the events take effect in the
\* order of the chain, none left out (the safety part of ImplementsDelivery:
\* ingestEvents goes through the sorted events and stops at the first failure).
THEOREM DeliversInOrder ==
  ASSUME Checkpointed, Known > 0
  PROVE  Spec => Delivery!Init /\ [][Delivery!Next]_<<Visible, applied>>
<1>1. Init => IdxInv /\ OrderInv /\ Delivery!Init
  BY IdxInit, OrderInit, DeliveryInit DEF Init
<1>2. IdxInv /\ OrderInv /\ [Next]_vars => (IdxInv /\ OrderInv)'
  BY IdxStep, OrderStep
<1>3. IdxInv /\ OrderInv /\ [Next]_vars => [Delivery!Next]_<<Visible, applied>>
  BY IdxStep, DeliveryStep
<1> QED BY <1>1, <1>2, <1>3, PTL DEF Spec

-----------------------------------------------------------------------------
(* The rows that are written over                                          *)

\* No row is by an event newer than the newest that was applied.
LatestInv == \A s \in Subjects : latest[s] <= applied

LEMMA LatestStep ==
  ASSUME Known > 0, IdxInv, RowTypes, OrderInv, LatestInv, [Next]_vars
  PROVE  LatestInv' /\ \A s \in Subjects : latest'[s] >= latest[s]
<1> USE ConstantFacts, IdxTypes
<1>0. \A s \in Subjects : latest[s] \in Nat
  BY DEF RowTypes, Overwriting
<1>1. ASSUME NEW e \in todo, OverwriteStep(e)
      PROVE  LatestInv' /\ \A s \in Subjects : latest'[s] >= latest[s]
  <2>1. e = applied /\ applied' = applied /\ e \in Nat
    BY <1>1 DEF OverwriteStep, Overwrite, At, OrderInv, AppliedInv, First, indexerVars
  <2>2. \A s \in Subjects : latest'[s] = IF s = Subject[e] THEN e ELSE latest[s]
    BY <1>1 DEF OverwriteStep, Overwrite, RowTypes
  <2> QED BY <1>0, <2>1, <2>2 DEF LatestInv
<1>2. ASSUME UNCHANGED latest
      PROVE  LatestInv' /\ \A s \in Subjects : latest'[s] >= latest[s]
  <2>1. applied' >= applied
    <3>1. CASE HandlerStep
      BY <3>1 DEF HandlerStep, indexerVars
    <3>2. CASE IndexerNext
      <4>1. ASSUME ~ (\E e \in todo : ApplyEvent(e)) PROVE UNCHANGED applied
        BY <3>2, <4>1 DEF IndexerNext, Ingest, CloseLedger, Poll, FetchPage, Skip, LogEvent,
          ProcessInsight, MarkProcessed, SaveCheckpoint, PollFails, Crash
      <4> QED BY <4>1, OrderApply DEF ApplyEvent
    <3> QED BY <3>1, <3>2, HandlersOfIndexer DEF Next, Indexer
  <2>2. applied' \in Nat
    BY IdxStep, ConstantFacts DEF IdxInv, IndexerTypeOK
  <2> QED BY <1>0, <1>2, <2>1, <2>2 DEF LatestInv
<1>3. ASSUME ~ (\E e \in todo : OverwriteStep(e)) PROVE UNCHANGED latest
  <2>1. ASSUME NEW e \in todo, InsertStep(e) \/ ProposalStep(e) \/ Dispatched(e) \/ HandlerFails(e)
        PROVE  UNCHANGED latest
    BY <2>1 DEF InsertStep, Insert, ProposalStep, RecordProposal, RecordExecution, CountVotes,
      Dispatched, HandlerFails, Return, projections
  <2>2. CASE Indexer \/ UNCHANGED vars
    BY <2>2 DEF Indexer, projections, vars
  <2> QED BY <1>3, <2>1, <2>2, HandlerCases DEF Next
<1> QED BY <1>1, <1>2, <1>3

\* A replayed event never replaces what a later one wrote over the same row:
\* a vote, an entry of the ACL, a key configuration (recordVote, applyUpdate
\* and applyConfigUpdate write over whatever is stored).
THEOREM LatestNeverGoesBack ==
  ASSUME Checkpointed, Known > 0
  PROVE  Spec => LatestGoesForward
<1> DEFINE I == IdxInv /\ RowTypes /\ OrderInv /\ LatestInv
<1>1. Init => I
  BY IdxInit, RowTypesInit, OrderInit, ConstantFacts DEF Init, IndexerInit, LatestInv
<1>2. I /\ [Next]_vars => I'
  BY IdxStep, RowTypesStep, OrderStep, LatestStep
<1>3. I /\ [Next]_vars => [\A s \in Subjects : latest'[s] >= latest[s]]_latest
  BY LatestStep
<1> HIDE DEF I
<1> QED BY <1>1, <1>2, <1>3, PTL DEF Spec, LatestGoesForward

-----------------------------------------------------------------------------
(* The rows that are inserted once, in every deployment                    *)

\* There is one row for a key.
OneRow ==
    \A e, f \in Inserting : \A k \in 0 .. Holders[e] :
        /\ stored[e][k] <= 1
        /\ Kind[f] = Kind[e] /\ Key[f] = Key[e] /\ k <= Holders[f]
              /\ stored[e][k] > 0 /\ stored[f][k] > 0 => e = f

\* The first n writes of the handler of e are there.
Written(e, n) ==
    /\ e \in Inserting => \A k \in 0 .. Holders[e] : k < n => Taken(e, k)
    /\ e \in Overwriting /\ Kind[e] # "merge_voted" /\ n > 0 => appended[e] >= 1

Done(e) == Written(e, WritesOf(e))

RowsInv ==
    /\ OneRow
    /\ stage # "dispatch" => written = 0
    /\ stage = "dispatch" => \A e \in Event : First(e) => Written(e, written)
    /\ stage = "mark" => \A e \in Event : First(e) => e \in lost \/ Done(e)
    /\ \A e \in Event : log[e] = "processed" /\ e > Known => e \in lost \/ Done(e)

LEMMA RowsInit == Init => RowsInv
<1> SUFFICES ASSUME Init PROVE RowsInv
  OBVIOUS
<1>1. OneRow
  BY DEF Init, OneRow
<1> QED BY <1>1, ConstantFacts DEF Init, IndexerInit, RowsInv

\* No row is taken away.
Kept == /\ \A e \in Inserting : \A k \in 0 .. Holders[e] : stored'[e][k] >= stored[e][k]
        /\ \A e \in Overwriting : appended'[e] >= appended[e]

LEMMA WrittenStays ==
  ASSUME RowTypes, RowTypes', Kept, NEW e, NEW n, Written(e, n)
  PROVE  Written(e, n)'
<1>1. \A f \in Inserting : \A k \in 0 .. Holders[f] : stored[f][k] \in Nat /\ stored'[f][k] \in Nat
  BY DEF RowTypes
<1>2. \A f \in Inserting : Holders[f] \in Nat
  BY ProjectionAssumption
<1>3. ASSUME NEW k \in Nat, Taken(e, k) PROVE Taken(e, k)'
  <2>1. PICK f \in Inserting :
           Kind[f] = Kind[e] /\ Key[f] = Key[e] /\ k <= Holders[f] /\ stored[f][k] > 0
    BY <1>3 DEF Taken
  <2>2. k \in 0 .. Holders[f]
    BY <1>2, <2>1
  <2>3. stored'[f][k] > 0
    BY <1>1, <2>1, <2>2 DEF Kept
  <2> QED BY <2>1, <2>3 DEF Taken
<1>4. ASSUME e \in Inserting, NEW k \in 0 .. Holders[e], Taken(e, k) PROVE Taken(e, k)'
  BY <1>2, <1>3, <1>4
<1>5. ASSUME e \in Overwriting, appended[e] >= 1 PROVE appended'[e] >= 1
  <2>1. appended[e] \in Nat /\ appended'[e] \in Nat
    BY <1>5 DEF RowTypes
  <2> QED BY <1>5, <2>1 DEF Kept
<1> QED BY <1>4, <1>5 DEF Written

LEMMA DoneStays == ASSUME RowTypes, RowTypes', Kept, NEW e, Done(e) PROVE Done(e)'
<1>1. PICK n : n = WritesOf(e)
  OBVIOUS
<1>2. Written(e, n)
  BY <1>1 DEF Done
<1>3. Written(e, n)'
  BY <1>2, WrittenStays
<1>4. n = WritesOf(e)'
  BY <1>1 DEF WritesOf
<1> QED BY <1>3, <1>4 DEF Done, Written, Taken

\* An insertion keeps the rows that are there and adds none for a key that has one.
LEMMA RowsWrite ==
  ASSUME IdxInv, RowTypes, RowTypes', RowsInv, NEW e \in todo, InsertStep(e)
  PROVE  RowsInv'
<1> USE ConstantFacts, IdxTypes
<1> DEFINE Inserted(w) ==
      /\ e \in Inserting /\ Holders[e] \in Nat /\ w \in 0 .. Holders[e]
      /\ written = w /\ written' = w + 1
      /\ UNCHANGED <<log, todo, stage, appended, lost>>
      /\ \A f \in Inserting : f # e => stored'[f] = stored[f]
      /\ \A k \in 0 .. Holders[e] :
            stored'[e][k] = IF k = w /\ ~ Taken(e, w) THEN 1 ELSE stored[e][k]
<1>1. PICK w \in Nat : Inserted(w)
  BY InsertFacts DEF indexerVars
<1>2. e \in Event /\ First(e) /\ stage = "dispatch" /\ Written(e, w)
  BY <1>1 DEF InsertStep, At, First, RowsInv
<1>3. \A f \in Inserting : \A k \in 0 .. Holders[f] : stored[f][k] \in {0, 1}
  <2> TAKE f \in Inserting
  <2> TAKE k \in 0 .. Holders[f]
  <2>1. stored[f] \in [0 .. Holders[f] -> Nat]
    BY DEF RowTypes
  <2>2. stored[f][k] <= 1
    BY DEF RowsInv, OneRow
  <2> HIDE ConstantFacts, IdxTypes
  <2>3. stored[f][k] \in Nat
    BY <2>1
  <2> QED BY <2>2, <2>3
<1>4. Kept
  <2>1. \A f \in Inserting : \A k \in 0 .. Holders[f] : stored'[f][k] >= stored[f][k]
    <3> TAKE f \in Inserting
    <3> TAKE k \in 0 .. Holders[f]
    <3>1. stored[f][k] \in {0, 1}
      BY <1>3
    <3>2. CASE f # e
      BY <1>1, <3>1, <3>2
    <3>3. CASE f = e
      BY <1>1, <3>1, <3>3
    <3> QED BY <3>2, <3>3
  <2>2. \A f \in Overwriting : appended'[f] >= appended[f]
    BY <1>1 DEF RowTypes
  <2> QED BY <2>1, <2>2 DEF Kept
<1>5. Taken(e, w) => Taken(e, w)'
  <2>1. \A k \in 0 .. Holders[e] : k < w + 1 => (k < w \/ k = w)
    BY <1>1
  <2> HAVE Taken(e, w)
  <2>2. PICK f \in Inserting :
           Kind[f] = Kind[e] /\ Key[f] = Key[e] /\ w <= Holders[f] /\ stored[f][w] > 0
    BY DEF Taken
  <2>3. w \in 0 .. Holders[f]
    BY <1>1, <2>2, ProjectionAssumption
  <2>4. stored[f][w] \in Nat /\ stored'[f][w] \in Nat /\ stored'[f][w] >= stored[f][w]
    BY <1>4, <2>3 DEF Kept, RowTypes
  <2> QED BY <2>2, <2>4 DEF Taken
<1>6. ~ Taken(e, w) => Taken(e, w)'
  <2> HAVE ~ Taken(e, w)
  <2>1. stored'[e][w] = 1 /\ w <= Holders[e]
    BY <1>1
  <2> QED BY <1>1, <2>1 DEF Taken
<1>7. Written(e, w + 1)'
  <2>1. Written(e, w)'
    BY <1>2, <1>4, WrittenStays
  <2>2. \A k \in 0 .. Holders[e] : k < w + 1 => k < w \/ k = w
    BY <1>1
  <2>3. e \notin Overwriting
    BY <1>1 DEF Inserting, Overwriting, InsertKinds, OverwriteKinds
  <2> QED BY <1>5, <1>6, <2>1, <2>2, <2>3 DEF Written
<1>8. OneRow'
  <2> SUFFICES ASSUME NEW f \in Inserting, NEW g \in Inserting, NEW k \in 0 .. Holders[f]
               PROVE  /\ stored'[f][k] <= 1
                      /\ Kind[g] = Kind[f] /\ Key[g] = Key[f] /\ k <= Holders[g]
                            /\ stored'[f][k] > 0 /\ stored'[g][k] > 0 => f = g
    BY DEF OneRow
  <2>1. stored[f][k] \in {0, 1} /\ k \in Nat
    BY <1>3, ProjectionAssumption
  <2>2. stored'[f][k] <= 1
    BY <1>1, <2>1
  <2>3. ASSUME Kind[g] = Kind[f], Key[g] = Key[f], k <= Holders[g],
               stored'[f][k] > 0, stored'[g][k] > 0
        PROVE  f = g
    <3>1. k \in 0 .. Holders[g] /\ k <= Holders[f]
      BY <2>1, <2>3, ProjectionAssumption
    <3>2. stored[g][k] \in {0, 1}
      BY <1>3, <3>1
    <3>3. CASE stored[f][k] > 0 /\ stored[g][k] > 0
      BY <2>3, <3>3 DEF RowsInv, OneRow
    <3>4. CASE f = e /\ k = w /\ ~ Taken(e, w)
      <4>1. ~ (stored[g][k] > 0)
        BY <2>3, <3>1, <3>4 DEF Taken
      <4>2. g # e => stored'[g] = stored[g]
        BY <1>1
      <4> QED BY <2>3, <3>4, <4>1, <4>2
    <3>5. CASE g = e /\ k = w /\ ~ Taken(e, w)
      <4>1. ~ (stored[f][k] > 0)
        BY <2>3, <3>1, <3>5 DEF Taken
      <4>2. f # e => stored'[f] = stored[f]
        BY <1>1
      <4> QED BY <2>3, <3>5, <4>1, <4>2
    <3> QED BY <1>1, <2>1, <2>3, <3>1, <3>2, <3>3, <3>4, <3>5
  <2> QED BY <2>2, <2>3
<1>9. \A d \in Event : First(d)' => d = e
  BY <1>1, <1>2 DEF First
<1>10. stage' = "dispatch" => \A d \in Event : First(d)' => Written(d, written)'
  <2>1. written' = w + 1
    BY <1>1
  <2>2. Written(e, written)'
    BY <1>7, <2>1 DEF Written, Taken
  <2> QED BY <1>9, <2>2
<1>11. \A d \in Event : log'[d] = "processed" /\ d > Known => d \in lost' \/ Done(d)'
  <2> TAKE d \in Event
  <2>1. Done(d) => Done(d)'
    BY <1>4, DoneStays
  <2> QED BY <1>1, <2>1 DEF RowsInv
<1> QED BY <1>1, <1>2, <1>8, <1>10, <1>11 DEF RowsInv

\* A row is written over, and the log of the ACL or the version goes up.
LEMMA RowsOverwrite ==
  ASSUME IdxInv, RowTypes, RowTypes', RowsInv, NEW e \in todo, OverwriteStep(e)
  PROVE  RowsInv'
<1> USE ConstantFacts, IdxTypes
<1>1. /\ e \in Overwriting /\ e \notin Inserting /\ written' = 1
      /\ UNCHANGED <<log, todo, stage, stored, lost>>
  BY DEF OverwriteStep, Overwrite, indexerVars, Inserting, Overwriting, InsertKinds, OverwriteKinds
<1>2. e \in Event /\ First(e) /\ stage = "dispatch"
  BY DEF OverwriteStep, At, First
<1>3. appended \in [Overwriting -> Nat]
      /\ (appended' = appended \/ appended' = [appended EXCEPT ![e] = @ + 1])
      /\ (Kind[e] # "merge_voted" => appended' = [appended EXCEPT ![e] = @ + 1])
  BY DEF OverwriteStep, RowTypes
<1>4. Kept
  <2>1. \A f \in Overwriting : appended[f] \in Nat /\ appended'[f] >= appended[f]
    BY <1>1, <1>3
  <2>2. \A f \in Inserting : \A k \in 0 .. Holders[f] : stored[f][k] \in Nat
    BY DEF RowTypes
  <2>3. \A f \in Inserting : \A k \in 0 .. Holders[f] : stored'[f][k] >= stored[f][k]
    BY <1>1, <2>2
  <2> QED BY <2>1, <2>3 DEF Kept
<1>5. OneRow'
  BY <1>1 DEF OneRow, RowsInv
<1>6. \A d \in Event : First(d)' => d = e
  BY <1>1, <1>2 DEF First
<1>7. Written(e, written)'
  <2>1. Kind[e] # "merge_voted" => appended'[e] >= 1
    BY <1>1, <1>3
  <2> QED BY <1>1, <2>1 DEF Written
<1>8. \A d \in Event : log'[d] = "processed" /\ d > Known => d \in lost' \/ Done(d)'
  <2> TAKE d \in Event
  <2>1. Done(d) => Done(d)'
    BY <1>4, DoneStays
  <2> QED BY <1>1, <2>1 DEF RowsInv
<1> QED BY <1>1, <1>2, <1>5, <1>6, <1>7, <1>8 DEF RowsInv

\* A step that leaves these rows and the log alone.
LEMMA RowsSame ==
  ASSUME UNCHANGED <<stored, appended>>
  PROVE  /\ OneRow => OneRow'
         /\ \A e, n : Written(e, n) <=> Written(e, n)'
         /\ \A e : Done(e) <=> Done(e)'
<1>1. OneRow => OneRow'
  BY DEF OneRow
<1>2. \A e, n : Written(e, n) <=> Written(e, n)'
  BY DEF Written, Taken
<1>3. ASSUME NEW e PROVE Done(e) <=> Done(e)'
  BY DEF Done, Written, Taken, WritesOf
<1> QED BY <1>1, <1>2, <1>3

\* A step of the indexer.
LEMMA RowsIndexer ==
  ASSUME IdxInv, RowsInv, Indexer
  PROVE  RowsInv'
<1> USE ConstantFacts, IdxTypes
<1>0. /\ UNCHANGED <<stored, appended, lost>>
      /\ written' = IF stage' = "dispatch" THEN written ELSE 0
  BY DEF Indexer, projections
<1>1. ASSUME UNCHANGED <<log, todo, stage>> PROVE RowsInv'
  <2>1. written' = written
    BY <1>0, <1>1 DEF RowsInv
  <2> QED BY <1>0, <1>1, <2>1, RowsSame DEF RowsInv, First, Written, Taken
<1>2. ASSUME UNCHANGED log, stage' \in {"check", "insight"} PROVE RowsInv'
  BY <1>0, <1>2, RowsSame DEF RowsInv
<1>3. ASSUME NEW e \in todo, LogEvent(e) PROVE RowsInv'
  <2>1. stage' = "apply" /\ log' = [log EXCEPT ![e] = "open"]
    BY <1>3 DEF LogEvent
  <2> QED BY <1>0, <2>1, RowsSame DEF RowsInv
<1>4. ASSUME NEW e \in todo, ProcessInsight(e) PROVE RowsInv'
  <2>1. stage = "insight" /\ stage' = "dispatch" /\ UNCHANGED <<log, todo>>
    BY <1>4 DEF ProcessInsight, At, rows
  <2>2. written' = 0
    BY <1>0, <2>1 DEF RowsInv
  <2>3. \A d \in Event : Written(d, written)'
    <3> TAKE d \in Event
    <3>1. d \in Inserting => \A k \in 0 .. Holders[d] : ~ (k < 0)
      BY ProjectionAssumption
    <3> QED BY <2>2, <3>1 DEF Written
  <2> QED BY <1>0, <2>1, <2>3, RowsSame DEF RowsInv
<1>5. ASSUME NEW e \in todo, MarkProcessed(e) PROVE RowsInv'
  <2>1. stage = "mark" /\ stage' = "check" /\ log' = [log EXCEPT ![e] = "processed"] /\ First(e)
    BY <1>5 DEF MarkProcessed, At, First
  <2>2. e \in lost \/ Done(e)
    BY <2>1 DEF RowsInv
  <2> QED BY <1>0, <2>1, <2>2, RowsSame DEF RowsInv
<1>6. ASSUME NEW e \in todo, Skip(e) PROVE RowsInv'
  <2>1. UNCHANGED log /\ stage' = "check"
    BY <1>6 DEF Skip, At, rows
  <2> QED BY <2>1, <1>2
<1>7. CASE Poll \/ SaveCheckpoint
  <2>1. UNCHANGED log /\ stage' = "check"
    BY <1>7 DEF Poll, SaveCheckpoint, rows, IdxInv, WorkInv
  <2> QED BY <2>1, <1>2
<1>8. CASE CloseLedger
  BY <1>8, <1>1 DEF CloseLedger, rows, working
<1>9. CASE IndexerNext
  BY <1>2, <1>3, <1>4, <1>5, <1>6, <1>7, <1>8, <1>9
  DEF IndexerNext, Ingest, FetchPage, ApplyEvent, PollFails, Crash, rows
<1> QED BY <1>9 DEF Indexer

LEMMA RowsStep == ASSUME IdxInv, RowTypes, RowTypes', RowsInv, [Next]_vars PROVE RowsInv'
<1> USE ConstantFacts, IdxTypes
<1>1. CASE UNCHANGED vars
  BY <1>1, RowsSame DEF vars, indexerVars, RowsInv, First, Written, Taken
<1>2. ASSUME NEW e \in todo, HandlerFails(e) PROVE RowsInv'
  <2>1. stage' = "mark" /\ written' = 0 /\ lost' = lost \cup {e} /\ First(e)
        /\ UNCHANGED <<log, todo, stored, appended>>
    BY <1>2 DEF HandlerFails, Return, At, First, rows, projections
  <2>2. \A d \in Event : First(d)' => d = e
    BY <2>1 DEF First
  <2> QED BY <2>1, <2>2, RowsSame DEF RowsInv
<1>3. ASSUME NEW e \in todo, Dispatched(e) PROVE RowsInv'
  <2>1. stage' = "mark" /\ written' = 0 /\ lost' = lost /\ First(e) /\ stage = "dispatch"
        /\ UNCHANGED <<log, todo, stored, appended>> /\ written = WritesOf(e)
    BY <1>3 DEF Dispatched, Return, At, First, rows, projections
  <2>2. \A d \in Event : First(d)' => d = e
    BY <2>1 DEF First
  <2>3. Done(e)
    BY <2>1 DEF RowsInv, Done
  <2> QED BY <2>1, <2>2, <2>3, RowsSame DEF RowsInv
<1>4. ASSUME NEW e \in todo, ProposalStep(e) PROVE RowsInv'
  <2>1. First(e) /\ stage = "dispatch" /\ e \notin Inserting
        /\ (e \in Overwriting => Kind[e] = "merge_voted")
    BY <1>4 DEF ProposalStep, At, First
  <2>2. UNCHANGED <<log, todo, stage, stored, appended, lost>>
    BY <1>4 DEF ProposalStep, RecordProposal, CountVotes, RecordExecution, indexerVars
  <2>3. \A d \in Event : First(d)' => d = e
    BY <2>1, <2>2 DEF First
  <2>4. Written(e, written)'
    BY <2>1 DEF Written
  <2> QED BY <2>1, <2>2, <2>3, <2>4, RowsSame DEF RowsInv
<1> QED BY <1>1, <1>2, <1>3, <1>4, RowsIndexer, RowsWrite, RowsOverwrite, HandlerCases DEF Next

\* What an event inserted begins with the first of its rows.
Begun ==
    \A e \in Inserting : \A k \in 0 .. Holders[e] :
        stored[e][k] > 0 => \A j \in 0 .. k : Taken(e, j)

\* A row of its key stays.
LEMMA TakenStays ==
  ASSUME RowTypes, RowTypes', Kept, NEW e \in Inserting, NEW k \in 0 .. Holders[e], Taken(e, k)
  PROVE  Taken(e, k)'
<1>1. PICK f \in Inserting :
         Kind[f] = Kind[e] /\ Key[f] = Key[e] /\ k <= Holders[f] /\ stored[f][k] > 0
  BY DEF Taken
<1>2. k \in 0 .. Holders[f]
  BY <1>1, ProjectionAssumption
<1>3. stored[f][k] \in Nat /\ stored'[f][k] \in Nat /\ stored'[f][k] >= stored[f][k]
  BY <1>2 DEF Kept, RowTypes
<1>4. stored'[f][k] > 0
  BY <1>1, <1>3
<1> QED BY <1>1, <1>4 DEF Taken

LEMMA BegunStep ==
  ASSUME IdxInv, RowTypes, RowTypes', RowsInv, Begun, [Next]_vars
  PROVE  Begun'
<1>1. ASSUME stored' = stored PROVE Begun'
  BY <1>1 DEF Begun, Taken
<1>2. ASSUME NEW e \in todo, InsertStep(e) PROVE Begun'
  <2>1. PICK w : w = written
    OBVIOUS
  <2>2. /\ e \in Inserting /\ Holders[e] \in Nat /\ w \in 0 .. Holders[e]
        /\ UNCHANGED <<latest, appended>>
        /\ \A f \in Inserting : f # e => stored'[f] = stored[f]
        /\ \A k \in 0 .. Holders[e] :
              stored'[e][k] = IF k = w /\ ~ Taken(e, w) THEN 1 ELSE stored[e][k]
    BY <1>2, <2>1, InsertFacts
  <2>3. Written(e, w)
    <3>1. e \in Event /\ First(e) /\ stage = "dispatch"
      BY <1>2, <2>2 DEF InsertStep, At, First, Inserting
    <3> QED BY <2>1, <3>1 DEF RowsInv
  <2>4. \A f \in Inserting : \A k \in 0 .. Holders[f] :
           /\ stored[f][k] \in Nat
           /\ stored'[f][k] = stored[f][k] \/ (f = e /\ k = w /\ stored'[f][k] = 1 /\ stored[f][k] = 0)
    <3> SUFFICES ASSUME NEW f \in Inserting, NEW k \in 0 .. Holders[f]
                 PROVE  /\ stored[f][k] \in Nat
                        /\ \/ stored'[f][k] = stored[f][k]
                           \/ f = e /\ k = w /\ stored'[f][k] = 1 /\ stored[f][k] = 0
      OBVIOUS
    <3>1. stored[f][k] \in Nat
      BY DEF RowTypes
    <3>2. CASE f = e /\ k = w /\ ~ Taken(e, w)
      <4>1. ~ (stored[e][w] > 0)
        BY <2>2, <3>2 DEF Taken
      <4> QED BY <2>2, <3>1, <3>2, <4>1
    <3>3. CASE ~ (f = e /\ k = w /\ ~ Taken(e, w))
      BY <2>2, <3>1, <3>3
    <3> QED BY <3>2, <3>3
  <2>5. Kept
    <3>1. \A f \in Inserting : \A k \in 0 .. Holders[f] : stored'[f][k] >= stored[f][k]
      BY <2>4
    <3>2. \A f \in Overwriting : appended'[f] >= appended[f]
      BY <2>2 DEF RowTypes
    <3> QED BY <3>1, <3>2 DEF Kept
  <2> SUFFICES ASSUME NEW f \in Inserting, NEW k \in 0 .. Holders[f], stored'[f][k] > 0,
                      NEW j \in 0 .. k
               PROVE  Taken(f, j)'
    BY DEF Begun
  <2>6. Holders[f] \in Nat /\ j \in 0 .. Holders[f]
    BY ProjectionAssumption
  <2>7. CASE stored[f][k] > 0
    <3>1. Taken(f, j)
      BY <2>7 DEF Begun
    <3> QED BY <2>5, <2>6, <3>1, TakenStays
  <2>8. CASE f = e /\ k = w
    <3>1. CASE j < w
      <4>1. Taken(f, j)
        BY <2>3, <2>6, <2>8, <3>1 DEF Written
      <4> QED BY <2>5, <2>6, <4>1, TakenStays
    <3>2. CASE j = k
      <4>1. k <= Holders[f]
        BY <2>6
      <4> QED BY <3>2, <4>1 DEF Taken
    <3> QED BY <2>2, <2>8, <3>1, <3>2
  <2>9. stored[f][k] > 0 \/ (f = e /\ k = w)
    BY <2>4
  <2> QED BY <2>7, <2>8, <2>9
<1>3. stored' = stored \/ \E e \in todo : InsertStep(e)
  <2>1. CASE Handle
    <3>1. PICK e \in todo : InsertStep(e) \/ OverwriteStep(e) \/ ProposalStep(e) \/ Dispatched(e)
      BY <2>1, HandlerCases
    <3> QED BY <3>1 DEF OverwriteStep, Overwrite, ProposalStep, RecordProposal, RecordExecution,
              CountVotes, Dispatched, Return, projections
  <2>2. CASE ~ Handle
    BY <2>2 DEF Next, Indexer, HandlerFails, Return, projections, vars
  <2> QED BY <2>1, <2>2
<1> QED BY <1>1, <1>2, <1>3

\* Whether the last entry that e made has not been made again yet: its handler
\* is through, or is about to be.
Credit(e) ==
    IF \/ log[e] = "processed"
       \/ First(e) /\ (stage = "mark" \/ (stage = "dispatch" /\ written > 0))
    THEN 1 ELSE 0

AppendInv ==
    /\ \A e \in Overwriting : appended[e] <= faults + Credit(e)
    /\ stage # "check" => \A e \in todo : First(e) => log[e] # "processed"

\* A step that makes no entry and takes no credit away, or fails.
LEMMA AppendSame ==
  ASSUME IdxInv, IdxInv', RowTypes, UNCHANGED appended,
         \A e \in Overwriting : \A n \in {0, 1} : Credit(e) = n => faults + n <= faults' + Credit(e)',
         \A e \in Overwriting : appended[e] <= faults + Credit(e)
  PROVE  \A e \in Overwriting : appended'[e] <= faults' + Credit(e)'
<1> TAKE e \in Overwriting
<1>1. appended[e] \in Nat /\ faults \in Nat /\ faults' \in Nat
  BY IdxTypes, ConstantFacts DEF RowTypes, IdxInv, IndexerTypeOK
<1>2. Credit(e) \in {0, 1} /\ Credit(e)' \in {0, 1}
  BY DEF Credit
<1>3. PICK n \in {0, 1}, m \in {0, 1} : n = Credit(e) /\ m = Credit(e)'
  BY <1>2
<1>4. appended[e] <= faults + n /\ faults + n <= faults' + m
  BY <1>3
<1>5. appended[e] <= faults' + m
  <2>1. \A x, y, z \in Nat : x <= y + n /\ y + n <= z + m => x <= z + m
    OBVIOUS
  <2> QED BY <1>1, <1>4, <2>1
<1> QED BY <1>3, <1>5

LEMMA AppendStep ==
  ASSUME IdxInv, IdxInv', RowTypes, RowsInv, AppendInv, [Next]_vars
  PROVE  AppendInv'
<1> USE ConstantFacts, IdxTypes
<1>0. faults \in Nat /\ faults' \in Nat
  BY DEF IdxInv, IndexerTypeOK
<1>1. ASSUME UNCHANGED <<appended, faults>>,
             \A e \in Overwriting : log[e] = "processed" => log'[e] = "processed",
             stage \notin {"dispatch", "mark"}
      PROVE  \A e \in Overwriting : appended'[e] <= faults' + Credit(e)'
  <2>1. \A e \in Overwriting : \A n \in {0, 1} : Credit(e) = n => faults + n <= faults' + Credit(e)'
    BY <1>0, <1>1 DEF Credit
  <2> QED BY <1>1, <2>1, AppendSame DEF AppendInv
<1>2. ASSUME UNCHANGED <<appended, faults, log, todo>>, stage = "dispatch",
             \/ stage' = "dispatch" /\ (written > 0 => written' > 0)
             \/ stage' = "mark"
      PROVE  AppendInv'
  <2>1. \A e \in Overwriting : \A n \in {0, 1} : Credit(e) = n => faults + n <= faults' + Credit(e)'
    BY <1>0, <1>2 DEF Credit, First
  <2> QED BY <1>2, <2>1, AppendSame DEF AppendInv, First
<1>3. ASSUME UNCHANGED <<appended>>, faults' = faults + 1,
             stage' = "check" \/ (UNCHANGED <<log, todo>> /\ stage = "dispatch")
      PROVE  AppendInv'
  <2>1. \A e \in Overwriting : Credit(e)' \in {0, 1}
    BY DEF Credit
  <2>2. \A e \in Overwriting : \A n \in {0, 1} : Credit(e) = n => faults + n <= faults' + Credit(e)'
    BY <1>0, <1>3, <2>1
  <2> QED BY <1>3, <2>2, AppendSame DEF AppendInv, First
<1>4. CASE UNCHANGED vars
  <2>1. UNCHANGED <<appended, faults, log, todo, stage, written>>
    BY <1>4 DEF vars, indexerVars
  <2>2. \A e \in Overwriting : Credit(e)' = Credit(e)
    BY <2>1 DEF Credit, First
  <2> QED BY <2>1, <2>2 DEF AppendInv, First
<1>5. ASSUME NEW e \in todo, HandlerFails(e) PROVE AppendInv'
  <2>1. UNCHANGED <<appended, log, todo>> /\ stage = "dispatch" /\ faults' = faults + 1
    BY <1>5 DEF HandlerFails, Return, At, rows, projections
  <2> QED BY <2>1, <1>3
<1>6. ASSUME NEW e \in todo, Dispatched(e) PROVE AppendInv'
  <2>1. UNCHANGED <<appended, faults, log, todo>> /\ stage = "dispatch" /\ stage' = "mark"
    BY <1>6 DEF Dispatched, Return, At, rows, projections
  <2> QED BY <2>1, <1>2
<1>7. ASSUME NEW e \in todo, InsertStep(e) \/ ProposalStep(e) PROVE AppendInv'
  <2>1. /\ UNCHANGED <<indexerVars, appended>> /\ stage = "dispatch"
        /\ written' \in {written + 1, 1, 2}
    BY <1>7 DEF InsertStep, Insert, ProposalStep, RecordProposal, CountVotes, RecordExecution, At
  <2>2. UNCHANGED <<faults, log, todo, stage>>
    BY <2>1 DEF indexerVars
  <2>3. written \in Nat
    BY DEF RowTypes
  <2>4. written > 0 => written' > 0
    BY <2>1, <2>3
  <2> QED BY <2>1, <2>2, <2>4, <1>2
<1>8. ASSUME NEW e \in todo, OverwriteStep(e) PROVE AppendInv'
  <2>1. /\ UNCHANGED indexerVars /\ stage = "dispatch" /\ written = 0 /\ written' = 1
        /\ appended' = appended \/ appended' = [appended EXCEPT ![e] = @ + 1]
        /\ First(e) /\ e \in Overwriting
    BY <1>8 DEF OverwriteStep, Overwrite, At, First
  <2>2. UNCHANGED <<faults, log, todo, stage>>
    BY <2>1 DEF indexerVars
  <2>3. log[e] # "processed"
    BY <2>1 DEF AppendInv
  <2>4. ASSUME NEW f \in Overwriting PROVE appended'[f] <= faults' + Credit(f)'
    <3>1. appended[f] \in Nat /\ appended[f] <= faults + Credit(f)
      BY DEF RowTypes, AppendInv
    <3>2. CASE f = e
      <4>1. Credit(e) = 0
        BY <2>1, <2>3 DEF Credit
      <4>2. Credit(e)' = 1
        BY <2>1, <2>2 DEF Credit, First
      <4>3. appended[e] <= faults
        BY <1>0, <3>1, <3>2, <4>1
      <4>4. appended'[e] \in {appended[e], appended[e] + 1}
        BY <2>1 DEF RowTypes
      <4>5. appended'[e] <= faults' + 1
        BY <1>0, <2>2, <3>1, <3>2, <4>3, <4>4
      <4> QED BY <3>2, <4>2, <4>5
    <3>3. CASE f # e
      <4>1. ~ First(f) /\ f \in Event /\ e \in Event
        BY <2>1, <3>3 DEF First, Overwriting
      <4>2. Credit(f)' = Credit(f)
        BY <2>2, <4>1 DEF Credit, First
      <4>3. appended'[f] = appended[f]
        BY <2>1, <3>3 DEF RowTypes
      <4> QED BY <2>2, <3>1, <4>2, <4>3
    <3> QED BY <3>2, <3>3
  <2> QED BY <2>2, <2>4 DEF AppendInv, First
<1>9. CASE Indexer
  <2>1. UNCHANGED <<appended, lost>> /\ written' = IF stage' = "dispatch" THEN written ELSE 0
    BY <1>9 DEF Indexer, projections
  <2>2. CASE PollFails \/ Crash
    <3>1. faults' = faults + 1 /\ stage' = "check"
      BY <2>2 DEF PollFails, Crash
    <3> QED BY <2>1, <3>1, <1>3
  <2>3. CASE CloseLedger
    <3>1. UNCHANGED <<log, todo, stage, faults>>
      BY <2>3 DEF CloseLedger, rows, working
    <3>2. written' = written
      BY <2>1, <3>1 DEF RowsInv
    <3>3. \A e \in Overwriting : Credit(e)' = Credit(e)
      BY <3>1, <3>2 DEF Credit, First
    <3> QED BY <2>1, <3>1, <3>3 DEF AppendInv, First
  <2>4. CASE Poll \/ FetchPage \/ SaveCheckpoint
    <3>1. UNCHANGED <<log, faults>> /\ stage' = "check" /\ stage = "check"
      BY <2>4 DEF Poll, FetchPage, SaveCheckpoint, rows, IdxInv, WorkInv
    <3> QED BY <1>1, <2>1, <3>1 DEF AppendInv
  <2>5. ASSUME NEW e \in todo, Skip(e) \/ LogEvent(e) PROVE AppendInv'
    <3>1. /\ UNCHANGED faults /\ stage = "check" /\ stage' \in {"check", "apply"}
          /\ \/ log' = log /\ stage' = "check"
             \/ log[e] # "processed" /\ log' = [log EXCEPT ![e] = "open"] /\ todo' = todo
      BY <2>5 DEF Skip, LogEvent, At, rows
    <3>2. \A f \in Overwriting : log[f] = "processed" => log'[f] = "processed"
      BY <3>1 DEF Overwriting
    <3>3. First(e)
      BY <2>5 DEF Skip, LogEvent, At, First
    <3>4. stage' # "check" => \A f \in todo' : First(f)' => log'[f] # "processed"
      <4> SUFFICES ASSUME stage' # "check", NEW f \in todo', First(f)'
                   PROVE  log'[f] # "processed"
        OBVIOUS
      <4>1. f = e /\ e \in Event
        BY <3>1, <3>3 DEF First
      <4> QED BY <3>1, <4>1
    <3> QED BY <1>1, <2>1, <3>1, <3>2, <3>4 DEF AppendInv
  <2>6. ASSUME NEW e \in todo, ApplyEvent(e) \/ ProcessInsight(e) PROVE AppendInv'
    <3>1. /\ UNCHANGED <<log, todo, faults>> /\ stage \in {"apply", "insight"}
      BY <2>6 DEF ApplyEvent, ProcessInsight, At, rows
    <3> QED BY <1>1, <2>1, <3>1 DEF AppendInv, First
  <2>7. ASSUME NEW e \in todo, MarkProcessed(e) PROVE AppendInv'
    <3>1. /\ UNCHANGED faults /\ stage = "mark" /\ stage' = "check" /\ First(e) /\ e \in Event
          /\ log' = [log EXCEPT ![e] = "processed"]
      BY <2>7 DEF MarkProcessed, At, First
    <3>2. \A f \in Overwriting : Credit(f) = 1 => Credit(f)' = 1
      <4> SUFFICES ASSUME NEW f \in Overwriting, Credit(f) = 1
                   PROVE  Credit(f)' = 1
        OBVIOUS
      <4>1. log[f] = "processed" \/ First(f)
        BY DEF Credit
      <4>2. f \in Event /\ (First(f) => f = e)
        BY <3>1 DEF First, Overwriting
      <4>3. log'[f] = "processed"
        BY <3>1, <4>1, <4>2
      <4> QED BY <4>3 DEF Credit
    <3>3. \A f \in Overwriting : Credit(f)' \in {0, 1}
      BY DEF Credit
    <3>4. \A f \in Overwriting : \A n \in {0, 1} : Credit(f) = n => faults + n <= faults' + Credit(f)'
      BY <1>0, <3>1, <3>2, <3>3
    <3> QED BY <2>1, <3>1, <3>4, AppendSame DEF AppendInv
  <2> QED BY <1>9, <2>2, <2>3, <2>4, <2>5, <2>6, <2>7 DEF Indexer, IndexerNext, Ingest
<1> QED BY <1>4, <1>5, <1>6, <1>7, <1>8, <1>9, HandlerCases DEF Next

\* No replay stores a row with a key twice.  A handler that is cut short leaves
\* the first of its rows; a processed event has left all of them, its own or
\* another one's under the same key, and an entry of the ACL's log, unless its
\* handler failed; and its entries are more than one by no more than there were
\* failures.  (A crash between two writes has the event handled again, and the
\* repositories look for the key of a row before they insert it.)
THEOREM RowsAreExact == Spec => []RowsExact
<1> DEFINE I == IdxInv /\ RowTypes /\ RowsInv /\ Begun /\ AppendInv
<1>1. Init => I
  <2> SUFFICES ASSUME Init PROVE I
    OBVIOUS
  <2>1. IdxInv /\ RowTypes /\ RowsInv
    BY IdxInit, RowTypesInit, RowsInit DEF Init
  <2>2. Begun
    BY DEF Init, Begun
  <2>3. stage = "check" /\ faults = 0
    BY DEF Init, IndexerInit
  <2>4. \A e \in Overwriting : appended[e] = 0 /\ Credit(e) \in {0, 1}
    BY DEF Init, Credit
  <2> QED BY <2>1, <2>2, <2>3, <2>4 DEF AppendInv
<1>2. I /\ [Next]_vars => I'
  BY IdxStep, RowTypesStep, RowsStep, BegunStep, AppendStep
<1>3. I => RowsExact
  <2> SUFFICES ASSUME I PROVE RowsExact
    OBVIOUS
  <2>1. \A e \in Projected : Done(e)
    BY DEF RowsInv, Projected
  <2>2. ASSUME NEW e \in Inserting \cap Projected PROVE \A k \in 0 .. Holders[e] : Taken(e, k)
    <3>1. WritesOf(e) = Holders[e] + 1 /\ Holders[e] \in Nat
      BY ProjectionAssumption DEF WritesOf
    <3>2. \A k \in 0 .. Holders[e] : k < WritesOf(e)
      BY <3>1
    <3> QED BY <2>1, <3>2 DEF Done, Written
  <2>3. ASSUME NEW e \in Overwriting, e \in Projected, Kind[e] # "merge_voted"
        PROVE  appended[e] >= 1
    <3>1. WritesOf(e) = 1
      BY <2>3 DEF WritesOf, Overwriting, Inserting, OverwriteKinds, InsertKinds, Handled
    <3> QED BY <2>1, <2>3, <3>1 DEF Done, Written
  <2>4. ASSUME NEW e \in Overwriting PROVE appended[e] <= faults + 1
    <3>1. appended[e] \in Nat /\ faults \in Nat /\ Credit(e) \in {0, 1}
      BY ConstantFacts, IdxTypes DEF RowTypes, Credit
    <3>2. appended[e] <= faults + Credit(e)
      BY DEF AppendInv
    <3> QED BY <3>1, <3>2
  <2>5. ASSUME NEW e \in Inserting, NEW k \in 0 .. Holders[e], Taken(e, k), NEW j \in 0 .. k
        PROVE  Taken(e, j)
    <3>1. PICK f \in Inserting :
             Kind[f] = Kind[e] /\ Key[f] = Key[e] /\ k <= Holders[f] /\ stored[f][k] > 0
      BY <2>5 DEF Taken
    <3>2. k \in 0 .. Holders[f]
      BY <3>1, ProjectionAssumption
    <3>3. Taken(f, j)
      BY <3>1, <3>2 DEF Begun
    <3> QED BY <3>1, <3>3 DEF Taken
  <2> QED BY <2>2, <2>3, <2>4, <2>5 DEF RowsInv, OneRow, RowsExact
<1> HIDE DEF I
<1> QED BY <1>1, <1>2, <1>3, PTL DEF Spec

-----------------------------------------------------------------------------
(* The tally of the key merge                                              *)

\* The handler of e, in hand, has done n writes or is through.
Through(e, n) ==
    /\ First(e)
    /\ \/ stage = "dispatch" /\ written >= n
       \/ stage = "mark"

\* While no handler has failed: there is a proposal once its event is through,
\* and no vote before; the tally is out of date only while a vote is not done,
\* and not between its count and the end of its event.
TallyCurrent == proposal["merge"] # "none" => tally = Counted

ProposalInv ==
    /\ proposal["merge"] = "none" =>
          /\ tally = [yes |-> 0, no |-> 0]
          /\ \A v \in Voters : latest[v] = 0
    /\ \A e \in Of("merge_proposed") :
          (e > Known /\ (log[e] = "processed" \/ Through(e, 1))) => proposal["merge"] # "none"

VoteInv ==
    lost = {} =>
        /\ ProposalInv
        /\ TallyCurrent \/ \E e \in Of("merge_voted") : log[e] = "open"
        /\ \A e \in Of("merge_voted") : Through(e, 2) => TallyCurrent

LEMMA VoteInit ==
  ASSUME Init
  PROVE  VoteInv
<1>1. proposal["merge"] = "none" /\ tally = [yes |-> 0, no |-> 0] /\ \A v \in Voters : latest[v] = 0
  BY ProjectionAssumption DEF Init
<1>2. /\ \A e \in Event : log[e] # "open" /\ (e > Known => log[e] # "processed")
      /\ stage = "check"
  BY ConstantFacts DEF Init, IndexerInit
<1>3. Of("merge_voted") \subseteq Event /\ Of("merge_proposed") \subseteq Event
  BY DEF Of
<1> QED BY <1>1, <1>2, <1>3 DEF VoteInv, ProposalInv, TallyCurrent, Through

\* The count goes by the votes alone.
LEMMA CountedSame ==
  ASSUME \A v \in Voters : latest'[v] = latest[v]
  PROVE  Counted' = Counted
<1>1. ASSUME NEW b \in BOOLEAN
      PROVE  {v \in Voters : latest'[v] # 0 /\ Support[latest'[v]] = b}
                = {v \in Voters : latest[v] # 0 /\ Support[latest[v]] = b}
  OBVIOUS
<1>2. \A b \in BOOLEAN : Votes(b)' = Votes(b)
  BY <1>1 DEF Votes
<1> QED BY <1>2 DEF Counted

\* No vote, no count.
LEMMA CountedNone ==
  ASSUME \A v \in Voters : latest[v] = 0
  PROVE  Counted = [yes |-> 0, no |-> 0]
<1>1. \A b \in BOOLEAN : {v \in Voters : latest[v] # 0 /\ Support[latest[v]] = b} = {}
  OBVIOUS
<1>2. \A b \in BOOLEAN : Votes(b) = 0
  BY <1>1, FS_EmptySet DEF Votes
<1> QED BY <1>2 DEF Counted

\* A step that leaves the proposal, its tally and the votes alone.
LEMMA VoteSame ==
  ASSUME VoteInv, lost' = lost, UNCHANGED <<proposal, tally>>,
         \A v \in Voters : latest'[v] = latest[v],
         \A e \in Of("merge_voted") :
            log[e] = "open" => log'[e] = "open" \/ Through(e, 2),
         \A e \in Of("merge_voted") : Through(e, 2)' => Through(e, 2),
         \A e \in Of("merge_proposed") :
            log'[e] = "processed" \/ Through(e, 1)' => log[e] = "processed" \/ Through(e, 1)
  PROVE  VoteInv'
<1> SUFFICES ASSUME lost = {} PROVE VoteInv'
  BY DEF VoteInv
<1>1. TallyCurrent' <=> TallyCurrent
  BY CountedSame DEF TallyCurrent
<1>2. ProposalInv'
  BY DEF VoteInv, ProposalInv
<1>3. TallyCurrent' \/ \E e \in Of("merge_voted") : log'[e] = "open"
  BY <1>1 DEF VoteInv
<1>4. \A e \in Of("merge_voted") : Through(e, 2)' => TallyCurrent'
  BY <1>1 DEF VoteInv
<1> QED BY <1>2, <1>3, <1>4 DEF VoteInv

\* The contract takes no vote before the proposal, and the events are handled
\* in order: when a vote is written the proposal is there.
LEMMA VoteHasProposal ==
  ASSUME VotesFollowProposal, IdxInv, OrderInv, VoteInv, lost = {},
         NEW e \in todo, At(e, "dispatch"), Kind[e] = "merge_voted"
  PROVE  proposal["merge"] # "none" /\ log[e] = "open" /\ e \in Of("merge_voted")
<1> USE ConstantFacts, IdxTypes
<1>1. e \in Of("merge_voted") /\ First(e) /\ pc = "ingest" /\ stage = "dispatch"
  BY DEF Of, At, First
<1>2. log[e] = "open"
  BY <1>1 DEF OrderInv, AppliedInv
<1>3. e \in Event /\ e > Known
  BY <1>1, <1>2 DEF IdxInv, LogInv, Of
<1>4. PICK f \in Of("merge_proposed") : Known < f /\ f < e
  BY <1>1, <1>3 DEF VotesFollowProposal
<1>5. log[f] = "processed" /\ f > Known
  BY <1>1, <1>2, <1>4, InHandNext DEF Of
<1> QED BY <1>1, <1>2, <1>5 DEF VoteInv, ProposalInv

LEMMA VoteHandler ==
  ASSUME VotesFollowProposal, IdxInv, RowTypes, OrderInv, VoteInv, Handle
  PROVE  VoteInv'
<1> USE ConstantFacts, IdxTypes
<1>0. PICK e \in todo : InsertStep(e) \/ OverwriteStep(e) \/ ProposalStep(e) \/ Dispatched(e)
  BY HandlerCases
<1>1. e \in Event /\ First(e) /\ At(e, "dispatch") /\ stage = "dispatch" /\ UNCHANGED <<log, todo>>
  BY <1>0 DEF InsertStep, Insert, OverwriteStep, Overwrite, ProposalStep, RecordProposal, RecordExecution,
    CountVotes, Dispatched, Return, At, First, indexerVars, rows
<1>2. \A d : First(d)' => d = e
  BY <1>1 DEF First
<1>3. \A d, n : Through(d, n)' => d = e
  BY <1>2 DEF Through
<1>4. CASE InsertStep(e)
  <2>1. e \notin Of("merge_voted") /\ e \notin Of("merge_proposed")
        /\ UNCHANGED <<latest, proposal, tally, lost>>
    BY <1>4 DEF InsertStep, Insert, Inserting, InsertKinds, Of
  <2> QED BY <1>1, <1>3, <2>1, VoteSame
<1>5. CASE Dispatched(e)
  <2>1. written = WritesOf(e) /\ stage' = "mark" /\ lost' = lost
        /\ UNCHANGED <<latest, proposal, tally>>
    BY <1>5 DEF Dispatched, Return, projections
  <2>2. ASSUME e \in Of("merge_voted") PROVE Through(e, 2)
    <3>1. written = 2
      BY <2>1, <2>2 DEF Of, WritesOf, Inserting, InsertKinds
    <3> QED BY <3>1, <1>1 DEF Through
  <2>3. ASSUME e \in Of("merge_proposed") PROVE Through(e, 1)
    <3>1. written = 1
      BY <2>1, <2>3 DEF Of, WritesOf, Inserting, InsertKinds, Handled, ProposedKinds
    <3> QED BY <3>1, <1>1 DEF Through
  <2> QED BY <1>1, <1>3, <2>1, <2>2, <2>3, VoteSame
<1>6. CASE OverwriteStep(e)
  <2>1. e \in Overwriting /\ e \notin Of("merge_proposed") /\ written' = 1 /\ stage' = stage
        /\ UNCHANGED <<proposal, tally, lost>> /\ latest' = [latest EXCEPT ![Subject[e]] = e]
    BY <1>6 DEF OverwriteStep, Overwrite, Overwriting, OverwriteKinds, Of, indexerVars
  <2>2. CASE Kind[e] # "merge_voted"
    <3>1. e \notin Of("merge_voted") /\ Subject[e] \notin Voters
      BY <2>1, <2>2, ProjectionAssumption DEF Of
    <3>2. \A v \in Voters : latest'[v] = latest[v]
      BY <2>1, <3>1, ProjectionAssumption DEF RowTypes
    <3> QED BY <1>1, <1>3, <2>1, <3>1, <3>2, VoteSame
  <2>3. CASE Kind[e] = "merge_voted"
    <3> SUFFICES ASSUME lost = {} PROVE VoteInv'
      BY <2>1 DEF VoteInv
    <3>1. proposal["merge"] # "none" /\ log[e] = "open" /\ e \in Of("merge_voted")
      BY <1>1, <2>3, VoteHasProposal
    <3>2. ProposalInv'
      BY <1>1, <1>3, <2>1, <3>1 DEF VoteInv, ProposalInv
    <3>3. \A d : ~ Through(d, 2)'
      BY <1>1, <2>1 DEF Through
    <3> QED BY <1>1, <3>1, <3>2, <3>3 DEF VoteInv
  <2> QED BY <2>2, <2>3
<1>7. CASE ProposalStep(e)
  <2>0. UNCHANGED <<latest, lost>>
    BY <1>7 DEF ProposalStep, RecordProposal, RecordExecution, CountVotes
  <2> SUFFICES ASSUME lost = {} PROVE VoteInv'
    BY <2>0 DEF VoteInv
  <2>1. CASE CountVotes(e)
    <3>1. e \notin Of("merge_proposed") /\ UNCHANGED proposal
          /\ tally' = IF proposal["merge"] = "none" THEN tally ELSE Counted
      BY <2>1 DEF CountVotes, InHand, Of
    <3>2. Counted' = Counted
      BY <2>0, CountedSame
    <3>3. TallyCurrent'
      BY <3>1, <3>2 DEF TallyCurrent
    <3>4. ProposalInv'
      BY <1>1, <1>3, <2>0, <3>1 DEF VoteInv, ProposalInv
    <3> QED BY <3>3, <3>4 DEF VoteInv
  <2>2. CASE \/ \E k \in ProposedKinds : RecordProposal(e, k)
             \/ \E k \in ExecutedKinds : RecordExecution(e, k)
    <3>1. /\ UNCHANGED tally /\ e \notin Of("merge_voted")
          /\ proposal["merge"] # "none" => proposal'["merge"] # "none"
          /\ e \in Of("merge_proposed") => proposal'["merge"] # "none"
      BY <2>2 DEF RecordProposal, RecordExecution, InHand, ProposedKinds, ExecutedKinds, ProposalOf,
        RowTypes, Of
    <3>2. Counted' = Counted
      BY <2>0, CountedSame
    <3>3. TallyCurrent' \/ (proposal["merge"] # "none" /\ (TallyCurrent' <=> TallyCurrent))
      <4>1. CASE proposal["merge"] = "none"
        BY <3>1, <3>2, <4>1, CountedNone DEF VoteInv, ProposalInv, TallyCurrent
      <4>2. CASE proposal["merge"] # "none"
        BY <3>1, <3>2, <4>2 DEF TallyCurrent
      <4> QED BY <4>1, <4>2
    <3>4. ProposalInv'
      BY <1>1, <1>3, <2>0, <3>1 DEF VoteInv, ProposalInv
    <3>5. TallyCurrent' \/ \E d \in Of("merge_voted") : log'[d] = "open"
      BY <1>1, <3>3 DEF VoteInv
    <3>6. \A d \in Of("merge_voted") : ~ Through(d, 2)'
      BY <1>3, <3>1
    <3> QED BY <3>4, <3>5, <3>6 DEF VoteInv
  <2> QED BY <1>7, <2>1, <2>2 DEF ProposalStep
<1> QED BY <1>0, <1>4, <1>5, <1>6, <1>7

LEMMA VoteIndexer ==
  ASSUME IdxInv, RowsInv, VoteInv, Indexer
  PROVE  VoteInv'
<1> USE ConstantFacts, IdxTypes
<1>0. /\ UNCHANGED <<latest, proposal, tally, lost>>
      /\ written' = IF stage' = "dispatch" THEN written ELSE 0
      /\ Of("merge_voted") \subseteq Event /\ Of("merge_proposed") \subseteq Event
  BY DEF Indexer, projections, Of
<1>1. ASSUME UNCHANGED <<log, todo, stage>> PROVE VoteInv'
  <2>1. \A d, n : Through(d, n)' => Through(d, n)
    BY <1>0, <1>1 DEF Through, First
  <2> QED BY <1>0, <1>1, <2>1, VoteSame
<1>2. ASSUME UNCHANGED log, stage' \in {"check", "insight"} PROVE VoteInv'
  <2>1. \A d, n : ~ Through(d, n)'
    BY <1>2 DEF Through
  <2> QED BY <1>0, <1>2, <2>1, VoteSame
<1>3. ASSUME NEW e \in todo, LogEvent(e) PROVE VoteInv'
  <2>1. stage' = "apply" /\ log' = [log EXCEPT ![e] = "open"] /\ log \in [Event -> {"none", "open", "processed"}]
    BY <1>3 DEF LogEvent, IdxInv, IndexerTypeOK
  <2>2. \A d, n : ~ Through(d, n)'
    BY <2>1 DEF Through
  <2> QED BY <1>0, <2>1, <2>2, VoteSame
<1>4. ASSUME NEW e \in todo, ProcessInsight(e) PROVE VoteInv'
  <2>1. stage = "insight" /\ stage' = "dispatch" /\ UNCHANGED <<log, todo>>
    BY <1>4 DEF ProcessInsight, At, rows
  <2>2. written' = 0
    BY <1>0, <2>1 DEF RowsInv
  <2>3. \A d : ~ Through(d, 1)' /\ ~ Through(d, 2)'
    BY <2>1, <2>2 DEF Through
  <2> QED BY <1>0, <2>1, <2>3, VoteSame
<1>5. ASSUME NEW e \in todo, MarkProcessed(e) PROVE VoteInv'
  <2>1. stage = "mark" /\ stage' = "check" /\ log' = [log EXCEPT ![e] = "processed"] /\ First(e)
        /\ log \in [Event -> {"none", "open", "processed"}]
    BY <1>5 DEF MarkProcessed, At, First, IdxInv, IndexerTypeOK
  <2>2. Through(e, 1) /\ Through(e, 2)
    BY <2>1 DEF Through
  <2>3. \A d, n : ~ Through(d, n)'
    BY <2>1 DEF Through
  <2>4. \A d \in Event : d # e => log'[d] = log[d]
    BY <2>1
  <2> QED BY <1>0, <2>2, <2>3, <2>4, VoteSame
<1>6. ASSUME NEW e \in todo, Skip(e) PROVE VoteInv'
  <2>1. UNCHANGED log /\ stage' = "check"
    BY <1>6 DEF Skip, At, rows
  <2> QED BY <2>1, <1>2
<1>7. CASE Poll \/ SaveCheckpoint
  <2>1. UNCHANGED log /\ stage' = "check"
    BY <1>7 DEF Poll, SaveCheckpoint, rows, IdxInv, WorkInv
  <2> QED BY <2>1, <1>2
<1>8. CASE CloseLedger
  BY <1>8, <1>1 DEF CloseLedger, rows, working
<1>9. CASE IndexerNext
  BY <1>2, <1>3, <1>4, <1>5, <1>6, <1>7, <1>8, <1>9
  DEF IndexerNext, Ingest, FetchPage, ApplyEvent, PollFails, Crash, rows
<1> QED BY <1>9 DEF Indexer

LEMMA VoteStep ==
  ASSUME VotesFollowProposal, IdxInv, RowTypes, OrderInv, RowsInv, VoteInv, [Next]_vars
  PROVE  VoteInv'
<1>1. CASE UNCHANGED vars
  <2>1. \A d, n : Through(d, n)' => Through(d, n)
    BY <1>1 DEF vars, indexerVars, Through, First
  <2> QED BY <1>1, <2>1, VoteSame DEF vars, indexerVars
<1>2. ASSUME NEW e \in todo, HandlerFails(e) PROVE VoteInv'
  <2>1. lost' # {}
    BY <1>2 DEF HandlerFails, Return
  <2> QED BY <2>1 DEF VoteInv
<1> QED BY <1>1, <1>2, VoteHandler, VoteIndexer DEF Next

\* Unless a handler failed, the tally of the key merge is the count of the
\* stored votes whenever no event is left half done, whatever polls fail and
\* whenever the process crashes between the vote and the tally: recordVote sums
\* the stored votes up anew, so that the replay of the vote repairs the tally.
THEOREM TallyCounts ==
  ASSUME Checkpointed, Known > 0, VotesFollowProposal
  PROVE  Spec => []TallyIsCount
<1> DEFINE I == IdxInv /\ RowTypes /\ OrderInv /\ RowsInv /\ VoteInv
<1>1. Init => I
  BY IdxInit, RowTypesInit, OrderInit, RowsInit, VoteInit DEF Init
<1>2. I /\ [Next]_vars => I'
  BY IdxStep, RowTypesStep, OrderStep, RowsStep, VoteStep
<1>3. I => TallyIsCount
  BY DEF VoteInv, TallyCurrent, TallyIsCount, Of
<1> HIDE DEF I
<1> QED BY <1>1, <1>2, <1>3, PTL DEF Spec

=============================================================================
