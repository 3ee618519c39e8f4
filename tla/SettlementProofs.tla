-------------------------- MODULE SettlementProofs --------------------------
(***************************************************************************)
(* Proofs about Settlement for every set of investments, callers and       *)
(* administrators and every deployment: the investors are paid at most     *)
(* once, for what they hold, what is recorded is what was paid, and all of *)
(* it implements PayoutLedger.                                             *)
(***************************************************************************)
EXTENDS Settlement, TLAPS

-----------------------------------------------------------------------------
(* What the parts of a step do to the types                                *)

\* There is no payout yet, or the one of the intent's snapshot.
LEMMA PayoutsKnown ==
    ASSUME PaidForIntent
    PROVE  /\ Len(payouts) \in {0, 1} /\ DOMAIN payouts = 1 .. Len(payouts)
           /\ payouts = <<>> => Len(payouts) = 0
           /\ payouts # <<>> => Len(payouts) = 1 /\ payouts[1] = intent.snapshot
  BY DEF PaidForIntent

\* The payout a claimed intent permits is the first.
LEMMA FirstPayout ==
    ASSUME NEW s
    PROVE  /\ Append(<<>>, s) = <<s>>
           /\ Len(<<s>>) = 1 /\ DOMAIN <<s>> = {1} /\ <<s>>[1] = s
  OBVIOUS

\* A well-typed intent is a record of known fields.
LEMMA IntentType ==
    ASSUME TypeOK
    PROVE  /\ intent = [status |-> intent.status, params |-> intent.params,
                        snapshot |-> intent.snapshot, hash |-> intent.hash]
           /\ intent.status \in IntentStatuses /\ intent.hash \in Nat
           /\ DOMAIN intent.snapshot \subseteq Investments
  BY DEF TypeOK, Intents

\* The snapshot of the confirmed investments is one an intent can hold.
LEMMA SnapshotType ==
    ASSUME TypeOK
    PROVE  Confirmed \in SUBSET Investments /\ Snapshot \in [Confirmed -> Nat]
  BY DEF TypeOK, InvestmentRows, Confirmed, Snapshot

\* The record of a settlement keeps the books well typed.
LEMMA RecordType ==
    ASSUME TypeOK, RecordSettlement
    PROVE  /\ status' \in {"FUNDED", "SETTLED"} /\ recorded' \in BOOLEAN
           /\ investment' \in [Investments -> InvestmentRows]
  BY DEF TypeOK, RecordSettlement, InvestmentRows

\* It settles the confirmed investments and changes no amount.
LEMMA RecordEffect ==
    ASSUME TypeOK, RecordSettlement
    PROVE  /\ Settled' = Settled \cup Confirmed
           /\ \A i \in Investments : investment'[i].amount = investment[i].amount
  BY DEF TypeOK, RecordSettlement, InvestmentRows, Settled, Confirmed

\* Whoever moves, the others stay where they are.
LEMMA GoEffect ==
    ASSUME TypeOK, NEW c \in Callers, NEW to, NEW h, Go(c, to, h)
    PROVE  /\ pc'[c] = to /\ hash'[c] = h
           /\ \A d \in Callers \ {c} : pc'[d] = pc[d] /\ hash'[d] = hash[d]
  BY DEF TypeOK, Go

-----------------------------------------------------------------------------
(* Type correctness                                                        *)

\* The settlement starts well typed, for every deployment.
LEMMA InitType == Init => TypeOK
<1> SUFFICES ASSUME Init  PROVE TypeOK
  OBVIOUS
<1>1. investment \in [Investments -> InvestmentRows]
  BY SettlementAssumption DEF Init, InvestmentRows
<1>1a. copy \in [Savers -> Copies] /\ rewritten = {}  BY DEF Init, Copies
<1>2. intent \in Intents({})  BY DEF Init, NoIntent, Intents, IntentStatuses
<1>3. payouts = <<>> /\ Len(payouts) = 0 /\ DOMAIN payouts = {}  BY DEF Init
<1>4. hash \in [Callers -> 0 .. Len(payouts)]  BY <1>3 DEF Init
<1> QED  BY <1>1, <1>1a, <1>2, <1>3, <1>4 DEF Init, TypeOK, Places

\* An intent that moves on keeps its snapshot and its type.
LEMMA IntentMoves ==
    ASSUME TypeOK, NEW s \in IntentStatuses, NEW h \in Nat,
           intent' = [intent EXCEPT !.status = s, !.hash = h]
    PROVE  /\ \E S \in SUBSET Investments : intent' \in Intents(S)
           /\ intent'.status = s /\ intent'.hash = h /\ intent'.snapshot = intent.snapshot
<1>1. PICK S \in SUBSET Investments : intent \in Intents(S)  BY DEF TypeOK
<1>2. intent' \in Intents(S)  BY <1>1 DEF Intents
<1> QED  BY <1>1, <1>2 DEF Intents

\* The same for the status alone.
LEMMA IntentStatusMoves ==
    ASSUME TypeOK, NEW s \in IntentStatuses, intent' = [intent EXCEPT !.status = s]
    PROVE  /\ \E S \in SUBSET Investments : intent' \in Intents(S)
           /\ intent'.status = s /\ intent'.hash = intent.hash
           /\ intent'.snapshot = intent.snapshot
<1>1. PICK S \in SUBSET Investments : intent \in Intents(S)  BY DEF TypeOK
<1>2. intent' \in Intents(S)  BY <1>1 DEF Intents
<1> QED  BY <1>1, <1>2 DEF Intents

\* One unit that changes hands leaves both positions well typed.
LEMMA PurchaseType ==
    ASSUME TypeOK, NEW i \in Investments, NEW j \in Investments, Purchase(i, j)
    PROVE  investment' \in [Investments -> InvestmentRows]
<1>1. investment[i].amount - 1 \in Nat
  BY DEF TypeOK, InvestmentRows, Purchase, Sellable
<1>2. investment[j].amount + 1 \in Nat  BY DEF TypeOK, InvestmentRows
<1> QED  BY <1>1, <1>2 DEF TypeOK, InvestmentRows, Purchase

\* A step that leaves the payouts alone, and moves callers to known places.
LEMMA QuietType ==
    ASSUME SettlementInv, UNCHANGED <<setting, payouts>>, escrowSettled' \in BOOLEAN,
           status' \in {"FUNDED", "SETTLED"}, recorded' \in BOOLEAN,
           investment' \in [Investments -> InvestmentRows],
           \E S \in SUBSET Investments : intent' \in Intents(S),
           pc' \in [Callers \cup Admins -> Places],
           hash' \in [Callers -> 0 .. Len(payouts)],
           copy' \in [Savers -> Copies], rewritten' \subseteq Investments
    PROVE  TypeOK'
<1>1. hash' \in [Callers -> 0 .. Len(payouts')]  OBVIOUS
<1> QED  BY <1>1 DEF SettlementInv, TypeOK, setting

\* Every action keeps the types, given the rest of the invariant: a caller only
\* ever knows of payouts that were made.
LEMMA NextType == SettlementInv /\ [Next]_vars => TypeOK'
<1> SUFFICES ASSUME SettlementInv, [Next]_vars  PROVE TypeOK'
  OBVIOUS
<1>i. TypeOK /\ PaidForIntent  BY DEF SettlementInv
<1>p. Len(payouts) \in Nat /\ DOMAIN payouts = 1 .. Len(payouts)
  BY <1>i, PayoutsKnown
<1>b. /\ \E S \in SUBSET Investments : intent \in Intents(S)
      /\ investment \in [Investments -> InvestmentRows]
      /\ status \in {"FUNDED", "SETTLED"} /\ recorded \in BOOLEAN
      /\ escrowSettled \in BOOLEAN /\ matured \in BOOLEAN /\ deployment \in Deployments
      /\ pc \in [Callers \cup Admins -> Places] /\ hash \in [Callers -> 0 .. Len(payouts)]
      /\ copy \in [Savers -> Copies] /\ rewritten \subseteq Investments
  BY <1>i DEF TypeOK
<1>1. ASSUME NEW c \in Callers, Prepare(c)  PROVE TypeOK'
  <2>1. \E S \in SUBSET Investments : intent' \in Intents(S)
    <3>1. CASE intent' = [status |-> "PREPARED", params |-> Params[c],
                          snapshot |-> Snapshot, hash |-> 0]
      <4>1. intent' \in Intents(Confirmed)
        BY <3>1, <1>i, SnapshotType DEF Intents, IntentStatuses
      <4> QED  BY <4>1, <1>i, SnapshotType
    <3>2. CASE UNCHANGED intent  BY <3>2, <1>b
    <3> QED  BY <1>1, <3>1, <3>2 DEF Prepare
  <2>2. intent.status = "DISTRIBUTED" => intent.hash \in 0 .. Len(payouts)
    BY <1>p DEF SettlementInv, IntentTellsTheTruth
  <2>3. UNCHANGED <<setting, books, payouts, escrowSettled, saves>>  BY <1>1 DEF Prepare
  <2>4a. pc' \in [Callers \cup Admins -> Places]
    BY <1>1, <1>b DEF Prepare, Go, Places
  <2>4b. hash' \in [Callers -> 0 .. Len(payouts)]
    <3>1. \/ Go(c, "prepared", 0)
          \/ Go(c, "distributed", intent.hash) /\ intent.status = "DISTRIBUTED"
      BY <1>1 DEF Prepare
    <3>2. 0 \in 0 .. Len(payouts)  BY <1>p
    <3>3. \E h \in 0 .. Len(payouts) : hash' = [hash EXCEPT ![c] = h]
      BY <3>1, <3>2, <2>2 DEF Go
    <3> QED  BY <3>3, <1>b
  <2> QED  BY <2>1, <2>3, <2>4a, <2>4b, <1>b, QuietType DEF books, saves
<1>2. ASSUME NEW c \in Callers, Claim(c)  PROVE TypeOK'
  <2>1. \E S \in SUBSET Investments : intent' \in Intents(S)
    BY <1>2, <1>b, <1>i, IntentStatusMoves DEF Claim, IntentStatuses
  <2>3. UNCHANGED <<setting, books, payouts, escrowSettled, saves>>  BY <1>2 DEF Claim
  <2>4a. pc' \in [Callers \cup Admins -> Places]
    BY <1>2, <1>b DEF Claim, Go, Places
  <2>4b. hash' \in [Callers -> 0 .. Len(payouts)]
    BY <1>2, <1>b, <1>p DEF Claim, Go
  <2> QED  BY <2>1, <2>3, <2>4a, <2>4b, <1>b, QuietType DEF books, saves
<1>3. ASSUME NEW c \in Callers, Distribute(c)  PROVE TypeOK'
  <2>1. UNCHANGED <<setting, books, intent, escrowSettled, saves>>  BY <1>3 DEF Distribute
  <2>2. CASE UNCHANGED payouts
    <3>1. Go(c, "idle", 0) \/ Go(c, "paid", Len(payouts) + 1)  BY <1>3 DEF Distribute
    <3>2. payouts = <<>> /\ payouts' = payouts
      BY <1>3, <2>2 DEF Distribute, SettlementInv, SubmitterHoldsIntent
    <3>3. payouts' # Append(payouts, intent.snapshot)
      BY <3>2, FirstPayout
    <3>4. Go(c, "idle", 0)  BY <1>3, <3>3 DEF Distribute
    <3>5a. pc' \in [Callers \cup Admins -> Places]
      BY <3>4, <1>b DEF Go, Places
    <3>5b. hash' \in [Callers -> 0 .. Len(payouts)]
      BY <3>4, <1>b, <1>p DEF Go
    <3> QED  BY <2>1, <3>2, <3>5a, <3>5b, <1>b, QuietType DEF books, saves
  <2>3. CASE payouts' = Append(payouts, intent.snapshot)
    <3>1. payouts = <<>>  BY <1>3 DEF Distribute, SettlementInv, SubmitterHoldsIntent
    <3>2. /\ payouts' = <<intent.snapshot>> /\ Len(payouts) = 0 /\ Len(payouts') = 1
          /\ DOMAIN payouts' = {1} /\ payouts'[1] = intent.snapshot
      BY <2>3, <3>1, FirstPayout
    <3>3. Go(c, "paid", 1) \/ Go(c, "idle", 0)
      BY <1>3, <3>2 DEF Distribute
    <3>4. pc' \in [Callers \cup Admins -> Places]
      BY <3>3, <1>b DEF Go, Places
    <3>5. hash' \in [Callers -> 0 .. 1]
      BY <3>2, <3>3, <1>b DEF Go
    <3>6. \A n \in DOMAIN payouts' : DOMAIN payouts'[n] \subseteq Investments
      BY <3>2, <1>i, IntentType
    <3> QED  BY <2>1, <3>2, <3>4, <3>5, <3>6, <1>b DEF TypeOK, setting, books, saves
  <2> QED  BY <1>3, <2>2, <2>3 DEF Distribute
<1>4. ASSUME NEW c \in Callers, MarkDistributed(c)  PROVE TypeOK'
  <2>1. hash[c] \in 0 .. Len(payouts)  BY <1>b
  <2>2. \E S \in SUBSET Investments : intent' \in Intents(S)
    <3>1. intent' = intent \/ intent' = [intent EXCEPT !.status = "DISTRIBUTED",
                                                       !.hash = hash[c]]
      BY <1>4 DEF MarkDistributed
    <3>2. hash[c] \in Nat  BY <2>1, <1>p
    <3> QED  BY <3>1, <3>2, <1>b, <1>i, IntentMoves DEF IntentStatuses
  <2>4. UNCHANGED <<setting, books, payouts, escrowSettled, saves>>  BY <1>4 DEF MarkDistributed
  <2>5a. pc' \in [Callers \cup Admins -> Places]
    BY <1>4, <1>b DEF MarkDistributed, Go, Places
  <2>5b. hash' \in [Callers -> 0 .. Len(payouts)]
    BY <1>4, <2>1, <1>b, <1>p DEF MarkDistributed, Go
  <2> QED  BY <2>2, <2>4, <2>5a, <2>5b, <1>b, QuietType DEF books, saves
<1>5. ASSUME NEW c \in Callers, Finalize(c)  PROVE TypeOK'
  <2>1. Go(c, "idle", 0) /\ UNCHANGED <<setting, payouts, escrowSettled, saves>>
    BY <1>5 DEF Finalize
  <2>2a. pc' \in [Callers \cup Admins -> Places]
    BY <2>1, <1>b DEF Go, Places
  <2>2b. hash' \in [Callers -> 0 .. Len(payouts)]
    BY <2>1, <1>b, <1>p DEF Go
  <2>3. \E S \in SUBSET Investments : intent' \in Intents(S)
    <3>1. intent' = intent \/ intent' = [intent EXCEPT !.status = "COMPLETED"]
      BY <1>5 DEF Finalize
    <3> QED  BY <3>1, <1>b, <1>i, IntentStatusMoves DEF IntentStatuses
  <2>4. /\ status' \in {"FUNDED", "SETTLED"} /\ recorded' \in BOOLEAN
        /\ investment' \in [Investments -> InvestmentRows]
    BY <1>5, <1>b, <1>i, RecordType DEF Finalize, books
  <2> QED  BY <2>1, <2>2a, <2>2b, <2>3, <2>4, <1>b, QuietType DEF saves
<1>6. ASSUME NEW c \in Callers, Crash(c)  PROVE TypeOK'
  <2>1. Go(c, "idle", 0) /\ UNCHANGED <<setting, books, intent, payouts, escrowSettled, saves>>
    BY <1>6 DEF Crash
  <2>2. pc' \in [Callers \cup Admins -> Places]
    BY <2>1, <1>b DEF Go, Places
  <2>3. hash' \in [Callers -> 0 .. Len(payouts)]
    BY <2>1, <1>b, <1>p DEF Go
  <2> QED  BY <2>1, <2>2, <2>3, <1>b, QuietType DEF books, saves
<1>7. ASSUME NEW a \in Admins, AdminSettleOnChain(a)  PROVE TypeOK'
  BY <1>7, <1>b, QuietType DEF AdminSettleOnChain, books, Places, saves
<1>8. ASSUME NEW a \in Admins, AdminRecord(a)  PROVE TypeOK'
  <2>1. /\ status' \in {"FUNDED", "SETTLED"} /\ recorded' \in BOOLEAN
        /\ investment' \in [Investments -> InvestmentRows]
    BY <1>8, <1>b, <1>i, RecordType DEF AdminRecord, books
  <2> QED  BY <1>8, <2>1, <1>b, QuietType DEF AdminRecord, Places, saves
<1>9. ASSUME NEW i \in Investments, NEW j \in Investments, Purchase(i, j)  PROVE TypeOK'
  BY <1>9, <1>b, <1>i, PurchaseType, QuietType DEF Purchase, callers, saves
<1>10. ASSUME NEW v \in Savers, NEW i \in Investments, LoadInvestment(v, i)  PROVE TypeOK'
  <2>1. [at |-> "loaded", of |-> {i}, amount |-> investment[i].amount] \in Copies
    BY <1>b DEF InvestmentRows, Copies
  <2>2. copy' \in [Savers -> Copies]
    BY <1>10, <2>1, <1>b DEF LoadInvestment
  <2> QED  BY <1>10, <2>2, <1>b, QuietType DEF LoadInvestment, books, callers
<1>14. ASSUME NEW v \in Savers, NEW i \in Investments, SaveConfirmed(v, i)  PROVE TypeOK'
  <2>1. copy[v].amount \in Nat  BY <1>b DEF Copies
  <2>2. [status |-> "CONFIRMED", amount |-> copy[v].amount] \in InvestmentRows
    BY <2>1 DEF InvestmentRows
  <2>3. investment' \in [Investments -> InvestmentRows]
    BY <1>14, <2>2, <1>b DEF SaveConfirmed
  <2>4. [at |-> "saved", of |-> {}, amount |-> 0] \in Copies
    BY DEF Copies
  <2>5. copy' \in [Savers -> Copies]
    BY <1>14, <2>4, <1>b DEF SaveConfirmed
  <2>6. rewritten' \subseteq Investments
    BY <1>14, <1>b DEF SaveConfirmed
  <2> QED  BY <1>14, <2>3, <2>5, <2>6, <1>b, QuietType DEF SaveConfirmed, callers
<1>11. CASE Mature
  BY <1>11, <1>i DEF Mature, TypeOK, books, callers, saves
<1>12. CASE ApplySettleEvent
  BY <1>12, <1>b, QuietType DEF ApplySettleEvent, callers, saves
<1>15. CASE ApplyPaymentEvent
  BY <1>15, <1>b, QuietType DEF ApplyPaymentEvent, callers, saves
<1>13. CASE UNCHANGED vars
  BY <1>13, <1>i DEF TypeOK, vars, setting, books, callers, saves
<1> QED
  BY <1>1, <1>2, <1>3, <1>4, <1>5, <1>6, <1>7, <1>8, <1>9, <1>10, <1>11, <1>12, <1>13, <1>14, <1>15
     DEF Next, Settle

-----------------------------------------------------------------------------
(* The inductive invariant                                                 *)

\* The investments are pending or confirmed when the settlement begins.
LEMMA NoneSettledAtFirst == Init => Settled = {}
<1> SUFFICES ASSUME Init, NEW i \in Investments  PROVE investment[i].status # "SETTLED"
  BY DEF Settled
<1>1. PICK late \in SUBSET Investments : investment = [k \in Investments |->
        [status |-> IF Shares[k] = 0 THEN "none" ELSE IF k \in late THEN "PENDING" ELSE "CONFIRMED",
         amount |-> Shares[k]]]
  BY DEF Init
<1> QED  BY <1>1

\* Nobody has done anything yet.
LEMMA InitSettlement == Init => SettlementInv
<1> SUFFICES ASSUME Init  PROVE SettlementInv
  OBVIOUS
<1>1. TypeOK  BY InitType
<1>2. \A c \in Callers : ~Submits(c)  BY DEF Init, Submits
<1>3. Settled = {}  BY NoneSettledAtFirst
<1>4. payouts = <<>> /\ intent.status = "none" /\ status = "FUNDED"
  BY DEF Init, NoIntent
<1>5. OneSubmitter  BY <1>2 DEF OneSubmitter
<1>6. SubmitterHoldsIntent  BY <1>2 DEF SubmitterHoldsIntent, Submits
<1>7. PaidForIntent /\ IntentTellsTheTruth /\ HoldingsFrozen
  BY <1>4 DEF PaidForIntent, IntentTellsTheTruth, HoldingsFrozen
<1>7a. RewrittenSinceSnapshot  BY DEF Init, NoIntent, RewrittenSinceSnapshot
<1>8. NoneSettledEarly /\ RecordMatchesPayout
  BY <1>3, <1>4 DEF NoneSettledEarly, RecordMatchesPayout
<1> QED  BY <1>1, <1>5, <1>6, <1>7, <1>7a, <1>8 DEF SettlementInv

\* A step that leaves the intent and the payouts alone, lets nobody begin to
\* submit and keeps the holdings of the snapshot, but those it says it rewrites,
\* preserves all but what is said of the settled investments.
LEMMA QuietStep ==
    ASSUME SettlementInv, TypeOK', intent' = intent, payouts' = payouts,
           \A c \in Callers : \/ pc'[c] = pc[c] /\ hash'[c] = hash[c]
                              \/ pc'[c] \notin {"claimed", "paid"},
           intent.status # "none" =>
              \A i \in DOMAIN intent.snapshot \ rewritten' :
                  investment'[i].amount = investment[i].amount,
           rewritten \subseteq rewritten',
           rewritten' \subseteq rewritten \cup DOMAIN intent.snapshot,
           NoneSettledEarly', RecordMatchesPayout'
    PROVE  SettlementInv'
<1>1. \A c \in Callers : Submits(c)' =>
          Submits(c) /\ pc'[c] = pc[c] /\ hash'[c] = hash[c]
  BY DEF Submits
<1>2. OneSubmitter'  BY <1>1 DEF SettlementInv, OneSubmitter
<1>3. SubmitterHoldsIntent'
  BY <1>1 DEF SettlementInv, SubmitterHoldsIntent, Submits
<1>4. PaidForIntent' /\ IntentTellsTheTruth'
  BY DEF SettlementInv, PaidForIntent, IntentTellsTheTruth
<1>5. HoldingsFrozen'  BY DEF SettlementInv, HoldingsFrozen
<1>6. RewrittenSinceSnapshot'  BY DEF SettlementInv, RewrittenSinceSnapshot
<1> QED  BY <1>2, <1>3, <1>4, <1>5, <1>6 DEF SettlementInv

\* A caller that goes where it does not submit, and nothing else.
LEMMA CallerStep ==
    ASSUME SettlementInv, TypeOK', UNCHANGED <<books, intent, payouts, rewritten>>,
           NEW c \in Callers, NEW to \in Places \ {"claimed", "paid"}, NEW h, Go(c, to, h)
    PROVE  SettlementInv'
<1>1. TypeOK  BY DEF SettlementInv
<1>2. \A d \in Callers : \/ pc'[d] = pc[d] /\ hash'[d] = hash[d]
                         \/ pc'[d] \notin {"claimed", "paid"}
  BY <1>1, GoEffect
<1>3. intent' = intent /\ payouts' = payouts /\ status' = status /\ investment' = investment
  BY DEF books
<1>4. NoneSettledEarly' /\ RecordMatchesPayout'
  BY <1>3 DEF SettlementInv, NoneSettledEarly, RecordMatchesPayout, Settled, Confirmed
<1> QED  BY <1>2, <1>3, <1>4, QuietStep

\* The record of a settlement, made while the invoice is FUNDED and by someone
\* who does not complete an intent.
LEMMA RecordStep ==
    ASSUME SettlementInv, TypeOK', status = "FUNDED", RecordSettlement,
           intent' = intent, payouts' = payouts, rewritten' = rewritten,
           \A c \in Callers : \/ pc'[c] = pc[c] /\ hash'[c] = hash[c]
                              \/ pc'[c] \notin {"claimed", "paid"}
    PROVE  SettlementInv'
<1>1. TypeOK  BY DEF SettlementInv
<1>2. \A i \in DOMAIN intent.snapshot : investment'[i].amount = investment[i].amount
  BY <1>1, IntentType, RecordEffect
<1>3. status' = "SETTLED" /\ intent'.status # "COMPLETED"
  BY DEF RecordSettlement, SettlementInv, NoneSettledEarly
<1>4. NoneSettledEarly' /\ RecordMatchesPayout'
  BY <1>3 DEF NoneSettledEarly, RecordMatchesPayout
<1> QED  BY <1>2, <1>4, QuietStep

\* A new intent holds what the confirmed investments are now, and finds nobody
\* submitting and nothing paid.
LEMMA PrepareStep ==
    ASSUME SettlementInv, TypeOK', NEW c \in Callers, Prepare(c)
    PROVE  SettlementInv'
<1>t. TypeOK  BY DEF SettlementInv
<1>1. UNCHANGED <<books, payouts, rewritten>>  BY DEF Prepare, saves
<1>2. CASE UNCHANGED intent
  <2>1. \E to \in {"prepared", "distributed"}, h \in {0, intent.hash} : Go(c, to, h)
    BY <1>2 DEF Prepare
  <2>2. {"prepared", "distributed"} \subseteq Places \ {"claimed", "paid"}  BY DEF Places
  <2> QED  BY <1>1, <1>2, <2>1, <2>2, CallerStep
<1>3. CASE /\ intent.status = "none" /\ Go(c, "prepared", 0)
           /\ intent' = [status |-> "PREPARED", params |-> Params[c],
                         snapshot |-> Snapshot, hash |-> 0]
  <2>1. intent'.status = "PREPARED" /\ intent'.snapshot = Snapshot  BY <1>3
  <2>2. payouts' = <<>>
    BY <1>1, <1>3 DEF SettlementInv, IntentTellsTheTruth
  <2>3. \A d \in Callers : pc[d] \notin {"claimed", "paid"}
    BY <1>3 DEF SettlementInv, SubmitterHoldsIntent, Submits
  <2>4. \A d \in Callers : ~Submits(d)'
    BY <2>3, <1>3, <1>t, GoEffect DEF Submits
  <2>5. OneSubmitter' /\ SubmitterHoldsIntent'
    BY <2>4 DEF OneSubmitter, SubmitterHoldsIntent, Submits
  <2>6. PaidForIntent' /\ IntentTellsTheTruth'
    BY <2>1, <2>2 DEF PaidForIntent, IntentTellsTheTruth
  <2>7. investment' = investment /\ status' = status  BY <1>1 DEF books
  <2>8. HoldingsFrozen'
    BY <2>1, <2>7 DEF HoldingsFrozen, Snapshot
  <2>10. RewrittenSinceSnapshot'
    <3>1. rewritten' = {}
      BY <1>1, <1>3 DEF SettlementInv, RewrittenSinceSnapshot
    <3> QED  BY <3>1, <2>1 DEF RewrittenSinceSnapshot
  <2>9. NoneSettledEarly' /\ RecordMatchesPayout'
    BY <2>1, <2>7 DEF SettlementInv, NoneSettledEarly, RecordMatchesPayout, Settled, Confirmed
  <2> QED  BY <2>5, <2>6, <2>8, <2>9, <2>10 DEF SettlementInv
<1> QED  BY <1>2, <1>3 DEF Prepare

\* The one caller that turns PREPARED to SUBMITTING is the only one that may
\* submit, before anything was paid.
LEMMA ClaimStep ==
    ASSUME SettlementInv, TypeOK', NEW c \in Callers, Claim(c)
    PROVE  SettlementInv'
<1>t. TypeOK  BY DEF SettlementInv
<1>1. UNCHANGED <<books, payouts, rewritten>>  BY DEF Claim, saves
<1>2. CASE UNCHANGED intent /\ Go(c, "idle", 0)
  BY <1>1, <1>2, CallerStep DEF Places
<1>3. CASE /\ intent.status = "PREPARED" /\ Go(c, "claimed", 0)
           /\ intent' = [intent EXCEPT !.status = "SUBMITTING"]
  <2>1. intent'.status = "SUBMITTING" /\ intent'.snapshot = intent.snapshot
    BY <1>3, <1>t, IntentStatusMoves DEF IntentStatuses
  <2>2. payouts' = <<>>
    BY <1>1, <1>3 DEF SettlementInv, IntentTellsTheTruth
  <2>3. \A d \in Callers : pc[d] \notin {"claimed", "paid"}
    BY <1>3 DEF SettlementInv, SubmitterHoldsIntent, Submits
  <2>4. \A d \in Callers : Submits(d)' => d = c
    BY <2>3, <1>3, <1>t, GoEffect DEF Submits
  <2>5. pc'[c] = "claimed"  BY <1>3, <1>t, GoEffect
  <2>6. OneSubmitter'  BY <2>4 DEF OneSubmitter
  <2>7. SubmitterHoldsIntent'
    BY <2>1, <2>2, <2>4, <2>5 DEF SubmitterHoldsIntent, Submits
  <2>8. PaidForIntent' /\ IntentTellsTheTruth'
    BY <2>1, <2>2 DEF PaidForIntent, IntentTellsTheTruth
  <2>9. investment' = investment /\ status' = status  BY <1>1 DEF books
  <2>10. HoldingsFrozen'
    BY <2>1, <2>9, <1>1, <1>3 DEF SettlementInv, HoldingsFrozen
  <2>12. RewrittenSinceSnapshot'
    BY <2>1, <1>1 DEF SettlementInv, RewrittenSinceSnapshot
  <2>11. NoneSettledEarly' /\ RecordMatchesPayout'
    BY <2>1, <2>9 DEF SettlementInv, NoneSettledEarly, RecordMatchesPayout, Settled, Confirmed
  <2> QED  BY <2>6, <2>7, <2>8, <2>10, <2>11, <2>12 DEF SettlementInv
<1> QED  BY <1>2, <1>3 DEF Claim

\* The first payout is of the intent's snapshot, whether its answer arrives or
\* not; as nobody else submits, it stays the only one.
LEMMA DistributeStep ==
    ASSUME SettlementInv, TypeOK', NEW c \in Callers, Distribute(c)
    PROVE  SettlementInv'
<1>t. TypeOK  BY DEF SettlementInv
<1>1. UNCHANGED <<books, intent, rewritten>>  BY DEF Distribute, saves
<1>2. pc[c] = "claimed" /\ payouts = <<>> /\ intent.status = "SUBMITTING"
  BY DEF Distribute, SettlementInv, SubmitterHoldsIntent, Submits
<1>3. CASE UNCHANGED payouts /\ Go(c, "idle", 0)
  BY <1>1, <1>3, CallerStep DEF Places
<1>4. CASE /\ payouts' = Append(payouts, intent.snapshot)
           /\ Go(c, "paid", Len(payouts) + 1) \/ Go(c, "idle", 0)
  <2>1. payouts' = <<intent.snapshot>> /\ DOMAIN payouts' = {1}
    BY <1>2, <1>4, FirstPayout
  <2>2. Go(c, "paid", 1) \/ Go(c, "idle", 0)  BY <1>2, <1>4
  <2>3. pc'[c] # "claimed" /\ (pc'[c] = "paid" => hash'[c] = 1)
    BY <2>2, <1>t, GoEffect
  <2>4. \A d \in Callers : Submits(d)' => d = c
    <3>1. \A d \in Callers \ {c} : pc[d] \notin {"claimed", "paid"}
      BY <1>2 DEF SettlementInv, OneSubmitter, Submits
    <3> QED  BY <3>1, <2>2, <1>t, GoEffect DEF Submits
  <2>5. OneSubmitter'  BY <2>4 DEF OneSubmitter
  <2>6. SubmitterHoldsIntent'
    BY <1>1, <1>2, <2>1, <2>3, <2>4 DEF SubmitterHoldsIntent, Submits
  <2>7. PaidForIntent' /\ IntentTellsTheTruth'
    BY <1>1, <1>2, <2>1 DEF PaidForIntent, IntentTellsTheTruth
  <2>8. investment' = investment /\ status' = status /\ intent' = intent
    BY <1>1 DEF books
  <2>9. HoldingsFrozen'  BY <1>1, <2>8 DEF SettlementInv, HoldingsFrozen
  <2>11. RewrittenSinceSnapshot'
    BY <2>8, <1>1 DEF SettlementInv, RewrittenSinceSnapshot
  <2>10. NoneSettledEarly' /\ RecordMatchesPayout'
    BY <1>2, <2>8 DEF SettlementInv, NoneSettledEarly, RecordMatchesPayout, Settled, Confirmed
  <2> QED  BY <2>5, <2>6, <2>7, <2>9, <2>10, <2>11 DEF SettlementInv
<1> QED  BY <1>3, <1>4 DEF Distribute

\* The intent becomes DISTRIBUTED with the hash of a payout that was made.
LEMMA MarkStep ==
    ASSUME SettlementInv, TypeOK', NEW c \in Callers, MarkDistributed(c)
    PROVE  SettlementInv'
<1>t. TypeOK  BY DEF SettlementInv
<1>1. UNCHANGED <<books, payouts, rewritten>>  BY DEF MarkDistributed, saves
<1>2. CASE UNCHANGED intent /\ Go(c, "idle", 0)
  BY <1>1, <1>2, CallerStep DEF Places
<1>3. CASE /\ intent.status = "SUBMITTING" /\ Go(c, "distributed", hash[c])
           /\ intent' = [intent EXCEPT !.status = "DISTRIBUTED", !.hash = hash[c]]
  <2>1. pc[c] = "paid" /\ hash[c] \in DOMAIN payouts
    BY DEF MarkDistributed, SettlementInv, SubmitterHoldsIntent
  <2>2. PaidForIntent /\ hash[c] \in 1 .. Len(payouts) /\ hash[c] = 1 /\ Len(payouts) = 1
    BY <2>1, PayoutsKnown DEF SettlementInv
  <2>3. /\ intent'.status = "DISTRIBUTED" /\ intent'.hash = hash[c]
        /\ intent'.snapshot = intent.snapshot
    BY <1>3, <1>t, <2>2, IntentMoves DEF IntentStatuses
  <2>4. payouts[hash[c]] = intent.snapshot
    BY <2>2, PayoutsKnown
  <2>5. payouts' = payouts /\ investment' = investment /\ status' = status
    BY <1>1 DEF books
  <2>6. \A d \in Callers : ~Submits(d)'
    <3>1. \A d \in Callers \ {c} : pc[d] \notin {"claimed", "paid"}
      BY <2>1 DEF SettlementInv, OneSubmitter, Submits
    <3> QED  BY <3>1, <1>3, <1>t, GoEffect DEF Submits
  <2>7. OneSubmitter' /\ SubmitterHoldsIntent'
    BY <2>6 DEF OneSubmitter, SubmitterHoldsIntent, Submits
  <2>8. PaidForIntent'  BY <2>2, <2>3, <2>5 DEF PaidForIntent
  <2>9. IntentTellsTheTruth'
    BY <2>1, <2>3, <2>4, <2>5 DEF IntentTellsTheTruth
  <2>10. HoldingsFrozen'
    BY <1>1, <1>3, <2>3, <2>5 DEF SettlementInv, HoldingsFrozen
  <2>12. RewrittenSinceSnapshot'
    BY <2>3, <1>1 DEF SettlementInv, RewrittenSinceSnapshot
  <2>11. NoneSettledEarly' /\ RecordMatchesPayout'
    BY <2>3, <2>5 DEF SettlementInv, NoneSettledEarly, RecordMatchesPayout, Settled, Confirmed
  <2> QED  BY <2>7, <2>8, <2>9, <2>10, <2>11, <2>12 DEF SettlementInv
<1> QED  BY <1>2, <1>3 DEF MarkDistributed

\* An intent is completed only if it still is of the confirmed investments, and
\* none was settled before: what is settled now is what was paid.
LEMMA FinalizeStep ==
    ASSUME SettlementInv, TypeOK', NEW c \in Callers, Finalize(c)
    PROVE  SettlementInv'
<1>t. TypeOK  BY DEF SettlementInv
<1>1. Go(c, "idle", 0) /\ payouts' = payouts /\ rewritten' = rewritten
  BY DEF Finalize, saves
<1>2. CASE UNCHANGED <<books, intent>>
  BY <1>1, <1>2, CallerStep DEF Places
<1>3. CASE status = "FUNDED" /\ RecordSettlement /\ intent' = intent
  <2>1. \A d \in Callers : \/ pc'[d] = pc[d] /\ hash'[d] = hash[d]
                           \/ pc'[d] \notin {"claimed", "paid"}
    BY <1>1, <1>t, GoEffect
  <2> QED  BY <1>1, <1>3, <2>1, RecordStep
<1>4. CASE /\ status = "FUNDED" /\ RecordSettlement /\ IntentHolds(c)
           /\ intent' = [intent EXCEPT !.status = "COMPLETED"]
  <2>1. /\ intent.status = "DISTRIBUTED" /\ DOMAIN intent.snapshot = Confirmed
    BY <1>4 DEF IntentHolds, Snapshot
  <2>2. /\ intent'.status = "COMPLETED" /\ intent'.hash = intent.hash
        /\ intent'.snapshot = intent.snapshot
    BY <1>4, <1>t, IntentStatusMoves DEF IntentStatuses
  <2>3. intent.hash \in DOMAIN payouts /\ payouts[intent.hash] = intent.snapshot
    BY <2>1 DEF SettlementInv, IntentTellsTheTruth
  <2>4. Settled' = Confirmed
    <3>1. Settled = {}  BY <1>4 DEF SettlementInv, NoneSettledEarly
    <3> QED  BY <3>1, <1>4, <1>t, RecordEffect
  <2>5. \A d \in Callers : ~Submits(d)'
    <3>1. \A d \in Callers : pc[d] \notin {"claimed", "paid"}
      BY <2>1 DEF SettlementInv, SubmitterHoldsIntent, Submits
    <3> QED  BY <3>1, <1>1, <1>t, GoEffect DEF Submits
  <2>6. OneSubmitter' /\ SubmitterHoldsIntent'
    BY <2>5 DEF OneSubmitter, SubmitterHoldsIntent, Submits
  <2>7. PaidForIntent' /\ IntentTellsTheTruth'
    BY <1>1, <2>2, <2>3 DEF SettlementInv, PaidForIntent, IntentTellsTheTruth
  <2>8. HoldingsFrozen'
    <3>1. \A i \in DOMAIN intent.snapshot : investment'[i].amount = investment[i].amount
      BY <1>4, <1>t, IntentType, RecordEffect
    <3> QED  BY <3>1, <1>1, <2>1, <2>2 DEF SettlementInv, HoldingsFrozen
  <2>11. RewrittenSinceSnapshot'
    BY <2>2, <1>1 DEF SettlementInv, RewrittenSinceSnapshot
  <2>9. NoneSettledEarly'  BY <1>4 DEF NoneSettledEarly, RecordSettlement
  <2>10. RecordMatchesPayout'
    BY <1>1, <2>1, <2>2, <2>3, <2>4 DEF RecordMatchesPayout
  <2> QED  BY <2>6, <2>7, <2>8, <2>9, <2>10, <2>11 DEF SettlementInv
<1> QED  BY <1>2, <1>3, <1>4 DEF Finalize

\* One unit changes hands only while no intent is open or completed.
LEMMA PurchaseStep ==
    ASSUME SettlementInv, TypeOK', NEW i \in Investments, NEW j \in Investments,
           Purchase(i, j)
    PROVE  SettlementInv'
<1>t. TypeOK  BY DEF SettlementInv
<1>1. UNCHANGED <<intent, payouts, pc, hash, rewritten>> /\ status' = status /\ status = "FUNDED"
  BY DEF Purchase, callers, saves
<1>2. intent.status = "none"
  BY <1>1, <1>t, IntentType
     DEF Purchase, SettlementInProgress, SettlementInv, NoneSettledEarly, IntentStatuses
<1>3. Settled' = Settled
  <2>1. /\ investment[i].status # "SETTLED" /\ investment[j].status # "SETTLED" /\ i # j
    BY DEF Purchase, Sellable, Confirmed
  <2>2. investment'[j].status = "CONFIRMED"  BY <1>t DEF Purchase, TypeOK
  <2>3. investment'[i].status = investment[i].status
    BY <2>1, <1>t DEF Purchase, TypeOK, InvestmentRows
  <2>4. \A k \in Investments \ {i, j} : investment'[k] = investment[k]
    BY <1>t DEF Purchase, TypeOK
  <2> QED  BY <2>1, <2>2, <2>3, <2>4 DEF Settled
<1>4. NoneSettledEarly' /\ RecordMatchesPayout'
  BY <1>1, <1>2, <1>3 DEF SettlementInv, NoneSettledEarly, RecordMatchesPayout
<1> QED  BY <1>1, <1>2, <1>4, QuietStep

\* What a late confirmation saves: it takes the investment out of the settled
\* ones and changes at most its amount.
LEMMA SaveEffect ==
    ASSUME TypeOK, NEW v \in Savers, NEW i \in Investments, SaveConfirmed(v, i)
    PROVE  /\ investment'[i].amount = copy[v].amount /\ copy[v].amount \in Nat
           /\ investment'[i].status = "CONFIRMED"
           /\ \A k \in Investments \ {i} : investment'[k] = investment[k]
           /\ Settled' = Settled \ {i} /\ Confirmed' = Confirmed \cup {i}
<1>1. copy[v].amount \in Nat  BY DEF TypeOK, Copies
<1>2. /\ investment'[i] = [status |-> "CONFIRMED", amount |-> copy[v].amount]
      /\ \A k \in Investments \ {i} : investment'[k] = investment[k]
  BY DEF TypeOK, SaveConfirmed
<1>3. Settled' = Settled \ {i}  BY <1>2 DEF Settled
<1>4. Confirmed' = Confirmed \cup {i}  BY <1>2 DEF Confirmed
<1> QED  BY <1>1, <1>2, <1>3, <1>4

\* A late confirmation settles nothing, and says what it rewrites.
LEMMA SaveStep ==
    ASSUME SettlementInv, TypeOK', NEW v \in Savers, NEW i \in Investments, SaveConfirmed(v, i)
    PROVE  SettlementInv'
<1>t. TypeOK  BY DEF SettlementInv
<1>1. UNCHANGED <<intent, payouts, pc, hash>> /\ status' = status
  BY DEF SaveConfirmed, callers
<1>2. /\ rewritten \subseteq rewritten' /\ rewritten' \subseteq rewritten \cup DOMAIN intent.snapshot
      /\ i \in DOMAIN intent.snapshot /\ copy[v].amount # investment[i].amount => i \in rewritten'
  BY DEF SaveConfirmed
<1>3. \A k \in DOMAIN intent.snapshot \ rewritten' : investment'[k].amount = investment[k].amount
  BY <1>2, <1>t, IntentType, SaveEffect
<1>4. NoneSettledEarly'
  BY <1>1, <1>t, SaveEffect DEF SettlementInv, NoneSettledEarly
<1>5. RecordMatchesPayout'
  BY <1>1, <1>t, SaveEffect DEF SettlementInv, RecordMatchesPayout
<1> QED  BY <1>1, <1>2, <1>3, <1>4, <1>5, QuietStep

\* Every action preserves the invariant.
LEMMA NextSettlement == SettlementInv /\ [Next]_vars => SettlementInv'
<1> SUFFICES ASSUME SettlementInv, [Next]_vars  PROVE SettlementInv'
  OBVIOUS
<1>t. TypeOK /\ TypeOK'  BY NextType DEF SettlementInv
<1>1. ASSUME NEW c \in Callers, Settle(c)  PROVE SettlementInv'
  BY <1>1, <1>t, PrepareStep, ClaimStep, DistributeStep, MarkStep, FinalizeStep DEF Settle
<1>2. ASSUME NEW c \in Callers, Crash(c)  PROVE SettlementInv'
  BY <1>2, <1>t, CallerStep DEF Crash, Places, saves
<1>3. ASSUME NEW a \in Admins, AdminSettleOnChain(a)  PROVE SettlementInv'
  <2>1. \A c \in Callers : pc'[c] = pc[c]
    BY <1>3, <1>t, SettlementAssumption DEF AdminSettleOnChain, TypeOK
  <2>2. UNCHANGED <<intent, payouts, hash, rewritten>> /\ status' = status /\ investment' = investment
    BY <1>3 DEF AdminSettleOnChain, books, saves
  <2>3. NoneSettledEarly' /\ RecordMatchesPayout'
    BY <2>2 DEF SettlementInv, NoneSettledEarly, RecordMatchesPayout, Settled, Confirmed
  <2> QED  BY <1>t, <2>1, <2>2, <2>3, QuietStep
<1>4. ASSUME NEW a \in Admins, AdminRecord(a)  PROVE SettlementInv'
  <2>1. \A c \in Callers : pc'[c] = pc[c]
    BY <1>4, <1>t, SettlementAssumption DEF AdminRecord, TypeOK
  <2>2. UNCHANGED <<intent, payouts, hash, rewritten>>  BY <1>4 DEF AdminRecord, saves
  <2>3. CASE UNCHANGED books
    <3>1. status' = status /\ investment' = investment  BY <2>3 DEF books
    <3>2. NoneSettledEarly' /\ RecordMatchesPayout'
      BY <2>2, <3>1 DEF SettlementInv, NoneSettledEarly, RecordMatchesPayout, Settled, Confirmed
    <3> QED  BY <1>t, <2>1, <2>2, <3>1, <3>2, QuietStep
  <2>4. CASE status = "FUNDED" /\ RecordSettlement
    BY <1>t, <2>1, <2>2, <2>4, RecordStep
  <2> QED  BY <1>4, <2>3, <2>4 DEF AdminRecord
<1>5. ASSUME NEW i \in Investments, NEW j \in Investments, Purchase(i, j)
      PROVE  SettlementInv'
  BY <1>5, <1>t, PurchaseStep
<1>6. ASSUME NEW v \in Savers, NEW i \in Investments, LoadInvestment(v, i) \/ SaveConfirmed(v, i)
      PROVE  SettlementInv'
  <2>1. CASE LoadInvestment(v, i)
    <3>1. UNCHANGED <<intent, payouts, pc, hash, status, investment, rewritten>>
      BY <2>1 DEF LoadInvestment, books, callers
    <3>2. NoneSettledEarly' /\ RecordMatchesPayout'
      BY <3>1 DEF SettlementInv, NoneSettledEarly, RecordMatchesPayout, Settled, Confirmed
    <3> QED  BY <1>t, <3>1, <3>2, QuietStep
  <2> QED  BY <1>6, <2>1, <1>t, SaveStep
<1>7. CASE Mature
  <2>1. UNCHANGED <<intent, payouts, pc, hash, status, investment, rewritten>>
    BY <1>7 DEF Mature, books, callers, saves
  <2>2. NoneSettledEarly' /\ RecordMatchesPayout'
    BY <2>1 DEF SettlementInv, NoneSettledEarly, RecordMatchesPayout, Settled, Confirmed
  <2> QED  BY <1>t, <2>1, <2>2, QuietStep
<1>8. CASE ApplySettleEvent \/ ApplyPaymentEvent
  <2>1. UNCHANGED <<intent, payouts, pc, hash, investment, rewritten>> /\ status' = "SETTLED"
    BY <1>8 DEF ApplySettleEvent, ApplyPaymentEvent, callers, saves
  <2>2. NoneSettledEarly' /\ RecordMatchesPayout'
    BY <2>1 DEF SettlementInv, NoneSettledEarly, RecordMatchesPayout, Settled, Confirmed
  <2> QED  BY <1>t, <2>1, <2>2, QuietStep
<1>9. CASE UNCHANGED vars
  <2>1. UNCHANGED <<intent, payouts, pc, hash, status, investment, rewritten>>
    BY <1>9 DEF vars, books, callers, saves
  <2>2. NoneSettledEarly' /\ RecordMatchesPayout'
    BY <2>1 DEF SettlementInv, NoneSettledEarly, RecordMatchesPayout, Settled, Confirmed
  <2> QED  BY <1>t, <2>1, <2>2, QuietStep
<1> QED
  BY <1>1, <1>2, <1>3, <1>4, <1>5, <1>6, <1>7, <1>8, <1>9 DEF Next

\* The invariant holds in every reachable state.
LEMMA InvariantHolds == Spec => []SettlementInv
<1> QED  BY InitSettlement, NextSettlement, PTL DEF Spec

-----------------------------------------------------------------------------
(* The results                                                             *)

\* Every variable of a settlement keeps its type: no purchase drives an amount
\* below zero, and no caller holds the hash of a payout that was not made.
THEOREM TypeCorrect == Spec => []TypeOK
<1>1. SettlementInv => TypeOK  BY DEF SettlementInv
<1> QED  BY <1>1, InvariantHolds, PTL

\* The distributor pays at most once, for any number of callers that prepare
\* together, crash anywhere or lose the answer.
THEOREM PaidOnce == Spec => []PaidAtMostOnce
<1>1. SettlementInv => PaidAtMostOnce
  BY PayoutsKnown DEF SettlementInv, PaidAtMostOnce
<1> QED  BY <1>1, InvariantHolds, PTL

\* A later caller can rely on the intent: it reads DISTRIBUTED only with the
\* payout that was made, and PREPARED only before any was.
THEOREM IntentTruthful == Spec => []IntentTellsTheTruth
<1>1. SettlementInv => IntentTellsTheTruth  BY DEF SettlementInv
<1> QED  BY <1>1, InvariantHolds, PTL

\* Who was paid still holds what he was paid for, whatever is bought and sold,
\* unless a late confirmation has written back what it loaded.
THEOREM PaidForHoldings == Spec => []PayoutsMatchHoldings
<1>1. SettlementInv => PayoutsMatchHoldings
  <2> SUFFICES ASSUME SettlementInv, NEW n \in DOMAIN payouts,
                      NEW i \in DOMAIN payouts[n] \ rewritten
               PROVE  investment[i].amount = payouts[n][i]
    BY DEF PayoutsMatchHoldings
  <2>1. PaidForIntent  BY DEF SettlementInv
  <2>2. payouts # <<>> /\ payouts[n] = intent.snapshot
    BY <2>1, PayoutsKnown
  <2>3. intent.status # "none"
    BY <2>2 DEF SettlementInv, IntentTellsTheTruth
  <2> QED  BY <2>2, <2>3 DEF SettlementInv, HoldingsFrozen
<1> QED  BY <1>1, InvariantHolds, PTL

\* A completed settlement settled the investments that were paid and no other,
\* although confirmations arrive at any time; one that arrives later can only
\* take an investment out again.
THEOREM RecordedAsPaid == Spec => []RecordMatchesPayout
<1>1. SettlementInv => RecordMatchesPayout  BY DEF SettlementInv
<1> QED  BY <1>1, InvariantHolds, PTL

\* No step of anyone settles an invoice, or an investment of it, once more, not
\* even one that a late confirmation has made CONFIRMED again.
THEOREM SettledForGood == Spec => SettledOnce
<1>1. SettlementInv /\ [Next]_vars =>
         [status = "SETTLED" => status' = "SETTLED" /\ Settled' \subseteq Settled]_vars
  <2> SUFFICES ASSUME SettlementInv, [Next]_vars, status = "SETTLED"
               PROVE  status' = "SETTLED" /\ Settled' \subseteq Settled
    OBVIOUS
  <2>t. TypeOK  BY DEF SettlementInv
  <2>0. UNCHANGED <<status, investment>> => status' = "SETTLED" /\ Settled' = Settled
    BY DEF Settled
  <2>1. ASSUME NEW c \in Callers, Settle(c) \/ Crash(c)
        PROVE  UNCHANGED <<status, investment>>
    BY <2>1 DEF Settle, Prepare, Claim, Distribute, MarkDistributed, Finalize, Crash, books
  <2>2. ASSUME NEW a \in Admins, AdminSettleOnChain(a) \/ AdminRecord(a)
        PROVE  UNCHANGED <<status, investment>>
    BY <2>2 DEF AdminSettleOnChain, AdminRecord, books
  <2>3. ASSUME NEW i \in Investments, NEW j \in Investments, Purchase(i, j)  PROVE FALSE
    BY <2>3 DEF Purchase
  <2>4. ASSUME NEW v \in Savers, NEW i \in Investments, LoadInvestment(v, i) \/ SaveConfirmed(v, i)
        PROVE  status' = "SETTLED" /\ Settled' \subseteq Settled
    <3>1. CASE LoadInvestment(v, i)  BY <2>0, <3>1 DEF LoadInvestment, books
    <3>2. CASE SaveConfirmed(v, i)
      BY <2>t, <3>2, SaveEffect DEF SaveConfirmed
    <3> QED  BY <2>4, <3>1, <3>2
  <2>5. CASE Mature  BY <2>0, <2>5 DEF Mature, books
  <2>6. CASE ApplySettleEvent \/ ApplyPaymentEvent
    BY <2>6 DEF ApplySettleEvent, ApplyPaymentEvent, Settled
  <2>7. CASE UNCHANGED vars  BY <2>0, <2>7 DEF vars, books
  <2> QED  BY <2>0, <2>1, <2>2, <2>3, <2>4, <2>5, <2>6, <2>7 DEF Next
<1> QED  BY <1>1, InvariantHolds, PTL DEF Spec, SettledOnce

-----------------------------------------------------------------------------
(* Settlement implements PayoutLedger                                      *)

\* What the ledger sees of a step that it does not notice.
LEMMA UnnoticedStep ==
    ASSUME \A i \in Investments : investment'[i].amount = investment[i].amount,
           UNCHANGED <<payouts, rewritten, Settled>>,
           \A i \in rewritten : intent'.snapshot[i] = intent.snapshot[i],
           (status' = "SETTLED") <=> (status = "SETTLED"),
           (intent'.status = "COMPLETED") <=> (intent.status = "COMPLETED")
    PROVE  UNCHANGED Ledger!ledgerVars
<1>1. [i \in Investments |-> Holding(i)]' = [i \in Investments |-> Holding(i)]
  BY DEF Holding
<1> QED  BY <1>1 DEF Ledger!ledgerVars

\* The settlement starts with what is held, and nothing paid or settled.
LEMMA LedgerInitially == Init => Ledger!LedgerInit
<1> SUFFICES ASSUME Init  PROVE Ledger!LedgerInit
  OBVIOUS
<1>1. \A i \in Investments : investment[i].amount \in Nat
  BY InitType DEF TypeOK, InvestmentRows
<1>2. intent.status = "none" /\ payouts = <<>> /\ status = "FUNDED" /\ rewritten = {}
  BY DEF Init, NoIntent
<1>3. Settled = {}  BY NoneSettledAtFirst
<1> QED  BY <1>1, <1>2, <1>3 DEF Ledger!LedgerInit, Holding

\* A settlement that is recorded closes the ledger: by the payout, if the caller
\* has found its intent to hold, and without it otherwise.
LEMMA RecordCloses ==
    ASSUME SettlementInv, status = "FUNDED", RecordSettlement, UNCHANGED <<payouts, rewritten>>,
           intent'.snapshot = intent.snapshot,
           \/ intent' = intent
           \/ /\ intent.status = "DISTRIBUTED" /\ intent.snapshot = Snapshot
              /\ intent'.status = "COMPLETED"
    PROVE  Ledger!LedgerNext
<1>1. TypeOK /\ PaidForIntent /\ Settled = {} /\ intent.status # "COMPLETED"
  BY DEF SettlementInv, NoneSettledEarly
<1>2. /\ Settled' = Confirmed /\ Confirmed \in SUBSET Investments /\ status' = "SETTLED"
      /\ \A i \in Investments : investment'[i].amount = investment[i].amount
  BY <1>1, RecordEffect, SnapshotType DEF RecordSettlement
<1>0. [i \in Investments |-> Holding(i)]' = [i \in Investments |-> Holding(i)]
  BY <1>2 DEF Holding
<1>3. CASE intent' = intent
  <2>1. Ledger!Close(Confirmed)
    BY <1>0, <1>2, <1>3 DEF Ledger!Close
  <2> QED  BY <1>2, <2>1 DEF Ledger!LedgerNext
<1>4. CASE intent.status = "DISTRIBUTED" /\ intent.snapshot = Snapshot /\ intent'.status = "COMPLETED"
  <2>1. payouts # <<>>
    BY <1>4 DEF SettlementInv, IntentTellsTheTruth
  <2>2. payouts[1] = Snapshot /\ DOMAIN Snapshot = Confirmed
    BY <1>1, <1>4, <2>1, PayoutsKnown DEF Snapshot
  <2>3. Ledger!Complete
    BY <1>0, <1>1, <1>2, <1>4, <2>1, <2>2 DEF Ledger!Complete
  <2> QED  BY <2>3 DEF Ledger!LedgerNext
<1> QED  BY <1>3, <1>4

\* A payout is the first, and of what is held.
LEMMA DistributePays ==
    ASSUME SettlementInv, NEW c \in Callers, Distribute(c)
    PROVE  [Ledger!LedgerNext]_(Ledger!ledgerVars)
<1>1. UNCHANGED <<status, investment, intent, rewritten>>
  BY DEF Distribute, books, saves
<1>2. CASE UNCHANGED payouts
  BY <1>1, <1>2, UnnoticedStep DEF Settled
<1>3. CASE payouts' = Append(payouts, intent.snapshot)
  <2>1. payouts = <<>> /\ intent.status = "SUBMITTING"
    BY DEF SettlementInv, SubmitterHoldsIntent, Submits, Distribute
  <2> DEFINE S == DOMAIN intent.snapshot
  <2>2. S \in SUBSET Investments /\ intent.snapshot = [i \in S |-> intent.snapshot[i]]
    BY DEF SettlementInv, TypeOK, Intents
  <2>3. \A i \in S : intent.snapshot[i] = Holding(i)
    BY <2>1 DEF SettlementInv, HoldingsFrozen, Holding
  <2>4. intent.snapshot = [i \in S |-> [j \in Investments |-> Holding(j)][i]]
    BY <2>2, <2>3
  <2>7. [j \in Investments |-> Holding(j)]' = [j \in Investments |-> Holding(j)]
    BY <1>1 DEF Holding
  <2>5. payouts' = <<intent.snapshot>>
    BY <1>3, <2>1, FirstPayout
  <2> HIDE DEF S
  <2>6. Ledger!Pay(S)
    BY <1>1, <2>1, <2>4, <2>5, <2>7 DEF Ledger!Pay, Settled
  <2> QED  BY <2>2, <2>6 DEF Ledger!LedgerNext
<1> QED  BY <1>2, <1>3 DEF Distribute

\* A purchase comes before the payout and while the invoice is open.
LEMMA PurchaseTrades ==
    ASSUME SettlementInv, NEW i \in Investments, NEW j \in Investments, Purchase(i, j)
    PROVE  Ledger!LedgerNext
<1>1. TypeOK /\ status = "FUNDED" /\ i # j /\ investment[i].status = "CONFIRMED"
      /\ investment[i].amount > 0 /\ investment[j].status # "SETTLED"
      /\ UNCHANGED <<status, intent, payouts, rewritten>>
  BY DEF SettlementInv, Purchase, Sellable, Confirmed, saves
<1>2. payouts = <<>> /\ rewritten = {}
  <2>1. intent.status \in {"none", "COMPLETED"}
    BY <1>1, IntentType DEF Purchase, SettlementInProgress, IntentStatuses
  <2>2. intent.status = "none"  BY <1>1, <2>1 DEF SettlementInv, NoneSettledEarly
  <2> QED  BY <2>2 DEF SettlementInv, IntentTellsTheTruth, RewrittenSinceSnapshot
<1>3. investment \in [Investments -> InvestmentRows]
      /\ investment' = [investment EXCEPT ![i].amount = @ - 1,
                          ![j] = [status |-> "CONFIRMED", amount |-> @.amount + 1]]
  BY <1>1 DEF TypeOK, Purchase
<1>4. /\ investment'[i].status = "CONFIRMED" /\ investment'[i].amount = investment[i].amount - 1
      /\ investment'[j].status = "CONFIRMED" /\ investment'[j].amount = investment[j].amount + 1
      /\ \A k \in Investments \ {i, j} : investment'[k] = investment[k]
  BY <1>1, <1>3 DEF InvestmentRows
<1>5. Settled' = Settled
  BY <1>1, <1>4 DEF Settled
<1>6. [k \in Investments |-> investment'[k].amount]
        = [[k \in Investments |-> investment[k].amount] EXCEPT ![i] = @ - 1, ![j] = @ + 1]
  BY <1>1, <1>4
<1>8. /\ [k \in Investments |-> Holding(k)] = [k \in Investments |-> investment[k].amount]
      /\ [k \in Investments |-> Holding(k)]' = [k \in Investments |-> investment'[k].amount]
  BY <1>1, <1>2 DEF Holding
<1>9. Holding(i) > 0  BY <1>1, <1>2 DEF Holding
<1>7. Ledger!Trade(i, j)
  BY <1>1, <1>2, <1>5, <1>6, <1>8, <1>9 DEF Ledger!Trade
<1> QED  BY <1>7 DEF Ledger!LedgerNext

\* A late confirmation reopens the investment, and writes what it loaded unless
\* that has a part in the payout.
LEMMA SaveReconfirms ==
    ASSUME SettlementInv, NEW v \in Savers, NEW i \in Investments, SaveConfirmed(v, i)
    PROVE  Ledger!LedgerNext
<1> DEFINE Held == [k \in Investments |-> Holding(k)]
<1>1. /\ TypeOK /\ PaidForIntent /\ rewritten \subseteq DOMAIN intent.snapshot
      /\ UNCHANGED <<status, intent, payouts>>
      /\ rewritten' = IF i \in DOMAIN intent.snapshot /\ copy[v].amount # investment[i].amount
                      THEN rewritten \cup {i} ELSE rewritten
  BY DEF SettlementInv, RewrittenSinceSnapshot, SaveConfirmed
<1>2. \A k \in DOMAIN intent.snapshot \ rewritten : investment[k].amount = intent.snapshot[k]
  BY DEF SettlementInv, HoldingsFrozen, RewrittenSinceSnapshot
<1>3. Held' = [k \in Investments |-> IF k \in rewritten' THEN intent.snapshot[k]
                                     ELSE investment'[k].amount]
  BY <1>1 DEF Holding
<1>4. \A k \in Investments \ {i} : Held'[k] = Held[k]
  BY <1>1, <1>3, SaveEffect DEF Holding
<1>5. i \in DOMAIN intent.snapshot => Held'[i] = Held[i]
  BY <1>1, <1>2, <1>3, SaveEffect DEF Holding
<1>6. Held'[i] \in Nat
  <2>1. i \in rewritten' => intent.snapshot[i] \in Nat
    <3>1. i \in rewritten' => i \in DOMAIN intent.snapshot  BY <1>1
    <3> QED  BY <3>1, <1>1 DEF TypeOK, Intents
  <2> QED  BY <1>1, <1>3, <2>1, SaveEffect
<1>7. payouts # <<>> /\ i \in DOMAIN payouts[1] => Held'[i] = Held[i]
  BY <1>1, <1>5, PayoutsKnown
<1>8. Held' = [Held EXCEPT ![i] = Held'[i]]
  BY <1>3, <1>4
<1>9. Settled' = Settled \ {i}  BY <1>1, SaveEffect
<1> HIDE DEF Held
<1>10. Ledger!Reconfirm(i)
  BY <1>1, <1>6, <1>7, <1>8, <1>9 DEF Ledger!Reconfirm, Held
<1> QED  BY <1>10 DEF Ledger!LedgerNext

\* Every step is one of the ledger's, or one that it does not notice.
LEMMA LedgerStep ==
    ASSUME SettlementInv, [Next]_vars
    PROVE  [Ledger!LedgerNext]_(Ledger!ledgerVars)
<1>t. TypeOK /\ (status = "FUNDED" => Settled = {})
  BY DEF SettlementInv, NoneSettledEarly
<1>0. ASSUME UNCHANGED <<status, investment, payouts, rewritten>>,
             \A i \in rewritten : intent'.snapshot[i] = intent.snapshot[i],
             (intent'.status = "COMPLETED") <=> (intent.status = "COMPLETED")
      PROVE  UNCHANGED Ledger!ledgerVars
  BY <1>0, UnnoticedStep DEF Settled
<1>1. ASSUME NEW c \in Callers, Settle(c)  PROVE [Ledger!LedgerNext]_(Ledger!ledgerVars)
  <2>1. CASE Prepare(c)
    <3>1. intent' = intent \/ (intent.status = "none" /\ intent'.status = "PREPARED")
      BY <2>1 DEF Prepare
    <3>2. intent.status = "none" => rewritten = {}
      BY DEF SettlementInv, RewrittenSinceSnapshot
    <3> QED  BY <2>1, <3>1, <3>2, <1>0 DEF Prepare, books, saves
  <2>2. CASE Claim(c)
    <3>1. intent' = intent \/ /\ intent.status = "PREPARED" /\ intent'.status = "SUBMITTING"
                              /\ intent'.snapshot = intent.snapshot
      BY <1>t, <2>2, IntentType DEF Claim
    <3> QED  BY <2>2, <3>1, <1>0 DEF Claim, books, saves
  <2>3. CASE Distribute(c)
    BY <2>3, DistributePays
  <2>4. CASE MarkDistributed(c)
    <3>1. intent' = intent \/ /\ intent.status = "SUBMITTING" /\ intent'.status = "DISTRIBUTED"
                              /\ intent'.snapshot = intent.snapshot
      BY <1>t, <2>4, IntentType DEF MarkDistributed
    <3> QED  BY <2>4, <3>1, <1>0 DEF MarkDistributed, books, saves
  <2>5. CASE Finalize(c)
    <3>1. CASE UNCHANGED <<books, intent>>
      BY <2>5, <3>1, <1>0 DEF Finalize, books, saves
    <3>2. CASE /\ status = "FUNDED" /\ RecordSettlement /\ UNCHANGED <<payouts, rewritten>>
               /\ \/ intent' = intent
                  \/ IntentHolds(c) /\ intent' = [intent EXCEPT !.status = "COMPLETED"]
      <4>1. intent' = intent \/ /\ intent.status = "DISTRIBUTED" /\ intent.snapshot = Snapshot
                                /\ intent'.status = "COMPLETED"
        BY <1>t, <3>2, IntentType DEF IntentHolds
      <4>2. intent'.snapshot = intent.snapshot
        BY <1>t, <3>2, IntentType
      <4> QED  BY <3>2, <4>1, <4>2, RecordCloses
    <3> QED  BY <2>5, <3>1, <3>2 DEF Finalize, saves
  <2> QED  BY <1>1, <2>1, <2>2, <2>3, <2>4, <2>5 DEF Settle
<1>2. ASSUME NEW c \in Callers, Crash(c)  PROVE UNCHANGED Ledger!ledgerVars
  BY <1>2, <1>0 DEF Crash, books, saves
<1>3. ASSUME NEW a \in Admins, AdminSettleOnChain(a) \/ AdminRecord(a)
      PROVE  [Ledger!LedgerNext]_(Ledger!ledgerVars)
  <2>1. CASE UNCHANGED <<books, intent, payouts, rewritten>>
    BY <2>1, <1>0 DEF books
  <2>2. CASE status = "FUNDED" /\ RecordSettlement /\ UNCHANGED <<intent, payouts, rewritten>>
    BY <2>2, RecordCloses
  <2> QED  BY <1>3, <2>1, <2>2 DEF AdminSettleOnChain, AdminRecord, saves
<1>4. ASSUME NEW i \in Investments, NEW j \in Investments, Purchase(i, j)  PROVE Ledger!LedgerNext
  BY <1>4, PurchaseTrades
<1>5. ASSUME NEW v \in Savers, NEW i \in Investments, LoadInvestment(v, i) \/ SaveConfirmed(v, i)
      PROVE  [Ledger!LedgerNext]_(Ledger!ledgerVars)
  <2>1. CASE LoadInvestment(v, i)  BY <2>1, <1>0 DEF LoadInvestment, books
  <2>2. CASE SaveConfirmed(v, i)  BY <2>2, SaveReconfirms
  <2> QED  BY <1>5, <2>1, <2>2
<1>6. CASE Mature
  BY <1>6, <1>0 DEF Mature, books, saves
<1>7. CASE ApplySettleEvent \/ ApplyPaymentEvent
  <2>1. UNCHANGED <<investment, intent, payouts, rewritten>> /\ status' = "SETTLED" /\ Settled' = Settled
    BY <1>7 DEF ApplySettleEvent, ApplyPaymentEvent, Settled, saves
  <2>2. CASE status = "SETTLED"
    BY <2>1, <2>2, <1>0
  <2>3. CASE status = "FUNDED"
    <3>0. [i \in Investments |-> Holding(i)]' = [i \in Investments |-> Holding(i)]
      BY <2>1 DEF Holding
    <3>1. Ledger!Close({})
      BY <1>t, <2>1, <2>3, <3>0 DEF Ledger!Close
    <3> QED  BY <3>1 DEF Ledger!LedgerNext
  <2> QED  BY <1>t, <2>2, <2>3 DEF TypeOK
<1>8. CASE UNCHANGED vars
  BY <1>8, <1>0 DEF vars, books, saves
<1> QED  BY <1>1, <1>2, <1>3, <1>4, <1>5, <1>6, <1>7, <1>8 DEF Next

\* The code keeps the promise of PayoutLedger in every deployment: with its
\* intents, retries, lost answers and crashes, and next to the administrator,
\* the market and the indexer, it pays once and what is held, and a payout that
\* closes the invoice settles exactly who was paid.
THEOREM RefinesLedger == Spec => ImplementsPromise
<1> QED
  BY LedgerInitially, LedgerStep, InvariantHolds, PTL DEF Spec, ImplementsPromise, Ledger!LedgerSpec
=============================================================================
