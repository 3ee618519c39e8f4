--------------------- MODULE PaymentVerificationProofs ---------------------
(***************************************************************************)
(* Proofs about PaymentVerification for every set of investments, payments *)
(* and callers: a payment counts for one investment, what is credited is   *)
(* claimed and matched, a caller told of success owns the claim, and one   *)
(* that is refused is refused for a reason that lasts.                     *)
(***************************************************************************)
EXTENDS PaymentVerification, FiniteSetTheorems, TLAPS

-----------------------------------------------------------------------------
(* Types                                                                   *)

\* The null hash belongs to no payment, nor does the one of an event.
LEMMA HashTypes ==
    /\ Null.payment \notin Payments /\ ChainHash.payment \notin Payments
    /\ \A h \in Hashes : h.payment \in Payments /\ h # Null /\ Upper(h) \in Hashes
                         /\ Upper(h).payment = h.payment
    /\ Null \notin Hashes /\ ChainHash \notin Hashes /\ Null \notin Named
    /\ \A h \in Named : (h.payment \in Payments => h \in Hashes) /\ (h \in Hashes \/ h = ChainHash)
  BY PaymentAssumption DEF Null, ChainHash, Hashes, Named, Upper

\* An actor that has seen nothing is well typed.
LEMMA NothingType ==
    /\ Nothing \in [investment : InvestmentRows, row : Writers \cup {NoRow},
                    hash : Hashes \cup {Null}]
    /\ Nothing.hash = Null /\ Nothing.investment.hash = Null /\ Nothing.row = NoRow
  BY DEF Nothing, InvestmentRows

\* The verification starts well typed.
LEMMA InitType == Init => TypeOK
  BY NothingType, PaymentAssumption DEF Init, TypeOK, InvestmentRows, Outcomes

\* The places an actor may be in.
LEMMA AnswerType ==
    ASSUME TypeOK, NEW c \in Calls, NEW o \in Outcomes, Answer(c, o)
    PROVE  /\ pc' \in [Actors -> {"idle", "found", "matched", "locked", "linked", "claim",
                                  "credit", "done"}]
           /\ target' \in [Actors -> [investment : Investments, hash : Named \cup {Null}]
                                     \cup {Absent}]
           /\ seen' \in [Actors -> [investment : InvestmentRows, row : Writers \cup {NoRow},
                                    hash : Hashes \cup {Null}]]
           /\ attempt' \in [Calls -> 0 .. RetryAttempts - 1]
           /\ outcome' \in [Calls -> Outcomes]
<1>1. c \in Actors  BY DEF Actors
<1>2. 0 \in 0 .. RetryAttempts - 1  BY PaymentAssumption
<1>3. pc' \in [Actors -> {"idle", "found", "matched", "locked", "linked", "claim",
                          "credit", "done"}]
  BY <1>1 DEF TypeOK, Answer
<1>4. target' \in [Actors -> [investment : Investments, hash : Named \cup {Null}]
                             \cup {Absent}]
  BY <1>1 DEF TypeOK, Answer
<1>5. seen' \in [Actors -> [investment : InvestmentRows, row : Writers \cup {NoRow},
                            hash : Hashes \cup {Null}]]
  BY <1>1, NothingType DEF TypeOK, Answer
<1>6. attempt' \in [Calls -> 0 .. RetryAttempts - 1]
  BY <1>2 DEF TypeOK, Answer
<1>7. outcome' \in [Calls -> Outcomes]  BY DEF TypeOK, Answer
<1> QED  BY <1>3, <1>4, <1>5, <1>6, <1>7

\* What an answer does to the caller and leaves of the others.
LEMMA AnswerEffect ==
    ASSUME TypeOK, NEW c \in Calls, NEW o, Answer(c, o)
    PROVE  /\ pc'[c] = IF c \in Workers THEN "idle" ELSE "done"
           /\ c \notin Workers => target'[c] = target[c]
           /\ seen'[c] = Nothing /\ outcome'[c] = o
           /\ \A b \in Actors \ {c} :
                 pc'[b] = pc[b] /\ target'[b] = target[b] /\ seen'[b] = seen[b]
           /\ \A b \in Calls \ {c} : outcome'[b] = outcome[b]
<1>1. c \in Actors  BY DEF Actors
<1> QED  BY <1>1 DEF TypeOK, Answer

\* The same for a step to another place.
LEMMA ProceedEffect ==
    ASSUME TypeOK, NEW a \in Actors, NEW to, Proceed(a, to)
    PROVE  /\ pc'[a] = to /\ outcome' = outcome
           /\ \A b \in Actors \ {a} : pc'[b] = pc[b]
  BY DEF TypeOK, Proceed

-----------------------------------------------------------------------------
(* Steps that concern one actor                                            *)

\* As long as claims are never moved, what holds of an actor goes on to hold
\* while it stands still.
LEMMA ActorStands ==
    ASSUME PaymentInv, NEW b \in Actors,
           pc'[b] = pc[b], target'[b] = target[b], seen'[b] = seen[b],
           b \in Calls => outcome'[b] = outcome[b],
           \A p \in Payments : claim[p] # "none" => claim'[p] = claim[p],
           \A i \in Investments : investment[i].status # "PENDING" =>
               investment'[i].status # "PENDING"
    PROVE  ActorInv(b)'
<1>1. ActorInv(b)  BY DEF PaymentInv
<1>2. TypeOK  BY DEF PaymentInv
<1>3. Knows(b)'  BY <1>1 DEF ActorInv, Knows, Mine
<1>4. pc[b] # "idle" => Mine(b) # "none"
  BY <1>1, PaymentAssumption DEF ActorInv, Knows
<1>5. SeenClaimed(b)'  BY <1>1, <1>4 DEF ActorInv, SeenClaimed, Mine
<1>7. b \in Calls => Earned(b)'
  <2> SUFFICES ASSUME b \in Calls  PROVE Earned(b)'
    OBVIOUS
  <2>1. pc[b] = "credit" => Payment(b) \in Payments
    BY <1>1, PaymentAssumption DEF ActorInv, Earned
  <2>2. Payment(b)' = Payment(b) /\ Mine(b)' = Mine(b)  BY DEF Payment, Mine
  <2> QED  BY <1>1, <1>4, <2>1, <2>2 DEF ActorInv, Earned
<1>8. b \in Requests => Answered(b)'
  <2> SUFFICES ASSUME b \in Requests  PROVE Answered(b)'
    OBVIOUS
  <2>1. b \in Calls  BY DEF Calls
  <2>2. Payment(b)' = Payment(b) /\ Mine(b)' = Mine(b)  BY DEF Payment, Mine
  <2>3. outcome[b] # "none" =>
           /\ pc[b] # "idle" /\ Mine(b) \in Investments /\ Mine(b) # "none"
           /\ target[b].hash \in Named
    BY <1>1, <1>4, <2>1 DEF ActorInv, Answered, Knows
  <2>4. ASSUME outcome[b] \in {"verified", "already_verified"}
        PROVE  IF target[b].hash = ChainHash
               THEN outcome[b] = "already_verified" /\ investment'[Mine(b)].status # "PENDING"
               ELSE claim'[Payment(b)] = Mine(b)
    <3>1. CASE target[b].hash = ChainHash
      BY <1>1, <2>3, <2>4, <3>1 DEF ActorInv, Answered, TruthTold
    <3>2. CASE target[b].hash # ChainHash
      <4>1. Payment(b) \in Payments  BY <2>3, <2>4, <3>2, HashTypes DEF Payment
      <4>2. claim[Payment(b)] = Mine(b)
        BY <1>1, <2>4, <3>2 DEF ActorInv, Answered, TruthTold
      <4> QED  BY <2>3, <2>4, <3>2, <4>1, <4>2
    <3> QED  BY <3>1, <3>2
  <2>5. TruthTold(b)'  BY <2>1, <2>2, <2>4 DEF TruthTold
  <2> QED  BY <2>1, <2>5, <1>1 DEF ActorInv, Answered
<1> QED  BY <1>3, <1>5, <1>7, <1>8 DEF ActorInv

\* A step of one actor that leaves the rows alone.
LEMMA ActorStep ==
    ASSUME PaymentInv, TypeOK', UNCHANGED <<investment, transaction, claim>>,
           NEW a \in Actors, ActorInv(a)',
           \A b \in Actors \ {a} :
               pc'[b] = pc[b] /\ target'[b] = target[b] /\ seen'[b] = seen[b],
           \A b \in Calls \ {a} : outcome'[b] = outcome[b]
    PROVE  PaymentInv'
<1>1. \A b \in Actors : ActorInv(b)'  BY ActorStands
<1>2. PendingUnpaid' /\ CreditIsClaimed' /\ ConfirmedMeansPaid'
  BY DEF PaymentInv, PendingUnpaid, CreditIsClaimed, ConfirmedMeansPaid
<1> QED  BY <1>1, <1>2 DEF PaymentInv

\* An answer changes no row; one of success needs the claim.
LEMMA AnswerStep ==
    ASSUME PaymentInv, TypeOK', UNCHANGED <<investment, transaction, claim>>,
           NEW c \in Calls, pc[c] # "idle", NEW o \in Outcomes, Answer(c, o),
           o \in {"verified", "already_verified"} =>
               target[c].hash # ChainHash /\ claim[Payment(c)] = Mine(c)
    PROVE  PaymentInv'
<1>t. TypeOK /\ c \in Actors  BY DEF PaymentInv, Actors
<1>1. Knows(c)'
  BY <1>t, AnswerEffect, PaymentAssumption DEF PaymentInv, ActorInv, Knows, Mine, Calls
<1>2. SeenClaimed(c)'
  BY <1>t, AnswerEffect, NothingType, HashTypes DEF SeenClaimed
<1>3. Earned(c)'  BY <1>t, AnswerEffect DEF Earned
<1>4. c \in Requests => Answered(c)'
  BY <1>t, AnswerEffect, PaymentAssumption DEF Answered, TruthTold, Mine, Payment
<1> QED
  BY <1>t, <1>1, <1>2, <1>3, <1>4, AnswerEffect, ActorStep DEF ActorInv

-----------------------------------------------------------------------------
(* verifyPayment keeps the types                                           *)

\* The types of what a step leaves alone, and of a step to another place.
LEMMA ProceedType ==
    ASSUME TypeOK, NEW a \in Actors,
           NEW to \in {"idle", "found", "matched", "locked", "linked", "claim",
                       "credit", "done"}, Proceed(a, to)
    PROVE  /\ pc' \in [Actors -> {"idle", "found", "matched", "locked", "linked", "claim",
                                  "credit", "done"}]
           /\ attempt' \in [Calls -> 0 .. RetryAttempts - 1]
           /\ outcome' \in [Calls -> Outcomes]
  BY DEF TypeOK, Proceed

\* A target the worker finds is well typed.
LEMMA CandidateType ==
    ASSUME PaymentInv, NEW t \in Candidates
    PROVE  t \in [investment : Investments, hash : Hashes]
<1>t. TypeOK /\ PendingUnpaid  BY DEF PaymentInv
<1>1. ASSUME NEW i \in Investments, investment[i].status = "PENDING",
             investment[i].hash # Null
      PROVE  FALSE
  BY <1>1, <1>t DEF PendingUnpaid
<1>2. ASSUME NEW w \in Writers, transaction[w].status = "PENDING",
             transaction[w].hash # Null
      PROVE  transaction[w].investment \in Investments /\ transaction[w].hash \in Hashes
  BY <1>2, <1>t DEF TypeOK, TransactionRows, Absent
<1> QED  BY <1>1, <1>2 DEF Candidates

\* The calls change no row but in Credit, so it remains to type the caller.
LEMMA RowsKept ==
    ASSUME TypeOK, UNCHANGED <<investment, transaction, claim>>,
           pc' \in [Actors -> {"idle", "found", "matched", "locked", "linked", "claim",
                               "credit", "done"}],
           target' \in [Actors -> [investment : Investments, hash : Named \cup {Null}]
                                  \cup {Absent}],
           seen' \in [Actors -> [investment : InvestmentRows, row : Writers \cup {NoRow},
                                 hash : Hashes \cup {Null}]],
           attempt' \in [Calls -> 0 .. RetryAttempts - 1],
           outcome' \in [Calls -> Outcomes]
    PROVE  TypeOK'
  BY DEF TypeOK

\* An answer alone.
LEMMA AnswerKept ==
    ASSUME TypeOK, UNCHANGED <<investment, transaction, claim>>,
           NEW c \in Calls, NEW o \in Outcomes, Answer(c, o)
    PROVE  TypeOK'
  BY AnswerType, RowsKept

-----------------------------------------------------------------------------
(* verifyPayment                                                           *)

\* A call takes up its target.
LEMMA BeginStep ==
    ASSUME PaymentInv, NEW c \in Calls, NEW t \in [investment : Investments, hash : Named],
           Begin(c, t)
    PROVE  PaymentInv'
<1>t. TypeOK /\ c \in Actors  BY DEF PaymentInv, Actors
<1>a. /\ pc[c] = "idle" /\ seen[c] = Nothing /\ ActorInv(c)
  BY <1>t DEF PaymentInv, ActorInv, Knows, Begin
<1>1. UNCHANGED <<investment, transaction, claim, seen, attempt>>  BY DEF Begin
<1>2. TypeOK'
  <2>1. pc' \in [Actors -> {"idle", "found", "matched", "locked", "linked", "claim",
                            "credit", "done"}]
    BY <1>t DEF Begin, TypeOK
  <2>2. target' \in [Actors -> [investment : Investments, hash : Named \cup {Null}]
                               \cup {Absent}]
    BY <1>t DEF Begin, TypeOK
  <2>3. outcome' \in [Calls -> Outcomes]  BY <1>t DEF Begin, TypeOK, Outcomes
  <2> QED  BY <1>t, <1>1, <2>1, <2>2, <2>3, RowsKept DEF TypeOK
<1>3. \A b \in Actors \ {c} :
         pc'[b] = pc[b] /\ target'[b] = target[b] /\ seen'[b] = seen[b]
  BY <1>t, <1>1 DEF Begin, TypeOK
<1>4. \A b \in Calls \ {c} : outcome'[b] = outcome[b]
  BY <1>t DEF Begin, TypeOK
<1>5. ActorInv(c)'
  <2>1. seen'[c] = Nothing  BY <1>1, <1>a
  <2>2. /\ pc'[c] \in {"idle", "found", "done"}
        /\ c \notin Workers => pc'[c] # "idle" /\ target'[c] = t
        /\ pc'[c] # "idle" => target'[c] = t
    BY <1>t DEF Begin, TypeOK
  <2>3. Knows(c)'  BY <2>1, <2>2 DEF Knows, Mine
  <2>4. SeenClaimed(c)'  BY <2>1, NothingType, HashTypes DEF SeenClaimed
  <2>5. Earned(c)'  BY <2>2 DEF Earned
  <2>6. c \in Requests => Answered(c)'
    <3> SUFFICES ASSUME c \in Requests  PROVE Answered(c)'
      OBVIOUS
    <3>1. c \notin Workers /\ outcome[c] = "none"
      BY <1>a, PaymentAssumption DEF ActorInv, Answered
    <3>2. CASE investment[t.investment].status = "CONFIRMED"
      <4>1. /\ pc'[c] = "done" /\ target'[c] = t
            /\ outcome'[c] = IF investment[t.investment].hash = t.hash
                             THEN "already_verified" ELSE "reconciliation_conflict"
        BY <3>1, <3>2, <1>t DEF Begin, TypeOK
      <4>2. investment[t.investment].hash = t.hash /\ t.hash # ChainHash =>
               claim[t.hash.payment] = t.investment
        BY HashTypes DEF PaymentInv, CreditIsClaimed
      <4>3. Payment(c)' = t.hash.payment /\ Mine(c)' = t.investment
        BY <4>1 DEF Payment, Mine
      <4> QED  BY <3>2, <4>1, <4>2, <4>3, <1>1 DEF Answered, TruthTold
    <3>3. CASE investment[t.investment].status # "CONFIRMED"
      <4>1. outcome'[c] = "none"  BY <3>1, <3>3 DEF Begin
      <4> QED  BY <4>1 DEF Answered, TruthTold
    <3> QED  BY <3>2, <3>3
  <2> QED  BY <2>3, <2>4, <2>5, <2>6 DEF ActorInv
<1> QED  BY <1>1, <1>2, <1>3, <1>4, <1>5, <1>t, ActorStep

\* A call goes on with what it has, to a place it has earned.
LEMMA ProceedStep ==
    ASSUME PaymentInv, UNCHANGED <<investment, transaction, claim, target, seen>>,
           NEW c \in Calls, pc[c] \notin {"idle", "done"},
           NEW to \in {"matched", "locked", "linked", "claim", "credit"}, Proceed(c, to),
           <<Payment(c), Mine(c)>> \in Matches,
           to = "credit" => claim[Payment(c)] = Mine(c)
    PROVE  PaymentInv'
<1>t. TypeOK /\ c \in Actors /\ ActorInv(c)  BY DEF PaymentInv, Actors
<1>1. pc'[c] = to /\ outcome' = outcome /\ (\A b \in Actors \ {c} : pc'[b] = pc[b])
  BY <1>t, ProceedEffect
<1>2. TypeOK'
  BY <1>t, ProceedType, RowsKept DEF TypeOK
<1>3. Knows(c)' /\ SeenClaimed(c)'
  BY <1>t, <1>1 DEF ActorInv, Knows, SeenClaimed, Mine
<1>4. Earned(c)'  BY <1>1 DEF Earned, Payment, Mine
<1>5. c \in Requests => Answered(c)'
  BY <1>t, <1>1 DEF ActorInv, Answered, TruthTold, Payment, Mine
<1> QED  BY <1>t, <1>1, <1>2, <1>3, <1>4, <1>5, ActorStep DEF ActorInv

\* What a caller works on, once it does.
LEMMA CallerKnows ==
    ASSUME PaymentInv, NEW c \in Calls, pc[c] # "idle"
    PROVE  /\ TypeOK /\ c \in Actors /\ Mine(c) \in Investments /\ target[c].hash \in Named
           /\ pc[c] \in {"matched", "locked", "linked", "claim", "credit"} =>
                 /\ target[c].hash \in Hashes /\ target[c].hash # ChainHash
                 /\ Payment(c) \in Payments
           /\ Earned(c) /\ SeenClaimed(c)
           /\ seen[c] \in [investment : InvestmentRows, row : Writers \cup {NoRow},
                           hash : Hashes \cup {Null}]
<1>1. TypeOK /\ c \in Actors /\ ActorInv(c)  BY DEF PaymentInv, Actors
<1>2. target[c].hash \in Named /\ Mine(c) \in Investments  BY <1>1 DEF ActorInv, Knows
<1>3. pc[c] \in {"matched", "locked", "linked", "claim", "credit"} =>
         /\ target[c].hash \in Hashes /\ target[c].hash # ChainHash
         /\ Payment(c) \in Payments
  BY <1>1, <1>2, HashTypes, PaymentAssumption DEF ActorInv, Earned, Payment
<1> QED  BY <1>1, <1>2, <1>3 DEF ActorInv, TypeOK

\* A failed fetch is counted or ends the call.
LEMMA FetchFailsStep ==
    ASSUME PaymentInv, NEW c \in Calls, FetchFails(c)
    PROVE  PaymentInv'
<1>1. pc[c] = "found" /\ UNCHANGED <<investment, transaction, claim>>  BY DEF FetchFails
<1>t. TypeOK /\ c \in Actors /\ ActorInv(c)  BY DEF PaymentInv, Actors
<1>2. CASE Answer(c, "horizon_unavailable")
  <2>1. TypeOK'  BY <1>1, <1>2, <1>t, AnswerKept DEF Outcomes
  <2> QED  BY <1>1, <1>2, <2>1, AnswerStep DEF Outcomes
<1>3. CASE /\ attempt[c] + 1 # RetryAttempts
           /\ attempt' = [attempt EXCEPT ![c] = @ + 1]
           /\ UNCHANGED <<pc, target, seen, outcome>>
  <2>1. attempt[c] \in 0 .. RetryAttempts - 1 /\ RetryAttempts \in Nat \ {0}
    BY <1>t, PaymentAssumption DEF TypeOK
  <2>2. attempt[c] + 1 \in 0 .. RetryAttempts - 1  BY <2>1, <1>3
  <2>3. attempt' \in [Calls -> 0 .. RetryAttempts - 1]  BY <2>2, <1>3, <1>t DEF TypeOK
  <2>4. TypeOK'  BY <2>3, <1>1, <1>3, <1>t DEF TypeOK
  <2>5. ActorInv(c)'
    BY <1>1, <1>3, <1>t
       DEF ActorInv, Knows, SeenClaimed, Earned, Answered, TruthTold, Mine, Payment
  <2> QED  BY <1>1, <1>3, <1>t, <2>4, <2>5, ActorStep
<1> QED  BY <1>2, <1>3 DEF FetchFails

\* The payment matches, or the call is refused.
LEMMA FetchStep ==
    ASSUME PaymentInv, NEW c \in Calls, Fetch(c)
    PROVE  PaymentInv'
<1>1. pc[c] = "found" /\ UNCHANGED <<investment, transaction, claim>>  BY DEF Fetch
<1>t. TypeOK  BY DEF PaymentInv
<1>2. CASE Answer(c, "invalid_payment")
  <2>1. TypeOK'  BY <1>1, <1>2, <1>t, AnswerKept DEF Outcomes
  <2> QED  BY <1>1, <1>2, <2>1, AnswerStep DEF Outcomes
<1>3. CASE /\ <<Payment(c), Mine(c)>> \in Matches
           /\ Proceed(c, "matched") /\ UNCHANGED <<target, seen>>
  BY <1>1, <1>3, ProceedStep
<1> QED  BY <1>2, <1>3 DEF Fetch

\* A caller remembers something else of the rows, backed by a claim.
LEMMA SeenStep ==
    ASSUME PaymentInv, UNCHANGED <<investment, transaction, claim, target>>,
           NEW c \in Calls, pc[c] \in {"matched", "locked"},
           NEW s \in [investment : InvestmentRows, row : Writers \cup {NoRow},
                      hash : Hashes \cup {Null}], seen' = [seen EXCEPT ![c] = s],
           \A h \in {s.hash, s.investment.hash} :
               h.payment \in Payments => claim[h.payment] = Mine(c),
           NEW to \in {"locked", "linked"}, Proceed(c, to)
    PROVE  PaymentInv'
<1>t. TypeOK /\ c \in Actors /\ ActorInv(c)  BY DEF PaymentInv, Actors
<1>1. pc'[c] = to /\ outcome' = outcome /\ (\A b \in Actors \ {c} : pc'[b] = pc[b])
  BY <1>t, ProceedEffect
<1>2. /\ seen'[c] = s /\ (\A b \in Actors \ {c} : seen'[b] = seen[b])
      /\ seen' \in [Actors -> [investment : InvestmentRows, row : Writers \cup {NoRow},
                               hash : Hashes \cup {Null}]]
  BY <1>t DEF TypeOK
<1>3. TypeOK'  BY <1>t, <1>2, ProceedType, RowsKept DEF TypeOK
<1>4. Knows(c)'  BY <1>t, <1>1 DEF ActorInv, Knows, Mine
<1>5. SeenClaimed(c)'  BY <1>2 DEF SeenClaimed, Mine
<1>6. Earned(c)'  BY <1>t, <1>1 DEF ActorInv, Earned, Payment, Mine
<1>7. c \in Requests => Answered(c)'
  BY <1>t, <1>1 DEF ActorInv, Answered, TruthTold, Payment, Mine
<1> QED
  BY <1>t, <1>1, <1>2, <1>3, <1>4, <1>5, <1>6, <1>7, ActorStep DEF ActorInv

\* The hash an investment carries is one that is claimed by it.
LEMMA ReadInvestmentStep ==
    ASSUME PaymentInv, NEW c \in Calls, ReadInvestment(c)
    PROVE  PaymentInv'
<1>1. /\ pc[c] = "matched" /\ Proceed(c, "locked")
      /\ UNCHANGED <<investment, transaction, claim, target>>
      /\ seen' = [seen EXCEPT ![c].investment = investment[Mine(c)]]
  BY DEF ReadInvestment
<1>2. /\ TypeOK /\ c \in Actors /\ Mine(c) \in Investments /\ SeenClaimed(c)
      /\ seen[c] \in [investment : InvestmentRows, row : Writers \cup {NoRow},
                      hash : Hashes \cup {Null}]
  BY <1>1, CallerKnows
<1> DEFINE s == [seen[c] EXCEPT !.investment = investment[Mine(c)]]
<1>3. seen' = [seen EXCEPT ![c] = s]  BY <1>1, <1>2 DEF TypeOK
<1>4. investment[Mine(c)] \in InvestmentRows  BY <1>2 DEF TypeOK
<1>5. /\ s \in [investment : InvestmentRows, row : Writers \cup {NoRow},
                hash : Hashes \cup {Null}]
      /\ s.hash = seen[c].hash /\ s.investment = investment[Mine(c)]
  BY <1>2, <1>4
<1>6. \A h \in {s.hash, s.investment.hash} :
         h.payment \in Payments => claim[h.payment] = Mine(c)
  BY <1>1, <1>2, <1>5 DEF SeenClaimed, PaymentInv, CreditIsClaimed
<1> QED  BY <1>1, <1>3, <1>5, <1>6, SeenStep

\* The checks of what was read, with their three outcomes.
LEMMA ReadTransactionsStep ==
    ASSUME PaymentInv, NEW c \in Calls, ReadTransactions(c)
    PROVE  PaymentInv'
<1>1. pc[c] = "locked" /\ UNCHANGED <<investment, transaction, claim>>
  BY DEF ReadTransactions
<1>2. /\ TypeOK /\ c \in Actors /\ Payment(c) \in Payments /\ SeenClaimed(c)
      /\ target[c].hash # ChainHash
      /\ seen[c] \in [investment : InvestmentRows, row : Writers \cup {NoRow},
                      hash : Hashes \cup {Null}]
  BY <1>1, CallerKnows
<1>3. CASE seen[c].investment.hash = target[c].hash /\ Answer(c, "already_verified")
  <2>1. claim[Payment(c)] = Mine(c)
    BY <1>1, <1>2, <1>3 DEF SeenClaimed, Payment
  <2>2. TypeOK'  BY <1>1, <1>2, <1>3, AnswerKept DEF Outcomes
  <2> QED  BY <1>1, <1>2, <1>3, <2>1, <2>2, AnswerStep DEF Outcomes
<1>4. CASE Answer(c, "reconciliation_conflict")
  <2>1. TypeOK'  BY <1>1, <1>2, <1>4, AnswerKept DEF Outcomes
  <2> QED  BY <1>1, <1>4, <2>1, AnswerStep DEF Outcomes
<1>5. CASE /\ seen' = [seen EXCEPT ![c].row = IF RowsOf(Mine(c)) = {} THEN NoRow
                                              ELSE CHOOSE w \in RowsOf(Mine(c)) : TRUE]
           /\ Proceed(c, "linked") /\ UNCHANGED target
  <2> DEFINE found == IF RowsOf(Mine(c)) = {} THEN NoRow
                      ELSE CHOOSE w \in RowsOf(Mine(c)) : TRUE
  <2>1. found \in Writers \cup {NoRow}  BY DEF RowsOf
  <2> DEFINE s == [seen[c] EXCEPT !.row = found]
  <2>2. seen' = [seen EXCEPT ![c] = s]  BY <1>2, <1>5 DEF TypeOK
  <2>3. /\ s \in [investment : InvestmentRows, row : Writers \cup {NoRow},
                  hash : Hashes \cup {Null}]
        /\ s.hash = seen[c].hash /\ s.investment = seen[c].investment
    BY <1>2, <2>1
  <2>4. \A h \in {s.hash, s.investment.hash} :
           h.payment \in Payments => claim[h.payment] = Mine(c)
    BY <1>1, <1>2, <2>3 DEF SeenClaimed
  <2> QED  BY <1>1, <1>5, <2>2, <2>3, <2>4, SeenStep
<1> QED  BY <1>3, <1>4, <1>5 DEF ReadTransactions

\* The claim is looked up: there is none, it is the caller's, or another's.
LEMMA LookUpClaimStep ==
    ASSUME PaymentInv, NEW c \in Calls, LookUpClaim(c)
    PROVE  PaymentInv'
<1>1. pc[c] = "linked" /\ UNCHANGED <<investment, transaction, claim>>  BY DEF LookUpClaim
<1>2. TypeOK /\ <<Payment(c), Mine(c)>> \in Matches
  BY <1>1, CallerKnows DEF Earned
<1>3. CASE Proceed(c, "claim") /\ UNCHANGED <<target, seen>>
  BY <1>1, <1>2, <1>3, ProceedStep
<1>4. CASE /\ claim[Payment(c)] = Mine(c)
           /\ Proceed(c, "credit") /\ UNCHANGED <<target, seen>>
  BY <1>1, <1>2, <1>4, ProceedStep
<1>5. CASE Answer(c, "already_used")
  <2>1. TypeOK'  BY <1>1, <1>2, <1>5, AnswerKept DEF Outcomes
  <2> QED  BY <1>1, <1>5, <2>1, AnswerStep DEF Outcomes
<1> QED  BY <1>3, <1>4, <1>5 DEF LookUpClaim

\* The three writes of a verified payment: the claim was free or the caller's,
\* so nobody loses one, and both rows carry the claimed payment.
LEMMA CreditStep ==
    ASSUME PaymentInv, NEW c \in Calls, Credit(c)
    PROVE  PaymentInv'
<1> DEFINE p == Payment(c)
           i == Mine(c)
<1>1. /\ pc[c] \in {"claim", "credit"} /\ Answer(c, "verified")
      /\ claim' = IF pc[c] = "claim" THEN [claim EXCEPT ![p] = i] ELSE claim
      /\ transaction' = [transaction EXCEPT ![Row(c)] =
                           [investment |-> i, status |-> "COMPLETED",
                            hash |-> Upper(target[c].hash)]]
      /\ investment' = [investment EXCEPT ![i] =
                          [status |-> "CONFIRMED", hash |-> target[c].hash]]
  BY DEF Credit
<1>2. /\ TypeOK /\ c \in Actors /\ i \in Investments /\ target[c].hash \in Hashes
      /\ p \in Payments /\ target[c].hash # ChainHash /\ Earned(c)
      /\ seen[c] \in [investment : InvestmentRows, row : Writers \cup {NoRow},
                      hash : Hashes \cup {Null}]
  BY <1>1, CallerKnows
<1>3. Row(c) \in Writers  BY <1>2 DEF Row, Writers
<1>4. /\ claim'[p] = i
      /\ \A q \in Payments : claim[q] # "none" => claim'[q] = claim[q]
      /\ claim' \in [Payments -> Investments \cup {"none"}]
  <2>1. CASE pc[c] = "claim"
    <3>1. claim[p] = "none"  BY <2>1 DEF Credit, ClaimCollides
    <3> QED  BY <1>1, <1>2, <2>1, <3>1 DEF TypeOK
  <2>2. CASE pc[c] = "credit"
    BY <1>1, <1>2, <2>2 DEF Earned, TypeOK
  <2> QED  BY <1>1, <2>1, <2>2
<1>5. Upper(target[c].hash) \in Hashes /\ Upper(target[c].hash).payment = p
  BY <1>2, HashTypes DEF Payment
<1>6. TypeOK'
  <2>1. investment' \in [Investments -> InvestmentRows]
    BY <1>1, <1>2 DEF TypeOK, InvestmentRows
  <2>2. [investment |-> i, status |-> "COMPLETED", hash |-> Upper(target[c].hash)]
           \in TransactionRows
    BY <1>2, <1>5 DEF TransactionRows
  <2>3. transaction' \in [Writers -> TransactionRows \cup {Absent}]
    BY <1>1, <1>2, <1>3, <2>2 DEF TypeOK
  <2>4. "verified" \in Outcomes  BY DEF Outcomes
  <2>5. /\ pc' \in [Actors -> {"idle", "found", "matched", "locked", "linked", "claim",
                               "credit", "done"}]
        /\ target' \in [Actors -> [investment : Investments, hash : Named \cup {Null}]
                                  \cup {Absent}]
        /\ seen' \in [Actors -> [investment : InvestmentRows, row : Writers \cup {NoRow},
                                 hash : Hashes \cup {Null}]]
        /\ attempt' \in [Calls -> 0 .. RetryAttempts - 1]
        /\ outcome' \in [Calls -> Outcomes]
    BY <1>1, <1>2, <2>4, AnswerType
  <2> QED  BY <1>4, <2>1, <2>3, <2>5 DEF TypeOK
<1>7. /\ investment'[i] = [status |-> "CONFIRMED", hash |-> target[c].hash]
      /\ \A j \in Investments \ {i} : investment'[j] = investment[j]
  BY <1>1, <1>2 DEF TypeOK
<1>8. PendingUnpaid'  BY <1>7 DEF PaymentInv, PendingUnpaid
<1>9. ConfirmedMeansPaid'
  <2>1. <<p, i>> \in Matches  BY <1>1, <1>2 DEF Earned
  <2>2. investment'[i].hash.payment = p  BY <1>7 DEF Payment
  <2>3. \A j \in Investments \ {i} : investment'[j].status # "PENDING" =>
           \/ investment'[j].hash = ChainHash
           \/ <<investment'[j].hash.payment, j>> \in Matches
    BY <1>7 DEF PaymentInv, ConfirmedMeansPaid
  <2> QED  BY <2>1, <2>2, <2>3 DEF ConfirmedMeansPaid
<1>10. CreditIsClaimed'
  <2>1. ASSUME NEW j \in Investments, investment'[j].hash.payment \in Payments
        PROVE  claim'[investment'[j].hash.payment] = j
    <3>1. CASE j = i  BY <1>4, <1>7, <3>1 DEF Payment
    <3>2. CASE j # i
      BY <1>4, <1>7, <2>1, <3>2, PaymentAssumption DEF PaymentInv, CreditIsClaimed
    <3> QED  BY <3>1, <3>2
  <2>2. ASSUME NEW w \in Writers, transaction'[w].hash # Null
        PROVE  claim'[transaction'[w].hash.payment] = transaction'[w].investment
    <3>1. CASE w = Row(c)
      <4>1. transaction'[w] = [investment |-> i, status |-> "COMPLETED",
                               hash |-> Upper(target[c].hash)]
        BY <1>1, <1>2, <1>3, <3>1 DEF TypeOK
      <4> QED  BY <1>4, <1>5, <4>1
    <3>2. CASE w # Row(c)
      <4>1. transaction'[w] = transaction[w]  BY <1>1, <1>2, <3>2 DEF TypeOK
      <4>2. claim[transaction[w].hash.payment] = transaction[w].investment
        BY <2>2, <4>1 DEF PaymentInv, CreditIsClaimed
      <4>3. transaction[w] # Absent
        BY <2>2, <4>1 DEF Absent
      <4>4. transaction[w].hash \in Hashes /\ transaction[w].investment \in Investments
        BY <1>2, <2>2, <4>1, <4>3 DEF TypeOK, TransactionRows
      <4> QED  BY <1>4, <4>1, <4>2, <4>4, HashTypes, PaymentAssumption
    <3> QED  BY <3>1, <3>2
  <2> QED  BY <2>1, <2>2 DEF CreditIsClaimed
<1>11. ActorInv(c)'
  <2>1. Knows(c)'
    BY <1>1, <1>2, AnswerEffect, PaymentAssumption DEF Knows, Mine, Calls, Named
  <2>2. SeenClaimed(c)'
    BY <1>1, <1>2, AnswerEffect, NothingType, HashTypes DEF SeenClaimed
  <2>3. Earned(c)'  BY <1>1, <1>2, AnswerEffect DEF Earned
  <2>4. c \in Requests => Answered(c)'
    BY <1>1, <1>2, <1>4, AnswerEffect, PaymentAssumption
       DEF Answered, TruthTold, Mine, Payment
  <2> QED  BY <2>1, <2>2, <2>3, <2>4 DEF ActorInv
<1>12. \A b \in Actors : ActorInv(b)'
  <2>1. \A j \in Investments : investment[j].status # "PENDING" =>
           investment'[j].status # "PENDING"
    BY <1>7
  <2> QED  BY <1>1, <1>2, <1>4, <1>11, <2>1, AnswerEffect, ActorStands
<1> QED  BY <1>6, <1>8, <1>9, <1>10, <1>12 DEF PaymentInv

-----------------------------------------------------------------------------
(* The other writers                                                       *)

\* A draft or an event takes a step on the way to its save.
LEMMA OtherStep ==
    ASSUME PaymentInv, UNCHANGED <<investment, transaction, claim, attempt, outcome>>,
           NEW a \in Drafts \cup Events,
           NEW to \in {"found", "linked", "done"}, pc' = [pc EXCEPT ![a] = to],
           target' \in [Actors -> [investment : Investments, hash : Named \cup {Null}]
                                  \cup {Absent}],
           seen' \in [Actors -> [investment : InvestmentRows, row : Writers \cup {NoRow},
                                 hash : Hashes \cup {Null}]],
           \A b \in Actors \ {a} : target'[b] = target[b] /\ seen'[b] = seen[b],
           target'[a].investment \in Investments, SeenClaimed(a)'
    PROVE  PaymentInv'
<1>t. TypeOK /\ a \in Actors /\ a \notin Calls
  BY PaymentAssumption DEF PaymentInv, Actors
<1>1. pc'[a] = to /\ (\A b \in Actors \ {a} : pc'[b] = pc[b])  BY <1>t DEF TypeOK
<1>2. TypeOK'  BY <1>t DEF TypeOK
<1>3. ActorInv(a)'  BY <1>t, <1>1 DEF ActorInv, Knows, Mine, Calls
<1> QED  BY <1>t, <1>1, <1>2, <1>3, ActorStep

\* What a draft or an event works on, once it does.
LEMMA OtherKnows ==
    ASSUME PaymentInv, NEW a \in Drafts \cup Events
    PROVE  /\ TypeOK /\ a \in Actors /\ a \notin Calls
           /\ pc[a] = "idle" => seen[a] = Nothing
           /\ pc[a] # "idle" => Mine(a) \in Investments /\ SeenClaimed(a)
  BY PaymentAssumption DEF PaymentInv, Actors, ActorInv, Knows

\* A draft or an event takes up an investment.
LEMMA TakeUpStep ==
    ASSUME PaymentInv, UNCHANGED <<investment, transaction, claim, seen, attempt, outcome>>,
           NEW a \in Drafts \cup Events, pc[a] = "idle", NEW i \in Investments,
           target' = [target EXCEPT ![a] = [investment |-> i, hash |-> Null]],
           NEW to \in {"found", "done"}, pc' = [pc EXCEPT ![a] = to]
    PROVE  PaymentInv'
<1>t. TypeOK /\ a \in Actors /\ seen[a] = Nothing  BY OtherKnows
<1>1. target' \in [Actors -> [investment : Investments, hash : Named \cup {Null}]
                             \cup {Absent}]
  BY <1>t DEF TypeOK
<1>2. target'[a].investment = i /\ (\A b \in Actors \ {a} : target'[b] = target[b])
  BY <1>t DEF TypeOK
<1>3. SeenClaimed(a)'  BY <1>t, NothingType, HashTypes DEF SeenClaimed
<1> QED  BY <1>t, <1>1, <1>2, <1>3, OtherStep DEF TypeOK

\* The hash of the row a draft finds is claimed by the row's investment.
LEMMA ReadDraftRowStep ==
    ASSUME PaymentInv, NEW d \in Drafts, ReadDraftRow(d)
    PROVE  PaymentInv'
<1>1. /\ pc[d] = "found" /\ Proceed(d, "linked")
      /\ UNCHANGED <<investment, transaction, claim, target>>
  BY DEF ReadDraftRow
<1>t. TypeOK /\ d \in Actors /\ Mine(d) \in Investments /\ SeenClaimed(d)
  BY <1>1, OtherKnows
<1>2. CASE UNCHANGED seen
  <2>1. SeenClaimed(d)'  BY <1>1, <1>2, <1>t DEF SeenClaimed, Mine
  <2> QED  BY <1>1, <1>2, <1>t, <2>1, OtherStep DEF TypeOK, Mine, Proceed
<1>3. ASSUME NEW w \in RowsOf(Mine(d)),
             seen' = [seen EXCEPT ![d].row = w, ![d].hash = transaction[w].hash]
      PROVE  PaymentInv'
  <2>1. w \in Writers /\ transaction[w].investment = Mine(d)  BY DEF RowsOf
  <2>2. transaction[w].hash \in Hashes \cup {Null}
    BY <2>1, <1>t DEF TypeOK, TransactionRows, Absent
  <2>3. seen[d] \in [investment : InvestmentRows, row : Writers \cup {NoRow},
                     hash : Hashes \cup {Null}]
    BY <1>t DEF TypeOK
  <2>4. /\ seen'[d].hash = transaction[w].hash
        /\ seen'[d].investment = seen[d].investment
        /\ seen'[d] \in [investment : InvestmentRows, row : Writers \cup {NoRow},
                         hash : Hashes \cup {Null}]
        /\ \A b \in Actors \ {d} : seen'[b] = seen[b]
    BY <1>3, <1>t, <2>1, <2>2, <2>3 DEF TypeOK
  <2>5. seen' \in [Actors -> [investment : InvestmentRows, row : Writers \cup {NoRow},
                              hash : Hashes \cup {Null}]]
    BY <1>3, <1>t, <2>4 DEF TypeOK
  <2>6. transaction[w].hash.payment \in Payments =>
           claim[transaction[w].hash.payment] = Mine(d)
    BY <2>1, HashTypes DEF PaymentInv, CreditIsClaimed
  <2>7. SeenClaimed(d)'
    BY <1>1, <1>t, <2>4, <2>6 DEF SeenClaimed, Mine
  <2> QED  BY <1>1, <1>t, <2>4, <2>5, <2>7, OtherStep DEF TypeOK, Mine, Proceed
<1> QED  BY <1>2, <1>3 DEF ReadDraftRow

\* A draft that fails leaves no row.
LEMMA DraftFailsStep ==
    ASSUME PaymentInv, NEW d \in Drafts, DraftFails(d)
    PROVE  PaymentInv'
<1>1. /\ pc[d] = "found" /\ Proceed(d, "done")
      /\ UNCHANGED <<investment, transaction, claim, target, seen>>
  BY DEF DraftFails
<1>t. TypeOK /\ d \in Actors /\ Mine(d) \in Investments /\ SeenClaimed(d)
  BY <1>1, OtherKnows
<1>2. SeenClaimed(d)'  BY <1>1, <1>t DEF SeenClaimed, Mine
<1> QED  BY <1>1, <1>t, <1>2, OtherStep DEF TypeOK, Mine, Proceed

\* The row a draft saves carries no hash, or one that its investment claimed.
LEMMA SaveDraftStep ==
    ASSUME PaymentInv, NEW d \in Drafts, SaveDraft(d)
    PROVE  PaymentInv'
<1>1. /\ pc[d] = "linked" /\ Proceed(d, "done")
      /\ UNCHANGED <<investment, claim, target, seen>>
      /\ transaction' = [transaction EXCEPT ![Row(d)] =
                           [investment |-> Mine(d), status |-> "PENDING",
                            hash |-> seen[d].hash]]
  BY DEF SaveDraft
<1>t. TypeOK /\ d \in Actors /\ d \notin Calls /\ Mine(d) \in Investments /\ SeenClaimed(d)
  BY <1>1, OtherKnows
<1>2. seen[d] \in [investment : InvestmentRows, row : Writers \cup {NoRow},
                   hash : Hashes \cup {Null}]
  BY <1>t DEF TypeOK
<1>3. Row(d) \in Writers  BY <1>2 DEF Row, Writers
<1>4. pc' = [pc EXCEPT ![d] = "done"] /\ UNCHANGED <<attempt, outcome>>
  BY <1>1 DEF Proceed
<1>5. TypeOK'
  <2>1. transaction' \in [Writers -> TransactionRows \cup {Absent}]
    BY <1>1, <1>t, <1>2, <1>3 DEF TypeOK, TransactionRows
  <2> QED  BY <1>1, <1>t, <1>4, <2>1 DEF TypeOK
<1>6. CreditIsClaimed'
  <2>1. ASSUME NEW w \in Writers, transaction'[w].hash # Null
        PROVE  claim[transaction'[w].hash.payment] = transaction'[w].investment
    <3>1. CASE w = Row(d)
      <4>1. /\ transaction'[w].hash = seen[d].hash
            /\ transaction'[w].investment = Mine(d)
        BY <1>1, <1>t, <1>3, <3>1 DEF TypeOK
      <4> QED  BY <1>1, <1>t, <1>2, <2>1, <4>1, HashTypes DEF SeenClaimed
    <3>2. CASE w # Row(d)
      BY <1>1, <1>t, <2>1, <3>2 DEF TypeOK, PaymentInv, CreditIsClaimed
    <3> QED  BY <3>1, <3>2
  <2> QED  BY <1>1, <2>1 DEF PaymentInv, CreditIsClaimed
<1>7. PendingUnpaid' /\ ConfirmedMeansPaid'
  BY <1>1 DEF PaymentInv, PendingUnpaid, ConfirmedMeansPaid
<1>8. ActorInv(d)'
  BY <1>1, <1>t, <1>4 DEF ActorInv, Knows, SeenClaimed, Mine, Calls, TypeOK
<1>9. \A b \in Actors : ActorInv(b)'
  <2>1. \A b \in Actors \ {d} : pc'[b] = pc[b]  BY <1>t, <1>4 DEF TypeOK
  <2> QED  BY <1>1, <1>4, <1>8, <2>1, ActorStands
<1> QED  BY <1>5, <1>6, <1>7, <1>9 DEF PaymentInv

\* The event's hash is no payment's: it needs no claim.
LEMMA SaveEventStep ==
    ASSUME PaymentInv, NEW e \in Events, SaveEvent(e)
    PROVE  PaymentInv'
<1>1. /\ pc[e] = "found" /\ Proceed(e, "done")
      /\ UNCHANGED <<transaction, claim, target, seen>>
      /\ investment' = [investment EXCEPT ![Mine(e)] =
                          [status |-> "CONFIRMED", hash |-> ChainHash]]
  BY DEF SaveEvent
<1>t. TypeOK /\ e \in Actors /\ e \notin Calls /\ Mine(e) \in Investments /\ SeenClaimed(e)
  BY <1>1, OtherKnows
<1>2. pc' = [pc EXCEPT ![e] = "done"] /\ UNCHANGED <<attempt, outcome>>
  BY <1>1 DEF Proceed
<1>3. /\ investment'[Mine(e)] = [status |-> "CONFIRMED", hash |-> ChainHash]
      /\ \A j \in Investments \ {Mine(e)} : investment'[j] = investment[j]
      /\ investment' \in [Investments -> InvestmentRows]
  BY <1>1, <1>t DEF TypeOK, InvestmentRows
<1>4. TypeOK'  BY <1>1, <1>t, <1>2, <1>3 DEF TypeOK
<1>5. CreditIsClaimed'
  <2>1. ASSUME NEW j \in Investments, investment'[j].hash.payment \in Payments
        PROVE  claim[investment'[j].hash.payment] = j
    BY <1>3, <2>1, HashTypes DEF PaymentInv, CreditIsClaimed
  <2> QED  BY <1>1, <2>1 DEF PaymentInv, CreditIsClaimed
<1>6. PendingUnpaid' /\ ConfirmedMeansPaid'
  BY <1>3 DEF PaymentInv, PendingUnpaid, ConfirmedMeansPaid
<1>7. ActorInv(e)'
  BY <1>1, <1>t, <1>2 DEF ActorInv, Knows, SeenClaimed, Mine, Calls, TypeOK
<1>8. \A b \in Actors : ActorInv(b)'
  <2>1. \A b \in Actors \ {e} : pc'[b] = pc[b]  BY <1>t, <1>2 DEF TypeOK
  <2>2. \A j \in Investments : investment[j].status # "PENDING" =>
           investment'[j].status # "PENDING"
    BY <1>3
  <2> QED  BY <1>1, <1>2, <1>7, <2>1, <2>2, ActorStands
<1> QED  BY <1>4, <1>5, <1>6, <1>8 DEF PaymentInv

\* The settlement of an investment keeps its payment.
LEMMA SettleStep ==
    ASSUME PaymentInv, NEW i \in Investments, Settle(i)
    PROVE  PaymentInv'
<1>t. TypeOK  BY DEF PaymentInv
<1>1. UNCHANGED <<transaction, claim, pc, target, seen, attempt, outcome>>
  BY DEF Settle
<1>2. /\ investment[i].status = "CONFIRMED" /\ investment'[i].status = "SETTLED"
      /\ investment'[i].hash = investment[i].hash
      /\ \A j \in Investments \ {i} : investment'[j] = investment[j]
      /\ investment' \in [Investments -> InvestmentRows]
  BY <1>t DEF Settle, TypeOK, InvestmentRows
<1>3. TypeOK'  BY <1>t, <1>1, <1>2 DEF TypeOK
<1>4. CreditIsClaimed'
  BY <1>1, <1>2 DEF PaymentInv, CreditIsClaimed
<1>5. PendingUnpaid' /\ ConfirmedMeansPaid'
  BY <1>2 DEF PaymentInv, PendingUnpaid, ConfirmedMeansPaid
<1>6. \A b \in Actors : ActorInv(b)'
  <2>1. \A j \in Investments : investment[j].status # "PENDING" =>
           investment'[j].status # "PENDING"
    BY <1>2
  <2> QED  BY <1>1, <2>1, ActorStands
<1> QED  BY <1>3, <1>4, <1>5, <1>6 DEF PaymentInv

-----------------------------------------------------------------------------
(* The invariant                                                           *)

\* Nobody has begun and nothing is claimed.
LEMMA InitPayment == Init => PaymentInv
<1> SUFFICES ASSUME Init  PROVE PaymentInv
  OBVIOUS
<1>1. TypeOK  BY InitType
<1>2. PendingUnpaid /\ ConfirmedMeansPaid
  BY DEF Init, PendingUnpaid, ConfirmedMeansPaid
<1>3. CreditIsClaimed
  BY HashTypes DEF Init, CreditIsClaimed, Absent
<1>4. \A a \in Actors : pc[a] = "idle" /\ seen[a] = Nothing  BY DEF Init
<1>5. \A r \in Requests : outcome[r] = "none"  BY DEF Init, Calls
<1>6. \A a \in Actors : ActorInv(a)
  BY <1>4, <1>5 DEF ActorInv, Knows, SeenClaimed, Earned, Answered, TruthTold
<1> QED  BY <1>1, <1>2, <1>3, <1>6 DEF PaymentInv

\* Every action preserves it.
LEMMA NextPayment == PaymentInv /\ [Next]_vars => PaymentInv'
<1> SUFFICES ASSUME PaymentInv, [Next]_vars  PROVE PaymentInv'
  OBVIOUS
<1>t. TypeOK  BY DEF PaymentInv
<1>1. ASSUME NEW c \in Calls, NEW t \in IF c \in Workers THEN Candidates ELSE Asked,
             Begin(c, t)
      PROVE  PaymentInv'
  <2>1. t \in [investment : Investments, hash : Named]
    BY CandidateType, PaymentAssumption DEF Named
  <2> QED  BY <1>1, <2>1, BeginStep
<1>2. ASSUME NEW c \in Calls, Advance(c)  PROVE PaymentInv'
  <2>1. CASE LoseClaim(c)
    <3>1. /\ pc[c] # "idle" /\ Answer(c, "already_used")
          /\ UNCHANGED <<investment, transaction, claim>>
      BY <2>1 DEF LoseClaim, ClaimCollides
    <3>2. TypeOK'  BY <1>t, <3>1, AnswerKept DEF Outcomes
    <3> QED  BY <3>1, <3>2, AnswerStep DEF Outcomes
  <2> QED
    BY <1>2, <2>1, FetchStep, ReadInvestmentStep, ReadTransactionsStep, LookUpClaimStep,
       CreditStep
       DEF Advance
<1>3. ASSUME NEW c \in Calls, FetchFails(c)  PROVE PaymentInv'
  BY <1>3, FetchFailsStep
<1>4. ASSUME NEW c \in Calls, Fail(c)  PROVE PaymentInv'
  <2>1. /\ pc[c] # "idle" /\ Answer(c, "failed")
        /\ UNCHANGED <<investment, transaction, claim>>
    BY <1>4 DEF Fail
  <2>2. TypeOK'  BY <1>t, <2>1, AnswerKept DEF Outcomes
  <2> QED  BY <2>1, <2>2, AnswerStep DEF Outcomes
<1>5. ASSUME NEW i \in Investments, Settle(i)  PROVE PaymentInv'
  BY <1>5, SettleStep
<1>6. ASSUME NEW i \in Investments, NEW d \in Drafts, BeginDraft(d, i)  PROVE PaymentInv'
  BY <1>6, TakeUpStep DEF BeginDraft
<1>7. ASSUME NEW i \in Investments, NEW e \in Events, ReadEvent(e, i)  PROVE PaymentInv'
  BY <1>7, TakeUpStep DEF ReadEvent, Proceed
<1>8. ASSUME NEW d \in Drafts, DraftFails(d) \/ ReadDraftRow(d) \/ SaveDraft(d)
      PROVE  PaymentInv'
  BY <1>8, DraftFailsStep, ReadDraftRowStep, SaveDraftStep
<1>9. ASSUME NEW e \in Events, SaveEvent(e)  PROVE PaymentInv'
  BY <1>9, SaveEventStep
<1>10. CASE UNCHANGED vars
  <2>1. UNCHANGED <<investment, transaction, claim, pc, target, seen, attempt, outcome>>
    BY <1>10 DEF vars
  <2>2. TypeOK'  BY <1>t, <2>1 DEF TypeOK
  <2>3. PendingUnpaid' /\ CreditIsClaimed' /\ ConfirmedMeansPaid'
    BY <2>1 DEF PaymentInv, PendingUnpaid, CreditIsClaimed, ConfirmedMeansPaid
  <2>4. \A b \in Actors : ActorInv(b)'  BY <2>1, ActorStands
  <2> QED  BY <2>2, <2>3, <2>4 DEF PaymentInv
<1> QED
  BY <1>1, <1>2, <1>3, <1>4, <1>5, <1>6, <1>7, <1>8, <1>9, <1>10 DEF Next

\* The invariant holds in every reachable state.
LEMMA InvariantHolds == Spec => []PaymentInv
<1> QED  BY InitPayment, NextPayment, PTL DEF Spec

-----------------------------------------------------------------------------
(* The results                                                             *)

\* Every variable of the verification keeps its type: no caller counts more
\* failed fetches than it may make, and the worker only takes up targets that exist.
THEOREM TypeCorrect == Spec => []TypeOK
<1>1. PaymentInv => TypeOK  BY DEF PaymentInv
<1> QED  BY <1>1, InvariantHolds, PTL

\* The claims, the transactions and the investments never disagree on which
\* investment a payment belongs to, whoever writes them in whichever order.
THEOREM CreditsClaimed == Spec => []CreditIsClaimed
<1>1. PaymentInv => CreditIsClaimed  BY DEF PaymentInv
<1> QED  BY <1>1, InvariantHolds, PTL

\* One payment never counts for two investments.
THEOREM CreditedOnce == Spec => []PaymentCreditedOnce
<1>1. PaymentInv => PaymentCreditedOnce
  BY DEF PaymentInv, CreditIsClaimed, PaymentCreditedOnce
<1> QED  BY <1>1, InvariantHolds, PTL

\* An investment that left PENDING was paid by a payment that matches it, or
\* confirmed by the contract's event.
THEOREM PaidWhenConfirmed == Spec => []ConfirmedMeansPaid
<1>1. PaymentInv => ConfirmedMeansPaid  BY DEF PaymentInv
<1> QED  BY <1>1, InvariantHolds, PTL

\* A caller that was told of success owns the claim, for good, or it named the
\* transaction of the event that confirmed its investment, which stays confirmed.
THEOREM SuccessClaimed == Spec => []SuccessIsClaimed
<1>1. PaymentInv => SuccessIsClaimed
  BY DEF PaymentInv, SuccessIsClaimed, ActorInv, Answered, Actors, Calls
<1> QED  BY <1>1, InvariantHolds, PTL

-----------------------------------------------------------------------------
(* Refusals                                                                *)

\* What makes the refusals justified for good: nobody writes over a row of
\* another investment.  A writer inserts its own row at most once, with its last
\* step; the row it found belongs to its investment; the worker, whose
\* candidates have a row, inserts none.  What a writer has seen of a payment
\* means that its investment is not PENDING any more.
Refused(r) ==
    /\ outcome[r] = "already_used" => Payment(r) \in Payments /\ claim[Payment(r)] # "none"
    /\ outcome[r] = "reconciliation_conflict" =>
          investment[Mine(r)].status # "PENDING" \/ Cardinality(RowsOf(Mine(r))) > 1

WriterInv(w) ==
    /\ pc[w] # "done" => transaction[w] = Absent
    /\ seen[w].row # NoRow => transaction[seen[w].row].investment = Mine(w)
    /\ w \in Workers =>
          /\ pc[w] # "idle" => pc[w] # "done" /\ RowsOf(Mine(w)) # {}
          /\ pc[w] \in {"linked", "claim", "credit"} => seen[w].row # NoRow
    /\ seen[w].hash # Null \/ seen[w].investment.status # "PENDING" =>
          investment[Mine(w)].status # "PENDING"
    /\ w \in Requests => Refused(w)

RowsPaid ==
    \A w \in Writers : transaction[w].hash # Null =>
        investment[transaction[w].investment].status # "PENDING"

RefusalInv == RowsPaid /\ \A w \in Writers : WriterInv(w)

\* Rows keep their investment, investments do not return to PENDING and claims
\* are not given up.
Kept ==
    /\ \A v \in Writers : transaction[v] # Absent =>
          transaction'[v].investment = transaction[v].investment
    /\ \A i \in Investments : investment[i].status # "PENDING" =>
          investment'[i].status # "PENDING"
    /\ \A p \in Payments : claim[p] # "none" => claim'[p] # "none"

\* A step that writes none of the rows keeps them all.
LEMMA UnchangedKept == UNCHANGED <<investment, transaction, claim>> => Kept
  BY DEF Kept

\* The rows of an investment only become more.
LEMMA RowsOfGrow ==
    ASSUME Kept, NEW i \in Investments
    PROVE  /\ RowsOf(i) \subseteq RowsOf(i)'
           /\ Cardinality(RowsOf(i)) > 1 => Cardinality(RowsOf(i)') > 1
<1>1. i # "none"  BY PaymentAssumption
<1>2. RowsOf(i) \subseteq RowsOf(i)'
  BY <1>1 DEF RowsOf, Kept, Absent
<1>3. IsFiniteSet(RowsOf(i)')
  BY PaymentAssumption, FS_Subset DEF RowsOf
<1>4. Cardinality(RowsOf(i)) <= Cardinality(RowsOf(i)') /\ IsFiniteSet(RowsOf(i))
  BY <1>2, <1>3, FS_Subset
<1>5. Cardinality(RowsOf(i)) \in Nat /\ Cardinality(RowsOf(i)') \in Nat
  BY <1>3, <1>4, FS_CardinalityType
<1> QED  BY <1>2, <1>4, <1>5

\* What a writer works on, once it does, and what it knows before.
LEMMA WriterKnows ==
    ASSUME PaymentInv, NEW w \in Writers
    PROVE  /\ w \in Actors
           /\ pc[w] = "idle" => seen[w] = Nothing /\ (w \in Requests => outcome[w] = "none")
           /\ pc[w] # "idle" => Mine(w) \in Investments
<1>1. w \in Actors  BY DEF Writers, Actors
<1>2. Knows(w) /\ (w \in Requests => Answered(w))
  BY <1>1 DEF PaymentInv, ActorInv
<1> QED  BY <1>1, <1>2 DEF Knows, Answered

\* A refusal stays justified while the caller stays where it is.
LEMMA RefusedStays ==
    ASSUME PaymentInv, Kept, NEW r \in Requests, Refused(r), pc[r] # "idle",
           target'[r] = target[r], outcome'[r] = outcome[r]
    PROVE  Refused(r)'
<1>1. Mine(r) \in Investments
  BY WriterKnows DEF Writers, Calls
<1>2. Mine(r)' = Mine(r) /\ Payment(r)' = Payment(r)
  BY DEF Mine, Payment
<1>3. Payment(r) \in Payments /\ claim[Payment(r)] # "none" => claim'[Payment(r)] # "none"
  BY DEF Kept
<1>4. investment[Mine(r)].status # "PENDING" => investment'[Mine(r)].status # "PENDING"
  BY <1>1 DEF Kept
<1>5. RowsOf(Mine(r))' = {v \in Writers : transaction'[v].investment = Mine(r)}
  BY <1>2 DEF RowsOf
<1>6. Cardinality(RowsOf(Mine(r))) > 1 => (Cardinality(RowsOf(Mine(r))) > 1)'
  <2> DEFINE i == Mine(r)
  <2>1. i \in Investments  BY <1>1
  <2> HIDE DEF i
  <2>2. Cardinality(RowsOf(i)) > 1 =>
           Cardinality({v \in Writers : transaction'[v].investment = i}) > 1
    BY <2>1, RowsOfGrow DEF RowsOf
  <2> QED  BY <1>5, <2>2 DEF i
<1>7. (outcome[r] = "already_used" => Payment(r) \in Payments /\ claim[Payment(r)] # "none")'
  BY <1>2, <1>3 DEF Refused
<1>8. (outcome[r] = "reconciliation_conflict" =>
          investment[Mine(r)].status # "PENDING" \/ Cardinality(RowsOf(Mine(r))) > 1)'
  BY <1>2, <1>4, <1>6 DEF Refused
<1> QED  BY <1>7, <1>8 DEF Refused

\* A writer that stands still keeps what it knows.
LEMMA WriterStands ==
    ASSUME PaymentInv, Kept, NEW w \in Writers, WriterInv(w),
           pc'[w] = pc[w], target'[w] = target[w], seen'[w] = seen[w],
           w \in Calls => outcome'[w] = outcome[w],
           transaction[w] = Absent => transaction'[w] = Absent
    PROVE  WriterInv(w)'
<1>1. CASE pc[w] = "idle"
  <2>1. seen[w] = Nothing /\ (w \in Requests => outcome'[w] = "none")
    BY <1>1, WriterKnows DEF Calls
  <2>2. w \in Requests => Refused(w)'  BY <2>1 DEF Refused
  <2> QED  BY <1>1, <2>1, <2>2, NothingType DEF WriterInv, Nothing
<1>2. CASE pc[w] # "idle"
  <2>1. Mine(w) \in Investments /\ Mine(w)' = Mine(w) /\ Mine(w) # "none"
    BY <1>2, WriterKnows, PaymentAssumption DEF Mine
  <2>2. seen[w].row # NoRow => transaction'[seen[w].row].investment = Mine(w)
    <3>1. seen[w].row \in Writers \cup {NoRow}
      BY WriterKnows DEF PaymentInv, TypeOK
    <3> QED  BY <2>1, <3>1 DEF WriterInv, Kept, Absent
  <2>3. RowsOf(Mine(w)) # {} => (RowsOf(Mine(w)) # {})'
    BY <2>1, PaymentAssumption DEF RowsOf, Kept, Absent
  <2>4. w \in Requests => Refused(w)'
    BY <1>2, RefusedStays DEF WriterInv, Calls
  <2>5. seen[w].hash # Null \/ seen[w].investment.status # "PENDING" =>
           investment'[Mine(w)].status # "PENDING"
    BY <2>1 DEF WriterInv, Kept
  <2> QED  BY <1>2, <2>1, <2>2, <2>3, <2>4, <2>5 DEF WriterInv
<1> QED  BY <1>1, <1>2

\* A step that writes no row only concerns the writer that takes it.
LEMMA QuietStep ==
    ASSUME PaymentInv, RefusalInv, UNCHANGED <<investment, transaction, claim>>,
           NEW a \in Actors, a \in Writers => WriterInv(a)',
           \A b \in Actors \ {a} :
               pc'[b] = pc[b] /\ target'[b] = target[b] /\ seen'[b] = seen[b],
           \A b \in Calls \ {a} : outcome'[b] = outcome[b]
    PROVE  RefusalInv'
<1>1. ASSUME NEW w \in Writers \ {a}  PROVE WriterInv(w)'
  BY WriterKnows, UnchangedKept, WriterStands DEF RefusalInv
<1>2. RowsPaid'  BY DEF RefusalInv, RowsPaid
<1> QED  BY <1>1, <1>2 DEF RefusalInv

\* A call that ends has not inserted a row unless it was its last step, and has
\* forgotten what it saw.
LEMMA AnsweredWriter ==
    ASSUME PaymentInv, NEW c \in Calls, NEW o, Answer(c, o),
           c \in Workers => transaction'[c] = Absent,
           c \in Requests => Refused(c)'
    PROVE  WriterInv(c)'
<1>1. /\ pc'[c] = IF c \in Workers THEN "idle" ELSE "done"
      /\ seen'[c] = Nothing
  BY AnswerEffect DEF PaymentInv
<1> QED  BY <1>1, NothingType DEF WriterInv, Nothing

\* The refusals have a reason.
LEMMA AnswerQuiet ==
    ASSUME PaymentInv, RefusalInv, UNCHANGED <<investment, transaction, claim>>,
           NEW c \in Calls, pc[c] \notin {"idle", "done"}, NEW o, Answer(c, o),
           o = "already_used" => Payment(c) \in Payments /\ claim[Payment(c)] # "none",
           o = "reconciliation_conflict" =>
               investment[Mine(c)].status # "PENDING" \/ Cardinality(RowsOf(Mine(c))) > 1
    PROVE  RefusalInv'
<1>t. TypeOK /\ c \in Actors /\ c \in Writers  BY DEF PaymentInv, Actors, Writers
<1>1. c \in Workers => transaction'[c] = Absent
  BY <1>t DEF RefusalInv, WriterInv
<1>2. ASSUME c \in Requests  PROVE Refused(c)'
  <2>1. outcome'[c] = o /\ target'[c] = target[c]
    BY <1>t, <1>2, AnswerEffect, PaymentAssumption
  <2>2. Mine(c)' = Mine(c) /\ Payment(c)' = Payment(c)
    BY <2>1 DEF Mine, Payment
  <2>3. RowsOf(Mine(c))' = RowsOf(Mine(c))
    BY <2>2 DEF RowsOf
  <2> QED  BY <2>1, <2>2, <2>3 DEF Refused
<1>3. WriterInv(c)'  BY <1>1, <1>2, AnsweredWriter
<1> QED  BY <1>t, <1>3, AnswerEffect, QuietStep

\* A writer goes on, and what it has seen since is true of the rows.
LEMMA ProceedQuiet ==
    ASSUME PaymentInv, RefusalInv, UNCHANGED <<investment, transaction, claim, target>>,
           NEW w \in Writers, pc[w] \notin {"idle", "done"},
           NEW to, Proceed(w, to), to = "done" => w \in Drafts,
           NEW s, seen' = [seen EXCEPT ![w] = s],
           s.row # NoRow => transaction[s.row].investment = Mine(w),
           w \in Workers /\ to \in {"linked", "claim", "credit"} => s.row # NoRow,
           s.hash # Null \/ s.investment.status # "PENDING" =>
               investment[Mine(w)].status # "PENDING"
    PROVE  RefusalInv'
<1>t. TypeOK /\ w \in Actors /\ (w \in Drafts => w \notin Calls)
  BY WriterKnows, PaymentAssumption DEF PaymentInv
<1>1. /\ pc'[w] = to /\ outcome' = outcome
      /\ \A b \in Actors \ {w} : pc'[b] = pc[b]
  BY <1>t, ProceedEffect
<1>2. seen'[w] = s /\ (\A b \in Actors \ {w} : seen'[b] = seen[b])
  BY <1>t DEF TypeOK
<1>3. WriterInv(w)  BY DEF RefusalInv
<1>4. Mine(w)' = Mine(w) /\ RowsOf(Mine(w))' = RowsOf(Mine(w)) /\ Payment(w)' = Payment(w)
  BY DEF Mine, RowsOf, Payment
<1>5. w \in Requests => Refused(w)'
  BY <1>1, <1>3, <1>4 DEF WriterInv, Refused
<1>6. WriterInv(w)'
  BY <1>t, <1>1, <1>2, <1>3, <1>4, <1>5 DEF WriterInv, Calls
<1> QED  BY <1>t, <1>1, <1>2, <1>6, QuietStep

\* A worker's candidate has a row: no investment is pending with a hash.
LEMMA CandidateHasRow ==
    ASSUME PaymentInv, NEW t \in Candidates
    PROVE  RowsOf(t.investment) # {}
<1>1. ASSUME NEW i \in Investments, investment[i].status = "PENDING",
             investment[i].hash # Null
      PROVE  FALSE
  BY <1>1 DEF PaymentInv, PendingUnpaid
<1>2. PICK v \in Writers : t.investment = transaction[v].investment
  BY <1>1 DEF Candidates
<1> QED  BY <1>2 DEF RowsOf

\* A request that finds its investment confirmed with another hash may say so.
LEMMA BeginQuiet ==
    ASSUME PaymentInv, RefusalInv, NEW c \in Calls,
           NEW t \in IF c \in Workers THEN Candidates ELSE Asked, Begin(c, t)
    PROVE  RefusalInv'
<1>t. TypeOK /\ c \in Actors /\ c \in Writers  BY DEF PaymentInv, Actors, Writers
<1>1. /\ pc[c] = "idle" /\ UNCHANGED <<investment, transaction, claim, seen, attempt>>
      /\ \A b \in Actors \ {c} : pc'[b] = pc[b] /\ target'[b] = target[b]
      /\ \A b \in Calls \ {c} : outcome'[b] = outcome[b]
  BY <1>t DEF Begin, TypeOK
<1>2. seen'[c] = Nothing /\ transaction'[c] = Absent /\ (c \in Requests => outcome[c] = "none")
  BY <1>t, <1>1, WriterKnows DEF RefusalInv, WriterInv
<1>3. CASE c \in Workers
  <2>1. \/ pc'[c] = "idle"
        \/ pc'[c] = "found" /\ target'[c] = t
    BY <1>t, <1>3 DEF Begin, TypeOK
  <2>2. pc'[c] # "idle" => (RowsOf(Mine(c)) # {})'
    BY <1>1, <1>3, <2>1, CandidateHasRow DEF Mine, RowsOf
  <2>3. c \notin Requests  BY <1>3, PaymentAssumption
  <2>4. WriterInv(c)'
    BY <1>2, <2>1, <2>2, <2>3, NothingType DEF WriterInv, Nothing
  <2> QED  BY <1>t, <1>1, <2>4, QuietStep
<1>4. CASE c \notin Workers
  <2>1. c \in Requests  BY <1>4 DEF Calls
  <2>2. /\ target'[c] = t
        /\ \/ outcome'[c] \in {"none", "already_verified"}
           \/ outcome'[c] = "reconciliation_conflict"
              /\ investment[t.investment].status = "CONFIRMED"
    BY <1>t, <1>2, <1>4, <2>1 DEF Begin, TypeOK
  <2>3. Mine(c)' = t.investment  BY <2>2 DEF Mine
  <2>4. Refused(c)'  BY <1>1, <2>2, <2>3 DEF Refused
  <2>5. WriterInv(c)'
    BY <1>2, <1>4, <2>4, NothingType DEF WriterInv, Nothing
  <2> QED  BY <1>t, <1>1, <2>5, QuietStep
<1> QED  BY <1>3, <1>4

\* The steps of a call that write no row.
LEMMA CallQuiet ==
    ASSUME PaymentInv, RefusalInv, NEW c \in Calls,
           \/ Fetch(c) \/ FetchFails(c) \/ ReadInvestment(c)
           \/ LookUpClaim(c) \/ LoseClaim(c) \/ Fail(c)
    PROVE  RefusalInv'
<1>1. UNCHANGED <<investment, transaction, claim>> /\ pc[c] \notin {"idle", "done"}
  BY DEF Fetch, FetchFails, ReadInvestment, LookUpClaim, LoseClaim, ClaimCollides, Fail
<1>t. /\ TypeOK /\ c \in Actors /\ c \in Writers /\ c \notin Drafts /\ Mine(c) \in Investments
      /\ seen[c] \in [investment : InvestmentRows, row : Writers \cup {NoRow},
                      hash : Hashes \cup {Null}]
  BY <1>1, CallerKnows, PaymentAssumption DEF Writers
<1>2. /\ WriterInv(c)
      /\ pc[c] \in {"linked", "claim"} => Payment(c) \in Payments
  BY <1>1, <1>t, CallerKnows DEF RefusalInv
<1>s. /\ seen[c].row # NoRow => transaction[seen[c].row].investment = Mine(c)
      /\ seen[c].hash # Null \/ seen[c].investment.status # "PENDING" =>
            investment[Mine(c)].status # "PENDING"
  BY <1>2 DEF WriterInv
<1>3. CASE Fetch(c)
  <2>1. CASE Answer(c, "invalid_payment")
    BY <1>1, <2>1, AnswerQuiet
  <2>2. CASE Proceed(c, "matched") /\ UNCHANGED <<target, seen>>
    <3>1. seen' = [seen EXCEPT ![c] = seen[c]]  BY <1>t, <2>2 DEF TypeOK
    <3>2. "matched" \notin {"linked", "claim", "credit", "done"}  OBVIOUS
    <3> QED  BY <1>1, <1>s, <1>t, <2>2, <3>1, <3>2, ProceedQuiet
  <2> QED  BY <1>3, <2>1, <2>2 DEF Fetch
<1>4. CASE FetchFails(c)
  <2>1. CASE Answer(c, "horizon_unavailable")
    BY <1>1, <2>1, AnswerQuiet
  <2>2. CASE UNCHANGED <<pc, target, seen, outcome>>
    <3>1. WriterInv(c)'
      BY <1>1, <1>2, <1>t, <2>2, UnchangedKept, WriterStands
    <3> QED  BY <1>1, <1>t, <2>2, <3>1, QuietStep
  <2> QED  BY <1>4, <2>1, <2>2 DEF FetchFails
<1>5. CASE ReadInvestment(c)
  <2> DEFINE s == [seen[c] EXCEPT !.investment = investment[Mine(c)]]
  <2>1. /\ pc[c] = "matched" /\ Proceed(c, "locked") /\ UNCHANGED target
        /\ seen' = [seen EXCEPT ![c] = s]
    BY <1>5, <1>t DEF ReadInvestment, TypeOK
  <2>2. s.row = seen[c].row /\ s.hash = seen[c].hash /\ s.investment = investment[Mine(c)]
    BY <1>t
  <2>3. /\ s.row # NoRow => transaction[s.row].investment = Mine(c)
        /\ s.hash # Null \/ s.investment.status # "PENDING" =>
               investment[Mine(c)].status # "PENDING"
    BY <1>2, <2>2 DEF WriterInv
  <2>4. "locked" \notin {"linked", "claim", "credit", "done"}  OBVIOUS
  <2> HIDE DEF s
  <2> QED  BY <1>1, <1>t, <2>1, <2>3, <2>4, ProceedQuiet
<1>6. CASE LookUpClaim(c)
  <2>1. pc[c] = "linked" /\ (c \in Workers => seen[c].row # NoRow)
    BY <1>2, <1>6 DEF LookUpClaim, WriterInv
  <2>2. ASSUME NEW to \in {"claim", "credit"}, Proceed(c, to), UNCHANGED <<target, seen>>
        PROVE  RefusalInv'
    <3>1. seen' = [seen EXCEPT ![c] = seen[c]]  BY <1>t, <2>2 DEF TypeOK
    <3> QED  BY <1>1, <1>s, <1>t, <2>1, <2>2, <3>1, ProceedQuiet
  <2>3. CASE claim[Payment(c)] \notin {"none", Mine(c)} /\ Answer(c, "already_used")
    BY <1>1, <1>2, <2>1, <2>3, AnswerQuiet
  <2> QED  BY <1>6, <2>2, <2>3 DEF LookUpClaim
<1>7. CASE LoseClaim(c)
  <2>1. /\ Payment(c) \in Payments /\ claim[Payment(c)] # "none"
        /\ Answer(c, "already_used")
    BY <1>2, <1>7 DEF LoseClaim, ClaimCollides
  <2> QED  BY <1>1, <2>1, AnswerQuiet
<1>8. CASE Fail(c)
  BY <1>1, <1>8, AnswerQuiet DEF Fail
<1> QED  BY <1>3, <1>4, <1>5, <1>6, <1>7, <1>8

\* A conflict is answered about an investment that is not PENDING or has rows
\* nobody can tell apart; else the row found is the investment's.
LEMMA ReadTransactionsQuiet ==
    ASSUME PaymentInv, RefusalInv, NEW c \in Calls, ReadTransactions(c)
    PROVE  RefusalInv'
<1>1. pc[c] = "locked" /\ UNCHANGED <<investment, transaction, claim>>
  BY DEF ReadTransactions
<1>t. /\ TypeOK /\ c \in Actors /\ c \in Writers /\ c \notin Drafts /\ Mine(c) \in Investments
      /\ seen[c] \in [investment : InvestmentRows, row : Writers \cup {NoRow},
                      hash : Hashes \cup {Null}]
  BY <1>1, CallerKnows, PaymentAssumption DEF Writers
<1>2. WriterInv(c) /\ RowsPaid  BY <1>t DEF RefusalInv
<1>3. CASE Answer(c, "already_verified")
  BY <1>1, <1>3, AnswerQuiet
<1>4. CASE /\ \/ Cardinality(RowsOf(Mine(c))) > 1
              \/ seen[c].investment.status = "CONFIRMED"
              \/ LinkedElsewhere(c)
           /\ Answer(c, "reconciliation_conflict")
  <2>1. LinkedElsewhere(c) => investment[Mine(c)].status # "PENDING"
    BY <1>2 DEF LinkedElsewhere, RowsPaid, RowsOf
  <2>2. seen[c].investment.status = "CONFIRMED" => investment[Mine(c)].status # "PENDING"
    BY <1>2 DEF WriterInv
  <2> QED  BY <1>1, <1>4, <2>1, <2>2, AnswerQuiet
<1>5. CASE /\ seen' = [seen EXCEPT ![c].row = IF RowsOf(Mine(c)) = {} THEN NoRow
                                              ELSE CHOOSE w \in RowsOf(Mine(c)) : TRUE]
           /\ Proceed(c, "linked") /\ UNCHANGED target
  <2> DEFINE found == IF RowsOf(Mine(c)) = {} THEN NoRow
                      ELSE CHOOSE w \in RowsOf(Mine(c)) : TRUE
             s == [seen[c] EXCEPT !.row = found]
  <2>1. /\ found # NoRow => transaction[found].investment = Mine(c)
        /\ RowsOf(Mine(c)) # {} => found # NoRow
    BY PaymentAssumption DEF RowsOf
  <2>2. seen' = [seen EXCEPT ![c] = s]  BY <1>t, <1>5 DEF TypeOK
  <2>3. s.row = found /\ s.hash = seen[c].hash /\ s.investment = seen[c].investment
    BY <1>t
  <2>4. /\ s.row # NoRow => transaction[s.row].investment = Mine(c)
        /\ c \in Workers => s.row # NoRow
        /\ s.hash # Null \/ s.investment.status # "PENDING" =>
               investment[Mine(c)].status # "PENDING"
    BY <1>1, <1>2, <2>1, <2>3 DEF WriterInv
  <2> HIDE DEF s
  <2> QED  BY <1>1, <1>t, <1>5, <2>2, <2>4, ProceedQuiet
<1> QED  BY <1>3, <1>4, <1>5 DEF ReadTransactions

\* A save writes the writer's own new row or one of the same investment.
LEMMA OwnRow ==
    ASSUME PaymentInv, RefusalInv, NEW w \in Writers, pc[w] \notin {"idle", "done"},
           w \in Workers => seen[w].row # NoRow
    PROVE  /\ Row(w) \in Writers /\ Mine(w) \in Investments
           /\ transaction[Row(w)] = Absent \/ transaction[Row(w)].investment = Mine(w)
           /\ transaction[Row(w)] = Absent => Row(w) = w /\ w \notin Workers
<1>1. WriterInv(w)  BY DEF RefusalInv
<1>2. seen[w].row \in Writers \cup {NoRow} /\ Mine(w) \in Investments /\ Mine(w) # "none"
  BY WriterKnows, PaymentAssumption DEF PaymentInv, TypeOK
<1>3. CASE seen[w].row = NoRow
  BY <1>1, <1>2, <1>3 DEF WriterInv, Row
<1>4. CASE seen[w].row # NoRow
  BY <1>1, <1>2, <1>4 DEF WriterInv, Row, Absent
<1> QED  BY <1>3, <1>4

\* The save keeps all rows with their investments, the other writers included.
LEMMA SaveKept ==
    ASSUME PaymentInv, RefusalInv, NEW w \in Writers, pc[w] \notin {"idle", "done"},
           w \in Workers => seen[w].row # NoRow,
           NEW status, NEW hash,
           transaction' = [transaction EXCEPT ![Row(w)] =
                             [investment |-> Mine(w), status |-> status, hash |-> hash]],
           \A i \in Investments : investment[i].status # "PENDING" =>
               investment'[i].status # "PENDING",
           \A p \in Payments : claim[p] # "none" => claim'[p] # "none",
           hash # Null => investment'[Mine(w)].status # "PENDING",
           \A b \in Actors \ {w} :
               pc'[b] = pc[b] /\ target'[b] = target[b] /\ seen'[b] = seen[b],
           \A b \in Calls \ {w} : outcome'[b] = outcome[b]
    PROVE  /\ Kept /\ RowsPaid'
           /\ \A b \in Writers \ {w} : WriterInv(b)'
           /\ w \in Workers => transaction'[w] = Absent
<1>t. TypeOK /\ RowsPaid /\ WriterInv(w)  BY DEF PaymentInv, RefusalInv
<1>1. /\ Row(w) \in Writers /\ Mine(w) \in Investments
      /\ transaction[Row(w)] = Absent \/ transaction[Row(w)].investment = Mine(w)
      /\ transaction[Row(w)] = Absent => Row(w) = w /\ w \notin Workers
  BY OwnRow
<1>2. /\ transaction'[Row(w)] = [investment |-> Mine(w), status |-> status, hash |-> hash]
      /\ \A v \in Writers \ {Row(w)} : transaction'[v] = transaction[v]
  BY <1>t, <1>1 DEF TypeOK
<1>3. Kept  BY <1>1, <1>2 DEF Kept
<1>4. ASSUME NEW v \in Writers, transaction'[v].hash # Null
      PROVE  investment'[transaction'[v].investment].status # "PENDING"
  <2>1. CASE v = Row(w)  BY <1>2, <1>4, <2>1
  <2>2. CASE v # Row(w)
    <3>1. transaction[v] # Absent /\ transaction'[v] = transaction[v]
      BY <1>2, <1>4, <2>2 DEF Absent
    <3>2. transaction[v].investment \in Investments
      BY <1>t, <3>1 DEF TypeOK, TransactionRows
    <3> QED  BY <1>t, <1>4, <3>1, <3>2 DEF RowsPaid
  <2> QED  BY <2>1, <2>2
<1>5. ASSUME NEW b \in Writers \ {w}  PROVE WriterInv(b)'
  <2>1. transaction[b] = Absent => transaction'[b] = Absent
    BY <1>1, <1>2
  <2>2. b \in Actors /\ WriterInv(b)
    BY WriterKnows DEF RefusalInv
  <2> QED  BY <1>3, <2>1, <2>2, WriterStands
<1>6. w \in Workers => transaction'[w] = Absent
  BY <1>t, <1>1, <1>2 DEF WriterInv
<1> QED  BY <1>3, <1>4, <1>5, <1>6 DEF RowsPaid

\* A credit and a draft save such a row.
LEMMA CreditKept ==
    ASSUME PaymentInv, RefusalInv, NEW c \in Calls, Credit(c)
    PROVE  RefusalInv'
<1>1. /\ pc[c] \in {"claim", "credit"} /\ Answer(c, "verified")
      /\ claim' = IF pc[c] = "claim" THEN [claim EXCEPT ![Payment(c)] = Mine(c)] ELSE claim
      /\ transaction' = [transaction EXCEPT ![Row(c)] =
                           [investment |-> Mine(c), status |-> "COMPLETED",
                            hash |-> Upper(target[c].hash)]]
      /\ investment' = [investment EXCEPT ![Mine(c)] =
                          [status |-> "CONFIRMED", hash |-> target[c].hash]]
  BY DEF Credit
<1>t. TypeOK /\ c \in Actors /\ c \in Writers /\ Mine(c) \in Investments /\ Mine(c) # "none"
  BY <1>1, CallerKnows, PaymentAssumption DEF Writers
<1>2. pc[c] \notin {"idle", "done"} /\ (c \in Workers => seen[c].row # NoRow)
  BY <1>1, <1>t DEF RefusalInv, WriterInv
<1>3. /\ investment'[Mine(c)].status = "CONFIRMED"
      /\ \A i \in Investments \ {Mine(c)} : investment'[i] = investment[i]
  BY <1>1, <1>t DEF TypeOK
<1>4. \A p \in Payments : claim[p] # "none" => claim'[p] # "none"
  BY <1>1, <1>t DEF TypeOK
<1>5. /\ RowsPaid' /\ (\A b \in Writers \ {c} : WriterInv(b)')
      /\ c \in Workers => transaction'[c] = Absent
  <2>1. /\ \A b \in Actors \ {c} :
             pc'[b] = pc[b] /\ target'[b] = target[b] /\ seen'[b] = seen[b]
        /\ \A b \in Calls \ {c} : outcome'[b] = outcome[b]
    BY <1>1, <1>t, AnswerEffect
  <2>2. \A i \in Investments : investment[i].status # "PENDING" =>
           investment'[i].status # "PENDING"
    BY <1>3
  <2> QED  BY <1>1, <1>t, <1>2, <1>3, <1>4, <2>1, <2>2, SaveKept
<1>6. c \in Requests => Refused(c)'
  BY <1>1, <1>t, AnswerEffect DEF Refused
<1>7. WriterInv(c)'
  BY <1>1, <1>5, <1>6, AnsweredWriter
<1> QED  BY <1>5, <1>7 DEF RefusalInv

\* A draft writes back the hash it has seen, if any.
LEMMA SaveDraftKept ==
    ASSUME PaymentInv, RefusalInv, NEW d \in Drafts, SaveDraft(d)
    PROVE  RefusalInv'
<1>1. /\ pc[d] = "linked" /\ Proceed(d, "done")
      /\ UNCHANGED <<investment, claim, target, seen>>
      /\ transaction' = [transaction EXCEPT ![Row(d)] =
                           [investment |-> Mine(d), status |-> "PENDING",
                            hash |-> seen[d].hash]]
  BY DEF SaveDraft
<1>t. /\ TypeOK /\ d \in Actors /\ d \in Writers /\ d \notin Calls /\ Mine(d) \in Investments
      /\ WriterInv(d)
  BY <1>1, OtherKnows DEF Writers, RefusalInv
<1>2. /\ pc'[d] = "done" /\ outcome' = outcome
      /\ \A b \in Actors \ {d} : pc'[b] = pc[b]
  BY <1>1, <1>t, ProceedEffect
<1>3. d \notin Workers /\ d \notin Requests  BY <1>t DEF Calls
<1>4. seen[d].hash # Null => investment[Mine(d)].status # "PENDING"
  BY <1>t DEF WriterInv
<1>5. Kept /\ RowsPaid' /\ (\A b \in Writers \ {d} : WriterInv(b)')
  BY <1>1, <1>t, <1>2, <1>3, <1>4, SaveKept
<1>6. WriterInv(d)'
  <2>1. Mine(d)' = Mine(d) /\ seen'[d] = seen[d] /\ Mine(d) # "none"
    BY <1>1, <1>t, PaymentAssumption DEF Mine
  <2>2. seen[d].row # NoRow => transaction'[seen[d].row].investment = Mine(d)
    <3>1. seen[d].row \in Writers \cup {NoRow}  BY <1>t DEF TypeOK
    <3> QED  BY <1>t, <1>5, <2>1, <3>1 DEF WriterInv, Kept, Absent
  <2> QED  BY <1>1, <1>2, <1>3, <1>t, <2>1, <2>2 DEF WriterInv
<1> QED  BY <1>5, <1>6 DEF RefusalInv

\* The steps of a draft before its save.
LEMMA DraftQuiet ==
    ASSUME PaymentInv, RefusalInv, NEW d \in Drafts,
           \/ \E i \in Investments : BeginDraft(d, i)
           \/ DraftFails(d) \/ ReadDraftRow(d)
    PROVE  RefusalInv'
<1>t. TypeOK /\ d \in Actors /\ d \in Writers /\ d \notin Calls /\ WriterInv(d)
  BY OtherKnows DEF Writers, RefusalInv
<1>0. d \notin Workers /\ d \notin Requests  BY <1>t DEF Calls
<1>1. ASSUME NEW i \in Investments, BeginDraft(d, i)  PROVE RefusalInv'
  <2>1. /\ pc[d] = "idle" /\ seen' = seen /\ outcome' = outcome
        /\ UNCHANGED <<investment, transaction, claim>>
        /\ \A b \in Actors \ {d} : pc'[b] = pc[b] /\ target'[b] = target[b]
    BY <1>1, <1>t DEF BeginDraft, TypeOK
  <2>2. seen'[d] = Nothing /\ transaction'[d] = Absent
    BY <1>t, <2>1, OtherKnows DEF WriterInv
  <2>3. WriterInv(d)'
    BY <1>0, <2>2, NothingType DEF WriterInv, Nothing
  <2> QED  BY <1>t, <2>1, <2>3, QuietStep
<1>2. ASSUME DraftFails(d) \/ ReadDraftRow(d)  PROVE RefusalInv'
  <2>1. /\ pc[d] \notin {"idle", "done"}
        /\ UNCHANGED <<investment, transaction, claim, target>>
    BY <1>2 DEF DraftFails, ReadDraftRow
  <2>2. /\ seen[d].row # NoRow => transaction[seen[d].row].investment = Mine(d)
        /\ seen[d].hash # Null \/ seen[d].investment.status # "PENDING" =>
              investment[Mine(d)].status # "PENDING"
    BY <1>t DEF WriterInv
  <2>3. ASSUME NEW to \in {"linked", "done"}, Proceed(d, to), UNCHANGED seen
        PROVE  RefusalInv'
    <3>1. seen' = [seen EXCEPT ![d] = seen[d]]  BY <1>t, <2>3 DEF TypeOK
    <3> QED  BY <1>0, <1>t, <2>1, <2>2, <2>3, <3>1, ProceedQuiet
  <2>4. ASSUME NEW v \in RowsOf(Mine(d)), Proceed(d, "linked"),
               seen' = [seen EXCEPT ![d].row = v, ![d].hash = transaction[v].hash]
        PROVE  RefusalInv'
    <3> DEFINE s == [seen[d] EXCEPT !.row = v, !.hash = transaction[v].hash]
    <3>1. seen' = [seen EXCEPT ![d] = s]  BY <1>t, <2>4 DEF TypeOK
    <3>2. v \in Writers /\ transaction[v].investment = Mine(d)  BY DEF RowsOf
    <3>3. /\ s.row = v /\ s.hash = transaction[v].hash
          /\ s.investment = seen[d].investment
      BY <1>t DEF TypeOK
    <3>4. /\ s.row # NoRow => transaction[s.row].investment = Mine(d)
          /\ s.hash # Null \/ s.investment.status # "PENDING" =>
                investment[Mine(d)].status # "PENDING"
      BY <2>2, <3>2, <3>3 DEF RefusalInv, RowsPaid
    <3>5. "linked" # "done"  OBVIOUS
    <3> HIDE DEF s
    <3> QED  BY <1>0, <1>t, <2>1, <2>4, <3>1, <3>4, <3>5, ProceedQuiet
  <2> QED  BY <1>2, <2>3, <2>4 DEF DraftFails, ReadDraftRow
<1> QED  BY <1>1, <1>2

\* The event and the settlement only take investments out of PENDING.
LEMMA OthersKept ==
    ASSUME PaymentInv, RefusalInv,
           \/ \E e \in Events : SaveEvent(e) \/ \E i \in Investments : ReadEvent(e, i)
           \/ \E i \in Investments : Settle(i)
           \/ UNCHANGED vars
    PROVE  RefusalInv'
<1>t. TypeOK  BY DEF PaymentInv
<1> DEFINE aside ==
      /\ UNCHANGED <<transaction, claim, seen, outcome>>
      /\ \A i \in Investments : investment[i].status # "PENDING" =>
            investment'[i].status # "PENDING"
      /\ \A b \in Actors \ Events : pc'[b] = pc[b] /\ target'[b] = target[b]
<1>1. aside
  <2>1. ASSUME NEW e \in Events, SaveEvent(e)
        PROVE  aside
    <3>1. e \in Actors /\ Mine(e) \in Investments
      BY <2>1, OtherKnows DEF SaveEvent
    <3> QED  BY <1>t, <2>1, <3>1 DEF SaveEvent, Proceed, TypeOK
  <2>2. ASSUME NEW e \in Events, NEW i \in Investments, ReadEvent(e, i)
        PROVE  aside
    BY <1>t, <2>2 DEF ReadEvent, Proceed, TypeOK
  <2>3. ASSUME NEW i \in Investments, Settle(i)
        PROVE  aside
    BY <1>t, <2>3 DEF Settle, TypeOK, InvestmentRows
  <2>4. CASE UNCHANGED vars
    BY <2>4 DEF vars
  <2> QED  BY <2>1, <2>2, <2>3, <2>4
<1>2. Kept  BY <1>1 DEF Kept
<1>3. ASSUME NEW w \in Writers  PROVE WriterInv(w)'
  <2>1. w \in Actors \ Events /\ WriterInv(w)
    BY PaymentAssumption DEF Writers, Actors, Calls, RefusalInv
  <2> QED  BY <1>1, <1>2, <2>1, WriterStands
<1>4. RowsPaid'
  <2>1. ASSUME NEW w \in Writers, transaction[w].hash # Null
        PROVE  transaction[w].investment \in Investments
    BY <1>t, <2>1 DEF TypeOK, TransactionRows, Absent
  <2> QED  BY <1>1, <2>1 DEF RefusalInv, RowsPaid
<1> QED  BY <1>3, <1>4 DEF RefusalInv

\* Nobody has been refused anything at the start.
LEMMA InitRefusal == Init => RefusalInv
<1> SUFFICES ASSUME Init  PROVE RefusalInv
  OBVIOUS
<1>1. RowsPaid  BY DEF Init, RowsPaid, Absent
<1>2. ASSUME NEW w \in Writers  PROVE WriterInv(w)
  <2>1. /\ pc[w] = "idle" /\ seen[w] = Nothing /\ transaction[w] = Absent
        /\ w \in Requests => outcome[w] = "none"
    BY DEF Init, Writers, Actors, Calls
  <2> QED  BY <2>1, NothingType DEF WriterInv, Refused, Nothing
<1> QED  BY <1>1, <1>2 DEF RefusalInv

\* Every action preserves it.
LEMMA NextRefusal == PaymentInv /\ RefusalInv /\ [Next]_vars => RefusalInv'
<1> SUFFICES ASSUME PaymentInv, RefusalInv, [Next]_vars  PROVE RefusalInv'
  OBVIOUS
<1>1. ASSUME NEW c \in Calls, NEW t \in IF c \in Workers THEN Candidates ELSE Asked,
             Begin(c, t)
      PROVE  RefusalInv'
  BY <1>1, BeginQuiet
<1>2. ASSUME NEW c \in Calls, Advance(c) \/ FetchFails(c) \/ Fail(c)  PROVE RefusalInv'
  BY <1>2, CallQuiet, ReadTransactionsQuiet, CreditKept DEF Advance
<1>3. ASSUME NEW d \in Drafts, NEW i \in Investments, BeginDraft(d, i)  PROVE RefusalInv'
  BY <1>3, DraftQuiet
<1>4. ASSUME NEW d \in Drafts, DraftFails(d) \/ ReadDraftRow(d) \/ SaveDraft(d)
      PROVE  RefusalInv'
  BY <1>4, DraftQuiet, SaveDraftKept
<1>5. CASE \/ \E e \in Events : SaveEvent(e) \/ \E i \in Investments : ReadEvent(e, i)
           \/ \E i \in Investments : Settle(i)
           \/ UNCHANGED vars
  BY <1>5, OthersKept
<1> QED
  BY <1>1, <1>2, <1>3, <1>4, <1>5 DEF Next

\* A caller is only refused for a reason that lasts: the claim on its payment is
\* never given up, and the rows its investment was found to have stay its rows,
\* although drafts, the worker and other requests write over them.
THEOREM RefusalsJustified == Spec => []RefusalJustified
<1>1. PaymentInv /\ RefusalInv => RefusalJustified
  BY DEF RefusalInv, WriterInv, Refused, RefusalJustified, Writers, Calls
<1> QED
  BY <1>1, InitPayment, NextPayment, InitRefusal, NextRefusal, PTL DEF Spec
=============================================================================
