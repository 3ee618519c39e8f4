----------------------------- MODULE Settlement -----------------------------
(***************************************************************************)
(* The settlement of one funded invoice.  services/settlement.service.ts   *)
(* pays the confirmed investors through the payment distributor, when one  *)
(* is configured, and then records what it did; the settlement intent ties *)
(* the two together across crashes and lost answers.  Next to it run the   *)
(* administrator's settlement (services/admin-settlement.service.ts), the  *)
(* purchases on the secondary market, the verification of payments and the *)
(* event indexer.                                                          *)
(*                                                                         *)
(* The transactions of all but the last two hold the row lock of the       *)
(* invoice from their first statement, so each is one action.  The last    *)
(* two take no lock: they load an investment, confirm it and save all of   *)
(* it later, the amount they loaded included.  A call that is refused      *)
(* changes nothing and has no action unless it ends a call that began      *)
(* earlier.                                                                *)
(***************************************************************************)
EXTENDS Integers, Sequences

CONSTANTS
    Investments,
    Shares,       \* Shares[i]: the amount of i; 0 for a row a purchase may add
    Callers,      \* callers of settleInvoice: requests, the hourly and the maturity job
    Wallet,       \* Wallet[c]: the actor wallet is the seller's, the system's or another
    Params,       \* Params[c]: proceeds, actor, seller id and trigger of its calls
    Admins,       \* callers of AdminSettlementService.settleInvoice
    Verifiers,    \* calls of verifyPayment
    Deliveries,   \* deliveries of investment_funded events to the indexer
    Topics,       \* other events: settle_escrow is "settle", payment_recorded "payment"
    MaxHolding,   \* the bound of an amount that purchases reach
    Deployments   \* is a distributor configured, is the seller's account found

ASSUME SettlementAssumption ==
    /\ Shares \in [Investments -> Nat]
    /\ Callers \cap Admins = {}
    /\ Topics \subseteq {"settle", "payment"}
    /\ Wallet \in [Callers -> {"seller", "system", "other"}]
    /\ "none" \notin {Params[c] : c \in Callers}
    /\ Deployments \subseteq [distributor : BOOLEAN, sellerFound : BOOLEAN]

VARIABLES
    deployment,
    status,         \* of the invoice
    recorded,       \* invoice_status_history has the row of its settlement
    matured,        \* the due date has come
    investment,     \* investment[i]: status and amount
    intent,         \* the row of settlement_intents
    payouts,        \* what the distributor paid, oldest first
    escrowSettled,  \* settle_escrow succeeded on chain
    pc,
    hash,           \* hash[c]: the payout caller c knows of, 0 if none
    copy,           \* copy[v]: what v has loaded of an investment
    rewritten       \* the investments of the snapshot of which a save has since
                    \* written back another amount

setting == <<deployment, matured>>
books == <<status, recorded, investment>>
callers == <<pc, hash>>
saves == <<copy, rewritten>>
vars == <<setting, books, intent, payouts, escrowSettled, callers, saves>>

Workers == {c \in Callers : Wallet[c] = "system"}

InvestmentRows == [status : {"none", "PENDING", "CONFIRMED", "SETTLED"}, amount : Nat]
IntentStatuses == {"none", "PREPARED", "SUBMITTING", "DISTRIBUTED", "COMPLETED"}
Intents(S) == [status : IntentStatuses, params : {Params[c] : c \in Callers} \cup {"none"},
               snapshot : [S -> Nat], hash : Nat]
NoIntent == [status |-> "none", params |-> "none", snapshot |-> <<>>, hash |-> 0]
Places == {"idle", "prepared", "claimed", "paid", "distributed", "on chain"}

Savers == Verifiers \cup Deliveries
Copies == [at : {"start", "loaded", "saved"}, of : SUBSET Investments, amount : Nat]

TypeOK ==
    /\ deployment \in Deployments
    /\ status \in {"FUNDED", "SETTLED"}
    /\ recorded \in BOOLEAN /\ matured \in BOOLEAN
    /\ investment \in [Investments -> InvestmentRows]
    /\ \E S \in SUBSET Investments : intent \in Intents(S)
    /\ \A n \in DOMAIN payouts : DOMAIN payouts[n] \subseteq Investments
    /\ escrowSettled \in BOOLEAN
    /\ pc \in [Callers \cup Admins -> Places]
    /\ hash \in [Callers -> 0 .. Len(payouts)]
    /\ copy \in [Savers -> Copies]
    /\ rewritten \subseteq Investments

Init ==
    /\ deployment \in Deployments
    /\ status = "FUNDED"
    /\ recorded = FALSE /\ matured = FALSE
    /\ \E late \in SUBSET Investments : investment = [i \in Investments |->
          [status |-> IF Shares[i] = 0 THEN "none" ELSE IF i \in late THEN "PENDING" ELSE "CONFIRMED",
           amount |-> Shares[i]]]
    /\ intent = NoIntent
    /\ payouts = <<>>
    /\ escrowSettled = FALSE
    /\ pc = [a \in Callers \cup Admins |-> "idle"]
    /\ hash = [c \in Callers |-> 0]
    /\ copy = [v \in Savers |-> [at |-> "start", of |-> {}, amount |-> 0]]
    /\ rewritten = {}

-----------------------------------------------------------------------------
Confirmed == {i \in Investments : investment[i].status = "CONFIRMED"}

\* A return can be computed: there are confirmed investments, not all of zero.
Owed == \E i \in Confirmed : investment[i].amount > 0

\* What a payout is computed from and compared with afterwards.
Snapshot == [i \in Confirmed |-> investment[i].amount]

\* Every confirmed investment is settled, and the invoice with them through the
\* state machine, which writes the history row.
RecordSettlement ==
    /\ status' = "SETTLED" /\ recorded' = TRUE
    /\ investment' = [i \in Investments |->
                        IF i \in Confirmed THEN [investment[i] EXCEPT !.status = "SETTLED"]
                        ELSE investment[i]]

\* The wallet checks of the two transactions of settleInvoice: only the second
\* exempts the jobs, which are not the seller.  Mutant: the second does not.
SellerOnly(c) == deployment.sellerFound => Wallet[c] = "seller"

MayPrepare(c) == deployment.sellerFound => Wallet[c] = "seller"

MayFinalize(c) == deployment.sellerFound => Wallet[c] \in {"seller", "system"}

\* The jobs settle what is due.
Starts(c) == pc[c] = "idle" /\ (c \in Workers => matured)

Go(c, to, h) ==
    /\ pc' = [pc EXCEPT ![c] = to]
    /\ hash' = [hash EXCEPT ![c] = h]

-----------------------------------------------------------------------------
(* settleInvoice                                                           *)

\* prepareSettlementIntent: the intent of the same parameters, or a new one
\* with a snapshot of the confirmed investments.
Prepare(c) ==
    /\ deployment.distributor /\ Starts(c) /\ MayPrepare(c)
    /\ status = "FUNDED"
    /\ \/ /\ intent.status = "none" /\ Owed
          /\ intent' = [status |-> "PREPARED", params |-> Params[c],
                        snapshot |-> Snapshot, hash |-> 0]
          /\ Go(c, "prepared", 0)
       \/ /\ intent.status = "PREPARED" /\ intent.params = Params[c]
          /\ Go(c, "prepared", 0) /\ UNCHANGED intent
       \/ /\ intent.status = "DISTRIBUTED" /\ intent.params = Params[c]
          /\ Go(c, "distributed", intent.hash) /\ UNCHANGED intent
    /\ UNCHANGED <<setting, books, payouts, escrowSettled, saves>>

\* Mutant: whoever prepared may submit.
ClaimUnchecked(c) ==
    /\ pc[c] = "prepared"
    /\ intent' = [intent EXCEPT !.status = "SUBMITTING"]
    /\ Go(c, "claimed", 0)
    /\ UNCHANGED <<setting, books, payouts, escrowSettled, saves>>

\* claimSettlementIntent: one of the callers that found it PREPARED submits.
Claim(c) ==
    /\ pc[c] = "prepared"
    /\ IF intent.status = "PREPARED"
       THEN intent' = [intent EXCEPT !.status = "SUBMITTING"] /\ Go(c, "claimed", 0)
       ELSE UNCHANGED intent /\ Go(c, "idle", 0)
    /\ UNCHANGED <<setting, books, payouts, escrowSettled, saves>>

\* distributePayouts: paid and confirmed, paid with the answer lost or timed
\* out, or not paid.  Mutant: any answer will do.
DistributeOptimistically(c) ==
    /\ pc[c] = "claimed"
    /\ \/ payouts' = Append(payouts, intent.snapshot)
       \/ UNCHANGED payouts
    /\ Go(c, "paid", Len(payouts) + 1)
    /\ UNCHANGED <<setting, books, intent, escrowSettled, saves>>

Distribute(c) ==
    /\ pc[c] = "claimed"
    /\ \/ /\ payouts' = Append(payouts, intent.snapshot)
          /\ \/ Go(c, "paid", Len(payouts) + 1)
             \/ Go(c, "idle", 0)
       \/ UNCHANGED payouts /\ Go(c, "idle", 0)
    /\ UNCHANGED <<setting, books, intent, escrowSettled, saves>>

\* markSettlementDistributed.
MarkDistributed(c) ==
    /\ pc[c] = "paid"
    /\ IF intent.status = "SUBMITTING"
       THEN /\ intent' = [intent EXCEPT !.status = "DISTRIBUTED", !.hash = hash[c]]
            /\ Go(c, "distributed", hash[c])
       ELSE UNCHANGED intent /\ Go(c, "idle", 0)
    /\ UNCHANGED <<setting, books, payouts, escrowSettled, saves>>

\* The intent the last transaction accepts: the payout is this one, and of
\* the investments as they are now.  Mutant: as they were then.
IntentConfirmed(c) == intent.status = "DISTRIBUTED" /\ intent.hash = hash[c]

IntentHolds(c) ==
    /\ intent.status = "DISTRIBUTED" /\ intent.hash = hash[c]
    /\ intent.snapshot = Snapshot

\* The last transaction of settleInvoice; the only one without a distributor.
Finalize(c) ==
    /\ IF deployment.distributor THEN pc[c] = "distributed" ELSE Starts(c)
    /\ IF /\ MayFinalize(c) /\ status = "FUNDED" /\ Owed
          /\ deployment.distributor => IntentHolds(c)
       THEN /\ RecordSettlement
            /\ intent' = IF deployment.distributor
                         THEN [intent EXCEPT !.status = "COMPLETED"] ELSE intent
       ELSE UNCHANGED <<books, intent>>
    /\ Go(c, "idle", 0)
    /\ UNCHANGED <<setting, payouts, escrowSettled, saves>>

\* The process of the caller dies, or a transaction fails.
Crash(c) ==
    /\ pc[c] # "idle"
    /\ Go(c, "idle", 0)
    /\ UNCHANGED <<setting, books, intent, payouts, escrowSettled, saves>>

-----------------------------------------------------------------------------
(* The administrator's settlement                                          *)

\* settleEscrowOnChain; the answer may be lost.
AdminSettleOnChain(a) ==
    /\ pc[a] = "idle"
    /\ escrowSettled' = TRUE
    /\ \/ pc' = [pc EXCEPT ![a] = "on chain"]
       \/ UNCHANGED pc
    /\ UNCHANGED <<setting, books, intent, payouts, hash, saves>>

\* Mutant: the status is not read again after the call to the chain.
AdminRecordAgain(a) ==
    /\ pc[a] = "on chain"
    /\ IF Owed THEN RecordSettlement ELSE UNCHANGED books
    /\ pc' = [pc EXCEPT ![a] = "idle"]
    /\ UNCHANGED <<setting, intent, payouts, escrowSettled, hash, saves>>

\* The database part, of an invoice that is still FUNDED.
AdminRecord(a) ==
    /\ pc[a] = "on chain"
    /\ IF status = "FUNDED" /\ Owed
       THEN RecordSettlement ELSE UNCHANGED books
    /\ pc' = [pc EXCEPT ![a] = "idle"]
    /\ UNCHANGED <<setting, intent, payouts, escrowSettled, hash, saves>>

-----------------------------------------------------------------------------
(* The others                                                              *)

Mature ==
    /\ ~matured
    /\ matured' = TRUE
    /\ UNCHANGED <<deployment, books, intent, payouts, escrowSettled, callers, saves>>

\* verifyPayment or the event begins: verifyPayment refuses what is CONFIRMED,
\* the event nothing.
LoadInvestment(v, i) ==
    /\ copy[v].at = "start"
    /\ investment[i].status # "none"
    /\ v \in Verifiers => investment[i].status # "CONFIRMED"
    /\ copy' = [copy EXCEPT ![v] = [at |-> "loaded", of |-> {i}, amount |-> investment[i].amount]]
    /\ UNCHANGED <<setting, books, intent, payouts, escrowSettled, callers, rewritten>>

\* It ends: the investment is CONFIRMED, whatever it is by now and whatever the
\* status of the invoice, and has the amount that was loaded.
SaveConfirmed(v, i) ==
    /\ copy[v].at = "loaded" /\ copy[v].of = {i}
    /\ investment' = [investment EXCEPT ![i] = [status |-> "CONFIRMED", amount |-> copy[v].amount]]
    /\ rewritten' = IF i \in DOMAIN intent.snapshot /\ copy[v].amount # investment[i].amount
                    THEN rewritten \cup {i} ELSE rewritten
    /\ copy' = [copy EXCEPT ![v] = [at |-> "saved", of |-> {}, amount |-> 0]]
    /\ UNCHANGED <<setting, status, recorded, intent, payouts, escrowSettled, callers>>

\* The intents that keep the holdings as they are.  Mutant: not once paid.
Submitting == intent.status \in {"PREPARED", "SUBMITTING"}

SettlementInProgress == intent.status \in {"PREPARED", "SUBMITTING", "DISTRIBUTED"}

\* A position that can be sold from.  Mutant: an empty one too.
AnyPosition(i) == i \in Confirmed

Sellable(i) == i \in Confirmed /\ investment[i].amount > 0

\* One unit changes hands on the secondary market: from a confirmed investment
\* to the confirmed investment of the buyer, or to a new one.
Purchase(i, j) ==
    /\ status = "FUNDED" /\ ~SettlementInProgress
    /\ i # j /\ Sellable(i)
    /\ investment[j].status \in {"none", "CONFIRMED"} /\ investment[j].amount < MaxHolding
    /\ investment' = [investment EXCEPT ![i].amount = @ - 1,
                        ![j] = [status |-> "CONFIRMED", amount |-> @.amount + 1]]
    /\ UNCHANGED <<setting, status, recorded, intent, payouts, escrowSettled, callers, saves>>

\* The indexer sees settle_escrow, which settles whatever it finds.
ApplySettleEvent ==
    /\ escrowSettled /\ "settle" \in Topics
    /\ status' = "SETTLED"
    /\ UNCHANGED <<setting, recorded, investment, intent, payouts, escrowSettled, callers, saves>>

\* It sees payment_recorded, or payment, which settle what is FUNDED.
ApplyPaymentEvent ==
    /\ "payment" \in Topics
    /\ status = "FUNDED"
    /\ status' = "SETTLED"
    /\ UNCHANGED <<setting, recorded, investment, intent, payouts, escrowSettled, callers, saves>>

-----------------------------------------------------------------------------
Settle(c) == Prepare(c) \/ Claim(c) \/ Distribute(c) \/ MarkDistributed(c) \/ Finalize(c)

Next ==
    \/ \E c \in Callers : Settle(c) \/ Crash(c)
    \/ \E a \in Admins : AdminSettleOnChain(a) \/ AdminRecord(a)
    \/ \E i, j \in Investments : Purchase(i, j)
    \/ \E v \in Savers, i \in Investments : LoadInvestment(v, i) \/ SaveConfirmed(v, i)
    \/ Mature \/ ApplySettleEvent \/ ApplyPaymentEvent

Spec == Init /\ [][Next]_vars

\* The jobs run again and again, and what they begin goes on.
FairSpec == Spec /\ \A c \in Workers : WF_vars(Settle(c))
-----------------------------------------------------------------------------
Settled == {i \in Investments : investment[i].status = "SETTLED"}

\* The investors are paid once, however many callers prepare together, crash
\* or lose the answer: "fails closed rather than resubmitting after an
\* ambiguous payout error".
PaidAtMostOnce == Len(payouts) <= 1

\* The intent never claims a payout that was not made, nor permits one that
\* was: it reads DISTRIBUTED or COMPLETED only with the hash of a payout of its
\* snapshot, and none or PREPARED only as long as nothing was paid.
IntentTellsTheTruth ==
    /\ intent.status \in {"DISTRIBUTED", "COMPLETED"} =>
          intent.hash \in DOMAIN payouts /\ payouts[intent.hash] = intent.snapshot
    /\ intent.status \in {"none", "PREPARED"} => payouts = <<>>

\* Who was paid still holds what he was paid for: no purchase slips in between
\* the snapshot of the holdings and the end of the settlement.  Only a save of
\* an amount that was loaded before can part the two.
PayoutsMatchHoldings ==
    \A n \in DOMAIN payouts : \A i \in DOMAIN payouts[n] \ rewritten :
        investment[i].amount = payouts[n][i]

\* A settlement recorded as complete settled no one who was not paid, and left
\* no one out who was, although confirmations arrive between the payout and its
\* record: who was paid is SETTLED, or was confirmed once more since.
RecordMatchesPayout ==
    intent.status = "COMPLETED" =>
        /\ Settled \subseteq DOMAIN payouts[intent.hash]
        /\ DOMAIN payouts[intent.hash] \subseteq Settled \cup Confirmed

\* What makes them inductive.  Only who turned the intent to SUBMITTING submits,
\* and nothing is paid before; the one payout is of the intent's snapshot; an
\* intent is completed with its invoice, and no investment is settled before.
Submits(c) == pc[c] \in {"claimed", "paid"}

OneSubmitter == \A c, d \in Callers : Submits(c) /\ Submits(d) => c = d

SubmitterHoldsIntent ==
    \A c \in Callers :
        /\ Submits(c) => intent.status = "SUBMITTING"
        /\ pc[c] = "claimed" => payouts = <<>>
        /\ pc[c] = "paid" => hash[c] \in DOMAIN payouts

PaidForIntent == payouts \in {<<>>, <<intent.snapshot>>}

HoldingsFrozen ==
    intent.status # "none" =>
        \A i \in DOMAIN intent.snapshot \ rewritten :
            investment[i].amount = intent.snapshot[i]

RewrittenSinceSnapshot ==
    /\ rewritten \subseteq DOMAIN intent.snapshot
    /\ intent.status = "none" => DOMAIN intent.snapshot = {}

NoneSettledEarly ==
    status = "FUNDED" => Settled = {} /\ intent.status # "COMPLETED"

SettlementInv ==
    /\ TypeOK /\ OneSubmitter /\ SubmitterHoldsIntent /\ PaidForIntent
    /\ IntentTellsTheTruth /\ HoldingsFrozen /\ RewrittenSinceSnapshot
    /\ NoneSettledEarly /\ RecordMatchesPayout

\* The settlement keeps what it promises: it pays once and what is held, and it
\* is closed once, by its payout with exactly the investors who were paid.  What
\* a late save makes of an amount after the snapshot is left aside.
Holding(i) == IF i \in rewritten THEN intent.snapshot[i] ELSE investment[i].amount

Ledger == INSTANCE PayoutLedger WITH
    held <- [i \in Investments |-> Holding(i)], paid <- payouts,
    settled <- Settled, closed <- status = "SETTLED", complete <- intent.status = "COMPLETED"

ImplementsPromise == Ledger!LedgerSpec

\* An invoice is settled once: no later call, and no administrator who found
\* it FUNDED before, settles further investments of it.  A late confirmation
\* may still take one out.
SettledOnce == [][status = "SETTLED" => status' = "SETTLED" /\ Settled' \subseteq Settled]_vars

\* Without a distributor, the jobs settle the investors of every matured
\* invoice that owes them something, unless the indexer has closed it without
\* them, or late saves have made all that is owed zero.
Due == matured /\ status = "FUNDED" /\ Owed

SettledByIndexer == status = "SETTLED" /\ ~recorded

DirectlySettled ==
    (~deployment.distributor /\ Due) ~> (Settled # {} \/ SettledByIndexer \/ ~Owed)

\* The same for every deployment: the jobs identify themselves as the system,
\* whose wallet need not be the seller's.
AutomaticallySettled == Due ~> (status = "SETTLED")

\* "Every status change must go through InvoiceStateMachine.transition": with
\* each there is a row of invoice_status_history, written in its transaction.
EveryChangeRecorded == [][status' # status => recorded' # recorded]_vars
=============================================================================
