---------------------------- MODULE MCSettlement ----------------------------
(***************************************************************************)
(* Instances of Settlement for TLC: two investors of one unit each, paid   *)
(* or not yet, and a row a buyer may get; two identical requests of the    *)
(* seller, one of a stranger, and the two jobs, whose parameters differ;   *)
(* one verification and one event that load an investment at any time and  *)
(* save it at any later one.                                               *)
(* SettlementMath, ContractCalls and FeeSchedules, evaluated here, are     *)
(* about what a settlement computes, the calls to the chain that it makes  *)
(* and the fee it charges.                                                 *)
(***************************************************************************)
EXTENDS Settlement, SettlementMath, FiniteSets

MCShares == [i \in Investments |-> IF i = "i3" THEN 0 ELSE 1]
MCWallet == [c \in Callers |-> IF c \in {"hourly", "maturity"} THEN "system"
                               ELSE IF c = "stranger" THEN "other" ELSE "seller"]
MCParams == [c \in Callers |-> IF c \in {"s1", "s2"} THEN "seller's" ELSE c]

AllDeployments == [distributor : BOOLEAN, sellerFound : BOOLEAN]
WithDistributor == [distributor : {TRUE}, sellerFound : {TRUE}]

-----------------------------------------------------------------------------
(* SettlementMath on small numbers, before it is proved.                   *)

\* The investors together never get more than there is, and less than one unit
\* each is left over.
ASSUME NothingOverpaid ==
    \A n \in 1 .. 3 : \A a \in [1 .. n -> 1 .. 4], p \in 1 .. 12, b \in {0, 2500, 3333, 10000} :
        Remainder(a, n, p, b) \in 0 .. n - 1

\* When the client of the distributor accepts what was computed.
ASSUME AcceptedExactly ==
    \A n \in 1 .. 2 : \A a \in [1 .. n -> 1 .. 3], p \in 1 .. 10, b \in {0, 1, 5, 50, 3000, 10000} :
        Payable(a, n, p, b) <=> Remainder(a, n, p, b) > 0 \/ FeeRest(p, b) < 10

\* One investor, a fee of one percent: 0.0050 cannot be paid, 0.0100 can.
ASSUME FeeBelowFourDecimals ==
    ~ Payable([i \in 1 .. 1 |-> 7], 1, 50, 100) /\ Payable([i \in 1 .. 1 |-> 7], 1, 100, 100)

\* Writing an amount and reading it again gives the amount.
ASSUME DecimalsRoundTrip ==
    \A v \in (-12 .. 12) \cup {-12345, 9999, 10000, 10001, 99990, 1234567} : Scaled(Decimal(v)) = v

-----------------------------------------------------------------------------
LOCAL INSTANCE BoundedRuns
Contract == INSTANCE ContractCalls
Fee == INSTANCE FeeSchedules

-----------------------------------------------------------------------------
(***************************************************************************)
(* ContractCalls evaluated on calls of up to three attempts and polls, and *)
(* on six requests that ask for the pause flag.                            *)
(***************************************************************************)

LOCAL Escrow == Contract!SettleEscrow(3, 2, "available") \cup Contract!RegisterInvoice(3, 2, "available")
LOCAL Refusals ==
    {"on_chain_settlement_failed", "soroban_register_invoice_rejected", "soroban_register_invoice_failed"}

\* Who is told of success has it on chain.
ASSUME OkMeansSettled ==
    \A o \in Escrow \cup Contract!DistributePayouts(3) : o.answer = "ok" => o.fate = "SUCCESS"

\* A transaction that succeeded and of which the caller is told otherwise is
\* queued, unless no submission was answered or a repeated one was refused.
ASSUME UnansweredIsQueued ==
    \A o \in Escrow : o.fate = "SUCCESS" /\ o.answer # "ok" =>
        o.queued \/ o.answer = "soroban_submission_failed" \/ o.answer \in Refusals

\* With one attempt a refusal is final; withRpcRetry makes it possible that the
\* first submission was taken, its answer lost, and the second one refused.
ASSUME OneAttemptIsRefusedForGood ==
    /\ \A o \in Contract!SettleEscrow(1, 2, "available") : o.answer \in Refusals => o.fate # "SUCCESS"
    /\ \E o \in Contract!SettleEscrow(2, 2, "available") : o.answer \in Refusals /\ o.fate = "SUCCESS"

\* A transaction that expired is queued too, and no answer will ever decide it.
ASSUME ExpiredIsQueued == \E o \in Escrow : o.queued /\ o.fate = "expired"

\* Without the database nothing is queued, and the caller is told so.
ASSUME UnqueuedIsTold ==
    \A database \in {"none", "failing"} : \A o \in Contract!SettleEscrow(2, 2, database) :
        ~o.queued /\ o.answer # "transaction_confirmation_timeout"

\* A payout whose poll times out, or is lost once, may have been made: it is an
\* error all the same, and nobody looks at the transaction again.
ASSUME PayoutsAreNeverQueued ==
    /\ \A o \in Contract!DistributePayouts(3) : ~o.queued
    /\ \A a \in {"soroban_timeout", "soroban_rpc_error"} :
        \E o \in Contract!DistributePayouts(3) : o.answer = a /\ o.fate = "SUCCESS"

\* A payout that is said to be rejected or reverted was not made.
ASSUME RefusedPayoutsWereNotMade ==
    \A o \in Contract!DistributePayouts(3) :
        o.answer \in {"soroban_tx_rejected", "soroban_tx_reverted"} => o.fate # "SUCCESS"

-----------------------------------------------------------------------------
LOCAL Nodes == [1 .. 6 -> {"paused", "running", "down"}]

\* What requests at the times 1 .. 6 know, with the node's answers.
LOCAL Readings(node, ttl) ==
    LET read[t \in 0 .. 6] ==
            IF t = 0 THEN [known |-> FALSE, paused |-> FALSE, at |-> 0]
            ELSE Contract!Pause(read[t - 1], t, ttl, node[t])
    IN  read

\* A pause is noticed when the reading expires, if the node answers then.
ASSUME PauseIsNoticed ==
    \A node \in Nodes, ttl \in 1 .. 3 : \A t \in 1 .. 6 :
        (t > ttl /\ \A u \in t - ttl .. t : node[u] = "paused") => Contract!Refused(Readings(node, ttl)[t])

\* Nothing is refused that was not paused at some time before.
ASSUME RefusedWasPaused ==
    \A node \in Nodes, ttl \in 1 .. 3 : \A t \in 1 .. 6 :
        Contract!Refused(Readings(node, ttl)[t]) => \E u \in 1 .. t : node[u] = "paused"

\* A node that is down leaves the last reading in force, for as long as it is.
ASSUME LastReadingStays ==
    \A node \in Nodes : \A t \in 2 .. 6 : node[t] = "down" =>
        Contract!Refused(Readings(node, 1)[t]) = Contract!Refused(Readings(node, 1)[t - 1])

\* A request passes only if every contract is known to run.
ASSUME PausedDecides ==
    \A known \in [{"escrow", "token"} -> {"paused", "running", "late"}] :
        /\ Contract!Guarded(known) = "next" <=> \A c \in DOMAIN known : known[c] = "running"
        /\ Contract!Guarded(known) = "CONTRACT_PAUSED" <=> \E c \in DOMAIN known : known[c] = "paused"

-----------------------------------------------------------------------------
(***************************************************************************)
(* The runs of FeeSchedules with one administrator, with two, and with an  *)
(* invalidation that gets lost, up to three schedules.                     *)
(***************************************************************************)

LOCAL Steps(readers, admins, s) ==
    Fee!Expire(s) \cup UNION {Fee!Read(s, p) \cup Fee!Refill(s, p) : p \in readers}
              \cup UNION {Fee!Begin(s, p) \cup Fee!Commit(s, p) \cup Fee!Invalidate(s, p) : p \in admins}
LOCAL IsQuiet(s) == \A p \in DOMAIN s.process : s.process[p] = Fee!Idle
LOCAL Runs(readers, admins, n) ==
    Within(LAMBDA s : IF Len(s.rows) < 3 \/ ~IsQuiet(s) THEN Steps(readers, admins, s) ELSE {},
           {Fee!Initially(readers \cup admins)}, n)

\* With one administrator there is always one active schedule, and once the
\* call that changed it has returned nobody is served an old one, however late
\* a reader that had read it before comes to the cache.
ASSUME OneAdministrator ==
    \A s \in Runs({"r", "q"}, {"a"}, 12) :
        /\ Cardinality(Fee!Active(s)) = 1
        /\ s.process["a"].at # "committed" => Fee!Served(s) = Fee!Current(s)

\* Two calls that overlap may leave two active schedules, or, when their
\* invalidations are not in the order of their commits, an old one in the cache;
\* there is an active schedule all the same.
ASSUME TwoAdministrators ==
    LET runs == Runs({"r"}, {"a", "b"}, 9)
    IN  /\ \A s \in runs : Fee!Active(s) # {}
        /\ \E s \in runs : IsQuiet(s) /\ Cardinality(Fee!Active(s)) = 2
        /\ \E s \in runs : IsQuiet(s) /\ Fee!Served(s) # Fee!Current(s)

\* An invalidation that is lost leaves the old schedule until it expires.
ASSUME LostInvalidation ==
    \E s \in Within(LAMBDA s : Steps({"r"}, {"a"}, s) \cup Fee!Lose(s, "a"), {Fee!Initially({"r", "a"})}, 6) :
        IsQuiet(s) /\ Fee!Served(s) # Fee!Current(s)
=============================================================================
