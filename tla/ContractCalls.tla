--------------------------- MODULE ContractCalls ---------------------------
(***************************************************************************)
(* What a call of a Soroban contract may come to: the escrow contract's    *)
(* client with its retries and its polling, the client of the payment      *)
(* distributor with neither a retry nor a queue, and the cached reading of *)
(* the pause flag that guards the routes.                                  *)
(*                                                                         *)
(* The network is outside: a request or an answer may be lost, and a       *)
(* transaction it took is decided or expires.  An outcome is a record of   *)
(* what the caller is answered, what became of the transaction, and        *)
(* whether it is queued for the confirmation worker; the operators are the *)
(* sets of outcomes that are possible.  Settlement has one action for each *)
(* call, and WorkerBatches what the worker does with the queue.            *)
(***************************************************************************)
EXTENDS Integers, FiniteSets

LOCAL INSTANCE FiniteSetsExt

Verdicts == {"SUCCESS", "FAILED"}

-----------------------------------------------------------------------------
(* Submitting and confirming                                               *)

\* One sendTransaction: whether the network has the transaction from now on.
Send(had) ==
    [answer : {"lost", "PENDING", "DUPLICATE"}, has : {TRUE}]
        \cup [answer : {"lost", "ERROR", "TRY_AGAIN_LATER"}, has : {had}]

\* withRpcRetry: attempts until one is answered; never sent again after that.
Submitted(attempts) ==
    LET tried[k \in 0 .. attempts] ==
            IF k = 0 THEN {[answer |-> "lost", has |-> FALSE]}
            ELSE UNION {IF r.answer = "lost" THEN Send(r.has) ELSE {r} : r \in tried[k - 1]}
    IN  tried[attempts]

\* What becomes of a transaction that the network has or has not.
Fates(has) == IF has THEN Verdicts \cup {"expired"} ELSE {"expired"}

\* waitForTransactionConfirmation: the first poll that shows the verdict; a poll
\* that is too early or whose answer is lost shows nothing.
Shown(fate, shows) ==
    IF fate \in Verdicts /\ \E p \in DOMAIN shows : shows[p] THEN fate ELSE "timeout"

\* recordPendingConfirmation: a second record of one hash is ignored.
Queued(database) ==
    CASE database = "none" -> [answer |-> "pending_confirmation_persistence_unavailable", queued |-> FALSE]
      [] database = "failing" -> [answer |-> "pending_confirmation_persistence_failed", queued |-> FALSE]
      [] OTHER -> [answer |-> "transaction_confirmation_timeout", queued |-> TRUE]

\* The rest of a call once the network's answer to the submission is r; the
\* names of a refusal at once and of a failed transaction are the caller's.
Concluded(r, fate, shows, database, names) ==
    LET shown == Shown(fate, shows)
        answer == IF r.answer = "lost" THEN "soroban_submission_failed"
                  ELSE IF r.answer = "ERROR" THEN names.rejected
                  ELSE IF shown = "FAILED" THEN names.failed
                  ELSE IF shown = "SUCCESS" THEN "ok" ELSE Queued(database).answer
    IN  [answer |-> answer, fate |-> fate,
         queued |-> /\ r.answer \notin {"lost", "ERROR"}
                    /\ shown = "timeout" /\ Queued(database).queued]

Calls(attempts, polls, database, names) ==
    UNION {{Concluded(r, f, s, database, names) : f \in Fates(r.has), s \in [1 .. polls -> BOOLEAN]} :
            r \in Submitted(attempts)}

\* What comes before the submission and may fail: nothing has been sent.
NotSent(answers) == [answer : answers, fate : {"expired"}, queued : {FALSE}]

\* settleEscrowOnChain
SettleEscrow(attempts, polls, database) ==
    NotSent({"rpc_not_configured", "error"})
        \cup Calls(attempts, polls, database,
                   [rejected |-> "on_chain_settlement_failed", failed |-> "on_chain_settlement_failed"])

\* executeRegisterInvoice
RegisterInvoice(attempts, polls, database) ==
    NotSent({"rpc_not_configured", "invalid_input", "soroban_account_fetch_failed", "soroban_prepare_failed"})
        \cup Calls(attempts, polls, database,
                   [rejected |-> "soroban_register_invoice_rejected",
                    failed |-> "soroban_register_invoice_failed"])

-----------------------------------------------------------------------------
(* The payment distributor: one request, and a poll that fails is an error *)

\* The rules of mapSorobanError in their order, by one word of each.
Rules == <<"timeout", "429", "revert", "auth", "limit">>
Categories ==
    <<"soroban_timeout", "soroban_rate_limited", "soroban_simulation_failed",
      "soroban_unauthorized", "soroban_capacity_exceeded">>

\* The words of the message, wherever they stand, come before the status.
Mapped(words, status) ==
    LET hits == {k \in DOMAIN Rules : Rules[k] \in words}
    IN  CASE hits # {} -> Categories[Min(hits)]
          [] hits = {} /\ status \in {"ERROR", "FAILED"} -> "soroban_tx_rejected"
          [] hits = {} /\ status = "TRY_AGAIN_LATER" -> "soroban_try_again_later"
          [] OTHER -> "soroban_rpc_error"

\* A request that is lost is an error of some wording.
LostAnswers == {Mapped(words, "none") : words \in SUBSET {Rules[k] : k \in DOMAIN Rules}}

\* The polls of distributePayouts: each "shows", shows "nothing", or is "lost".
Awaited(fate, polls) ==
    LET stops == {p \in DOMAIN polls : polls[p] = "lost" \/ (polls[p] = "shows" /\ fate \in Verdicts)}
    IN  IF stops = {} THEN {Mapped({"timeout"}, "none")}
        ELSE IF polls[Min(stops)] = "lost" THEN LostAnswers
        ELSE IF fate = "SUCCESS" THEN {"ok"} ELSE {"soroban_tx_reverted"}

\* distributePayouts, once its arguments are accepted (SettlementMath!Payable).
DistributePayouts(polls) ==
    LET answers(r, f, p) ==
            CASE r.answer = "lost" -> LostAnswers
              [] r.answer = "ERROR" -> {Mapped(words, "ERROR") : words \in SUBSET {Rules[k] : k \in DOMAIN Rules}}
              [] OTHER -> Awaited(f, p)
    IN  NotSent({"error"})
            \cup UNION {UNION {[answer : answers(r, f, p), fate : {f}, queued : {FALSE}] :
                                  f \in Fates(r.has), p \in [1 .. polls -> {"shows", "nothing", "lost"}]} :
                          r \in Send(FALSE)}

-----------------------------------------------------------------------------
(* The pause flag                                                          *)

\* checkContractPauseState at `now`, with what was read before and what the
\* node answers, if it does.
Pause(cached, now, ttl, node) ==
    IF cached.known /\ now - cached.at < ttl THEN cached
    ELSE IF node = "down" THEN cached
    ELSE [known |-> TRUE, paused |-> node = "paused", at |-> now]

\* What a request is told: unknown is not paused.
Refused(cached) == cached.known /\ cached.paused

\* checkContractNotPaused, of what is known of each contract when the time is
\* up: one that is paused decides, whatever else is missing.
Guarded(known) ==
    CASE \E c \in DOMAIN known : known[c] = "paused" -> "CONTRACT_PAUSED"
      [] \A c \in DOMAIN known : known[c] = "running" -> "next"
      [] OTHER -> "CONTRACT_PAUSE_CHECK_FAILED"
=============================================================================
