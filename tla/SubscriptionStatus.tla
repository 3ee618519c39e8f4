------------------------- MODULE SubscriptionStatus -------------------------
(***************************************************************************)
(* Whether a wallet has access to a key's content:                         *)
(* services/subscription-status.service.ts over                            *)
(* services/stellar/soroban-subscription-reader.ts, for one wallet, key    *)
(* and request at a time.                                                  *)
(*                                                                         *)
(* A state has the chain [balance, min, expiry, ledger], the parts of it   *)
(* the request has yet to read and those it has found, the cached answer   *)
(* and whether its key is remembered for the next event.  (index.ts makes  *)
(* the service without registering it on the event bus: no event reaches   *)
(* it there.)                                                              *)
(***************************************************************************)
EXTENDS Integers, FiniteSets

LOCAL INSTANCE FiniteSetsExt

Nothing == {}
Parts == {"balance", "min", "expiry", "ledger"}

\* A part of the chain that cannot be read counts as none: no balance, no
\* minimum, no expiry, the ledger 0.
Unread == [balance |-> 0, min |-> 0, expiry |-> Nothing, ledger |-> 0]

\* buildStatusView.
Status(reading, perDay) ==
    LET expired == \E e \in reading.expiry : e <= reading.ledger
        subscribed == reading.balance >= reading.min /\ ~expired
    IN  [subscribed |-> subscribed,
         daysRemaining |->
            IF subscribed /\ reading.expiry # Nothing
            THEN (Max(reading.expiry) - reading.ledger + perDay - 1) \div perDay ELSE 0]

Quiet(chain) ==
    [chain |-> chain, at |-> "idle", left |-> {}, found |-> Unread, cache |-> Nothing, remembered |-> FALSE]

-----------------------------------------------------------------------------
(* getStatus: the cached answer, or else the four reads, each when it      *)
(* likes, then the answer is cached, then its key is remembered.           *)

Ask(s) ==
    IF s.at # "idle" \/ s.cache # Nothing THEN {}
    ELSE {[s EXCEPT !.at = "reading", !.left = Parts, !.found = Unread]}

Read(s, part, fails) ==
    IF s.at # "reading" \/ part \notin s.left THEN {}
    ELSE {[s EXCEPT !.left = @ \ {part}, !.found[part] = IF fails THEN @ ELSE s.chain[part]]}

Store(s, perDay) ==
    CASE s.at = "reading" /\ s.left = {} -> {[s EXCEPT !.cache = {Status(s.found, perDay)}, !.at = "stored"]}
      [] s.at = "stored" -> {[s EXCEPT !.remembered = TRUE, !.at = "idle"]}
      [] OTHER -> {}

\* TtlCache drops the answer when its time is over.
Expire(s) == {[s EXCEPT !.cache = Nothing]}

\* handle of a change of holdings: the cached answers of the keys remembered go.
Invalidate(s) ==
    {[s EXCEPT !.cache = IF s.remembered THEN Nothing ELSE @, !.remembered = FALSE]}

-----------------------------------------------------------------------------
(* The chain: ledgers close, and a holding changes.                        *)

Close(s) == {[s EXCEPT !.chain.ledger = @ + 1]}
Hold(s, balance) == {[s EXCEPT !.chain.balance = balance]}
=============================================================================
