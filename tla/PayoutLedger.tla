---------------------------- MODULE PayoutLedger ----------------------------
(***************************************************************************)
(* What the settlement of one invoice promises, with no intents, retries   *)
(* or lost answers: holdings change hands until they are paid for or the   *)
(* invoice is closed; at most one payout is made, of what its investors    *)
(* hold; the invoice is closed once, and if the payout closes it, exactly  *)
(* the investors of the payout are settled.  The administrator and the     *)
(* chain close it without the payout, before it or after it.  An           *)
(* investment that is confirmed once more is no longer settled; what it    *)
(* holds may then change too, but not what was paid for.  Settlement       *)
(* implements it.                                                          *)
(***************************************************************************)
EXTENDS Integers, Sequences

CONSTANT Investments

VARIABLES
    held,     \* held[i]: the amount of investment i
    paid,     \* the payouts made
    settled,  \* the investments that are settled
    closed,   \* nothing will be settled any more
    complete  \* it was closed by the payout

ledgerVars == <<held, paid, settled, closed, complete>>

LedgerInit ==
    /\ held \in [Investments -> Nat]
    /\ paid = <<>> /\ settled = {} /\ closed = FALSE /\ complete = FALSE

\* One unit of i goes to j.
Trade(i, j) ==
    /\ paid = <<>> /\ ~closed
    /\ i # j /\ held[i] > 0
    /\ held' = [held EXCEPT ![i] = @ - 1, ![j] = @ + 1]
    /\ UNCHANGED <<paid, settled, closed, complete>>

\* The investors in S are paid.
Pay(S) ==
    /\ paid = <<>>
    /\ paid' = <<[i \in S |-> held[i]]>>
    /\ UNCHANGED <<held, settled, closed, complete>>

\* The payout closes the invoice.
Complete ==
    /\ ~closed /\ paid # <<>>
    /\ closed' = TRUE /\ complete' = TRUE
    /\ settled' = DOMAIN paid[1]
    /\ UNCHANGED <<held, paid>>

\* It is closed without: by the administrator, by the chain, or where nobody pays.
Close(S) ==
    /\ ~closed
    /\ closed' = TRUE /\ settled' = S
    /\ UNCHANGED <<held, paid, complete>>

\* Investment i is confirmed once more, and with what it held at some time.
Reconfirm(i) ==
    /\ held'[i] \in Nat
    /\ held' = [held EXCEPT ![i] = held'[i]]
    /\ paid # <<>> /\ i \in DOMAIN paid[1] => held'[i] = held[i]
    /\ settled' = settled \ {i}
    /\ UNCHANGED <<paid, closed, complete>>

LedgerNext ==
    \/ \E i, j \in Investments : Trade(i, j)
    \/ \E i \in Investments : Reconfirm(i)
    \/ \E S \in SUBSET Investments : Pay(S) \/ Close(S)
    \/ Complete

LedgerSpec == LedgerInit /\ [][LedgerNext]_ledgerVars
=============================================================================
