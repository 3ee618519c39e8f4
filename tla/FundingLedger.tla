--------------------------- MODULE FundingLedger ---------------------------
(***************************************************************************)
(* What the funding of one invoice promises, with no rows, versions or     *)
(* retries: a set of commitments is accepted one at a time while the       *)
(* invoice is open, never beyond its net amount and never two for the same *)
(* (wallet, funding block); it is full when a commitment that is stored as *)
(* it was asked for reaches the net amount, and once full or closed        *)
(* nothing is added.  InvestmentFunding implements it.                     *)
(***************************************************************************)
EXTENDS Integers

CONSTANTS
    Requests,   \* every investment request that may ever reach the invoice
    Amount,     \* Amount[r]: what request r commits, in the smallest unit
    Needed,     \* Needed[r]: the whole units that must be left for what it asks for
    Exact,      \* the requests whose amount is not rounded
    SameSlot,   \* SameSlot[r]: the requests for the same wallet and funding block
    Net,        \* net_amount of the invoice
    TotalOf(_)  \* TotalOf(S): what the requests in S commit together

VARIABLES committed, phase

ledgerVars == <<committed, phase>>

LedgerInit == committed = {} /\ phase = "open"

Accept(r) ==
    /\ phase = "open"
    /\ r \in Requests \ committed
    /\ SameSlot[r] \cap committed = {}
    /\ TotalOf(committed) + Needed[r] <= Net
    /\ committed' = committed \cup {r}
    /\ phase' = IF r \in Exact /\ TotalOf(committed) + Amount[r] = Net THEN "full" ELSE "open"

Close ==
    /\ phase \in {"open", "full"}
    /\ phase' = "closed"
    /\ UNCHANGED committed

LedgerNext == Close \/ \E r \in Requests : Accept(r)

LedgerSpec == LedgerInit /\ [][LedgerNext]_ledgerVars
=============================================================================
