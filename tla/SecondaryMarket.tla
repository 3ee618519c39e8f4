--------------------------- MODULE SecondaryMarket ---------------------------
(***************************************************************************)
(* The resale of the shares of one funded invoice:                         *)
(* services/secondary-market.service.ts, next to the settlement of the     *)
(* invoice (Settlement), whose intent stops it.                            *)
(*                                                                         *)
(* createListing and buyListing each run in one transaction under the row  *)
(* lock of the invoice and are one action.  cancelListing loads a listing, *)
(* and the confirmation of a payment an investment, without a lock and     *)
(* saves the entity, stale columns included.  One clock decides what has   *)
(* expired.                                                                *)
(*                                                                         *)
(* Rows have four decimals and are counted in units of 0.0001; a request   *)
(* may have more, and each column is rounded by itself, halves up.         *)
(***************************************************************************)
EXTENDS Integers, FiniteSets

CONSTANTS
    Users,       \* users, each with the wallet of their account
    Listings,    \* createListing requests, and the listings they insert
    Cancels,     \* cancelListing calls of the owner of a listing
    Verifiers,   \* verifyPayment calls
    Deliveries,  \* deliveries of investment_funded events
    Seller,      \* Seller[l]: who asks for listing l
    Quantity,    \* Quantity[l]: what the request puts up
    Target,      \* Target[c]: the listing call c is about
    Payer,       \* Payer[v]: the user whose investment v confirms
    Funded,      \* Funded[u]: the one investment of u in the invoice; 0 for none
    MaxHalves    \* MaxHalves[l]: the bound of the purchases of l that end on a half unit

\* Units of 0.0001 and how much of one is left over: nothing, less than a half,
\* a half, more.
Rests == {"none", "below", "half", "above"}
Quantities == [units : Nat, rest : Rests]

Positive(q) == q.units > 0 \/ q.rest # "none"
AtMost(q, n) == q.units + (IF q.rest = "none" THEN 0 ELSE 1) <= n

\* q.toFixed(4), and what is missing in n.minus(q).toFixed(4).
Rounded(q) == q.units + (IF q.rest \in {"half", "above"} THEN 1 ELSE 0)
Taken(q) == q.units + (IF q.rest = "above" THEN 1 ELSE 0)

Savers == Verifiers \cup Deliveries
Mine(u) == {l \in Listings : Seller[l] = u}

ASSUME MarketAssumption ==
    /\ IsFiniteSet(Listings)
    /\ Seller \in [Listings -> Users]
    /\ Quantity \in [Listings -> {q \in Quantities : Positive(q)}]
    /\ Target \in [Cancels -> Listings]
    /\ Payer \in [Savers -> Users]
    /\ Funded \in [Users -> Nat]
    /\ MaxHalves \in [Listings -> Nat]

VARIABLES
    settlement, \* "none", "pending" (an intent before its end), "settled"
    due,        \* the due date has passed
    own,        \* own[u]: the investment of u
    bought,     \* bought[u]: the one a purchase adds for u
    copy,       \* copy[v]: what v has loaded of the investment it confirms
    shrunk,     \* the users whose holding such a save has made smaller
    listing,    \* listing[l]: the row, "none" before it is inserted
    expired,    \* the listings whose expiry date has passed
    paid,       \* paid[l]: what the recorded payments for l are for
    notice,     \* notice[l]: "Listing Sold" to the seller
    pc,         \* where cancel call c is
    seen        \* the listing entity it holds

holdings == <<own, bought>>
saves == <<copy, shrunk>>
market == <<listing, expired, paid, notice, pc, seen>>
vars == <<settlement, due, holdings, saves, market>>
around == <<settlement, due, holdings, saves>>

Rows == [status : {"none", "ACTIVE", "SOLD", "CANCELLED"}, left : Nat]
Row(status, left) == [status |-> status, left |-> left]

Investments == [status : {"none", "PENDING", "CONFIRMED"}, amount : Nat]
Investment(status, amount) == [status |-> status, amount |-> amount]

\* The payments of a listing: whole units, and the purchases that ended on a
\* half unit and on more.
Payments == [whole : Nat, half : Nat, above : Nat]

TypeOK ==
    /\ settlement \in {"none", "pending", "settled"} /\ due \in BOOLEAN
    /\ own \in [Users -> Investments] /\ bought \in [Users -> Investments]
    /\ copy \in [Savers -> [at : {"start", "loaded", "saved"}, amount : Nat]]
    /\ shrunk \in SUBSET Users
    /\ listing \in [Listings -> Rows]
    /\ expired \in SUBSET Listings
    /\ paid \in [Listings -> Payments]
    /\ notice \in [Listings -> {"none", "pending", "over"}]
    /\ pc \in [Cancels -> {"ready", "loaded", "done"}]
    /\ seen \in [Cancels -> Rows]

Init ==
    /\ settlement = "none" /\ due = FALSE
    /\ \E late \in SUBSET Users : own = [u \in Users |->
          Investment(IF Funded[u] = 0 THEN "none" ELSE IF u \in late THEN "PENDING" ELSE "CONFIRMED",
                     Funded[u])]
    /\ bought = [u \in Users |-> Investment("none", 0)]
    /\ copy = [v \in Savers |-> [at |-> "start", amount |-> 0]]
    /\ shrunk = {}
    /\ listing = [l \in Listings |-> Row("none", 0)]
    /\ expired = {}
    /\ paid = [l \in Listings |-> [whole |-> 0, half |-> 0, above |-> 0]]
    /\ notice = [l \in Listings |-> "none"]
    /\ pc = [c \in Cancels |-> "ready"]
    /\ seen = [c \in Cancels |-> Row("none", 0)]

-----------------------------------------------------------------------------
\* What counts of an investment, and what u holds.
Amount(row) == IF row.status = "CONFIRMED" THEN row.amount ELSE 0

Holding(u) == Amount(own[u]) + Amount(bought[u])

\* Listings a buyer can take from, and their units, of one seller.
Buyable(l) == listing[l].status = "ACTIVE" /\ l \notin expired

Units(l) == {l} \X (1 .. listing[l].left)
UnitsOf(S) == UNION {Units(l) : l \in S}

\* What a seller has put up and not sold: active listings that have not expired.
Listed(u) == Cardinality(UnitsOf({l \in Mine(u) : Buyable(l)}))

\* Only a funded invoice without a settlement in progress is traded.
Tradable == settlement = "none"

\* Mutant: the other listings of the seller do not count.
CreateDoubly(l) ==
    /\ listing[l].status = "none"
    /\ Tradable /\ ~due
    /\ AtMost(Quantity[l], Holding(Seller[l]))
    /\ listing' = [listing EXCEPT ![l] = Row("ACTIVE", Rounded(Quantity[l]))]
    /\ UNCHANGED <<around, expired, paid, notice, pc, seen>>

\* createListing: what the seller holds and has not put up yet.
CreateListing(l) ==
    /\ listing[l].status = "none"
    /\ Tradable /\ ~due
    /\ AtMost(Quantity[l], Holding(Seller[l]) - Listed(Seller[l]))
    /\ listing' = [listing EXCEPT ![l] = Row("ACTIVE", Rounded(Quantity[l]))]
    /\ UNCHANGED <<around, expired, paid, notice, pc, seen>>

\* What is left of an amount n, and what is left to deduct after it.
Deduct(n, q) == IF n <= q.units THEN 0 ELSE n - Taken(q)
Remaining(q, n) == IF n <= q.units THEN [q EXCEPT !.units = @ - n]
                   ELSE [units |-> 0, rest |-> "none"]

Less(row, q) == IF row.status = "CONFIRMED" THEN [row EXCEPT !.amount = Deduct(@, q)] ELSE row

\* The seller's investments are reduced one after the other, in any order, until
\* the quantity is used up or they are.
TakenFrom(s, q) ==
    {<<Less(own[s], q), Less(bought[s], Remaining(q, Amount(own[s])))>>,
     <<Less(own[s], Remaining(q, Amount(bought[s]))), Less(bought[s], q)>>}

\* A confirmed investment of the buyer is increased, or a new one added.
More(row, q) == Investment("CONFIRMED", Amount(row) + Rounded(q))

Move(s, b, q) ==
    \E x \in TakenFrom(s, q) :
        \/ /\ own[b].status = "CONFIRMED"
           /\ own' = [own EXCEPT ![s] = x[1], ![b] = More(@, q)]
           /\ bought' = [bought EXCEPT ![s] = x[2]]
        \/ /\ own[b].status = "CONFIRMED" => bought[b].status = "CONFIRMED"
           /\ own' = [own EXCEPT ![s] = x[1]]
           /\ bought' = [bought EXCEPT ![s] = x[2], ![b] = More(@, q)]

\* The listing after a purchase: sold, with its quantity, if nothing is left
\* before the rest is rounded.
SoldBy(l, q) == q = [units |-> listing[l].left, rest |-> "none"]

Reduced(l, q) ==
    IF SoldBy(l, q) THEN Row("SOLD", q.units) ELSE Row("ACTIVE", listing[l].left - Taken(q))

\* The two payment rows, which are for the unrounded quantity.
Paid(p, q) == [whole |-> p.whole + q.units,
               half |-> p.half + (IF q.rest = "half" THEN 1 ELSE 0),
               above |-> p.above + (IF q.rest = "above" THEN 1 ELSE 0)]

\* Mutants of the purchase: what is left is not looked at; the listing keeps
\* its quantity.
BuyUnbounded(l, b, q) ==
    /\ Buyable(l) /\ b # Seller[l] /\ Tradable
    /\ Positive(q)
    /\ listing' = [listing EXCEPT ![l] = Reduced(l, q)]
    /\ Move(Seller[l], b, q)
    /\ paid' = [paid EXCEPT ![l] = Paid(@, q)]
    /\ notice' = [notice EXCEPT ![l] = IF SoldBy(l, q) THEN "pending" ELSE @]
    /\ UNCHANGED <<settlement, due, saves, expired, pc, seen>>

\* buyListing, under the locks of the listing and the invoice: the listing, the
\* investments of both sides and the payment rows change together.
BuyListing(l, b, q) ==
    /\ Buyable(l) /\ b # Seller[l] /\ Tradable
    /\ Positive(q) /\ AtMost(q, listing[l].left)
    /\ q.rest = "half" => paid[l].half < MaxHalves[l]
    /\ listing' = [listing EXCEPT ![l] = Reduced(l, q)]
    /\ Move(Seller[l], b, q)
    /\ paid' = [paid EXCEPT ![l] = Paid(@, q)]
    /\ notice' = [notice EXCEPT ![l] = IF SoldBy(l, q) THEN "pending" ELSE @]
    /\ UNCHANGED <<settlement, due, saves, expired, pc, seen>>

\* After the commit the seller of a sold listing is told, once; a failure is
\* only logged, and a crash leaves nothing to repeat.
NotifySeller(l) ==
    /\ notice[l] = "pending"
    /\ notice' = [notice EXCEPT ![l] = "over"]
    /\ UNCHANGED <<around, listing, expired, paid, pc, seen>>

\* cancelListing reads the row without a lock ...
LoadForCancel(c) ==
    /\ pc[c] = "ready"
    /\ listing[Target[c]].status = "ACTIVE"
    /\ seen' = [seen EXCEPT ![c] = listing[Target[c]]]
    /\ pc' = [pc EXCEPT ![c] = "loaded"]
    /\ UNCHANGED <<around, listing, expired, paid, notice>>

\* ... and saves what it read as cancelled, with the quantity it read.
\* Mutant: the status of the entity is left as it was read.
SaveRead(c) ==
    /\ pc[c] = "loaded"
    /\ listing' = [listing EXCEPT ![Target[c]] = seen[c]]
    /\ pc' = [pc EXCEPT ![c] = "done"] /\ seen' = [seen EXCEPT ![c] = Row("none", 0)]
    /\ UNCHANGED <<around, expired, paid, notice>>

SaveCancelled(c) ==
    /\ pc[c] = "loaded"
    /\ listing' = [listing EXCEPT ![Target[c]] = Row("CANCELLED", seen[c].left)]
    /\ pc' = [pc EXCEPT ![c] = "done"] /\ seen' = [seen EXCEPT ![c] = Row("none", 0)]
    /\ UNCHANGED <<around, expired, paid, notice>>

-----------------------------------------------------------------------------
(* What happens around the market                                          *)

\* A listing's expiry date, or the due date, passes.
Expire(l) ==
    /\ listing[l].status # "none" /\ l \notin expired
    /\ expired' = expired \cup {l}
    /\ UNCHANGED <<around, listing, paid, notice, pc, seen>>

FallDue ==
    /\ ~due
    /\ due' = TRUE
    /\ UNCHANGED <<settlement, holdings, saves, market>>

\* verifyPayment loads an investment that is not confirmed, or was settled, and
\* the event any ...
LoadInvestment(v) ==
    /\ copy[v].at = "start"
    /\ own[Payer[v]].status # "none"
    /\ v \in Verifiers => own[Payer[v]].status = "PENDING" \/ settlement = "settled"
    /\ copy' = [copy EXCEPT ![v] = [at |-> "loaded", amount |-> own[Payer[v]].amount]]
    /\ UNCHANGED <<settlement, due, holdings, shrunk, market>>

\* ... and saves it as confirmed, with the amount it loaded.
SaveConfirmed(v) ==
    /\ copy[v].at = "loaded"
    /\ own' = [own EXCEPT ![Payer[v]] = Investment("CONFIRMED", copy[v].amount)]
    /\ shrunk' = IF copy[v].amount < Amount(own[Payer[v]]) THEN shrunk \cup {Payer[v]} ELSE shrunk
    /\ copy' = [copy EXCEPT ![v] = [at |-> "saved", amount |-> 0]]
    /\ UNCHANGED <<settlement, due, bought, market>>

\* settleInvoice prepares its intent, and ends with it or, without a
\* distributor, at once (Settlement).
AdvanceSettlement ==
    /\ \/ settlement = "none" /\ settlement' \in {"pending", "settled"}
       \/ settlement = "pending" /\ settlement' = "settled"
    /\ UNCHANGED <<due, holdings, saves, market>>

-----------------------------------------------------------------------------
Parts(l) == [units : 0 .. Rounded(Quantity[l]), rest : Rests]

Trade ==
    \E l \in Listings :
        \/ CreateListing(l) \/ Expire(l) \/ NotifySeller(l)
        \/ \E b \in Users, q \in Parts(l) : BuyListing(l, b, q)

Cancel == \E c \in Cancels : LoadForCancel(c) \/ SaveCancelled(c)

Around == FallDue \/ AdvanceSettlement \/ \E v \in Savers : LoadInvestment(v) \/ SaveConfirmed(v)

Next == Trade \/ Cancel \/ Around

Spec == Init /\ [][Next]_vars
-----------------------------------------------------------------------------
\* No seller has more on offer than they hold, however listings, purchases with
\* any number of decimals, expiries and cancellations interleave: every buyable
\* unit is there (createListing: "prevent double-listing").  Only the save of
\* an amount that was loaded before it grew can take units from under an offer.
NeverOversold == \A u \in Users \ shrunk : Listed(u) <= Holding(u)

\* The units paid for that a listing lost: a purchase that ends below the half
\* of a unit, or on it, is paid for that part and takes nothing for it.
UnitsSold(p) == p.whole + p.above

\* A listing loses no more units than it offered, although a cancellation may
\* write an old quantity back; while it is on offer, what is left and what it
\* lost make up the whole of it.
SoldWithinListing ==
    \A l \in Listings :
        /\ UnitsSold(paid[l]) <= Rounded(Quantity[l])
        /\ listing[l].status = "ACTIVE" => listing[l].left + UnitsSold(paid[l]) = Rounded(Quantity[l])

\* Shares come and go in two ways only.  A save puts back the amount that was
\* loaded.  A purchase takes from the seller what the listing lost, so that the
\* loop over the seller's investments never runs out of them (buyListing does
\* not check), and gives it to the buyer, with one unit more, which nobody
\* gave, when it ends on a half.
Purchased(l, b) ==
    LET lost == UnitsSold(paid'[l]) - UnitsSold(paid[l])
        s == Seller[l]
    IN  /\ settlement = "none" /\ b # s
        /\ \A u \in Users \ {s, b} : own'[u] = own[u] /\ bought'[u] = bought[u]
        /\ s \notin shrunk => Holding(s)' = Holding(s) - lost
        /\ Holding(b)' = Holding(b) + lost + (paid'[l].half - paid[l].half)

PutBack(v) ==
    /\ copy[v].at = "loaded" /\ copy'[v].at = "saved"
    /\ own' = [own EXCEPT ![Payer[v]] = Investment("CONFIRMED", copy[v].amount)]
    /\ bought' = bought

SharesAccounted ==
    [][\/ UNCHANGED holdings
       \/ \E v \in Savers : PutBack(v)
       \/ \E l \in Listings, b \in Users : Purchased(l, b)]_vars

\* The seller hears of a sale only when the listing has lost every unit (wasSold
\* is decided in the transaction, the notification sent after it).
NoticeMeansSoldOut ==
    \A l \in Listings : notice[l] # "none" => UnitsSold(paid[l]) = Rounded(Quantity[l])
=============================================================================
