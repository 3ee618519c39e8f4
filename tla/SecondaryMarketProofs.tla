----------------------- MODULE SecondaryMarketProofs -----------------------
(***************************************************************************)
(* Proofs about SecondaryMarket for every set of users, listings,          *)
(* cancellations and confirmations, and all quantities of any number of    *)
(* decimals: type correctness, no more on offer than is held, sales within *)
(* the listing, what becomes of the shares, and the notification of a sale.*)
(***************************************************************************)
EXTENDS SecondaryMarket, FiniteSetTheorems, TLAPS

-----------------------------------------------------------------------------
(* Quantities                                                              *)

\* Both ways of rounding give whole units, at most what a quantity is within,
\* and differ by the half unit only.
LEMMA Rounding ==
    ASSUME NEW q \in Quantities
    PROVE  /\ q.units \in Nat /\ q.rest \in Rests
           /\ Rounded(q) \in Nat /\ Taken(q) \in Nat
           /\ Taken(q) = q.units + (IF q.rest = "above" THEN 1 ELSE 0)
           /\ Rounded(q) = Taken(q) + (IF q.rest = "half" THEN 1 ELSE 0)
           /\ \A n \in Int : AtMost(q, n) => Rounded(q) <= n /\ Taken(q) <= n
           /\ Positive(q) => ~AtMost(q, 0)
  BY DEF Quantities, Rests, Rounded, Taken, AtMost, Positive

\* The parts of a listing that may be asked for are quantities.
LEMMA PartsType ==
    ASSUME NEW l \in Listings
    PROVE  /\ Quantity[l] \in Quantities /\ Rounded(Quantity[l]) \in Nat
           /\ \A q \in Parts(l) : q \in Quantities
<1>1. Quantity[l] \in Quantities  BY MarketAssumption
<1>2. Rounded(Quantity[l]) \in Nat  BY <1>1, Rounding
<1> QED  BY <1>1, <1>2 DEF Parts, Quantities

\* What is left of an amount, and what is left to deduct.
LEMMA DeductType ==
    ASSUME NEW q \in Quantities, NEW n \in Nat
    PROVE  /\ Deduct(n, q) \in Nat
           /\ Remaining(q, n) \in Quantities
  BY DEF Quantities, Rests, Deduct, Remaining, Taken

\* An investment counts as the units it has.
LEMMA AmountType ==
    ASSUME NEW r \in Investments
    PROVE  Amount(r) \in Nat
  BY DEF Investments, Amount

\* Deducting from an investment ...
LEMMA LessAmount ==
    ASSUME NEW r \in Investments, NEW q \in Quantities
    PROVE  /\ Less(r, q) \in Investments
           /\ Amount(Less(r, q)) = Deduct(Amount(r), q)
<1>1. r.amount \in Nat  BY DEF Investments
<1>2. CASE r.status = "CONFIRMED"
  <2>1. Deduct(r.amount, q) \in Nat  BY <1>1, DeductType
  <2> QED  BY <1>1, <1>2, <2>1 DEF Less, Amount, Investments
<1>3. CASE r.status # "CONFIRMED"
  <2>1. q.units \in Nat  BY DEF Quantities
  <2> QED  BY <1>3, <2>1 DEF Less, Amount, Deduct
<1> QED  BY <1>2, <1>3

\* ... and from two of them, one after the other, takes what is to be taken if
\* they have it.
LEMMA LessTwo ==
    ASSUME NEW r \in Investments, NEW s \in Investments, NEW q \in Quantities,
           AtMost(q, Amount(r) + Amount(s))
    PROVE  Amount(Less(r, q)) + Amount(Less(s, Remaining(q, Amount(r))))
               = Amount(r) + Amount(s) - Taken(q)
<1> DEFINE m == Amount(r)
           n == Amount(s)
           p == Remaining(q, m)
<1>1. m \in Nat /\ n \in Nat  BY AmountType
<1>2. p \in Quantities  BY <1>1, DeductType
<1>3. Amount(Less(r, q)) = Deduct(m, q) /\ Amount(Less(s, p)) = Deduct(n, p)
  BY <1>2, LessAmount
<1>4. AtMost(q, m + n)  OBVIOUS
<1> HIDE DEF m, n
<1>5. q.units \in Nat /\ q.rest \in Rests  BY DEF Quantities
<1>6. CASE m <= q.units
  <2>1. p.units = q.units - m /\ p.rest = q.rest
    BY <1>5, <1>6 DEF Remaining, Quantities
  <2>2. Deduct(m, q) = 0  BY <1>6 DEF Deduct
  <2>3. Taken(q) = m + Taken(p)  BY <1>1, <1>5, <2>1 DEF Taken
  <2>4. Deduct(n, p) = n - Taken(p)
    <3>1. CASE q.rest = "none"
      BY <1>1, <1>4, <1>5, <2>1, <3>1 DEF Deduct, AtMost, Taken
    <3>2. CASE q.rest # "none"
      BY <1>1, <1>4, <1>5, <2>1, <3>2 DEF Deduct, AtMost
    <3> QED  BY <3>1, <3>2
  <2>5. Taken(p) \in Nat  BY <1>2, Rounding
  <2> HIDE DEF p
  <2>6. Deduct(m, q) + Deduct(n, p) = m + n - Taken(q)
    BY <1>1, <2>2, <2>3, <2>4, <2>5
  <2> QED  BY <1>3, <2>6 DEF m, n, p
<1>7. CASE ~(m <= q.units)
  <2>1. p = [units |-> 0, rest |-> "none"]  BY <1>7 DEF Remaining
  <2>2. Deduct(n, p) = n  BY <1>1, <2>1 DEF Deduct, Taken
  <2>3. Deduct(m, q) = m - Taken(q) /\ Taken(q) \in Nat
    BY <1>7, Rounding DEF Deduct
  <2> HIDE DEF p
  <2>4. Deduct(m, q) + Deduct(n, p) = m + n - Taken(q)
    BY <1>1, <2>2, <2>3
  <2> QED  BY <1>3, <2>4 DEF m, n, p
<1> QED  BY <1>6, <1>7

\* Adding to an investment.
LEMMA MoreAmount ==
    ASSUME NEW r \in Investments, NEW q \in Quantities
    PROVE  /\ More(r, q) \in Investments
           /\ Amount(More(r, q)) = Amount(r) + Rounded(q)
<1>1. Amount(r) \in Nat /\ Rounded(q) \in Nat  BY AmountType, Rounding
<1>2. Amount(r) + Rounded(q) \in Nat  BY <1>1
<1>3. More(r, q) = [status |-> "CONFIRMED", amount |-> Amount(r) + Rounded(q)]
  BY DEF More, Investment
<1> HIDE DEF More
<1>4. Amount(More(r, q)) = Amount(r) + Rounded(q)  BY <1>3 DEF Amount
<1>5. More(r, q) \in Investments  BY <1>2, <1>3 DEF Investments
<1> QED  BY <1>4, <1>5

-----------------------------------------------------------------------------
(* What a purchase does to the holdings                                    *)

\* The seller's investments after it are investments, with what was taken gone
\* if there was enough.
LEMMA TakenFromSeller ==
    ASSUME own \in [Users -> Investments], bought \in [Users -> Investments],
           NEW s \in Users, NEW q \in Quantities, NEW x \in TakenFrom(s, q)
    PROVE  /\ x[1] \in Investments /\ x[2] \in Investments
           /\ AtMost(q, Holding(s)) => Amount(x[1]) + Amount(x[2]) = Holding(s) - Taken(q)
<1> DEFINE r == own[s]
           t == bought[s]
<1>1. r \in Investments /\ t \in Investments  OBVIOUS
<1>2. Amount(r) \in Nat /\ Amount(t) \in Nat /\ Taken(q) \in Nat
  BY <1>1, AmountType, Rounding
<1>3. Remaining(q, Amount(r)) \in Quantities /\ Remaining(q, Amount(t)) \in Quantities
  BY <1>2, DeductType
<1>4. Holding(s) = Amount(r) + Amount(t) /\ Amount(r) + Amount(t) = Amount(t) + Amount(r)
  BY <1>2 DEF Holding
<1>5. CASE x = <<Less(r, q), Less(t, Remaining(q, Amount(r)))>>
  <2>1. x[1] = Less(r, q) /\ x[2] = Less(t, Remaining(q, Amount(r)))  BY <1>5
  <2>2. x[1] \in Investments /\ x[2] \in Investments
    BY <1>1, <1>3, <2>1, LessAmount
  <2>3. ASSUME AtMost(q, Holding(s)) PROVE Amount(x[1]) + Amount(x[2]) = Holding(s) - Taken(q)
    <3>1. AtMost(q, Amount(r) + Amount(t))  BY <1>4, <2>3
    <3> HIDE DEF r, t
    <3>2. Amount(Less(r, q)) + Amount(Less(t, Remaining(q, Amount(r)))) = Amount(r) + Amount(t) - Taken(q)
      BY <1>1, <3>1, LessTwo
    <3>3. Holding(s) = Amount(r) + Amount(t)  BY <1>4
    <3>4. Amount(x[1]) = Amount(Less(r, q)) /\ Amount(x[2]) = Amount(Less(t, Remaining(q, Amount(r))))
      BY <2>1
    <3> QED  BY <1>2, <3>2, <3>3, <3>4
  <2> QED  BY <2>2, <2>3
<1>6. CASE x = <<Less(r, Remaining(q, Amount(t))), Less(t, q)>>
  <2>1. x[1] = Less(r, Remaining(q, Amount(t))) /\ x[2] = Less(t, q)  BY <1>6
  <2>2. x[1] \in Investments /\ x[2] \in Investments
    BY <1>1, <1>3, <2>1, LessAmount
  <2>3. ASSUME AtMost(q, Holding(s)) PROVE Amount(x[2]) + Amount(x[1]) = Holding(s) - Taken(q)
    <3>1. AtMost(q, Amount(t) + Amount(r))  BY <1>4, <2>3
    <3> HIDE DEF r, t
    <3>2. Amount(Less(t, q)) + Amount(Less(r, Remaining(q, Amount(t)))) = Amount(t) + Amount(r) - Taken(q)
      BY <1>1, <3>1, LessTwo
    <3>3. Holding(s) = Amount(r) + Amount(t)  BY <1>4
    <3>4. Amount(x[2]) = Amount(Less(t, q)) /\ Amount(x[1]) = Amount(Less(r, Remaining(q, Amount(t))))
      BY <2>1
    <3>5. Holding(s) = Amount(t) + Amount(r)  BY <1>2, <3>3
    <3> QED  BY <1>2, <3>2, <3>4, <3>5
  <2>4. Amount(x[1]) \in Nat /\ Amount(x[2]) \in Nat  BY <2>2, AmountType
  <2> HIDE DEF r, t
  <2> QED  BY <2>2, <2>3, <2>4
<1> QED  BY <1>5, <1>6 DEF TakenFrom

\* A purchase takes it from the seller, gives the buyer the rounded quantity,
\* and leaves the others alone.
LEMMA MoveHoldings ==
    ASSUME own \in [Users -> Investments], bought \in [Users -> Investments],
           NEW s \in Users, NEW b \in Users \ {s}, NEW q \in Quantities, Move(s, b, q)
    PROVE  /\ own' \in [Users -> Investments] /\ bought' \in [Users -> Investments]
           /\ \A u \in Users \ {s, b} : own'[u] = own[u] /\ bought'[u] = bought[u]
           /\ AtMost(q, Holding(s)) => Holding(s)' = Holding(s) - Taken(q)
           /\ Holding(b)' = Holding(b) + Rounded(q)
<1>1. PICK x \in TakenFrom(s, q) :
        \/ /\ own' = [own EXCEPT ![s] = x[1], ![b] = More(@, q)]
           /\ bought' = [bought EXCEPT ![s] = x[2]]
        \/ /\ own' = [own EXCEPT ![s] = x[1]]
           /\ bought' = [bought EXCEPT ![s] = x[2], ![b] = More(@, q)]
  BY DEF Move
<1>2. /\ x[1] \in Investments /\ x[2] \in Investments
      /\ AtMost(q, Holding(s)) => Amount(x[1]) + Amount(x[2]) = Holding(s) - Taken(q)
  BY TakenFromSeller
<1>3. /\ More(own[b], q) \in Investments /\ Amount(More(own[b], q)) = Amount(own[b]) + Rounded(q)
      /\ More(bought[b], q) \in Investments
      /\ Amount(More(bought[b], q)) = Amount(bought[b]) + Rounded(q)
  BY MoreAmount
<1>4. Amount(own[b]) \in Nat /\ Amount(bought[b]) \in Nat /\ Rounded(q) \in Nat
  BY AmountType, Rounding
<1>5. own' \in [Users -> Investments] /\ bought' \in [Users -> Investments]
  BY <1>1, <1>2, <1>3
<1>6. own'[s] = x[1] /\ bought'[s] = x[2]
  BY <1>1
<1>7. \A u \in Users \ {s, b} : own'[u] = own[u] /\ bought'[u] = bought[u]
  BY <1>1
<1>8. \/ own'[b] = More(own[b], q) /\ bought'[b] = bought[b]
      \/ own'[b] = own[b] /\ bought'[b] = More(bought[b], q)
  BY <1>1
<1>9. Amount(own'[b]) + Amount(bought'[b]) = Amount(own[b]) + Amount(bought[b]) + Rounded(q)
  BY <1>3, <1>4, <1>8
<1>10. Holding(b)' = Amount(own'[b]) + Amount(bought'[b])
       /\ Holding(s)' = Amount(own'[s]) + Amount(bought'[s])
  BY DEF Holding, Amount
<1>11. Holding(b)' = Holding(b) + Rounded(q)  BY <1>9, <1>10 DEF Holding
<1>12. AtMost(q, Holding(s)) => Holding(s)' = Holding(s) - Taken(q)
  BY <1>2, <1>6, <1>10
<1> QED  BY <1>5, <1>7, <1>11, <1>12

-----------------------------------------------------------------------------
(* Type correctness                                                        *)

\* What a purchase leaves of a listing is a row.
LEMMA ReducedType ==
    ASSUME listing \in [Listings -> Rows], NEW l \in Listings,
           NEW q \in Quantities, AtMost(q, listing[l].left)
    PROVE  /\ Reduced(l, q) \in Rows
           /\ Taken(q) <= listing[l].left
           /\ Reduced(l, q) = IF SoldBy(l, q) THEN Row("SOLD", q.units)
                              ELSE Row("ACTIVE", listing[l].left - Taken(q))
<1>1. listing[l].left \in Nat  BY DEF Rows
<1>2. /\ q.units \in Nat /\ Taken(q) \in Nat
      /\ \A n \in Int : AtMost(q, n) => Taken(q) <= n
  BY Rounding
<1>3. Taken(q) <= listing[l].left  BY <1>1, <1>2
<1>4. listing[l].left - Taken(q) \in Nat  BY <1>1, <1>2, <1>3
<1> QED  BY <1>2, <1>3, <1>4 DEF Reduced, Row, Rows

\* What is paid for stays a record of numbers, and counts what was taken.
LEMMA PaidType ==
    ASSUME NEW p \in Payments, NEW q \in Quantities
    PROVE  /\ Paid(p, q) \in Payments
           /\ UnitsSold(p) \in Nat
           /\ UnitsSold(Paid(p, q)) = UnitsSold(p) + Taken(q)
           /\ Paid(p, q).half - p.half = Rounded(q) - Taken(q)
<1>1. q.units \in Nat /\ q.rest \in Rests  BY DEF Quantities
<1>2. p.whole \in Nat /\ p.half \in Nat /\ p.above \in Nat  BY DEF Payments
<1>3. Paid(p, q) \in Payments  BY <1>1, <1>2 DEF Paid, Payments
<1> QED  BY <1>1, <1>2, <1>3 DEF Paid, UnitsSold, Taken, Rounded, Rests

\* The row every listing starts from.
LEMMA NoRowType == Row("none", 0) \in Rows
  BY DEF Row, Rows

\* The types hold initially ...
LEMMA InitType == Init => TypeOK
<1> SUFFICES ASSUME Init PROVE TypeOK
  OBVIOUS
<1>1. listing \in [Listings -> Rows] /\ seen \in [Cancels -> Rows]
  BY NoRowType DEF Init
<1>2. /\ notice \in [Listings -> {"none", "pending", "over"}]
      /\ paid \in [Listings -> Payments]
  BY DEF Init, Payments
<1>3. pc \in [Cancels -> {"ready", "loaded", "done"}]
  BY DEF Init
<1>4. own \in [Users -> Investments]
  <2>1. PICK late \in SUBSET Users : own = [u \in Users |->
          Investment(IF Funded[u] = 0 THEN "none" ELSE IF u \in late THEN "PENDING" ELSE "CONFIRMED",
                     Funded[u])]
    BY DEF Init
  <2>2. \A u \in Users : Funded[u] \in Nat  BY MarketAssumption
  <2>3. \A st \in {"none", "PENDING", "CONFIRMED"}, n \in Nat : Investment(st, n) \in Investments
    BY DEF Investment, Investments
  <2> QED  BY <2>1, <2>2, <2>3
<1>5. bought \in [Users -> Investments]
  BY DEF Init, Investment, Investments
<1>6. /\ copy \in [Savers -> [at : {"start", "loaded", "saved"}, amount : Nat]]
      /\ shrunk \in SUBSET Users /\ expired \in SUBSET Listings
      /\ settlement \in {"none", "pending", "settled"} /\ due \in BOOLEAN
  BY DEF Init
<1> QED  BY <1>1, <1>2, <1>3, <1>4, <1>5, <1>6 DEF TypeOK

\* ... and every action keeps them.
LEMMA NextType == TypeOK /\ [Next]_vars => TypeOK'
<1> SUFFICES ASSUME TypeOK, [Next]_vars PROVE TypeOK'
  OBVIOUS
<1> USE DEF around, holdings, saves, market
<1>1. ASSUME NEW l \in Listings, CreateListing(l) PROVE TypeOK'
  <2>1. Row("ACTIVE", Rounded(Quantity[l])) \in Rows
    BY PartsType DEF Row, Rows
  <2> QED  BY <1>1, <2>1 DEF TypeOK, CreateListing
<1>2. ASSUME NEW l \in Listings, Expire(l) PROVE TypeOK'
  BY <1>2 DEF TypeOK, Expire
<1>3. ASSUME NEW l \in Listings, NotifySeller(l) PROVE TypeOK'
  BY <1>3 DEF TypeOK, NotifySeller
<1>4. ASSUME NEW l \in Listings, NEW b \in Users, NEW q \in Parts(l), BuyListing(l, b, q)
      PROVE  TypeOK'
  <2>1. q \in Quantities /\ Seller[l] \in Users  BY MarketAssumption, PartsType
  <2>2. Reduced(l, q) \in Rows
    BY <1>4, <2>1, ReducedType DEF TypeOK, BuyListing
  <2>3. own' \in [Users -> Investments] /\ bought' \in [Users -> Investments]
    BY <1>4, <2>1, MoveHoldings DEF TypeOK, BuyListing
  <2>4. Paid(paid[l], q) \in Payments
    BY <2>1, PaidType DEF TypeOK
  <2>5. listing' \in [Listings -> Rows] /\ paid' \in [Listings -> Payments]
    BY <1>4, <2>2, <2>4 DEF TypeOK, BuyListing
  <2>6. notice' \in [Listings -> {"none", "pending", "over"}]
    BY <1>4 DEF TypeOK, BuyListing
  <2> QED  BY <1>4, <2>3, <2>5, <2>6 DEF TypeOK, BuyListing
<1>5. ASSUME NEW c \in Cancels, LoadForCancel(c) PROVE TypeOK'
  BY <1>5, MarketAssumption DEF TypeOK, LoadForCancel
<1>6. ASSUME NEW c \in Cancels, SaveCancelled(c) PROVE TypeOK'
  <2>1. Row("CANCELLED", seen[c].left) \in Rows /\ Row("none", 0) \in Rows
    BY DEF TypeOK, Row, Rows
  <2> QED  BY <1>6, <2>1, MarketAssumption DEF TypeOK, SaveCancelled
<1>7. CASE FallDue  BY <1>7 DEF TypeOK, FallDue
<1>8. CASE AdvanceSettlement  BY <1>8 DEF TypeOK, AdvanceSettlement
<1>9. ASSUME NEW v \in Savers, LoadInvestment(v) PROVE TypeOK'
  <2>1. Payer[v] \in Users  BY MarketAssumption
  <2>2. own[Payer[v]].amount \in Nat  BY <2>1 DEF TypeOK, Investments
  <2>3. copy' \in [Savers -> [at : {"start", "loaded", "saved"}, amount : Nat]]
    BY <1>9, <2>2 DEF TypeOK, LoadInvestment
  <2> QED  BY <1>9, <2>3 DEF TypeOK, LoadInvestment
<1>10. ASSUME NEW v \in Savers, SaveConfirmed(v) PROVE TypeOK'
  <2>1. Payer[v] \in Users  BY MarketAssumption
  <2>2. Investment("CONFIRMED", copy[v].amount) \in Investments
    BY DEF TypeOK, Investment, Investments
  <2>3. own' \in [Users -> Investments]
    BY <1>10, <2>2 DEF TypeOK, SaveConfirmed
  <2>4. copy' \in [Savers -> [at : {"start", "loaded", "saved"}, amount : Nat]]
    BY <1>10 DEF TypeOK, SaveConfirmed
  <2>5. shrunk' \in SUBSET Users
    BY <1>10, <2>1 DEF TypeOK, SaveConfirmed
  <2> QED  BY <1>10, <2>3, <2>4, <2>5 DEF TypeOK, SaveConfirmed
<1>11. CASE UNCHANGED vars  BY <1>11 DEF TypeOK, vars
<1> QED
  BY <1>1, <1>2, <1>3, <1>4, <1>5, <1>6, <1>7, <1>8, <1>9, <1>10, <1>11
  DEF Next, Trade, Cancel, Around

\* The rows, the entities a cancellation or a confirmation holds and the
\* holdings keep their types (all operations of the market).
THEOREM TypeCorrect == Spec => []TypeOK
  BY InitType, NextType, PTL DEF Spec

-----------------------------------------------------------------------------
(* What is on offer                                                        *)

\* The units seller u offers when the rows are lst and exp have expired.
Offer(lst, exp, u) ==
    {x \in Listings \X Nat :
        /\ Seller[x[1]] = u /\ lst[x[1]].status = "ACTIVE" /\ x[1] \notin exp
        /\ x[2] \in 1 .. lst[x[1]].left}

\* Listed counts the units on offer.
LEMMA ListedIsOffer ==
    ASSUME TypeOK, NEW u \in Users
    PROVE  Listed(u) = Cardinality(Offer(listing, expired, u))
<1>1. \A l \in Listings : listing[l].left \in Nat  BY DEF TypeOK, Rows
<1>2. UnitsOf({l \in Mine(u) : Buyable(l)}) = Offer(listing, expired, u)
  BY <1>1 DEF UnitsOf, Units, Mine, Buyable, Offer
<1> QED  BY <1>2 DEF Listed

\* The same after a step.
LEMMA ListedIsOfferNext ==
    ASSUME TypeOK', NEW u \in Users
    PROVE  Listed(u)' = Cardinality(Offer(listing', expired', u))
<1>1. \A l \in Listings : listing'[l].left \in Nat  BY DEF TypeOK, Rows
<1>2. UnitsOf({l \in Mine(u) : Buyable(l)})' = Offer(listing', expired', u)
  BY <1>1 DEF UnitsOf, Units, Mine, Buyable, Offer
<1> QED  BY <1>2 DEF Listed

\* The units of one row are finitely many.
LEMMA SpanFinite ==
    ASSUME NEW l, NEW a \in Nat, NEW b \in Nat, a <= b
    PROVE  /\ IsFiniteSet({l} \X (a + 1 .. b))
           /\ Cardinality({l} \X (a + 1 .. b)) = b - a
<1>1. /\ IsFiniteSet(a + 1 .. b)
      /\ Cardinality(a + 1 .. b) = b - a
  <2>1. /\ IsFiniteSet(a + 1 .. b)
        /\ Cardinality(a + 1 .. b) = IF a + 1 > b THEN 0 ELSE b - (a + 1) + 1
    BY FS_Interval
  <2> QED  BY <2>1
<1>2. IsFiniteSet({l}) /\ Cardinality({l}) = 1  BY FS_Singleton
<1>3. /\ IsFiniteSet({l} \X (a + 1 .. b))
      /\ Cardinality({l} \X (a + 1 .. b)) = 1 * (b - a)
  BY <1>1, <1>2, FS_Product
<1> QED  BY <1>3

\* An offer is finite.
LEMMA OfferFinite ==
    ASSUME NEW lst \in [Listings -> Rows], NEW exp, NEW u
    PROVE  IsFiniteSet(Offer(lst, exp, u)) /\ Cardinality(Offer(lst, exp, u)) \in Nat
<1> DEFINE span == [l \in Listings |-> {l} \X (0 + 1 .. lst[l].left)]
           U == {span[l] : l \in Listings}
<1>1. \A l \in Listings : lst[l].left \in Nat  BY DEF Rows
<1>2. IsFiniteSet(U)
  <2>1. span \in Surjection(Listings, U)  BY DEF Surjection
  <2> QED  BY <2>1, MarketAssumption, FS_Surjection
<1>3. \A T \in U : IsFiniteSet(T)
  <2>1. \A l \in Listings : IsFiniteSet({l} \X (0 + 1 .. lst[l].left))
    <3> TAKE l \in Listings
    <3>1. 0 \in Nat /\ lst[l].left \in Nat /\ 0 <= lst[l].left  BY <1>1
    <3> QED  BY <3>1, SpanFinite
  <2> QED  BY <2>1
<1>4. IsFiniteSet(UNION U)
  <2> HIDE DEF U
  <2> QED  BY <1>2, <1>3, FS_UNION
<1>5. Offer(lst, exp, u) \subseteq UNION U
  <2> SUFFICES ASSUME NEW x \in Offer(lst, exp, u) PROVE x \in UNION U
    OBVIOUS
  <2>1. x \in {x[1]} \X (1 .. lst[x[1]].left) /\ x[1] \in Listings  BY DEF Offer
  <2>2. x \in span[x[1]]  BY <2>1
  <2> QED  BY <2>1, <2>2
<1> QED  BY <1>4, <1>5, FS_Subset, FS_CardinalityType

\* A smaller offer counts less.
LEMMA OfferShrinks ==
    ASSUME NEW lst \in [Listings -> Rows], NEW exp, NEW u,
           NEW S \in SUBSET Offer(lst, exp, u)
    PROVE  /\ IsFiniteSet(S) /\ Cardinality(S) \in Nat
           /\ Cardinality(S) <= Cardinality(Offer(lst, exp, u))
  BY OfferFinite, FS_Subset, FS_CardinalityType

\* With the units from a + 1 to b of a listing gone, b - a fewer are on offer.
LEMMA OfferLess ==
    ASSUME NEW lst \in [Listings -> Rows], NEW exp, NEW u,
           NEW l, NEW a \in Nat, NEW b \in Nat, a <= b,
           {l} \X (a + 1 .. b) \subseteq Offer(lst, exp, u),
           NEW S \in SUBSET (Offer(lst, exp, u) \ ({l} \X (a + 1 .. b)))
    PROVE  /\ Cardinality(S) \in Nat
           /\ Cardinality(S) <= Cardinality(Offer(lst, exp, u)) - (b - a)
<1> DEFINE O == Offer(lst, exp, u)
           T == {l} \X (a + 1 .. b)
<1>1. IsFiniteSet(O) /\ Cardinality(O) \in Nat  BY OfferFinite
<1>2. IsFiniteSet(T) /\ Cardinality(T) = b - a  BY SpanFinite
<1>3. T \subseteq O /\ S \subseteq O \ T  OBVIOUS
<1> HIDE DEF O, T
<1>4. IsFiniteSet(O \ T) /\ Cardinality(O \ T) = Cardinality(O) - Cardinality(O \cap T)
  BY <1>1, FS_Difference
<1>5. O \cap T = T  BY <1>3
<1>6. IsFiniteSet(S) /\ Cardinality(S) <= Cardinality(O \ T) /\ Cardinality(S) \in Nat
  BY <1>3, <1>4, FS_Subset, FS_CardinalityType
<1>7. Cardinality(S) <= Cardinality(O) - (b - a)
  BY <1>1, <1>2, <1>4, <1>5, <1>6
<1> QED  BY <1>6, <1>7 DEF O

-----------------------------------------------------------------------------
(* No more on offer than is held                                           *)

\* A holding is a number, and one that is left alone stays what it is.
LEMMA HoldingType ==
    ASSUME TypeOK, NEW u \in Users
    PROVE  Holding(u) \in Nat
<1>1. Amount(own[u]) \in Nat /\ Amount(bought[u]) \in Nat
  BY AmountType DEF TypeOK
<1> QED  BY <1>1 DEF Holding

LEMMA HoldingTypeNext ==
    ASSUME TypeOK', NEW u \in Users
    PROVE  Holding(u)' \in Nat
<1>1. own'[u] \in Investments /\ bought'[u] \in Investments  BY DEF TypeOK
<1>2. Amount(own'[u]) \in Nat /\ Amount(bought'[u]) \in Nat
  BY <1>1, AmountType
<1>3. Holding(u)' = Amount(own'[u]) + Amount(bought'[u])  BY DEF Holding, Amount
<1> QED  BY <1>2, <1>3

LEMMA HoldingSame ==
    ASSUME NEW u \in Users, own'[u] = own[u], bought'[u] = bought[u]
    PROVE  Holding(u)' = Holding(u)
  BY DEF Holding, Amount

\* Nothing is on offer before the first listing.
LEMMA InitOffer == Init => NeverOversold
<1> SUFFICES ASSUME Init, NEW u \in Users PROVE Listed(u) <= Holding(u)
  BY DEF NeverOversold
<1>1. TypeOK  BY InitType
<1>2. Offer(listing, expired, u) = {}  BY DEF Init, Offer, Row
<1>3. Listed(u) = 0  BY <1>1, <1>2, ListedIsOffer, FS_EmptySet
<1> QED  BY <1>1, <1>3, HoldingType

\* A step that puts nothing new on offer and takes nothing from a holding
\* keeps a seller within what they hold.
LEMMA OfferKept ==
    ASSUME TypeOK, TypeOK', NeverOversold, NEW u \in Users \ shrunk,
           Offer(listing', expired', u) \subseteq Offer(listing, expired, u),
           Holding(u)' >= Holding(u)
    PROVE  Listed(u)' <= Holding(u)'
<1>1. listing \in [Listings -> Rows]  BY DEF TypeOK
<1>2. Listed(u) = Cardinality(Offer(listing, expired, u))  BY ListedIsOffer
<1>3. Listed(u)' = Cardinality(Offer(listing', expired', u))
  BY ListedIsOfferNext
<1>4. /\ Cardinality(Offer(listing', expired', u)) \in Nat
      /\ Cardinality(Offer(listing, expired, u)) \in Nat
      /\ Cardinality(Offer(listing', expired', u))
           <= Cardinality(Offer(listing, expired, u))
  BY <1>1, OfferShrinks, OfferFinite
<1>5. Listed(u) <= Holding(u)  BY DEF NeverOversold
<1>6. Holding(u) \in Nat /\ Holding(u)' \in Nat  BY HoldingType, HoldingTypeNext
<1> QED  BY <1>2, <1>3, <1>4, <1>5, <1>6

\* createListing: the new units fit into what is held and not on offer.
LEMMA CreateWithin ==
    ASSUME TypeOK, TypeOK', NeverOversold, NEW l \in Listings, CreateListing(l)
    PROVE  NeverOversold'
<1> SUFFICES ASSUME NEW u \in Users \ shrunk PROVE Listed(u)' <= Holding(u)'
  BY DEF NeverOversold, CreateListing, around, saves
<1> DEFINE n == Rounded(Quantity[l])
<1>1. /\ own' = own /\ bought' = bought /\ expired' = expired
      /\ listing' = [listing EXCEPT ![l] = Row("ACTIVE", n)]
  BY DEF CreateListing, around, holdings
<1>2. listing \in [Listings -> Rows] /\ Quantity[l] \in Quantities /\ n \in Nat
  BY PartsType DEF TypeOK
<1>3. Holding(u)' = Holding(u) /\ Holding(u) \in Nat
  BY <1>1, HoldingSame, HoldingType
<1> HIDE DEF n
<1>4. CASE u # Seller[l]
  <2>1. Offer(listing', expired', u) \subseteq Offer(listing, expired, u)
    BY <1>1, <1>2, <1>4 DEF Offer, Row
  <2>2. Holding(u)' >= Holding(u)  BY <1>3
  <2> QED  BY <2>1, <2>2, OfferKept
<1>5. CASE u = Seller[l]
  <2> DEFINE O == Offer(listing, expired, u)
             N == {l} \X (0 + 1 .. n)
             P == Offer(listing', expired', u)
  <2>1. P \subseteq O \cup N
    BY <1>1, <1>2 DEF Offer, Row
  <2>2. IsFiniteSet(O) /\ Cardinality(O) \in Nat  BY <1>2, OfferFinite
  <2>3. IsFiniteSet(N) /\ Cardinality(N) = n
    <3>1. 0 \in Nat /\ 0 <= n  BY <1>2
    <3>2. IsFiniteSet(N) /\ Cardinality(N) = n - 0
      BY <1>2, <3>1, SpanFinite
    <3> QED  BY <1>2, <3>2
  <2>4. Listed(u) = Cardinality(O)  BY ListedIsOffer
  <2>5. Listed(u)' = Cardinality(P)  BY ListedIsOfferNext
  <2> HIDE DEF O, N, P
  <2>6. n <= Holding(u) - Listed(u)
    <3>1. AtMost(Quantity[l], Holding(u) - Listed(u))  BY <1>5 DEF CreateListing
    <3>2. Holding(u) - Listed(u) \in Int  BY <1>3, <2>2, <2>4
    <3> QED  BY <1>2, <3>1, <3>2, Rounding DEF n
  <2>7. /\ IsFiniteSet(O \cup N)
        /\ Cardinality(O \cup N)
             = Cardinality(O) + Cardinality(N) - Cardinality(O \cap N)
    BY <2>2, <2>3, FS_Union
  <2>8. Cardinality(O \cap N) \in Nat
    BY <2>2, FS_Intersection, FS_CardinalityType
  <2>9. Cardinality(P) <= Cardinality(O \cup N) /\ Cardinality(P) \in Nat
    BY <2>1, <2>7, FS_Subset, FS_CardinalityType
  <2> QED
    BY <1>2, <1>3, <2>2, <2>3, <2>4, <2>5, <2>6, <2>7, <2>8, <2>9
<1> QED  BY <1>4, <1>5

\* What is left of a listing that can be bought is on offer, and so held.
LEMMA BoughtIsHeld ==
    ASSUME TypeOK, NeverOversold, NEW l \in Listings, Buyable(l), Seller[l] \notin shrunk
    PROVE  listing[l].left <= Holding(Seller[l])
<1> DEFINE u == Seller[l]
           n == listing[l].left
           N == {l} \X (0 + 1 .. n)
           O == Offer(listing, expired, u)
<1>1. u \in Users /\ n \in Nat /\ listing \in [Listings -> Rows]
  BY MarketAssumption DEF TypeOK, Rows
<1>2. N \subseteq O  BY <1>1 DEF Offer, Buyable
<1>3. Cardinality(N) = n
  <2>1. 0 \in Nat /\ 0 <= n  BY <1>1
  <2>2. Cardinality(N) = n - 0  BY <1>1, <2>1, SpanFinite
  <2> QED  BY <1>1, <2>2
<1>4. Cardinality(N) <= Cardinality(O) /\ Cardinality(O) \in Nat
  BY <1>1, <1>2, OfferShrinks, OfferFinite
<1>5. Listed(u) = Cardinality(O) /\ Listed(u) <= Holding(u)
  BY <1>1, ListedIsOffer DEF NeverOversold
<1>6. Holding(u) \in Nat  BY <1>1, HoldingType
<1> QED  BY <1>1, <1>3, <1>4, <1>5, <1>6

\* What a purchase changes: the listing keeps its rest, the seller gives up what
\* the listing lost, and the buyer gets the rounded quantity.
LEMMA Buying ==
    ASSUME TypeOK, NeverOversold, NEW l \in Listings, NEW b \in Users,
           NEW q \in Parts(l), BuyListing(l, b, q)
    PROVE  /\ q \in Quantities /\ Taken(q) \in Nat /\ Rounded(q) \in Nat
           /\ Taken(q) <= listing[l].left
           /\ listing' = [listing EXCEPT ![l] =
                  IF SoldBy(l, q) THEN Row("SOLD", q.units) ELSE Row("ACTIVE", @.left - Taken(q))]
           /\ \A u \in Users \ {Seller[l], b} : own'[u] = own[u] /\ bought'[u] = bought[u]
           /\ Seller[l] \notin shrunk => Holding(Seller[l])' = Holding(Seller[l]) - Taken(q)
           /\ Holding(b)' = Holding(b) + Rounded(q)
<1>1. /\ q \in Quantities /\ Seller[l] \in Users
      /\ own \in [Users -> Investments] /\ bought \in [Users -> Investments]
      /\ listing \in [Listings -> Rows] /\ listing[l].left \in Nat
  BY MarketAssumption, PartsType DEF TypeOK, Rows
<1>2. /\ b \in Users \ {Seller[l]} /\ Buyable(l) /\ AtMost(q, listing[l].left)
      /\ listing' = [listing EXCEPT ![l] = Reduced(l, q)] /\ Move(Seller[l], b, q)
  BY DEF BuyListing
<1>3. Taken(q) \in Nat /\ Rounded(q) \in Nat  BY <1>1, Rounding
<1>4. /\ Taken(q) <= listing[l].left
      /\ Reduced(l, q) = IF SoldBy(l, q) THEN Row("SOLD", q.units)
                         ELSE Row("ACTIVE", listing[l].left - Taken(q))
  BY <1>1, <1>2, ReducedType
<1>5. /\ \A u \in Users \ {Seller[l], b} : own'[u] = own[u] /\ bought'[u] = bought[u]
      /\ AtMost(q, Holding(Seller[l])) => Holding(Seller[l])' = Holding(Seller[l]) - Taken(q)
      /\ Holding(b)' = Holding(b) + Rounded(q)
  BY <1>1, <1>2, MoveHoldings
<1>6. ASSUME Seller[l] \notin shrunk PROVE AtMost(q, Holding(Seller[l]))
  <2>1. listing[l].left <= Holding(Seller[l])  BY <1>2, <1>6, BoughtIsHeld
  <2>2. Holding(Seller[l]) \in Nat  BY <1>1, HoldingType
  <2>3. q.units \in Nat  BY <1>1 DEF Quantities
  <2> QED  BY <1>1, <1>2, <2>1, <2>2, <2>3 DEF AtMost
<1> QED  BY <1>1, <1>2, <1>3, <1>4, <1>5, <1>6

\* buyListing: the seller gives up as much as goes off the market.
LEMMA BuyWithin ==
    ASSUME TypeOK, TypeOK', NeverOversold, NEW l \in Listings, NEW b \in Users,
           NEW q \in Parts(l), BuyListing(l, b, q)
    PROVE  NeverOversold'
<1> SUFFICES ASSUME NEW u \in Users \ shrunk PROVE Listed(u)' <= Holding(u)'
  BY DEF NeverOversold, BuyListing, saves
<1> DEFINE n == listing[l].left
           k == Taken(q)
<1>1. /\ listing \in [Listings -> Rows] /\ n \in Nat /\ k \in Nat /\ Seller[l] \in Users
      /\ Holding(u) \in Nat
  BY MarketAssumption, Buying, HoldingType DEF TypeOK, Rows
<1>2. /\ Buyable(l) /\ b # Seller[l] /\ k <= n /\ expired' = expired
      /\ listing' = [listing EXCEPT ![l] =
             IF SoldBy(l, q) THEN Row("SOLD", q.units) ELSE Row("ACTIVE", @.left - k)]
  <2>1. Buyable(l) /\ b # Seller[l] /\ expired' = expired  BY DEF BuyListing
  <2> QED  BY <2>1, Buying
<1>3. Offer(listing', expired', u) \subseteq Offer(listing, expired, u)
  BY <1>1, <1>2 DEF Offer, Row, Buyable
<1>4. CASE u # Seller[l]
  <2>1. CASE u = b
    <3>1. Holding(b)' = Holding(b) + Rounded(q) /\ Rounded(q) \in Nat  BY Buying
    <3>2. Holding(u)' >= Holding(u)  BY <1>1, <2>1, <3>1
    <3> QED  BY <1>3, <3>2, OfferKept
  <2>2. CASE u # b
    <3>1. own'[u] = own[u] /\ bought'[u] = bought[u]  BY <1>4, <2>2, Buying
    <3>2. Holding(u)' >= Holding(u)  BY <1>1, <3>1, HoldingSame
    <3> QED  BY <1>3, <3>2, OfferKept
  <2> QED  BY <2>1, <2>2
<1>5. CASE u = Seller[l]
  <2>1. Holding(u)' = Holding(u) - k  BY <1>5, Buying
  <2>2. n - k \in Nat /\ n - k <= n  BY <1>1, <1>2
  <2> DEFINE T == {l} \X ((n - k) + 1 .. n)
  <2>3. T \subseteq Offer(listing, expired, u)
    BY <1>1, <1>2, <1>5, <2>2 DEF Offer, Buyable
  <2>4. Offer(listing', expired', u) \cap T = {}
    BY <1>1, <1>2, <2>2 DEF Offer, Row
  <2>5. /\ Cardinality(Offer(listing', expired', u)) \in Nat
        /\ Cardinality(Offer(listing', expired', u))
             <= Cardinality(Offer(listing, expired, u)) - (n - (n - k))
    <3> DEFINE P == Offer(listing', expired', u)
               a == n - k
    <3>1. P \in SUBSET (Offer(listing, expired, u) \ ({l} \X (a + 1 .. n)))
      BY <1>3, <2>4
    <3>2. a \in Nat /\ a <= n  BY <2>2
    <3>3. {l} \X (a + 1 .. n) \subseteq Offer(listing, expired, u)  BY <2>3
    <3> HIDE DEF P, a, n
    <3>4. Cardinality(P) \in Nat
          /\ Cardinality(P) <= Cardinality(Offer(listing, expired, u)) - (n - a)
      BY <1>1, <3>1, <3>2, <3>3, OfferLess
    <3> QED  BY <3>4 DEF P, a
  <2>6. Listed(u) = Cardinality(Offer(listing, expired, u))  BY ListedIsOffer
  <2>7. Listed(u)' = Cardinality(Offer(listing', expired', u))
    BY ListedIsOfferNext
  <2>8. Listed(u) <= Holding(u) /\ Listed(u) \in Nat
    BY <1>1, <2>6, OfferFinite DEF NeverOversold
  <2> HIDE DEF n, k
  <2> QED  BY <1>1, <1>5, <2>1, <2>5, <2>6, <2>7, <2>8
<1> QED  BY <1>4, <1>5

\* A confirmation either puts back no less than there was, or is noted.
LEMMA SaveWithin ==
    ASSUME TypeOK, TypeOK', NeverOversold, NEW v \in Savers, SaveConfirmed(v)
    PROVE  NeverOversold'
<1> SUFFICES ASSUME NEW u \in Users \ shrunk' PROVE Listed(u)' <= Holding(u)'
  BY DEF NeverOversold
<1> DEFINE w == Payer[v]
<1>1. /\ w \in Users /\ own \in [Users -> Investments] /\ copy[v].amount \in Nat
      /\ own' = [own EXCEPT ![w] = Investment("CONFIRMED", copy[v].amount)]
      /\ bought' = bought /\ listing' = listing /\ expired' = expired
      /\ shrunk' = IF copy[v].amount < Amount(own[w]) THEN shrunk \cup {w} ELSE shrunk
  BY MarketAssumption DEF TypeOK, SaveConfirmed, market
<1>2. u \in Users \ shrunk  BY <1>1
<1>3. Offer(listing', expired', u) \subseteq Offer(listing, expired, u)
  BY <1>1 DEF Offer
<1>4. Holding(u)' >= Holding(u)
  <2>1. CASE u # w
    <3>1. own'[u] = own[u] /\ bought'[u] = bought[u]  BY <1>1, <2>1
    <3> QED  BY <1>2, <3>1, HoldingSame, HoldingType
  <2>2. CASE u = w
    <3>1. Amount(own[u]) \in Nat /\ Amount(bought[u]) \in Nat
      BY <1>2, AmountType DEF TypeOK
    <3>2. copy[v].amount >= Amount(own[u])  BY <1>1, <2>2, <3>1
    <3>3. own'[u] = [status |-> "CONFIRMED", amount |-> copy[v].amount]
      BY <1>1, <2>2 DEF Investment
    <3>4. Holding(u)' = copy[v].amount + Amount(bought[u])
      BY <1>1, <3>3 DEF Holding, Amount
    <3>5. Holding(u) = Amount(own[u]) + Amount(bought[u])  BY DEF Holding
    <3> QED  BY <1>1, <3>1, <3>2, <3>4, <3>5
  <2> QED  BY <2>1, <2>2
<1> QED  BY <1>2, <1>3, <1>4, OfferKept

\* Every step keeps the sellers within what they hold.
LEMMA WithinNext == TypeOK /\ TypeOK' /\ NeverOversold /\ [Next]_vars => NeverOversold'
<1> SUFFICES ASSUME TypeOK, TypeOK', NeverOversold, [Next]_vars PROVE NeverOversold'
  OBVIOUS
<1> USE DEF around, holdings, saves, market
<1>t. listing \in [Listings -> Rows]  BY DEF TypeOK
<1>1. ASSUME NEW l \in Listings, CreateListing(l) PROVE NeverOversold'
  BY <1>1, CreateWithin
<1>2. ASSUME NEW l \in Listings, NEW b \in Users, NEW q \in Parts(l), BuyListing(l, b, q)
      PROVE  NeverOversold'
  BY <1>2, BuyWithin
<1>3. ASSUME UNCHANGED <<own, bought, shrunk>>,
             \A u \in Users : Offer(listing', expired', u) \subseteq Offer(listing, expired, u)
      PROVE  NeverOversold'
  <2> SUFFICES ASSUME NEW u \in Users \ shrunk PROVE Listed(u)' <= Holding(u)'
    BY <1>3 DEF NeverOversold
  <2>1. Holding(u)' = Holding(u) /\ Holding(u) \in Nat
    BY <1>3, HoldingSame, HoldingType
  <2>2. Holding(u)' >= Holding(u)  BY <2>1
  <2> QED  BY <1>3, <2>2, OfferKept
<1>4. ASSUME UNCHANGED <<own, bought, shrunk, listing>>, expired \subseteq expired'
      PROVE  NeverOversold'
  <2>1. \A u \in Users : Offer(listing', expired', u) \subseteq Offer(listing, expired, u)
    BY <1>4 DEF Offer
  <2> QED  BY <1>3, <1>4, <2>1
<1>5. ASSUME NEW l \in Listings, Expire(l) PROVE NeverOversold'
  BY <1>4, <1>5 DEF Expire
<1>6. ASSUME NEW l \in Listings, NotifySeller(l) PROVE NeverOversold'
  BY <1>4, <1>6 DEF NotifySeller
<1>7. ASSUME NEW c \in Cancels, LoadForCancel(c) PROVE NeverOversold'
  BY <1>4, <1>7 DEF LoadForCancel
<1>8. ASSUME NEW c \in Cancels, SaveCancelled(c) PROVE NeverOversold'
  <2>1. Target[c] \in Listings  BY MarketAssumption
  <2>2. \A u \in Users : Offer(listing', expired', u) \subseteq Offer(listing, expired, u)
    BY <1>8, <1>t, <2>1 DEF SaveCancelled, Offer, Row
  <2>3. UNCHANGED <<own, bought, shrunk>>  BY <1>8 DEF SaveCancelled
  <2> QED  BY <1>3, <2>2, <2>3
<1>9. CASE FallDue  BY <1>4, <1>9 DEF FallDue
<1>10. CASE AdvanceSettlement  BY <1>4, <1>10 DEF AdvanceSettlement
<1>11. ASSUME NEW v \in Savers, LoadInvestment(v) PROVE NeverOversold'
  BY <1>4, <1>11 DEF LoadInvestment
<1>12. ASSUME NEW v \in Savers, SaveConfirmed(v) PROVE NeverOversold'
  BY <1>12, SaveWithin
<1>13. CASE UNCHANGED vars  BY <1>4, <1>13 DEF vars
<1> QED
  BY <1>1, <1>2, <1>5, <1>6, <1>7, <1>8, <1>9, <1>10, <1>11, <1>12, <1>13
  DEF Next, Trade, Cancel, Around

\* However listings, purchases, expiries and cancellations interleave, and with
\* every rounding, no seller has more on offer than they hold, unless a stale
\* save took it from them (createListing's double-listing check and buyListing's
\* deduction).
THEOREM SellersWithinHoldings == Spec => []NeverOversold
<1>1. Init => TypeOK /\ NeverOversold  BY InitType, InitOffer
<1>2. TypeOK /\ NeverOversold /\ [Next]_vars => (TypeOK /\ NeverOversold)'
  BY NextType, WithinNext
<1> QED  BY <1>1, <1>2, PTL DEF Spec

-----------------------------------------------------------------------------
(* What becomes of the shares                                              *)

\* A purchase takes from the seller what the listing lost, and gives the buyer
\* that and the half it was rounded up by.
LEMMA BuyMoves ==
    ASSUME TypeOK, NeverOversold, NEW l \in Listings, NEW b \in Users,
           NEW q \in Parts(l), BuyListing(l, b, q)
    PROVE  Purchased(l, b)
<1> DEFINE lost == UnitsSold(paid'[l]) - UnitsSold(paid[l])
           halves == paid'[l].half - paid[l].half
<1>1. /\ q \in Quantities /\ Taken(q) \in Nat /\ Rounded(q) \in Nat
      /\ \A u \in Users \ {Seller[l], b} : own'[u] = own[u] /\ bought'[u] = bought[u]
      /\ Seller[l] \notin shrunk => Holding(Seller[l])' = Holding(Seller[l]) - Taken(q)
      /\ Holding(b)' = Holding(b) + Rounded(q)
  BY Buying
<1>2. /\ settlement = "none" /\ b # Seller[l]
      /\ paid[l] \in Payments /\ paid'[l] = Paid(paid[l], q)
  BY DEF BuyListing, Tradable, TypeOK
<1>3. /\ UnitsSold(paid[l]) \in Nat
      /\ UnitsSold(Paid(paid[l], q)) = UnitsSold(paid[l]) + Taken(q)
      /\ Paid(paid[l], q).half - paid[l].half = Rounded(q) - Taken(q)
  BY <1>1, <1>2, PaidType
<1>4. lost = Taken(q) /\ halves = Rounded(q) - Taken(q)
  BY <1>1, <1>2, <1>3
<1> HIDE DEF lost, halves
<1>5. Holding(b) \in Nat  BY HoldingType
<1>6. Holding(b)' = Holding(b) + lost + halves
  BY <1>1, <1>4, <1>5
<1> QED  BY <1>1, <1>2, <1>4, <1>6 DEF Purchased, lost, halves

\* The shares change only by a save of the amount that was loaded, or by a
\* purchase while no settlement is in progress, which accounts for every unit.
THEOREM SharesAreAccounted == Spec => SharesAccounted
<1> DEFINE Good ==
        \/ UNCHANGED holdings
        \/ \E v \in Savers : PutBack(v)
        \/ \E l \in Listings, b \in Users : Purchased(l, b)
<1>1. TypeOK /\ NeverOversold /\ [Next]_vars => Good
  <2> SUFFICES ASSUME TypeOK, NeverOversold, [Next]_vars PROVE Good
    OBVIOUS
  <2>1. ASSUME NEW l \in Listings, NEW b \in Users, NEW q \in Parts(l), BuyListing(l, b, q)
        PROVE  Good
    BY <2>1, BuyMoves
  <2>2. ASSUME NEW v \in Savers, SaveConfirmed(v) PROVE Good
    BY <2>2 DEF TypeOK, SaveConfirmed, PutBack
  <2>3. CASE UNCHANGED holdings  BY <2>3
  <2> HIDE DEF Good
  <2>4. ASSUME NEW l \in Listings, CreateListing(l) \/ Expire(l) \/ NotifySeller(l)
        PROVE  Good
    BY <2>3, <2>4 DEF CreateListing, Expire, NotifySeller, around
  <2>5. ASSUME NEW v \in Savers, LoadInvestment(v) PROVE Good
    BY <2>3, <2>5 DEF LoadInvestment
  <2>6. CASE Cancel \/ FallDue \/ AdvanceSettlement \/ UNCHANGED vars
    BY <2>3, <2>6
    DEF Cancel, LoadForCancel, SaveCancelled, FallDue, AdvanceSettlement, around, vars
  <2> QED
    BY <2>1, <2>2, <2>4, <2>5, <2>6 DEF Next, Trade, Around
<1>2. Good \/ UNCHANGED vars => [Good]_vars  OBVIOUS
<1>3. Spec => [](TypeOK /\ NeverOversold)
  BY TypeCorrect, SellersWithinHoldings, PTL
<1>4. Spec => [][Good]_vars
  <2>1. TypeOK /\ NeverOversold /\ [Next]_vars => [Good]_vars  BY <1>1, <1>2
  <2> HIDE DEF Good
  <2> QED  BY <1>3, <2>1, PTL DEF Spec
<1> QED  BY <1>4 DEF SharesAccounted

-----------------------------------------------------------------------------
(* Sales and the notification                                              *)

\* Inductive: nothing is sold of a listing that is not inserted, and the seller
\* is told of a listing only when all of it is sold.
SalesInv ==
    /\ SoldWithinListing
    /\ NoticeMeansSoldOut
    /\ \A l \in Listings : listing[l].status = "none" => UnitsSold(paid[l]) = 0

\* It holds initially ...
LEMMA InitSales == Init => SalesInv
<1> SUFFICES ASSUME Init PROVE SalesInv
  OBVIOUS
<1>1. \A l \in Listings : /\ listing[l].status = "none" /\ notice[l] = "none"
                          /\ UnitsSold(paid[l]) = 0
  BY DEF Init, Row, UnitsSold
<1>2. \A l \in Listings : Rounded(Quantity[l]) \in Nat  BY PartsType
<1> QED  BY <1>1, <1>2 DEF SalesInv, SoldWithinListing, NoticeMeansSoldOut

\* ... and every step keeps it.
LEMMA NextSales == TypeOK /\ NeverOversold /\ SalesInv /\ [Next]_vars => SalesInv'
<1> SUFFICES ASSUME TypeOK, NeverOversold, SalesInv, [Next]_vars PROVE SalesInv'
  OBVIOUS
<1> DEFINE Of(row, sold, note, all) ==
        /\ sold <= all
        /\ row.status = "ACTIVE" => row.left + sold = all
        /\ note # "none" => sold = all
        /\ row.status = "none" => sold = 0
           All(l) == Rounded(Quantity[l])
<1>1. \A l \in Listings : Of(listing[l], UnitsSold(paid[l]), notice[l], All(l))
  BY DEF SalesInv, SoldWithinListing, NoticeMeansSoldOut
<1>2. SUFFICES \A l \in Listings : Of(listing'[l], UnitsSold(paid'[l]), notice'[l], All(l))
  BY DEF SalesInv, SoldWithinListing, NoticeMeansSoldOut, UnitsSold
<1>t. /\ listing \in [Listings -> Rows] /\ paid \in [Listings -> Payments]
      /\ notice \in [Listings -> {"none", "pending", "over"}]
      /\ \A l \in Listings : listing[l].left \in Nat /\ All(l) \in Nat
  BY PartsType DEF TypeOK, Rows
<1> HIDE DEF All
<1>3. ASSUME NEW l \in Listings, CreateListing(l)
      PROVE \A m \in Listings : Of(listing'[m], UnitsSold(paid'[m]), notice'[m], All(m))
  <2>1. /\ listing[l].status = "none" /\ paid' = paid /\ notice' = notice
        /\ listing' = [listing EXCEPT ![l] = Row("ACTIVE", All(l))]
    BY <1>3 DEF CreateListing, All
  <2> QED  BY <1>1, <1>t, <2>1 DEF Row
<1>4. ASSUME NEW l \in Listings, NEW b \in Users, NEW q \in Parts(l), BuyListing(l, b, q)
      PROVE  \A m \in Listings : Of(listing'[m], UnitsSold(paid'[m]), notice'[m], All(m))
  <2> SUFFICES ASSUME NEW m \in Listings
               PROVE  Of(listing'[m], UnitsSold(paid'[m]), notice'[m], All(m))
    OBVIOUS
  <2>1. /\ listing[l].status = "ACTIVE" /\ AtMost(q, listing[l].left) /\ Positive(q)
        /\ paid' = [paid EXCEPT ![l] = Paid(@, q)]
        /\ notice' = [notice EXCEPT ![l] = IF SoldBy(l, q) THEN "pending" ELSE @]
    BY <1>4 DEF BuyListing, Buyable
  <2>2. /\ q \in Quantities /\ Taken(q) \in Nat /\ Taken(q) <= listing[l].left
        /\ listing' = [listing EXCEPT ![l] =
               IF SoldBy(l, q) THEN Row("SOLD", q.units) ELSE Row("ACTIVE", @.left - Taken(q))]
    BY <1>4, Buying
  <2>3. CASE m # l
    <3>1. listing'[m] = listing[m] /\ paid'[m] = paid[m] /\ notice'[m] = notice[m]
      BY <1>t, <2>1, <2>2, <2>3
    <3> QED  BY <1>1, <3>1
  <2>4. CASE m = l
    <3>1. /\ UnitsSold(paid[l]) \in Nat
          /\ UnitsSold(paid'[l]) = UnitsSold(paid[l]) + Taken(q)
      <4>1. paid'[l] = Paid(paid[l], q) /\ paid[l] \in Payments  BY <1>t, <2>1
      <4> QED  BY <2>2, <4>1, PaidType
    <3>2. listing[l].left + UnitsSold(paid[l]) = All(l) /\ All(l) \in Nat
      BY <1>1, <1>t, <2>1
    <3>3. CASE SoldBy(l, q)
      <4>1. Taken(q) = listing[l].left  BY <1>t, <3>3 DEF SoldBy, Taken
      <4>2. UnitsSold(paid'[l]) = All(l)  BY <1>t, <3>1, <3>2, <4>1
      <4>3. listing'[l].status = "SOLD"  BY <1>t, <2>2, <3>3 DEF Row
      <4> QED  BY <2>4, <3>2, <4>2, <4>3
    <3>4. CASE ~SoldBy(l, q)
      <4>1. listing'[l].status = "ACTIVE" /\ listing'[l].left = listing[l].left - Taken(q)
        BY <1>t, <2>2, <3>4 DEF Row
      <4>2. listing[l].left # 0  BY <2>1, <2>2, Rounding
      <4>3. notice[l] = "none"  BY <1>1, <1>t, <3>1, <3>2, <4>2
      <4>4. notice'[l] = "none"  BY <1>t, <2>1, <3>4, <4>3
      <4>5. /\ UnitsSold(paid'[l]) <= All(l)
            /\ listing'[l].left + UnitsSold(paid'[l]) = All(l)
        BY <1>t, <2>2, <3>1, <3>2, <4>1
      <4> QED  BY <2>4, <4>1, <4>4, <4>5
    <3> QED  BY <3>3, <3>4
  <2> QED  BY <2>3, <2>4
<1>5. ASSUME NEW l \in Listings, NotifySeller(l)
      PROVE \A m \in Listings : Of(listing'[m], UnitsSold(paid'[m]), notice'[m], All(m))
  <2>1. /\ notice[l] = "pending" /\ notice' = [notice EXCEPT ![l] = "over"]
        /\ listing' = listing /\ paid' = paid
    BY <1>5 DEF NotifySeller
  <2> QED  BY <1>1, <1>t, <2>1
<1>6. ASSUME NEW c \in Cancels, SaveCancelled(c)
      PROVE \A m \in Listings : Of(listing'[m], UnitsSold(paid'[m]), notice'[m], All(m))
  <2>1. Target[c] \in Listings  BY MarketAssumption
  <2>2. /\ listing' = [listing EXCEPT ![Target[c]] = Row("CANCELLED", seen[c].left)]
        /\ paid' = paid /\ notice' = notice
    BY <1>6 DEF SaveCancelled
  <2> QED  BY <1>1, <1>t, <2>1, <2>2 DEF Row
<1>7. ASSUME UNCHANGED <<listing, paid, notice>>
      PROVE \A m \in Listings : Of(listing'[m], UnitsSold(paid'[m]), notice'[m], All(m))
  BY <1>1, <1>7
<1>8. ASSUME NEW l \in Listings, Expire(l) PROVE UNCHANGED <<listing, paid, notice>>
  BY <1>8 DEF Expire
<1>9. ASSUME NEW c \in Cancels, LoadForCancel(c) PROVE UNCHANGED <<listing, paid, notice>>
  BY <1>9 DEF LoadForCancel
<1>10. CASE Around \/ UNCHANGED vars
  <2>1. UNCHANGED <<listing, paid, notice>>
    BY <1>10 DEF Around, FallDue, AdvanceSettlement, LoadInvestment, SaveConfirmed, market, vars
  <2> QED  BY <1>7, <2>1
<1> HIDE DEF Of
<1> QED
  BY <1>3, <1>4, <1>5, <1>6, <1>7, <1>8, <1>9, <1>10 DEF Next, Trade, Cancel

\* The inductive invariant of the sales.
LEMMA SalesHold == Spec => []SalesInv
<1>1. Spec => [](TypeOK /\ NeverOversold)
  BY TypeCorrect, SellersWithinHoldings, PTL
<1> QED  BY <1>1, InitSales, NextSales, PTL DEF Spec

\* A listing never loses more units than it offered, and while it is on offer
\* its rest and what it lost make up the whole of it (buyListing against a
\* cancelListing that writes an old quantity back).
THEOREM SalesWithinListing == Spec => []SoldWithinListing
  BY SalesHold, PTL DEF SalesInv

\* A seller is told of a sale only when every unit is sold (buyListing's
\* notification after the commit).
THEOREM NoticeIsTrue == Spec => []NoticeMeansSoldOut
  BY SalesHold, PTL DEF SalesInv
=============================================================================
