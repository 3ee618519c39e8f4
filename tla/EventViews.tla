----------------------------- MODULE EventViews -----------------------------
(***************************************************************************)
(* The read models of contract events that keep no number of the event:    *)
(* auctions, referral tiers, pool rebalances, cancelled orders, ratings,   *)
(* sector benchmarks, yield boosts, creator keys and curve migrations.     *)
(* Each operator is what handling one event makes of the rows.             *)
(* `index.ts` registers the creator keys and the curve migrations on the   *)
(* bus, and nothing in `src/` calls the others' `ingest` operations.       *)
(*                                                                         *)
(* A row that may be missing is a set of at most one.                      *)
(***************************************************************************)
EXTENDS Integers, Sequences, FiniteSets

LOCAL INSTANCE SequencesExt
LOCAL INSTANCE FiniteSetsExt

None == "none"
Only(row) == CHOOSE r \in row : TRUE
Else(optional, value) == IF optional = {} THEN value ELSE Only(optional)

-----------------------------------------------------------------------------
(* secondary-auction.service.ts.  A bid or a settlement of an auction that *)
(* is not there throws, and leaves things as they are.                     *)

AuctionCreated(auction, reserve) ==
    IF auction # {} THEN {[Only(auction) EXCEPT !.reserve = reserve]}
    ELSE {[status |-> "active", reserve |-> reserve, highest |-> 0, bidder |-> None, bids |-> 0,
           winner |-> None, amount |-> 0]}

BidPlaced(auction, bid) ==
    {IF a.bids = 0 \/ bid.amount > a.highest
     THEN [a EXCEPT !.bids = @ + 1, !.highest = bid.amount, !.bidder = bid.bidder]
     ELSE [a EXCEPT !.bids = @ + 1] : a \in auction}

\* The winner and the amount are the event's, or else the highest bid's so far.
AuctionSettled(auction, winner, amount) ==
    {[a EXCEPT !.status = "settled", !.winner = Else(winner, a.bidder), !.amount = Else(amount, a.highest)]
        : a \in auction}

ReserveMet(a) == a.highest >= a.reserve /\ a.reserve > 0
Countdown(a, ends, now) ==
    IF a.status # "active" \/ ends = {} THEN {} ELSE {Max({0, Only(ends) - now})}

-----------------------------------------------------------------------------
(* referral-tier.service.ts and yield-boost.service.ts                     *)

Tiers == <<"standard", "bronze", "silver", "gold">>
Commission == [standard |-> 100, bronze |-> 150, silver |-> 200, gold |-> 250]
NextTier(tier) ==
    LET i == CHOOSE i \in DOMAIN Tiers : Tiers[i] = tier
    IN  IF i < Len(Tiers) THEN {Tiers[i + 1]} ELSE {}

\* The row is that of the event handled last; the history has one for each.
TierUpgraded(s, tier, rate) ==
    LET row == [tier |-> tier, rate |-> Else(rate, Commission[tier])]
    IN  [row |-> {row}, history |-> Append(s.history, row)]
TierView(s) ==
    LET row == Else(s.row, [tier |-> "standard", rate |-> Commission["standard"]])
    IN  [tier |-> row.tier, rate |-> row.rate, next |-> NextTier(row.tier), isDefault |-> s.row = {}]

TierBoost == [silver |-> 25, gold |-> 50, platinum |-> 100]
BoostApplied(row, tier, bps) ==
    {[tier |-> tier, bps |-> Else(bps, IF tier \in DOMAIN TierBoost THEN TierBoost[tier] ELSE 0)]}
BoostView(row, base) ==
    LET eligible == \E r \in row : r.tier \in DOMAIN TierBoost
        bps == IF eligible THEN Only(row).bps ELSE 0
    IN  [eligible |-> eligible, bps |-> bps, boosted |-> base + bps]

-----------------------------------------------------------------------------
(* pool-rebalance.service.ts, for one pool.  An execution does not say of  *)
(* which proposal.                                                         *)

Proposed(rows, at) == Append(rows, [status |-> "pending", at |-> at])
Pending(rows) == {i \in DOMAIN rows : rows[i].status = "pending"}
Newest(rows) == {i \in Pending(rows) : \A j \in Pending(rows) : rows[j].at <= rows[i].at}
Executed(rows) ==
    IF Pending(rows) = {} THEN {rows} ELSE {[rows EXCEPT ![i].status = "executed"] : i \in Newest(rows)}

-----------------------------------------------------------------------------
(* bulk-cancellation.service.ts, invoice-rating.service.ts,                *)
(* benchmark.service.ts and creator-key.service.ts                         *)

\* Orders known already are skipped.
OrdersCancelled(rows, orders) ==
    LET Cancel(known, order) ==
            IF \E r \in known : r.id = order.id THEN known ELSE known \cup {order}
    IN  FoldLeft(Cancel, rows, orders)

\* A row for each event, the rating brought between 1 and 5.
Rated(rows, event) == Append(rows, [event EXCEPT !.rating = Max({1, Min({5, @})})])
RatingOf(rows) ==
    LET Total(n, row) == n + row.rating
    IN  [sum |-> FoldLeft(Total, 0, rows), count |-> Len(rows), belowMinimum |-> Len(rows) < 3,
         distribution |-> [r \in 1 .. 5 |-> Cardinality({i \in DOMAIN rows : rows[i].rating = r})]]

\* Fields the event does not have keep their values; a key nobody knows has no row.
Fields(row, event) == [f \in DOMAIN row |-> IF f \in DOMAIN event THEN event[f] ELSE row[f]]
BenchmarkUpdated(row, event) == {Fields(Else(row, [yield |-> 0, samples |-> 0]), event)}
KeyConfigUpdated(row, event) == {[Fields(r, event) EXCEPT !.version = @ + 1] : r \in row}

-----------------------------------------------------------------------------
(* curve-migration.service.ts                                              *)

\* The timelock of the proposal is a time, if it is greater than `least`, or a delay.
Expiry(timelock, at, least) == {IF t > least THEN t ELSE at + t : t \in timelock}
MigrationStatus(row, now) ==
    CASE row.executed -> "executed"
      [] ~row.executed /\ (\E e \in row.expiry : e <= now) -> "expired"
      [] OTHER -> "pending"
=============================================================================
