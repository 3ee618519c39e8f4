------------------------- MODULE MCInvoiceLifecycle -------------------------
(***************************************************************************)
(* An instance of InvoiceLifecycle for TLC: a draft that is edited,        *)
(* submitted, approved and rejected by calls that overlap, a batch that    *)
(* publishes it with a second one, and events of its escrow.               *)
(* Its notices are one kind; ExpiryWarnings has those of subscriptions,    *)
(* Caches the copies of the invoices that are served, and EventViews the   *)
(* views kept of other contracts' events: what holds of them is evaluated  *)
(* here.                                                                   *)
(***************************************************************************)
EXTENDS InvoiceLifecycle, TLC

MCMay ==
    [c \in Calls |-> CASE c = "edit" -> {"update", "delete", "reject", "created"}
                       [] c = "seller" -> {"submit", "publish", "batch", "paid"}
                       [] c = "admin" -> {"approve", "reject", "funded", "settled"}]
MCOn == [op \in Ops |-> IF op = "batch" THEN Invoices ELSE {"a"}]
MCEvents == Invoices \X {"approved", "rejected", "funded"}

-----------------------------------------------------------------------------
LOCAL INSTANCE BoundedRuns
LOCAL INSTANCE FiniteSetsExt
LOCAL INSTANCE SequencesExt
Expiry == INSTANCE ExpiryWarnings
Cache == INSTANCE Caches
View == INSTANCE EventViews

-----------------------------------------------------------------------------
(***************************************************************************)
(* ExpiryWarnings evaluated on every subscription that ends within ten     *)
(* days, over twenty days of runs.                                         *)
(***************************************************************************)

LOCAL Horizon == 0 .. 40
LOCAL Subscriptions(balance) ==
    [active : {TRUE}, expiry : 1 .. 20, balance : {balance}, minimum : {1}, cycle : {Expiry!None}]
LOCAL Sent(sub, up, renewal) == Expiry!States(sub, up, renewal, 40)[40].sent
LOCAL Windows(sent) == {k.window : k \in sent}

\* While the job runs every day, a subscription with more than a day left is
\* warned of once per window, whatever the time of the day it ends at.
ASSUME WarnedOncePerWindow ==
    \A sub \in Subscriptions(0) : sub.expiry > Expiry!Day =>
        /\ Windows(Sent(sub, Horizon, <<>>)) = {"7d", "24h"}
        /\ Cardinality(Sent(sub, Horizon, <<>>)) = 2

\* Who holds enough is not warned.
ASSUME NotWarnedWithEnough ==
    \A sub \in Subscriptions(1) : Sent(sub, Horizon, <<>>) = {}

\* One run that does not take place costs the last warning ...
ASSUME MissedRunCostsTheLast ==
    \A sub \in Subscriptions(0) : sub.expiry > Expiry!Day =>
        \E t \in Horizon : Windows(Sent(sub, Horizon \ {t}, <<>>)) = {"7d"}

\* ... and any other run may be missed, for the next one makes up for it.
ASSUME OtherRunsCostNothing ==
    \A sub \in Subscriptions(0), t \in Horizon : sub.expiry > 3 * Expiry!Day /\ t < sub.expiry - Expiry!Day =>
        Sent(sub, Horizon \ {t}, <<>>) = Sent(sub, Horizon, <<>>)

\* A subscription that is renewed after its warnings is never warned of again:
\* the cycle that was noted first stays its cycle.
ASSUME RenewedIsNotWarned ==
    \A sub \in Subscriptions(0) : sub.expiry > Expiry!Day =>
        Sent(sub, Horizon, sub.expiry :> 39) = Sent(sub, Horizon, <<>>)

-----------------------------------------------------------------------------
(***************************************************************************)
(* Caches evaluated on every history of five operations on three keys in   *)
(* maps of two entries, on the runs of two processes with copies of an     *)
(* invoice, and on every sequence of five requests.                        *)
(***************************************************************************)

LOCAL Room == 2
LOCAL Lifetime == 2
LOCAL Operations ==
    [op : {"set", "get"}, key : {"k", "l", "m"}] \cup [op : {"tick"}, key : {"k"}]
LOCAL Histories == [1 .. 5 -> Operations]

\* The time of the n-th operation, and the map after n of them, a value being
\* the number of the operation that set it.
LOCAL TimeAt(h, n) == Cardinality({i \in 1 .. n : h[i].op = "tick"})
LOCAL MapAfter(Set(_, _, _, _), h) ==
    LET map[n \in 0 .. Len(h)] ==
            IF n = 0 THEN <<>>
            ELSE CASE h[n].op = "set" -> Set(map[n - 1], h[n].key, n, TimeAt(h, n))
                   [] h[n].op = "get" -> Cache!Get(map[n - 1], h[n].key, TimeAt(h, n)).map
                   [] OTHER -> map[n - 1]
    IN  map[Len(h)]

LOCAL LastSet(h, k) == Max({0} \cup {i \in DOMAIN h : h[i] = [op |-> "set", key |-> k]})
LOCAL IsFresh(h, k) ==
    LastSet(h, k) # 0 /\ TimeAt(h, Len(h)) <= TimeAt(h, LastSet(h, k)) + Lifetime

\* Since k was last set, no `Room` other keys were used between two uses of k.
LOCAL IsInUse(h, k) ==
    \A i, j \in LastSet(h, k) + 1 .. Len(h) :
        LET used == {h[n].key : n \in {n \in i .. j : h[n].op # "tick"}}
        IN  k \notin used => Cardinality(used) < Room

\* A map never holds more than it may, never returns what has expired or was
\* overwritten, and never loses a key in use.  (All keys are alike: k.)
LOCAL IsLruCache(Set(_, _, _, _), h) ==
    LET map == MapAfter(Set, h)
        got == Cache!Get(map, "k", TimeAt(h, Len(h))).value
    IN  /\ Len(map) <= Room
        /\ got # Cache!Nothing => got = LastSet(h, "k") /\ IsFresh(h, "k")
        /\ IsFresh(h, "k") /\ IsInUse(h, "k") => got # Cache!Nothing

ASSUME TtlCacheIsLru ==
    \A h \in Histories :
        IsLruCache(LAMBDA map, key, value, now : Cache!TtlSet(map, key, value, now, Lifetime, Room), h)
ASSUME LruCacheIsLru ==
    \A h \in Histories :
        IsLruCache(LAMBDA map, key, value, now : Cache!LruSet(map, key, value, now, Lifetime, Room), h)

\* What sets them apart: the first makes room by dropping what has expired.
ASSUME ExpiredGoFirst ==
    LET e(k, v, t) == [key |-> k, value |-> v, expires |-> t]
        full == <<e("k", 1, 3), e("l", 2, 0)>>
    IN  /\ Cache!Get(Cache!TtlSet(full, "m", 3, 2, Lifetime, Room), "k", 2).value = 1
        /\ Cache!Get(Cache!LruSet(full, "m", 3, 2, Lifetime, Room), "k", 2).value = Cache!Nothing

-----------------------------------------------------------------------------
(* Copies of an invoice.                                                   *)

LOCAL Act(s, p, redisUp) ==
    Cache!ReadInvoice(s, p, redisUp) \cup Cache!SetInvoice(s, p, redisUp)
        \cup (IF s.row < 1 THEN Cache!WriteInvoice(s, p) ELSE {}) \cup Cache!DropInvoice(s, p, redisUp)
LOCAL Quiet(s) == \A p \in DOMAIN s.request : s.request[p] = Cache!Idle
LOCAL InTurn(s) ==
    UNION {Act(s, p, TRUE) :
           p \in {p \in DOMAIN s.request : \A q \in DOMAIN s.request \ {p} : s.request[q] = Cache!Idle}}
LOCAL AtOnce(s) == UNION {Act(s, p, TRUE) : p \in DOMAIN s.request}
LOCAL IsStale(s, h, redisUp) == Cache!Cached(s, h, redisUp) \notin {Cache!Nothing, s.row}

\* With one process and one request at a time no answer is stale, with Redis or
\* without it.
ASSUME OneAtATimeIsFresh ==
    \A s \in Within(InTurn, {Cache!Uncached({<<"a", 1>>})}, 9) : Quiet(s) =>
        ~IsStale(s, "a", TRUE) /\ ~IsStale(s, "a", FALSE)

\* A read that began before a write stores what it read after the write's
\* invalidation: the copy stays until it expires.
ASSUME SlowReadStaysCached ==
    \E s \in Within(AtOnce, {Cache!Uncached({<<"a", 1>>, <<"a", 2>>})}, 6) : Quiet(s) /\ IsStale(s, "a", TRUE)

\* A write reaches the copy of its own process only: another process that finds
\* nothing in Redis goes back to the copy it made before, all in turn.
ASSUME OtherProcessKeepsItsCopy ==
    \E s \in Within(InTurn, {Cache!Uncached({<<"a", 1>>, <<"b", 1>>})}, 6) :
        Quiet(s) /\ s.redis = Cache!Nothing /\ IsStale(s, "b", TRUE)

\* An invalidation that finds Redis down leaves the copy there for all.
ASSUME LostInvalidation ==
    LET p == <<"a", 1>>
        filled == After(LAMBDA s : Cache!ReadInvoice(s, p, TRUE), {Cache!Uncached({p})}, 1)
            read == After(LAMBDA s : Act(s, p, TRUE), filled, 2)
        dropped == After(LAMBDA s : Cache!DropInvoice(s, p, FALSE),
                             UNION {Cache!WriteInvoice(s, p) : s \in read}, 2)
    IN  dropped # {} /\ \A s \in dropped : IsStale(s, "a", TRUE)

-----------------------------------------------------------------------------
(* The sliding window.                                                     *)

LOCAL Window == 4
LOCAL Allowance == 2

\* The times of six requests, which never decrease, and those let through after
\* the first n.
LOCAL Arrivals == {t \in [1 .. 6 -> 1 .. 7] : \A i \in 1 .. 5 : t[i] <= t[i + 1]}
LOCAL LetThrough(t) ==
    LET run[n \in 0 .. Len(t)] ==
            IF n = 0 THEN [times |-> <<>>, passed |-> {}]
            ELSE LET r == Cache!Request(run[n - 1].times, t[n], Window, Allowance)
                 IN  [times |-> r.times,
                      passed |-> IF r.allowed THEN run[n - 1].passed \cup {n} ELSE run[n - 1].passed]
    IN  run[Len(t)]

\* No window, wherever it begins, lets more through than the allowance, and who
\* is refused finds it used up.
ASSUME NoWindowIsExceeded ==
    \A t \in Arrivals :
        LET passed == LetThrough(t).passed
            Recently(n) == {i \in passed : i < n /\ t[i] > t[n] - Window}
        IN  \A n \in DOMAIN t :
                IF n \in passed THEN Cardinality(Recently(n)) < Allowance
                ELSE Cardinality(Recently(n)) = Allowance

\* Whoever waits as long as Retry-After says is let through; so is whoever waits
\* for what is left of the window, and nobody before.
ASSUME RetryAfterIsEnough ==
    \A t \in Arrivals :
        LET times == LetThrough(t).times
            refused == Cache!Request(times, t[6], Window, Allowance)
        IN  ~refused.allowed =>
                /\ \A wait \in 0 .. Window :
                        Cache!Request(times, t[6] + wait, Window, Allowance).allowed <=> wait >= refused.retry
                /\ \A second \in 1 .. 3 :
                        Cache!Request(times, t[6] + second * Cache!RetryAfter(refused.retry, second),
                                Window, Allowance).allowed

\* A wallet that is refused uses up the places of its address, and with them
\* those of the other wallets behind it.
ASSUME RefusedWalletUsesItsAddress ==
    LET first == Cache!Limited(<<>>, <<1>>, 1, Window, 1, 1, TRUE)
    IN  /\ ~first.allowed
        /\ ~Cache!Limited(first.ip, <<>>, 2, Window, 1, 1, TRUE).allowed
        /\ Cache!Limited(<<>>, <<>>, 2, Window, 1, 1, TRUE).allowed

-----------------------------------------------------------------------------
(***************************************************************************)
(* The runs of EventViews: a few events of each kind, delivered in every   *)
(* order and more than once.                                               *)
(***************************************************************************)

LOCAL All(Apply(_, _), init, events) == FoldLeft(Apply, init, events)
LOCAL ViewDeliveries(events, n) == UNION {[1 .. m -> events] : m \in 0 .. n}

-----------------------------------------------------------------------------
(* Auctions                                                                *)

LOCAL Bids == {[bidder |-> "b", amount |-> 3], [bidder |-> "c", amount |-> 5], [bidder |-> "d", amount |-> 4]}
LOCAL Bidden(bids) == View!Only(All(View!BidPlaced, View!AuctionCreated({}, 4), bids))

\* Whatever the order of the bids and however often each is delivered, the highest
\* is shown with its bidder; the number of bids counts the deliveries.
ASSUME HighestOfAnyOrder ==
    \A bids \in ViewDeliveries(Bids, 4) :
        /\ Bidden(bids).bids = Len(bids)
        /\ bids # <<>> =>
            [bidder |-> Bidden(bids).bidder, amount |-> Bidden(bids).highest]
                = CHOOSE b \in Range(bids) : \A c \in Range(bids) : c.amount <= b.amount
        /\ View!ReserveMet(Bidden(bids)) <=> \E b \in Range(bids) : b.amount >= 4

\* A bid indexed before its auction is lost, and one indexed after the settlement
\* leaves the winner below the highest bidder.
ASSUME LateBidIsNotTheWinner ==
    /\ \A b \in Bids : View!BidPlaced({}, b) = {}
    /\ \E b, c \in Bids :
        LET settled == View!AuctionSettled({Bidden(<<b>>)}, {}, {})
            after == View!Only(View!BidPlaced(settled, c))
        IN  after.status = "settled" /\ after.winner = b.bidder /\ after.bidder = c.bidder
                /\ after.amount < after.highest

\* Delivering the creation again keeps the bids and the settlement.
ASSUME CreatedAgain ==
    \A bids \in ViewDeliveries(Bids, 2), a \in {0, 1} :
        LET auction == IF a = 0 THEN {Bidden(bids)} ELSE View!AuctionSettled({Bidden(bids)}, {}, {})
        IN  View!AuctionCreated(auction, 4) = auction

ASSUME CountdownOfActiveOnly ==
    \A ends \in {{}, {3}}, now \in 0 .. 5 :
        /\ View!Countdown(View!Only(View!AuctionSettled({Bidden(<<>>)}, {}, {})), ends, now) = {}
        /\ \A c \in View!Countdown(Bidden(<<>>), ends, now) : c > 0 <=> now < 3

-----------------------------------------------------------------------------
(* View!Tiers and boosts                                                        *)

LOCAL Upgraded(tiers) ==
    LET Up(s, tier) == View!TierUpgraded(s, tier, {})
    IN  All(Up, [row |-> {}, history |-> <<>>], tiers)

\* The tier shown is the one delivered last: an older upgrade delivered again takes
\* the wallet down, and the history gets an entry more.
ASSUME LastDeliveredTier ==
    /\ \A tiers \in ViewDeliveries({"bronze", "silver", "gold"}, 3) :
        /\ Len(Upgraded(tiers).history) = Len(tiers)
        /\ View!TierView(Upgraded(tiers)).isDefault <=> tiers = <<>>
        /\ tiers # <<>> => View!TierView(Upgraded(tiers)).tier = Last(tiers)
    /\ View!TierView(Upgraded(<<"bronze", "silver">>)).rate = 200
    /\ View!TierView(Upgraded(<<"bronze", "silver", "bronze">>)).rate = 150
    /\ View!TierView(Upgraded(<<>>))
           = [tier |-> "standard", rate |-> 100, next |-> {"bronze"}, isDefault |-> TRUE]
    /\ View!TierView(Upgraded(<<"gold">>)).next = {}

\* A boost recorded for a tier that has none is shown as none.
ASSUME BoostOfTheEligible ==
    \A tier \in {"bronze", "silver", "gold", "platinum"}, bps \in {{}, {0}, {70}} :
        LET view == View!BoostView(View!BoostApplied({}, tier, bps), 500)
        IN  /\ view.eligible <=> tier # "bronze"
            /\ tier = "bronze" => view.boosted = 500
            /\ tier # "bronze" /\ bps = {} => view.boosted = 500 + View!TierBoost[tier]
            /\ tier # "bronze" /\ bps # {} => view.boosted = 500 + View!Only(bps)
ASSUME NoBoost == View!BoostView({}, 500) = [eligible |-> FALSE, bps |-> 0, boosted |-> 500]

-----------------------------------------------------------------------------
(* Rebalances                                                              *)

\* One proposal at a time, each delivered once, in order: nothing stays pending.
ASSUME ExecutedInOrder ==
    \A s \in View!Executed(View!Proposed(<<>>, 1)) :
        View!Pending(s) = {} /\ \A t \in View!Executed(View!Proposed(s, 2)) : View!Pending(t) = {}

\* A proposal delivered twice is pending for good, also when it is executed once.
ASSUME ProposedTwice ==
    \A s \in View!Executed(View!Proposed(View!Proposed(<<>>, 1), 1)) : Cardinality(View!Pending(s)) = 1

\* Of two open proposals, the execution of the older marks the newer.
ASSUME WrongProposalExecuted ==
    View!Executed(View!Proposed(View!Proposed(<<>>, 1), 2))
        = {<<[status |-> "pending", at |-> 1], [status |-> "executed", at |-> 2]>>}

-----------------------------------------------------------------------------
(* Cancellations, ratings, benchmarks and keys                             *)

\* Cancellations may come in any order and any number of times.
ASSUME CancelledOnce ==
    LET Orders == {[id |-> 1, refund |-> 5], [id |-> 2, refund |-> 7]}
    IN  \A batches \in ViewDeliveries(ViewDeliveries(Orders, 2), 3) :
            All(View!OrdersCancelled, {}, batches) = UNION {Range(b) : b \in Range(batches)}

\* A rating is counted as often as it is delivered: three deliveries of one reach the
\* minimum. The mean of any ratings is between 1 and 5.
ASSUME RatingsCountDeliveries ==
    /\ \A given \in ViewDeliveries({[rating |-> r] : r \in {0, 1, 3, 9}}, 3) :
        LET of == View!RatingOf(All(View!Rated, <<>>, given))
        IN  /\ of.count = Len(given)
            /\ of.count <= of.sum /\ of.sum <= 5 * of.count
            /\ SumSet({100 * r + of.distribution[r] : r \in 1 .. 5}) = 1500 + of.count
            /\ of.sum = of.distribution[1] + 2 * of.distribution[2] + 3 * of.distribution[3]
                          + 4 * of.distribution[4] + 5 * of.distribution[5]
    /\ LET once == View!Rated(<<>>, [rating |-> 4])
           again == View!Rated(View!Rated(once, [rating |-> 4]), [rating |-> 4])
       IN  View!RatingOf(once).belowMinimum /\ ~View!RatingOf(again).belowMinimum

\* The same benchmark again changes nothing; the same key configuration again makes a
\* version of it; neither a key nobody knows, nor a field the event has not, is set.
ASSUME UpdatedAgain ==
    LET key == {[perTx |-> 1, perDay |-> 2, version |-> 1]}
        update == [perTx |-> 7]
    IN  /\ \A e \in {[yield |-> 4], [yield |-> 4, samples |-> 2]} :
            View!BenchmarkUpdated(View!BenchmarkUpdated({}, e), e) = View!BenchmarkUpdated({}, e)
        /\ View!KeyConfigUpdated({}, update) = {}
        /\ View!KeyConfigUpdated(View!KeyConfigUpdated(key, update), update)
               = {[perTx |-> 7, perDay |-> 2, version |-> 3]}

-----------------------------------------------------------------------------
(* Curve migrations                                                        *)

\* A time or a delay, a migration with a timelock expires at it, one without never;
\* executed, it does not expire any more.
ASSUME TimelockOfEitherForm ==
    \A now \in 95 .. 115, executed \in BOOLEAN :
        LET StatusOf(timelock) ==
                View!MigrationStatus([executed |-> executed, expiry |-> View!Expiry(timelock, 100, 50)], now)
        IN  /\ StatusOf({10}) = StatusOf({110})
            /\ StatusOf({10}) = "expired" <=> ~executed /\ now >= 110
            /\ StatusOf({}) # "expired"
            /\ StatusOf({}) = "executed" <=> executed
=============================================================================
