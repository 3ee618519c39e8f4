------------------------- MODULE MCSecondaryMarket -------------------------
(***************************************************************************)
(* An instance of SecondaryMarket for TLC: a seller with two listings that *)
(* do not fit together, a buyer who may list what was bought, and calls    *)
(* that cancel the first listing.  With it TLC evaluates what holds of the *)
(* lists, the inbox, the scores, the snapshots and the subscriptions.      *)
(***************************************************************************)
EXTENDS SecondaryMarket, Sequences

MCSeller == [l \in Listings |-> IF l = "l3" THEN "bob" ELSE "ann"]
MCQuantity == [l \in Listings |->
    [units |-> IF l = "l1" THEN 2 ELSE IF l = "l2" THEN 0 ELSE 1, rest |-> IF l = "l2" THEN "half" ELSE "none"]]
MCTarget == [c \in Cancels |-> "l1"]
MCPayer == [v \in Savers |-> "ann"]
MCMaxHalves == [l \in Listings |-> IF l = "l1" THEN 1 ELSE 0]
MCFunded == [u \in Users |-> IF u = "ann" THEN 2 ELSE 1]

-----------------------------------------------------------------------------
LOCAL INSTANCE BoundedRuns
LOCAL INSTANCE SequencesExt
Pages == INSTANCE PagedLists
Inbox == INSTANCE NotificationInbox
Score == INSTANCE Scores
Daily == INSTANCE DailySnapshots
Grant == INSTANCE SubscriptionStatus

-----------------------------------------------------------------------------
(***************************************************************************)
(* Walks through the lists of PagedLists, of up to four rows, page by page *)
(* to the end, with the rows as they are or as they change between pages.  *)
(***************************************************************************)

LOCAL Orders == {"ASC", "DESC"}
LOCAL PagesRow(id, value) == [id |-> id, value |-> value]
LOCAL Lists == {{PagesRow(i, v[i]) : i \in DOMAIN v} : v \in UNION {[1 .. n -> 0 .. 1] : n \in 0 .. 4}}

\* The first pages of a walk, the n-th in the list as it is then.
LOCAL Walk(ListAt(_), n, order, unit, limit) ==
    LET page[k \in 1 .. n] ==
            IF k = 1 THEN Pages!CursorPage(ListAt(1), "f", order, unit, limit, Pages!Nothing)
            ELSE IF page[k - 1].next = Pages!Nothing THEN [items |-> <<>>, next |-> Pages!Nothing]
            ELSE Pages!CursorPage(ListAt(k), "f", order, unit, limit, page[k - 1].next)
    IN  FlattenSeq([k \in 1 .. n |-> page[k].items])
LOCAL NumberedWalk(ListAt(_), n, order, limit) ==
    FlattenSeq([k \in 1 .. n |-> Pages!NumberedPage(ListAt(k), order, k, limit)])

\* In a list that stays as it is both walks are the list, ties and all, in as
\* many pages as were promised.
ASSUME WalksAreTheList ==
    \A rows \in Lists, order \in Orders, limit \in 1 .. 3 :
        LET n == Pages!PageCount(rows, limit)
        IN  /\ Walk(LAMBDA k : rows, n + 1, order, 1, limit) = Pages!Sorted(rows, order)
            /\ NumberedWalk(LAMBDA k : rows, n, order, limit) = Pages!Sorted(rows, order)

LOCAL IsOnce(r, walk) == Cardinality({i \in DOMAIN walk : walk[i] = r}) = 1

\* Rows that come or go after the first page never make a walk by cursor repeat
\* or leave out one that stays.
ASSUME CursorToleratesChanges ==
    \A rows \in Lists, order \in Orders, limit \in 1 .. 2 :
        \A later \in {rows \ {r} : r \in rows} \cup {rows \cup {PagesRow(9, v)} : v \in 0 .. 2} :
            LET walk == Walk(LAMBDA k : IF k = 1 THEN rows ELSE later, 6, order, 1, limit)
            IN  \A r \in rows \cap later : IsOnce(r, walk)

\* They do so to a walk by number: a row that goes hides another, and one that
\* comes shows another twice.
ASSUME NumbersDoNot ==
    LET three == {PagesRow(i, 0) : i \in 2 .. 4}
        Then(later) == NumberedWalk(LAMBDA k : IF k = 1 THEN three ELSE later, 4, "ASC", 1)
    IN  /\ ~IsOnce(PagesRow(3, 0), Then(three \ {PagesRow(2, 0)}))
        /\ Cardinality({i \in 1 .. 3 : Then(three \cup {PagesRow(1, 0)})[i] = PagesRow(2, 0)}) = 2

\* By the time a row was made the cursor stands at the beginning of the last
\* row's millisecond: the newest first, the rows left of that millisecond are
\* never shown; the oldest first, its rows are shown again, for ever if they
\* fill a page.
ASSUME TruncatedCursor ==
    LET burst == {PagesRow(i, 1000 + i) : i \in 1 .. 4}
    IN  /\ Len(Walk(LAMBDA k : burst, 6, "DESC", 1000, 2)) = 2
        /\ Len(Walk(LAMBDA k : burst, 6, "ASC", 1000, 2)) = 12
        /\ \A order \in Orders : LET apart == {PagesRow(i, 1000 * i + 7) : i \in 1 .. 4}
                                     walk == Walk(LAMBDA k : apart, 6, order, 1000, 2)
                                 IN  IF order = "DESC" THEN walk = Pages!Sorted(apart, order)
                                     ELSE ToSet(walk) = apart /\ Len(walk) > 4

\* A cursor is refused by a list sorted by another field, and one of a ranked
\* search by one that is not.
ASSUME CursorsOfOtherLists ==
    LET rows == {[id |-> i, value |-> 0, rank |-> i \div 2] : i \in 1 .. 3}
    IN  /\ Pages!CursorPage(rows, "g", "ASC", 1, 1,
                         Pages!CursorPage(rows, "f", "ASC", 1, 1, Pages!Nothing).next)
                = [error |-> "invalid_cursor"]
        /\ \A ranked \in BOOLEAN :
                Pages!SearchPage(rows, ~ranked, 1, 1, Pages!SearchPage(rows, ranked, 1, 1, Pages!Nothing).next)
                    = [error |-> "INVALID_CURSOR"]

-----------------------------------------------------------------------------
(* The search.                                                             *)

LOCAL Found(rows, ranked, n, unit, limit) ==
    LET page[k \in 1 .. n] ==
            IF k = 1 THEN Pages!SearchPage(rows, ranked, unit, limit, Pages!Nothing)
            ELSE IF page[k - 1].next = Pages!Nothing THEN [items |-> <<>>, next |-> Pages!Nothing]
            ELSE Pages!SearchPage(rows, ranked, unit, limit, page[k - 1].next)
    IN  FlattenSeq([k \in 1 .. n |-> page[k].items])
LOCAL Hits == {{[id |-> i, value |-> v[i], rank |-> r[i]] : i \in 1 .. 3} :
                  v \in [1 .. 3 -> 0 .. 1], r \in [1 .. 3 -> 0 .. 1]}

\* A search finds every row once, the best first if it is ranked; but of two
\* rows of the same rank and millisecond it may leave one out.
ASSUME SearchIsComplete ==
    \A rows \in Hits, ranked \in BOOLEAN, limit \in 1 .. 2 :
        LET found == Found(rows, ranked, 4, 1, limit)
        IN  /\ ToSet(found) = rows /\ Len(found) = Cardinality(rows)
            /\ ranked => \A i \in 1 .. Len(found) - 1 : found[i].rank >= found[i + 1].rank
ASSUME SearchSkipsWithinAMillisecond ==
    \E rows \in Hits : Len(Found(rows, TRUE, 4, 1000, 1)) < Cardinality(rows)

\* Bounds that are refused would have let no row through, and without a status
\* only published rows are listed.
ASSUME Filters ==
    LET Filter(status, min, max) ==
            [status |-> Pages!AskedStatus(status), minAmount |-> min, maxAmount |-> max,
              dueBefore |-> {}, search |-> {}]
        Invoices == [status : {"draft", "published"}, amount : 0 .. 3, due : {0}, customer : {"c"},
                     deleted : BOOLEAN]
        Bounds == {{}} \cup {{n} : n \in 0 .. 3}
    IN  \A status \in SUBSET {"draft", "open"}, min \in Bounds, max \in Bounds, row \in Invoices :
            Pages!Matches(row, Filter(status, min, max)) =>
                /\ ~Pages!IsRefused(Filter(status, min, max)) /\ ~row.deleted
                /\ status = {} => row.status = "published"

-----------------------------------------------------------------------------
(***************************************************************************)
(* NotificationInbox evaluated on every inbox of up to three items.        *)
(***************************************************************************)

LOCAL User == "u"
LOCAL Wallet == "w"
LOCAL Types == {"settlement"}
LOCAL Item(i, to, read) ==
    [table |-> to[1], id |-> i, user |-> to[2], wallet |-> to[3],
     type |-> "settlement", read |-> read, at |-> i]
LOCAL Addresses ==
    {<<"notifications", "u", Inbox!NoWallet>>, <<"notifications", "w", Inbox!NoWallet>>,
     <<"notifications", "other", Inbox!NoWallet>>, <<"events", "u", "x">>, <<"events", "other", "w">>}
LOCAL Inboxes ==
    UNION {{{Item(i, to[i], read[i]) : i \in 1 .. n} :
               to \in [1 .. n -> Addresses], read \in [1 .. n -> BOOLEAN]} :
              n \in 0 .. 3}

\* The pages of an inbox hold every item once, the newest first.
ASSUME PagesAreTheInbox ==
    \A items \in Inboxes, limit \in 1 .. 2 :
        LET all == Inbox!Listed(items, User, Wallet, {}, {})
            PageAt(n) == Inbox!List(items, User, Wallet, {}, {}, n, limit, <<>>)
            pages == FlattenSeq([n \in 1 .. PageAt(1).totalPages |-> PageAt(n).data])
        IN  /\ ToSet(pages) = all /\ Len(pages) = Cardinality(all)
            /\ \A i \in 1 .. Len(pages) - 1 : pages[i].at > pages[i + 1].at

\* The cursor a page hands out leads back to the first page.
ASSUME CursorLeadsNowhere ==
    \A items \in Inboxes :
        LET first == Inbox!List(items, User, Wallet, {}, {}, 1, 1, <<>>)
        IN  Inbox!List(items, User, Wallet, {}, {}, 1, 1, first.nextCursor) = first

\* Reading all leaves nothing unread and touches nobody else's items.
ASSUME ReadAllEmptiesTheInbox ==
    \A items \in Inboxes :
        LET after == Inbox!ReadAll(items, User, Wallet)
        IN  /\ Inbox!Listed(after, User, Wallet, {FALSE}, {}) = {} /\ Inbox!UnreadCount(after, User) = 0
            /\ \A item \in items : ~Inbox!IsFor(item, User, Wallet) => item \in after

\* The count never exceeds what is listed as unread, and the other endpoint
\* clears it; but the items of the wallet stay unread and are not counted.
ASSUME CountSeesTheIdOnly ==
    /\ \A items \in Inboxes :
            /\ Inbox!UnreadCount(items, User) <= Cardinality(Inbox!Listed(items, User, Wallet, {FALSE}, {}))
            /\ Inbox!UnreadCount(Inbox!MarkAllRead(items, User), User) = 0
    /\ \E items \in Inboxes :
            /\ Inbox!UnreadCount(items, User) = 0
            /\ Inbox!Listed(Inbox!MarkAllRead(items, User), User, Wallet, {FALSE}, {}) # {}

\* An item of the list can be marked read if and only if it is a notification
\* of the id: one of the wallet, and an event, is not found.
ASSUME SomeItemsCannotBeRead ==
    \A items \in Inboxes : \A item \in Inbox!Listed(items, User, Wallet, {FALSE}, Types) :
        LET marked == Inbox!MarkRead(items, User, item.id)
        IN  IF Inbox!IsNotification(item) /\ item.user = User
            THEN marked.status = 200
                 /\ Inbox!UnreadCount(marked.items, User) = Inbox!UnreadCount(items, User) - 1
            ELSE marked.status = 404 /\ marked.items = items

-----------------------------------------------------------------------------
(***************************************************************************)
(* Scores evaluated on small histories of settlements and on the answers   *)
(* of the questionnaire.                                                   *)
(***************************************************************************)

LOCAL Day == 4
LOCAL Histories == UNION {[1 .. n -> {-12 * Day, -Day, 0, Day - 1, Day, 3 * Day}] : n \in 1 .. 4}

\* Two of the three judgements of a settlement agree; that of the history takes
\* a settlement of the due date itself for a late one.
ASSUME OnTimeJudgements ==
    \A settled \in -3 * Day .. 3 * Day :
        /\ Score!IsOnTime(settled, Day) <=> Score!IsRepaidOnTime(settled, Day)
        /\ Score!WasOnTime(settled) => Score!IsOnTime(settled, Day)
        /\ Score!IsOnTime(settled, Day) /\ ~Score!WasOnTime(settled) <=> settled \in 1 .. Day - 1

\* The score is between 0 and 85, is never better for a settlement late than for
\* the same one on time, and takes 15 settlements to be good and 82 to be excellent.
ASSUME ScoreIsBounded ==
    \A n \in {1, 2, 14, 15, 81, 82, 100, 150} : \A c \in {0, n \div 2, n} :
        \A late \in {0, n, 40 * n}, early \in {0, n, 10 * n, 20 * n} :
            LET score == Score!Score(n, c, late, early)
            IN  /\ score \in 0 .. 85
                /\ c < n => score <= Score!Score(n, c + 1, late, early)
                /\ Score!Tier(score) \in {"good", "excellent"} => n >= 15
                /\ Score!Tier(score) = "excellent" => n >= 82
ASSUME BestScores ==
    Score!Tier(Score!Score(15, 15, 0, 150)) = "good" /\ Score!Tier(Score!Score(82, 82, 0, 820)) = "excellent"

\* A settlement on time may cost an issuer points, and a late one may earn some.
ASSUME ScoreIsNotMonotone ==
    LET All == {"id", "dueDate", "createdAt", "updatedAt"}
        ScoreOf(h) == Score!Reputation(h, All, Day).score
    IN  /\ \E h \in Histories : ScoreOf(Append(h, 0)) < ScoreOf(h)
        /\ \E h \in Histories : ScoreOf(Append(h, Day)) > ScoreOf(h)

\* With the columns the query selects nothing is ever computed once an invoice
\* is settled: the reputation stays what it was made with.
ASSUME ReputationIsNeverStored ==
    LET new == [reputation |-> Score!Unknown, history |-> {}]
    IN  \A h \in Histories :
            LET computed == Score!Reputation(h, Score!Selected, Day)
            IN  Score!Updated(new, computed, TRUE) = new /\ Score!Recomputed(new, computed) = new

-----------------------------------------------------------------------------

LOCAL Answers ==
    [experience : DOMAIN Score!ExperiencePoints, horizon : DOMAIN Score!HorizonPoints,
     tolerance : DOMAIN Score!TolerancePoints, loss : {-1, 0, 1, 5, 20, 50, 100, 101}]
LOCAL ValidAnswers == {a \in Answers : Score!IsValid(a)}

\* More experience, a longer horizon or more tolerance never allows less; every
\* tier is reached, and each allows what the one before it does.
ASSUME TierIsMonotone ==
    /\ \A a, b \in ValidAnswers :
            Score!FivePoints(a) <= Score!FivePoints(b)
                => Score!Allowed(Score!RiskTier(a)) \subseteq Score!Allowed(Score!RiskTier(b))
    /\ {Score!RiskTier(a) : a \in ValidAnswers} = {"conservative", "moderate", "aggressive"}

\* Nobody without experience who tolerates no loss may take a high risk, and
\* refused answers leave the profile as it is.
ASSUME CautiousInvestors ==
    \A a \in Answers, profile \in {{}, {"moderate"}} :
        /\ ~Score!IsValid(a) => Score!SavedProfile(profile, a) = profile
        /\ a.experience = "none" /\ a.loss = 0 => ~Score!MayInvest(Score!SavedProfile({}, a), 67, TRUE, FALSE)

\* Without a profile nobody invests, unless the check could not be made.
ASSUME CheckFailsOpen ==
    \A score \in {Score!NoScore, 0, 33, 66, 67, 100} :
        /\ ~Score!MayInvest({}, score, TRUE, FALSE)
        /\ Score!MayInvest({}, score, TRUE, TRUE)
        /\ Score!MayInvest({"aggressive"}, score, TRUE, FALSE)
        /\ Score!MayInvest({"moderate"}, score, TRUE, FALSE) <=> score <= 66
        /\ Score!MayInvest({"conservative"}, score, TRUE, FALSE) <=> score \in 0 .. 32

-----------------------------------------------------------------------------
(***************************************************************************)
(* The runs of DailySnapshots over a few days, with a window of two days   *)
(* to catch up (the program's is seven).                                   *)
(***************************************************************************)

LOCAL Window == 2
LOCAL Work(s) == UNION {Daily!CountDay(s, j) \cup Daily!CountAll(s, j) \cup Daily!SaveRow(s, j) : j \in s.jobs}
LOCAL Failure(s) == UNION {Daily!Fail(s, j) : j \in s.jobs}

\* A day in which the processes do all they have to do, or are down.
LOCAL Done(S) == {s \in Within(Work, S, 6) : s.jobs = {}}
LOCAL Days(s) == DOMAIN s.rows

LOCAL Switch(s) == {s} \cup Daily!StartUp(s, "p", Window) \cup Daily!Crash(s, "p")
LOCAL NextDay(s) == UNION {Done(Switch(t)) : t \in Done(Daily!Midnight(s))}

LOCAL Started == Done(Daily!StartUp(Daily!Unarchived, "p", Window))

\* While the process is up, the days of the window have their rows, however often
\* it was down, and what has left the window without a row never gets one.
ASSUME NoGapWithinTheWindow ==
    \A s \in Within(NextDay, Started, 4) :
        /\ "p" \in s.up => {d \in s.day - Window .. s.day - 1 : d >= 1} \subseteq Days(s)
        /\ \A t \in NextDay(s) : Days(t) \ Days(s) \subseteq t.day - Window .. t.day - 1

\* An outage longer than the window leaves a gap for good.
ASSUME LongOutageLeavesAGap ==
    LET Down == UNION {Daily!Crash(s, "p") : s \in Started}
        Later == After(Daily!Midnight, Down, 4)
        Back == Done(UNION {Daily!StartUp(s, "p", Window) : s \in Later})
    IN  /\ Back # {}
        /\ \A s \in Within(LAMBDA s : Done(Daily!Midnight(s)), Back, 3) :
            1 \notin Days(s) /\ 2 \notin Days(s) /\ Daily!Trends(s, 1, 4)[2] = <<>> /\ {3, 4} \subseteq Days(s)

\* A job whose attempts all fail leaves its day without a row, until the process
\* starts again within the window.
ASSUME FailedDayWaitsForARestart ==
    LET Failing == After(Failure, UNION {Daily!Midnight(s) : s \in Started}, Daily!MaxAttempts)
        Later == UNION {Done(Daily!Midnight(s)) : s \in Failing}
        Restarted == UNION {Daily!StartUp(t, "p", Window) : t \in UNION {Daily!Crash(s, "p") : s \in Later}}
    IN  /\ Failing # {} /\ \A s \in Failing : s.jobs = {}
        /\ Later # {} /\ Done(Restarted) # {}
        /\ \A s \in Later : Days(s) = {2}
        /\ \A s \in Done(Restarted) : Days(s) = {1, 2} /\ s.rows[1].on = 3

\* Two processes at once archive each day once: the one that comes second finds
\* the row, or is refused and writes over it at its next attempt.
ASSUME TwoProcesses ==
    LET Both == [Daily!Unarchived EXCEPT !.up = {"p", "q"}]
        Night == Within(Work, Daily!Midnight(Both), 9)
        Quiet == {s \in Night : s.jobs = {}}
    IN  /\ {s.rows[1].by : s \in Quiet} = {"p", "q"}
        /\ \E s \in Night : \E j \in s.jobs : j.attempt = 2
        /\ \A s \in Night : \A j \in s.jobs : j.attempt <= 2

-----------------------------------------------------------------------------
(* What is archived.                                                       *)

LOCAL DailyTrade(s, day) ==
    (IF Len(s.investments) < 2 THEN Daily!Invest(s, "x") ELSE {})
        \cup UNION {Daily!Becomes(s, i, t) : t \in {"confirmed", "settled", "cancelled"},
                    i \in {i \in DOMAIN s.investments : s.investments[i].day >= day}}
LOCAL Sum(s, d) ==
    LET sum[n \in 0 .. d] == IF n = 0 THEN 0 ELSE sum[n - 1] + s.rows[n].daily
    IN  sum[d]
LOCAL Trading(s) == Within(LAMBDA t : DailyTrade(t, t.day), {s}, 3)
LOCAL Night(S) == Done(UNION {Daily!Midnight(s) : s \in S})

\* If an investment is confirmed or cancelled on its own day only, the volumes of
\* the days add up to the volume so far.
ASSUME DaysAddUp ==
    \A s \in Night(UNION {Trading(t) : t \in Night(UNION {Trading(t) : t \in Started})}) :
        \A d \in Days(s) : s.rows[d].cumulative = Sum(s, d)

\* An investment confirmed on a later day is in the volume so far and in the
\* volume of no day.
ASSUME LateConfirmationIsInNoDay ==
    LET Late == Night(UNION {Daily!Becomes(s, 1, "confirmed") :
                              s \in Night(UNION {Daily!Invest(t, "x") : t \in Started})})
    IN  /\ Late # {}
        /\ \A s \in Late : s.rows[1].daily = 0 /\ s.rows[2].daily = 0 /\ s.rows[2].cumulative = 1

\* One confirmed between the two counts makes a row that disagrees with itself,
\* and a day caught up has the investors of the day it is caught up on.
ASSUME RowsOfTwoMoments ==
    LET Ended == UNION {Daily!Midnight(s) : s \in UNION {Daily!Invest(t, "x") : t \in Started}}
        Counted == UNION {UNION {Daily!CountDay(s, j) : j \in s.jobs} : s \in Ended}
        Between == Done(UNION {Daily!Becomes(s, 1, "confirmed") : s \in Counted})
        Outage == UNION {Daily!Crash(s, "p") : s \in UNION {Daily!Invest(t, "x") : t \in Started}}
        Confirmed == UNION {Daily!Becomes(s, 1, "confirmed") : s \in UNION {Daily!Midnight(t) : t \in Outage}}
        CaughtUp == Done(UNION {Daily!StartUp(s, "p", Window) : s \in Confirmed})
    IN  /\ Between # {} /\ \A s \in Between : s.rows[1].daily = 0 /\ s.rows[1].cumulative = 1
        /\ CaughtUp # {} /\ \A s \in CaughtUp : s.rows[1].investors = 1

-----------------------------------------------------------------------------
(***************************************************************************)
(* SubscriptionStatus on small chains, a request alone and one that the    *)
(* chain and its events come between.                                      *)
(***************************************************************************)

LOCAL PerDay == 2
LOCAL Chains == [balance : 0 .. 2, min : 0 .. 2, expiry : {{}, {2}, {5}}, ledger : 1 .. 6]
LOCAL Access(chain) == chain.balance >= chain.min /\ \A e \in chain.expiry : chain.ledger < e
LOCAL Serve(s) ==
    Grant!Ask(s) \cup UNION {Grant!Read(s, part, FALSE) : part \in Grant!Parts} \cup Grant!Store(s, PerDay)
LOCAL Answer(chain, failing) ==
    LET Step(s) == Grant!Ask(s) \cup UNION {Grant!Read(s, part, part \in failing) : part \in Grant!Parts}
                   \cup Grant!Store(s, PerDay)
    IN  UNION {s.cache : s \in After(Step, {Grant!Quiet(chain)}, 6)}

\* A request alone that can read all answers what the chain says, and counts a
\* day that has begun as a whole one.
ASSUME StatusIsTheChains ==
    \A chain \in Chains : \A status \in Answer(chain, {}) :
        /\ status.subscribed <=> Access(chain)
        /\ status.daysRemaining > 0 <=> Access(chain) /\ chain.expiry # {}
        /\ \A e \in chain.expiry : Access(chain) =>
                chain.ledger + PerDay * (status.daysRemaining - 1) < e
                    /\ e <= chain.ledger + PerDay * status.daysRemaining

\* What cannot be read is taken for nothing: access is given when the balance
\* and the minimum are both unknown, and an expired one lasts when the ledger is.
ASSUME UnreadGivesAccess ==
    \A chain \in Chains :
        /\ \A status \in Answer(chain, Grant!Parts) : status.subscribed /\ status.daysRemaining = 0
        /\ \A status \in Answer(chain, {"ledger"}) : status.subscribed <=> chain.balance >= chain.min
        /\ \A status \in Answer(chain, {"balance"}) : status.subscribed => chain.min = 0

-----------------------------------------------------------------------------

LOCAL Held == [balance |-> 1, min |-> 1, expiry |-> {}, ledger |-> 1]
LOCAL IsStale(s) == \E status \in s.cache : status.subscribed # Access(s.chain)
LOCAL Sold(S) == UNION {Grant!Hold(s, 0) : s \in S}
LOCAL Told(S) == UNION {Grant!Invalidate(s) : s \in S}

\* In turn, an answer is out of date only until the event of the change, or
\* until its time is over.
ASSUME InTurnTheEventIsEnough ==
    LET Changed == Sold(After(Serve, {Grant!Quiet(Held)}, 7))
    IN  /\ Changed # {} /\ \A s \in Changed : s.at = "idle" /\ IsStale(s)
        /\ \A s \in Told(Changed) \cup UNION {Grant!Expire(t) : t \in Changed} : s.cache = Grant!Nothing

\* A read that began before the change caches what it read after the event: the
\* old answer stays until it expires.
ASSUME ReadAcrossTheEvent ==
    LET Balance == UNION {Grant!Read(s, "balance", FALSE) : s \in Grant!Ask(Grant!Quiet(Held))}
        Stored == After(Serve, Told(Sold(Balance)), 5)
    IN  Stored # {} /\ \A s \in Stored : s.at = "idle" /\ IsStale(s)

\* An event between the caching of an answer and the remembering of its key
\* misses it.
ASSUME EventBeforeRemembering ==
    LET Cached == After(Serve, {Grant!Quiet(Held)}, 6)
    IN  /\ Cached # {} /\ \A s \in Cached : s.at = "stored"
        /\ \A s \in Told(Sold(Cached)) : IsStale(s)

\* The four reads may see different ledgers: an access that ended with one may
\* be answered as if it had not.
ASSUME ReadsOfTwoLedgers ==
    LET Early == UNION {Grant!Read(s, "ledger", FALSE) :
                           s \in Grant!Ask(Grant!Quiet([Held EXCEPT !.expiry = {2}]))}
        Late == After(Serve, UNION {Grant!Close(s) : s \in Early}, 4)
    IN  Late # {} /\ \A s \in Late : IsStale(s)
=============================================================================
