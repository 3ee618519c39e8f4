--------------------------- MODULE ExpiryWarnings ---------------------------
(***************************************************************************)
(* The daily job that warns a subscriber of the expiry of a subscription:  *)
(* services/subscription-expiry-notifier.service.ts and its worker, for    *)
(* one row of key_subscriptions and the notifications it leads to.         *)
(*                                                                         *)
(* Times are half days; the job runs at the even ones, unless the process  *)
(* is down.  Who writes the row (a purchase, a renewal, a balance) is      *)
(* outside: between two runs it may become any other row, with its         *)
(* last_notified_cycle as it was.                                          *)
(***************************************************************************)
EXTENDS Integers

Day == 2
None == 0  \* no cycle notified yet

\* findExpiringCandidates
Candidate(row, now) == row.active /\ now < row.expiry /\ row.expiry <= now + 7 * Day

\* calculateExpiryWindow of a candidate.
Window(row, now) == IF row.expiry - now <= Day THEN "24h" ELSE "7d"

\* resolveCycleId: what was noted last, else the expiry itself.
CycleId(row) == IF row.cycle # None THEN row.cycle ELSE row.expiry

DedupeKey(row, now) == [cycle |-> CycleId(row), window |-> Window(row, now)]

\* checkSubscription warns if the balance is short and the key is new; the
\* unique index on dedupe keys answers for the lookup when two runs overlap.
Warns(s, now) ==
    /\ Candidate(s.row, now)
    /\ s.row.balance < s.row.minimum
    /\ DedupeKey(s.row, now) \notin s.sent

\* processExpiringSubscriptions, with recordNotificationSent.
DailyCheck(s, now) ==
    IF Warns(s, now)
    THEN [row |-> [s.row EXCEPT !.cycle = CycleId(s.row)],
          sent |-> s.sent \cup {DedupeKey(s.row, now)}]
    ELSE s

\* A renewal of the row: the unique index on wallet and key makes it an update.
Renewed(s, expiry) == [s EXCEPT !.row.expiry = expiry]

\* The states at the times 0 .. n, with the job running at the times `up` and
\* renewals at the times in the domain of `renewal`.
States(row, up, renewal, n) ==
    LET state[t \in 0 .. n] ==
            LET s == IF t = 0 THEN [row |-> row, sent |-> {}] ELSE state[t - 1]
                r == IF t \in DOMAIN renewal THEN Renewed(s, renewal[t]) ELSE s
            IN  IF t % Day = 0 /\ t \in up THEN DailyCheck(r, t) ELSE r
    IN  state
=============================================================================
