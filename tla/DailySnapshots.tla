--------------------------- MODULE DailySnapshots ---------------------------
(***************************************************************************)
(* The daily archive of the platform's figures:                            *)
(* services/analytics-snapshot.service.ts and                              *)
(* workers/analytics-snapshot.worker.ts.                                   *)
(*                                                                         *)
(* A state has the day it is (UTC), the processes that are up, their jobs, *)
(* the archived rows and the investments, each of amount 1.  A job is the  *)
(* days it still has to archive and what it has read of the first of them. *)
(* The counts of invoices by status are read like that of the investors,   *)
(* and left out.                                                           *)
(***************************************************************************)
EXTENDS Integers, Sequences, FiniteSets

LOCAL INSTANCE SequencesExt

MaxAttempts == 4
Invested == {"confirmed", "settled"}

Unarchived == [day |-> 1, up |-> {}, jobs |-> {}, rows |-> <<>>, investments |-> <<>>]

\* runAnalyticsSnapshotJob of one day after the other.
Job(host, days) == [host |-> host, due |-> days, attempt |-> 1, at |-> "start"]
Jobs(host, days) == IF days = <<>> THEN {} ELSE {Job(host, days)}

-----------------------------------------------------------------------------
(* The clock and the processes.                                            *)

\* At midnight every process begins to archive the day that ends.
Midnight(s) ==
    {[s EXCEPT !.day = @ + 1, !.jobs = @ \cup {Job(host, <<s.day>>) : host \in s.up}]}

\* catchUpMissedSnapshots: those of the last days that have no row, the oldest first.
Missing(s, window) == {d \in s.day - window .. s.day - 1 : d >= 1 /\ d \notin DOMAIN s.rows}
StartUp(s, host, window) ==
    IF host \in s.up THEN {}
    ELSE {[s EXCEPT !.up = @ \cup {host},
                    !.jobs = @ \cup Jobs(host, SetToSortSeq(Missing(s, window), <))]}

Crash(s, host) ==
    IF host \notin s.up THEN {}
    ELSE {[s EXCEPT !.up = @ \ {host}, !.jobs = {j \in @ : j.host # host}]}

-----------------------------------------------------------------------------
(* A job: captureSnapshot of the first day due, and what becomes of it.    *)

In(s, statuses) == {i \in DOMAIN s.investments : s.investments[i].status \in statuses}
VolumeOf(s, d) == Cardinality({i \in In(s, Invested) : s.investments[i].day = d})
VolumeUpTo(s, d) == Cardinality({i \in In(s, Invested) : s.investments[i].day <= d})
Investors(s) == {s.investments[i].investor : i \in In(s, {"confirmed"})}

Goes(s, j, next) == [s EXCEPT !.jobs = (@ \ {j}) \cup next]
Rest(j) == Jobs(j.host, Tail(j.due))

\* The volume of the day, then the volume so far and the investors of now, and
\* whether the day has a row.
CountDay(s, j) ==
    IF j.at # "start" THEN {}
    ELSE {Goes(s, j, {[host |-> j.host, due |-> j.due, attempt |-> j.attempt, at |-> "counted",
                       daily |-> VolumeOf(s, Head(j.due))]})}
CountAll(s, j) ==
    IF j.at # "counted" THEN {}
    ELSE {Goes(s, j, {[host |-> j.host, due |-> j.due, attempt |-> j.attempt, at |-> "found",
                       exists |-> Head(j.due) \in DOMAIN s.rows,
                       row |-> [daily |-> j.daily, cumulative |-> VolumeUpTo(s, Head(j.due)),
                                investors |-> Cardinality(Investors(s)), by |-> j.host, on |-> s.day]]})}

\* An attempt that fails is made again, unless it was the last: then the next day.
Failed(s, j) ==
    Goes(s, j, IF j.attempt < MaxAttempts
               THEN {[Job(j.host, j.due) EXCEPT !.attempt = j.attempt + 1]} ELSE Rest(j))
Fail(s, j) == {Failed(s, j)}

\* snapshot_date is unique: a row inserted meanwhile by another process refuses this one.
SaveRow(s, j) ==
    IF j.at # "found" THEN {}
    ELSE LET d == Head(j.due)
         IN  IF ~j.exists /\ d \in DOMAIN s.rows THEN {Failed(s, j)}
             ELSE {[Goes(s, j, Rest(j)) EXCEPT
                        !.rows = [e \in DOMAIN @ \cup {d} |-> IF e = d THEN j.row ELSE @[e]]]}

\* getTrends: a row for each day of the range, or none.
Trends(s, from, to) == [d \in from .. to |-> IF d \in DOMAIN s.rows THEN <<s.rows[d]>> ELSE <<>>]

-----------------------------------------------------------------------------
(* The investments meanwhile.                                              *)

Invest(s, investor) ==
    {[s EXCEPT !.investments = Append(@, [day |-> s.day, investor |-> investor, status |-> "pending"])]}
Becomes(s, i, status) ==
    LET old == s.investments[i].status
    IN  IF <<old, status>> \in {<<"pending", "confirmed">>, <<"pending", "cancelled">>, <<"confirmed", "settled">>}
        THEN {[s EXCEPT !.investments[i].status = status]} ELSE {}
=============================================================================
