---------------------------- MODULE FeeSchedules ----------------------------
(***************************************************************************)
(* The schedule of fees and its copy in Redis:                             *)
(* services/fee-schedule.service.ts.                                       *)
(*                                                                         *)
(* A schedule is known by its id, the version of the cache; rows[v] says   *)
(* whether row v is active, and the ids grow with effective_from.  Redis   *)
(* holds one schedule, or None, and the version key.  A process is idle,   *)
(* or holds the schedule it has read, or the one it has committed.  A step *)
(* is a statement of a process; the sets below are the states one step of  *)
(* a process leads to, from which runs are made up (BoundedRuns).          *)
(***************************************************************************)
EXTENDS FiniteSetsExt, Sequences

None == 0
Idle == [at |-> "idle", version |-> None]

Active(s) == {v \in DOMAIN s.rows : s.rows[v]}

\* The active schedule that took effect last.
Current(s) == IF Active(s) = {} THEN None ELSE Max(Active(s))

\* Of the processes `who`, none of which is doing anything.
Initially(who) ==
    [rows |-> <<TRUE>>, cache |-> None, key |-> None, process |-> [p \in who |-> Idle]]

Goes(s, p, at, version) == [s EXCEPT !.process[p] = [at |-> at, version |-> version]]

-----------------------------------------------------------------------------
(* getCurrentFeeSchedule                                                   *)

\* A reader that finds nothing in the cache reads the database.
Read(s, p) ==
    IF s.process[p] = Idle /\ s.cache = None
    THEN {Goes(s, p, "read", Current(s))} ELSE {}

\* guardedCacheRefill: one script of Redis, which refuses what is older than
\* the version key and otherwise writes both.
Refill(s, p) ==
    LET v == s.process[p].version
        done == Goes(s, p, "idle", None)
    IN  IF s.process[p].at # "read" THEN {}
        ELSE IF v < s.key THEN {done}
        ELSE {[done EXCEPT !.key = v, !.cache = v]}

\* What a reader is answered: the cache if there is anything in it.
Served(s) == IF s.cache # None THEN s.cache ELSE Current(s)

-----------------------------------------------------------------------------
(* updateFeeSchedule                                                       *)

\* The transaction reads the schedule it is going to replace.
Begin(s, p) ==
    IF s.process[p] = Idle /\ Current(s) # None
    THEN {Goes(s, p, "replacing", Current(s))} ELSE {}

\* It deactivates that row, inserts the new one, and commits.
Commit(s, p) ==
    LET rows == Append([s.rows EXCEPT ![s.process[p].version] = FALSE], TRUE)
    IN  IF s.process[p].at # "replacing" THEN {}
        ELSE {Goes([s EXCEPT !.rows = rows], p, "committed", Len(rows))}

\* invalidateCache, with the committed version: a pipeline that sets the key,
\* whatever it is, and deletes the copy.
Invalidate(s, p) ==
    IF s.process[p].at # "committed" THEN {}
    ELSE {[Goes(s, p, "idle", None) EXCEPT !.key = s.process[p].version, !.cache = None]}

\* Redis does not answer, which is logged, or the process dies before it asks.
Lose(s, p) == IF s.process[p] = Idle THEN {} ELSE {Goes(s, p, "idle", None)}

\* The copy expires; the version key has no expiry.
Expire(s) == IF s.cache = None THEN {} ELSE {[s EXCEPT !.cache = None]}
=============================================================================
