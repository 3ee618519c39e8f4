---------------------------- MODULE WalletLogin ----------------------------
(***************************************************************************)
(* Logging in with a wallet: the challenges, their single use, and the     *)
(* user's row that the first login creates (services/auth.service.ts), for *)
(* one wallet and the processes of the program that share a database.      *)
(*                                                                         *)
(* A call is a pair of the host that runs it and a number, for the         *)
(* coalescing of upserts and of lookups is per process.  Signatures and    *)
(* tokens are outside: a call is one whose signature is valid, and a token *)
(* is the fact that it was issued.  A step is a statement of a call; the   *)
(* sets are the states one step leads to (BoundedRuns).                    *)
(***************************************************************************)
EXTENDS Integers

Idle == [at |-> "idle"]
Host(p) == p[1]

\* Challenges that expire at the given times, before anybody has logged in.
Initially(expires, calls) ==
    [now |-> 0, expires |-> expires, consumed |-> [c \in DOMAIN expires |-> FALSE],
     issued |-> [c \in DOMAIN expires |-> 0], user |-> FALSE,
     call |-> [p \in calls |-> Idle], upsert |-> [h \in {Host(p) : p \in calls} |-> "none"]]

-----------------------------------------------------------------------------
(* verifyChallenge                                                         *)

\* It finds the challenge fit, starts to consume it, and joins the upsert its
\* host has under way, or starts one.
Verify(s, p, c) ==
    IF s.call[p] = Idle /\ ~s.consumed[c] /\ s.now < s.expires[c]
    THEN {[s EXCEPT !.call[p] = [at |-> "working", challenge |-> c, consume |-> "asked", user |-> "asked"],
                    !.upsert[Host(p)] = IF @ = "none" THEN "looking" ELSE @]}
    ELSE {}

\* consume: the update of a row that is not consumed.
Consume(s, p) ==
    IF s.call[p] = Idle \/ s.call[p].consume # "asked" THEN {}
    ELSE LET c == s.call[p].challenge
         IN  {[s EXCEPT !.call[p].consume = IF s.consumed[c] THEN "lost" ELSE "won",
                        !.consumed[c] = TRUE]}

\* upsertUser is done: whoever waits for it on this host gets the same answer.
Upserted(s, h, answer) ==
    [s EXCEPT !.upsert[h] = "none",
              !.call = [p \in DOMAIN s.call |->
                  IF Host(p) = h /\ s.call[p] # Idle /\ s.call[p].user = "asked"
                  THEN [s.call[p] EXCEPT !.user = answer] ELSE s.call[p]]]

LookUpUser(s, h) ==
    IF s.upsert[h] # "looking" THEN {}
    ELSE IF s.user THEN {Upserted(s, h, "known")} ELSE {[s EXCEPT !.upsert[h] = "missing"]}

\* The insert, or the row that a duplicate key says is there.
InsertUser(s, h) ==
    IF s.upsert[h] # "missing" THEN {} ELSE {Upserted([s EXCEPT !.user = TRUE], h, "known")}

\* A repository throws; of an update, the row may have been written.
FailUpsert(s, h) == IF s.upsert[h] = "none" THEN {} ELSE {Upserted(s, h, "failed")}
FailConsume(s, p) ==
    IF s.call[p] = Idle \/ s.call[p].consume # "asked" THEN {}
    ELSE {[t EXCEPT !.call[p].consume = "failed"] : t \in {s} \cup Consume(s, p)}

\* Both are done: a token for who consumed the challenge and has a user.
Conclude(s, p) ==
    IF s.call[p] = Idle \/ "asked" \in {s.call[p].consume, s.call[p].user} THEN {}
    ELSE LET won == s.call[p].consume = "won" /\ s.call[p].user = "known"
         IN  {[s EXCEPT !.call[p] = Idle,
                        !.issued[s.call[p].challenge] = IF won THEN @ + 1 ELSE @]}

Tick(s) == {[s EXCEPT !.now = @ + 1]}

-----------------------------------------------------------------------------
(* getCurrentUser of one host, whose cache of profiles has no lifetime:    *)
(* versions of the user's row, and the requests by the version that was    *)
(* committed when they came.                                               *)

NoLookup == [at |-> "none"]
InitialProfile(requests) ==
    [version |-> 0, lookup |-> NoLookup, asked |-> [r \in requests |-> -1], told |-> [r \in requests |-> -1]]

\* fetchUserWithSingleFlight: a request joins the lookup that is in flight.
Ask(s, r) ==
    IF s.asked[r] # -1 THEN {}
    ELSE {[s EXCEPT !.asked[r] = s.version,
                    !.lookup = IF @ = NoLookup THEN [at |-> "sent"] ELSE @]}
ReadProfile(s) ==
    IF s.lookup.at # "sent" THEN {} ELSE {[s EXCEPT !.lookup = [at |-> "read", version |-> s.version]]}
Tell(s) ==
    IF s.lookup.at # "read" THEN {}
    ELSE {[s EXCEPT !.lookup = NoLookup,
                    !.told = [r \in DOMAIN s.told |->
                        IF s.asked[r] # -1 /\ s.told[r] = -1 THEN s.lookup.version ELSE s.told[r]]]}
Change(s) == {[s EXCEPT !.version = @ + 1]}
=============================================================================
