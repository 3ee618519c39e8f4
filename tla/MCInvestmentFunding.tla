------------------------ MODULE MCInvestmentFunding ------------------------
(***************************************************************************)
(* Instances of InvestmentFunding for TLC.  f1 and f2 come from the same   *)
(* wallet in the same funding block; the invoice has room for three units. *)
(* Before a wallet may fund it logs in, its owner is verified, and the     *)
(* request passes the guards of its route: TLC evaluates here what holds   *)
(* of WalletLogin, KycReviews, RequestGuards and UserAccounts.             *)
(***************************************************************************)
EXTENDS InvestmentFunding, Sequences

\* c2 asks for half a unit and more, d for less than half of one.
MCWhole == [r \in Requests |-> IF r = "f3" THEN 2 ELSE IF r \in {"c2", "d"} THEN 0 ELSE 1]
MCRest == [r \in Requests |-> IF r = "c2" THEN "above" ELSE IF r = "d" THEN "below" ELSE "none"]
MCSlot == [r \in Fractional |-> IF r = "f2" THEN "f1" ELSE r]

-----------------------------------------------------------------------------
LOCAL INSTANCE BoundedRuns
Login == INSTANCE WalletLogin
Kyc == INSTANCE KycReviews
Guards == INSTANCE RequestGuards
Admin == INSTANCE UserAccounts

-----------------------------------------------------------------------------
(***************************************************************************)
(* The runs of WalletLogin with two calls on one host and one on another,  *)
(* for a challenge; and of two requests for the profile of a user that     *)
(* changes.                                                                *)
(***************************************************************************)

LOCAL Callers == {<<"a", 1>>, <<"a", 2>>, <<"b", 1>>}
LOCAL Start == Login!Initially(<<1>>, Callers)

LOCAL Steps(s) ==
    UNION {Login!Consume(s, p) \cup Login!Conclude(s, p) \cup Login!Verify(s, p, 1) : p \in Callers}
        \cup UNION {Login!LookUpUser(s, h) \cup Login!InsertUser(s, h) : h \in {"a", "b"}}
        \cup (IF s.now < 1 THEN Login!Tick(s) ELSE {})
LOCAL Faults(s) ==
    UNION {Login!FailConsume(s, p) : p \in Callers} \cup UNION {Login!FailUpsert(s, h) : h \in {"a", "b"}}
LOCAL IsQuiet(s) == \A p \in Callers : s.call[p] = Login!Idle

\* A challenge is good for one token at most, and for none without a user,
\* whatever fails and wherever the calls run.
ASSUME OneTokenPerChallenge ==
    \A s \in Within(LAMBDA s : Steps(s) \cup Faults(s), {Start}, 7) :
        /\ s.issued[1] <= 1
        /\ s.issued[1] = 1 => s.consumed[1] /\ s.user

\* While nothing fails, a consumed challenge has led to a token, and so has a
\* user's row.
ASSUME ConsumedIsAnswered ==
    \A s \in Within(Steps, {Start}, 10) :
        IsQuiet(s) /\ (s.consumed[1] \/ s.user) => s.issued[1] = 1

\* A failure may leave the challenge consumed and no token: it takes a new one.
ASSUME AFailureCostsTheChallenge ==
    \E s \in Within(LAMBDA s : Steps(s) \cup Faults(s), {Start}, 5) :
        IsQuiet(s) /\ s.consumed[1] /\ s.issued[1] = 0

\* The expiry is checked when the challenge is read, not when it is consumed.
ASSUME ExpiredWhenConsumed ==
    \E s \in Within(Steps, {Start}, 2) : s.now >= s.expires[1] /\
        \E p \in Callers : \E t \in Login!Consume(s, p) : t.call[p].consume = "won"

-----------------------------------------------------------------------------
LOCAL Answers(requests) ==
    LET runs == Within(LAMBDA s : UNION {Login!Ask(s, r) : r \in requests}
                                     \cup Login!ReadProfile(s) \cup Login!Tell(s)
                                     \cup (IF s.version < 2 THEN Login!Change(s) ELSE {}),
                       {Login!InitialProfile(requests)}, 8)
    IN  {[asked |-> s.asked[r], told |-> s.told[r]] : s \in runs, r \in requests}

\* A request that does not share its lookup is told what was committed when it
\* came, or later; one that joins a lookup may be told something older.
ASSUME JoinedMayBeOlder ==
    /\ \A a \in Answers({"r"}) : a.told # -1 => a.told >= a.asked
    /\ \E a \in Answers({"r", "q"}) : a.told # -1 /\ a.told < a.asked

-----------------------------------------------------------------------------
(***************************************************************************)
(* The runs of KycReviews: one call at a time, and two at once.            *)
(***************************************************************************)

LOCAL KycCallers == {"p", "q"}
LOCAL Submissions(s, p) == IF s.submissions < 2 THEN Kyc!Submit(s, p) \cup Kyc!SubmitByWallet(s, p) ELSE {}
LOCAL Decisions(s, p, rows) ==
    UNION {Kyc!Webhook(s, p, i, d) \cup Kyc!Review(s, p, i, d) : i \in rows, d \in {"approved", "rejected"}}

\* A call of somebody, from its first statement to its last.
LOCAL InTurn(s, rows) ==
    UNION {Kyc!Write(t, "p") : t \in Submissions(s, "p") \cup Decisions(s, "p", rows)}
LOCAL AtOnce(s) ==
    UNION {Submissions(s, p) \cup Decisions(s, p, {0}) \cup Kyc!Write(s, p) : p \in KycCallers}

LOCAL OpenRows(s) == {i \in DOMAIN s.rows : s.rows[i].status \in Kyc!Open}
LOCAL KycIsQuiet(s) == \A p \in KycCallers : s.call[p] = Kyc!Idle

\* One call at a time, none of which names its row: at most one row is open, the
\* seller is told the status the user has, and the documents are the last sent.
ASSUME OneAtATimeIsConsistent ==
    \A s \in Within(LAMBDA s : InTurn(s, {0}), {Kyc!Unsubmitted(KycCallers)}, 5) :
        /\ Cardinality(OpenRows(s)) <= 1
        /\ Kyc!Told(s) = {s.user}
        /\ \A i \in OpenRows(s) : s.rows[i].documents = s.submissions

\* A decision that names an older row changes the user, not what the seller is
\* told, and may open a second row.
ASSUME OlderRowDecided ==
    \E s \in Within(LAMBDA s : InTurn(s, {0, 1}), {Kyc!Unsubmitted(KycCallers)}, 4) :
        s.user \notin Kyc!Told(s) /\ Cardinality(OpenRows(s)) = 2

\* Two submissions at once, each of which finds nothing, make two open rows.
ASSUME TwoSubmissionsAtOnce ==
    \E s \in After(AtOnce, {Kyc!Unsubmitted(KycCallers)}, 4) : KycIsQuiet(s) /\ Cardinality(OpenRows(s)) = 2

\* A decision on what was sent first, written after the seller sent more, puts
\* the old documents back and is the status of the verification.
ASSUME LateDecisionDropsResubmission ==
    \E s \in Within(AtOnce, {Kyc!Unsubmitted(KycCallers)}, 8) :
        /\ KycIsQuiet(s) /\ Len(s.rows) = 1
        /\ s.submissions = 2 /\ s.rows[1].documents = 1 /\ s.user = "approved"

-----------------------------------------------------------------------------
(***************************************************************************)
(* RequestGuards over every request of one user, and every state of the    *)
(* database.                                                               *)
(***************************************************************************)

LOCAL Issued(owner) ==
    [sub |-> "w", stellarAddress |-> "w", wallet |-> "w", userId |-> "w",
     role |-> owner.type, userType |-> owner.type, kycStatus |-> Guards!None]
LOCAL UserRows == [type : {"seller", "investor", "both"}, kyc : {"pending", "approved"}, suspended : BOOLEAN]
LOCAL Headers == {"absent", "other", "empty", "oversized", "bearing"}
LOCAL Verdicts == {"valid", "expired", "signature", "malformed", "other"}
LOCAL Databases == {"answers", "fails", "hangs"}
LOCAL TokenRequests(owner) == [header : Headers, verdict : Verdicts, claims : {Issued(owner)}]
LOCAL Fresh(owner) == [header |-> "bearing", verdict |-> "valid", claims |-> Issued(owner)]
LOCAL Users(owner) == [w \in {"w"} |-> owner]

\* A valid token never meets a 401 because of an outage: a database that fails or
\* hangs, or a secret that is missing - but where the administrators' middleware
\* has none.
ASSUME OutageIsNoBadCredential ==
    \A owner \in UserRows :
        /\ \A d \in Databases :
            /\ Guards!SuspendedGuard(Fresh(owner), Users(owner), d).status # 401
            /\ Guards!Authenticated(Fresh(owner), Users(owner), d).status # 401
        /\ \A hasSecret \in BOOLEAN, marked \in SUBSET {"w"} :
            Guards!AuthenticatedByToken(Fresh(owner), hasSecret, marked).status # 401
        /\ Guards!AuthenticatedAdmin(Fresh(owner), FALSE).status = 401

\* No bad token passes, and both middlewares give the same reason for it.
ASSUME BadTokenRefused ==
    \A owner \in UserRows, d \in Databases, marked \in SUBSET {"w"} :
        \A request \in TokenRequests(owner) \ {Fresh(owner)} :
            /\ Guards!Authenticated(request, Users(owner), d).status = 401
            /\ Guards!AuthenticatedByToken(request, TRUE, marked)
                = Guards!Authenticated(request, Users(owner), d)

\* Behind the guard of suspended wallets neither middleware passes a user who was
\* suspended when the guard asked; without it only the one that reads the row
\* refuses such a user.
ASSUME SuspendedIsRefused ==
    \A owner \in UserRows : owner.suspended =>
        /\ \A d \in {"answers", "fails"} : Guards!SuspendedGuard(Fresh(owner), Users(owner), d).status # 200
        /\ Guards!Authenticated(Fresh(owner), Users(owner), "answers")
               = Guards!Refused(403, "ACCOUNT_SUSPENDED")
        /\ Guards!AuthenticatedByToken(Fresh(owner), TRUE, {}).status = 200

\* A role taken away since the token was issued: the one middleware knows, the
\* other goes by the token.  No token holds a KYC status, so that behind the
\* other nobody has KYC.
ASSUME TokenRoleIsOld ==
    \A old, new \in UserRows : ~old.suspended /\ ~new.suspended =>
        LET byRow == Guards!Authenticated(Fresh(old), Users(new), "answers").user
            byToken == Guards!AuthenticatedByToken(Fresh(old), TRUE, {}).user
        IN  /\ byRow.type = new.type /\ byToken.type = old.type
            /\ Guards!HasKYC(byRow, FALSE) <=> new.kyc = "approved"
            /\ ~Guards!HasKYC(byToken, FALSE)

\* The roles: an administrator passes for neither a seller nor an investor, and
\* who is both passes for each.
ASSUME RolesCombine ==
    \A type \in {"seller", "investor", "both", "admin", Guards!None} :
        LET user == [id |-> "w", type |-> type]
        IN  /\ Guards!IsSeller(user) <=> Guards!HasRole(user, {"seller"})
            /\ Guards!IsInvestor(user) <=> Guards!HasRole(user, {"investor"})
            /\ Guards!IsSeller(user) /\ Guards!IsInvestor(user) <=> type = "both"
            /\ Guards!IsAdmin(user, {}) <=> type = "admin"

LOCAL Window == 3
LOCAL Most == 2
LOCAL Passing(times) ==
    LET entries[k \in 0 .. Len(times)] ==
            IF k = 0 THEN [entry |-> Guards!Unseen, passes |-> FALSE]
            ELSE Guards!Counted(entries[k - 1].entry, times[k], Window, Most)
    IN  {k \in DOMAIN times : entries[k].passes}
LOCAL Times == {t \in [1 .. 5 -> 0 .. 5] : \A k \in 1 .. 4 : t[k] <= t[k + 1]}

\* The wallets' limiter: any stretch as long as a window passes less than twice
\* its number, and may pass more than that number; a refused request may come
\* again after the time it is told.
ASSUME WindowPassesAtMostTwice ==
    LET Passed3(t, from) == Cardinality({k \in Passing(t) : t[k] \in from .. from + Window - 1})
    IN  /\ \A t \in Times, from \in 0 .. 5 : Passed3(t, from) < 2 * Most
        /\ \E t \in Times, from \in 0 .. 5 : Passed3(t, from) > Most
ASSUME RetryAfterIsEnough ==
    \A t \in 0 .. 2, later \in 0 .. 3 :
        LET once == Guards!Counted([count |-> 1, start |-> 0], t, Window, Most)
            full == Guards!Counted(once.entry, t, Window, Most)
        IN  /\ ~full.passes
            /\ Guards!Counted(full.entry, t + later, Window, Most).passes <=> later >= full.retryAfter

\* A limiter answers by whichever of its store and its time limit comes first,
\* and passes a request above the limit only if it is told to on an outage.
ASSUME FirstAnswerCounts ==
    \A late \in {"within", "exceeded", "error"}, failOpen \in BOOLEAN :
        /\ Guards!Settled(<<"timeout", late>>, failOpen) = IF failOpen THEN "passed" ELSE "503"
        /\ Guards!Settled(<<"exceeded", "timeout">>, failOpen) = "429"

-----------------------------------------------------------------------------
(***************************************************************************)
(* The runs of UserAccounts: two administrators and a seller.              *)
(***************************************************************************)

LOCAL Admins == {"a", "b"}
LOCAL AdminStart == Admin!Accounts([a |-> "admin", b |-> "admin", c |-> "seller"], Admins)

LOCAL Changes ==
    {Admin!Change("role", "admin"), Admin!Change("role", "investor"),
     Admin!Change("status", "suspended"), Admin!Change("status", "active")}
LOCAL Asked(s, users) == UNION {Admin!Ask(s, p, u, d) : p \in Admins, u \in users, d \in Changes}

\* A call of somebody, from its first statement to its last.
LOCAL AdminInTurn(s) ==
    LET found == UNION {Admin!Find(t, p) : t \in Asked(s, DOMAIN s.row), p \in Admins}
        Then(S) == UNION {UNION {Admin!Advance(t, p) : p \in {q \in Admins : t.call[q] # Admin!Idle}} : t \in S}
        ended == {t \in found : \A p \in Admins : t.call[p] = Admin!Idle}
    IN  ended \cup Then(Then(found \ ended))

\* Calls on the given users at once.
LOCAL AdminAtOnce(s, users) ==
    (IF Len(s.trail) = 0 THEN Asked(s, users) ELSE {}) \cup UNION {Admin!Advance(s, p) : p \in Admins}
LOCAL Ended(users, n) ==
    {s \in Within(LAMBDA s : AdminAtOnce(s, users), {AdminStart}, n) :
        Len(s.trail) = 2 /\ \A p \in Admins : s.call[p] = Admin!Idle}

LOCAL Entries(s, user, column) == SelectSeq(s.trail, LAMBDA e : e.user = user /\ e.column = column)
LOCAL IsTold(s, user, column) ==
    LET entries == Entries(s, user, column)
        Before(i) == IF i = 1 THEN AdminStart.row[user][column] ELSE entries[i - 1].new
    IN  /\ \A i \in 1 .. Len(entries) : entries[i].previous = Before(i)
        /\ s.row[user][column] = Before(Len(entries) + 1)
LOCAL HasAdmin(s) == \E u \in DOMAIN s.row : s.row[u] = [role |-> "admin", status |-> "active"]

\* One call at a time: the trail is the history of every column of every row, and
\* an administrator who may act is always left.
ASSUME TrailIsHistoryInTurn ==
    \A s \in Within(AdminInTurn, {AdminStart}, 3) :
        /\ \A u \in DOMAIN s.row, column \in {"role", "status"} : IsTold(s, u, column)
        /\ HasAdmin(s)

\* Two calls on one user at once: the later save writes back the column it read,
\* with no entry, whichever of the two it is.
ASSUME ConcurrentChangeIsUndone ==
    \A column \in {"role", "status"} :
        \E s \in Ended({"c"}, 8) :
            /\ Len(Entries(s, "c", column)) = 1
            /\ s.row["c"][column] = AdminStart.row["c"][column]

\* ... and two suspensions both succeed: the trail suspends an account twice.
ASSUME SuspendedTwice ==
    \E s \in Ended({"c"}, 8) :
        [e \in DOMAIN s.trail |-> s.trail[e].previous] = <<"active", "active">>
            /\ s.row["c"].status = "suspended"

\* Two administrators who remove each other at once leave none, though neither
\* can remove itself.
ASSUME NobodyLeft == \E s \in Ended({"a", "b"}, 8) : ~HasAdmin(s)
=============================================================================
