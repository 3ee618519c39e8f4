----------------------------- MODULE DataProofs -----------------------------
(***************************************************************************)
(* Proofs about modules whose states are data rather than VARIABLES:       *)
(* ReadModels, following the keyset cursors of a history, for any set of   *)
(* rows and any page size; WalletLogin, with any number of challenges,     *)
(* calls and hosts; FeeSchedules, with any number of readers.  Of the last *)
(* two the steps make up a specification here, with the state in one       *)
(* variable.                                                               *)
(***************************************************************************)
EXTENDS ReadModels, Sequences, FiniteSetTheorems, TLAPS

-----------------------------------------------------------------------------
(* The pages of a history                                                  *)

\* The rows of a history: an id identifies a row.
History(R) ==
    /\ IsFiniteSet(R)
    /\ \A r \in R : r.time \in Int /\ r.id \in Int
    /\ \A r, s \in R : r.id = s.id => r = s

\* c is the last row of P.
LastOf(P, c) == c \in P /\ \A r \in P : r = c \/ Precedes(r, c)

\* The order is total.
LEMMA TotalOrder ==
  ASSUME NEW R, History(R), NEW r \in R, NEW s \in R
  PROVE  /\ r = s \/ Precedes(r, s) \/ Precedes(s, r)
         /\ ~ (Precedes(r, s) /\ Precedes(s, r)) /\ ~ Precedes(r, r)
         /\ \A q \in R : Precedes(q, r) /\ Precedes(r, s) => Precedes(q, s)
<1>1. \A q \in R : q.time \in Int /\ q.id \in Int
  BY DEF History
<1>2. r.id = s.id => r = s
  BY DEF History
<1> QED BY <1>1, <1>2 DEF Precedes

\* With a row, a page has every row before it.
LEMMA PageIsPrefix ==
  ASSUME NEW R, History(R), NEW n \in Nat, NEW r \in Page(R, n), NEW s \in R, Precedes(s, r)
  PROVE  s \in Page(R, n)
<1> DEFINE Before(q) == {p \in R : Precedes(p, q)}
<1>1. r \in R /\ Cardinality(Before(r)) < n
  BY DEF Page
<1>2. Before(s) \subseteq Before(r)
  BY <1>1, TotalOrder
<1>3. IsFiniteSet(Before(r))
  <2>1. Before(r) \subseteq R
    OBVIOUS
  <2> HIDE DEF Before
  <2> QED BY <2>1, FS_Subset DEF History
<1>4. IsFiniteSet(Before(s)) /\ Cardinality(Before(s)) <= Cardinality(Before(r))
  <2> HIDE DEF Before
  <2> QED BY <1>2, <1>3, FS_Subset
<1>5. Cardinality(Before(s)) \in Nat /\ Cardinality(Before(r)) \in Nat
  <2> HIDE DEF Before
  <2> QED BY <1>3, <1>4, FS_CardinalityType
<1>6. Cardinality(Before(s)) < n
  <2> HIDE DEF Before
  <2> QED BY <1>1, <1>4, <1>5
<1> QED BY <1>6 DEF Page

\* What follows the cursor of a page is what is not on it, and comes after it:
\* no page repeats a row of an earlier one and none is left out between two
\* (findByWallet, listClaims and findByKeyId of the repositories).
THEOREM NextPageIsTheRest ==
  ASSUME NEW R, History(R), NEW n \in Nat, NEW c, LastOf(Page(R, n), c)
  PROVE  /\ After(R, c) = R \ Page(R, n)
         /\ \A r \in Page(R, n), s \in After(R, c) : Precedes(r, s)
<1>1. c \in Page(R, n) /\ c \in R /\ Page(R, n) \subseteq R
  BY DEF LastOf, Page
<1>2. \A r \in R : r \in After(R, c) <=> Precedes(c, r)
  BY <1>1 DEF After, Precedes, History
<1>3. After(R, c) \subseteq R
  BY DEF After
<1>4. ASSUME NEW r \in R PROVE r \in After(R, c) <=> r \notin Page(R, n)
  <2>1. ASSUME Precedes(c, r), r \in Page(R, n) PROVE FALSE
    BY <1>1, <2>1, TotalOrder DEF LastOf
  <2>2. ASSUME r \notin Page(R, n) PROVE Precedes(c, r)
    <3>1. ~ Precedes(r, c)
      BY <1>1, <2>2, PageIsPrefix
    <3>2. r = c \/ Precedes(r, c) \/ Precedes(c, r)
      BY <1>1, TotalOrder
    <3> QED BY <1>1, <2>2, <3>1, <3>2
  <2> QED BY <1>2, <2>1, <2>2
<1>5. After(R, c) = R \ Page(R, n)
  BY <1>3, <1>4
<1>6. ASSUME NEW r \in Page(R, n), NEW s \in After(R, c) PROVE Precedes(r, s)
  <2>1. r \in R /\ s \in R /\ Precedes(c, s) /\ (r = c \/ Precedes(r, c))
    BY <1>1, <1>2, <1>3 DEF LastOf
  <2>2. Precedes(r, c) => Precedes(r, s)
    BY <1>1, <2>1, TotalOrder
  <2> QED BY <2>1, <2>2
<1> QED BY <1>5, <1>6

\* Rows that are written while a reader goes from page to page do not disturb
\* it: they come before its cursor, for the chain goes on.
THEOREM NewRowsDoNotDisturb ==
  ASSUME NEW R, NEW New, History(R \cup New), NEW c \in R, \A r \in New : Precedes(r, c)
  PROVE  After(R \cup New, c) = After(R, c)
<1>1. ASSUME NEW r \in New PROVE r \notin After(R \cup New, c)
  <2>1. ~ Precedes(c, r)
    BY <1>1, TotalOrder
  <2>2. r.time \in Int /\ r.id \in Int /\ c.time \in Int /\ c.id \in Int
    BY <1>1 DEF History
  <2> QED BY <2>1, <2>2 DEF After, Precedes
<1> QED BY <1>1 DEF After

-----------------------------------------------------------------------------
(* Logging in with a wallet: whatever statement of whatever call comes     *)
(* next, on any host, and any of them may fail.                            *)

CONSTANTS
    Expires,  \* Expires[c]: when challenge c expires
    Calls     \* the calls, each a pair of its host and a number

VARIABLE login

Login == INSTANCE WalletLogin

Challenges == DOMAIN Expires
Hosts == {Login!Host(p) : p \in Calls}

LoginInit == login = Login!Initially(Expires, Calls)

LoginNext ==
    \/ \E p \in Calls :
          \/ \E c \in Challenges : login' \in Login!Verify(login, p, c)
          \/ login' \in Login!Consume(login, p)
          \/ login' \in Login!FailConsume(login, p)
          \/ login' \in Login!Conclude(login, p)
    \/ \E h \in Hosts :
          \/ login' \in Login!LookUpUser(login, h)
          \/ login' \in Login!InsertUser(login, h)
          \/ login' \in Login!FailUpsert(login, h)
    \/ login' \in Login!Tick(login)

LoginSpec == LoginInit /\ [][LoginNext]_login

\* A challenge is good for one token at most, and for none without a user.
TokenPerChallenge ==
    \A c \in Challenges :
        /\ login.issued[c] <= 1
        /\ login.issued[c] = 1 => login.consumed[c] /\ login.user

Working ==
    [at : {"working"}, challenge : Challenges, consume : {"asked", "won", "lost", "failed"},
     user : {"asked", "known", "failed"}]

LoginType ==
    login \in [now : Nat, expires : {Expires}, consumed : [Challenges -> BOOLEAN],
               issued : [Challenges -> Nat], user : BOOLEAN,
               call : [Calls -> {Login!Idle} \cup Working],
               upsert : [Hosts -> {"none", "looking", "missing"}]]

\* The call that consumed challenge c, and has not concluded.
Wins(p, c) ==
    login.call[p] \in Working /\ login.call[p].challenge = c /\ login.call[p].consume = "won"

\* The update of a row that is not consumed has one winner, and there is no
\* token before it concludes; who is told of a user has one.
LoginInv ==
    /\ LoginType
    /\ \A p, q \in Calls, c \in Challenges : Wins(p, c) /\ Wins(q, c) => p = q
    /\ \A p \in Calls, c \in Challenges :
          Wins(p, c) => login.consumed[c] /\ login.issued[c] = 0
    /\ \A p \in Calls : login.call[p] \in Working /\ login.call[p].user = "known" => login.user
    /\ TokenPerChallenge

\* Initially every call is idle, and every challenge new.
LEMMA LoginStarts == LoginInit => LoginInv
<1> SUFFICES ASSUME LoginInit PROVE LoginInv
  OBVIOUS
<1>1. login = [now |-> 0, expires |-> Expires, consumed |-> [c \in Challenges |-> FALSE],
               issued |-> [c \in Challenges |-> 0], user |-> FALSE,
               call |-> [p \in Calls |-> Login!Idle], upsert |-> [h \in Hosts |-> "none"]]
  BY DEF LoginInit, Login!Initially, Challenges, Hosts
<1>2. LoginType
  BY <1>1 DEF LoginType
<1>3. \A p \in Calls : login.call[p] \notin Working
  BY <1>1 DEF Working, Login!Idle
<1>4. \A c \in Challenges : login.issued[c] = 0
  BY <1>1
<1> QED BY <1>2, <1>3, <1>4 DEF LoginInv, Wins, TokenPerChallenge

\* A call is idle or at work.
LEMMA CallState ==
  ASSUME LoginType, NEW p \in Calls
  PROVE  /\ login.call[p] # Login!Idle => login.call[p] \in Working
         /\ Login!Idle \notin Working
BY DEF LoginType, Working, Login!Idle

\* The fields after a step of one call.
LEMMA CallFields ==
  ASSUME LoginType, NEW p \in Calls, NEW w \in {Login!Idle} \cup Working,
         login' \in [now : Nat, expires : {Expires}, consumed : [Challenges -> BOOLEAN],
               issued : [Challenges -> Nat], user : BOOLEAN,
               call : {[login.call EXCEPT ![p] = w]},
               upsert : [Hosts -> {"none", "looking", "missing"}]]
  PROVE  LoginType' /\ \A q \in Calls : login'.call[q] = IF q = p THEN w ELSE login.call[q]
<1>1. login.call \in [Calls -> {Login!Idle} \cup Working]
  BY DEF LoginType
<1>2. login'.call = [login.call EXCEPT ![p] = w]
  OBVIOUS
<1>3. login'.call \in [Calls -> {Login!Idle} \cup Working]
  BY <1>1, <1>2
<1> QED BY <1>1, <1>2, <1>3 DEF LoginType, Working, Login!Idle

\* A step in which nobody wins and no token is issued.
LEMMA NobodyWins ==
  ASSUME LoginInv, LoginType', login'.issued = login.issued,
         \A c \in Challenges : login.consumed[c] => login'.consumed[c],
         login.user => login'.user,
         \A q \in Calls, c \in Challenges : Wins(q, c)' => Wins(q, c),
         \A q \in Calls : login'.call[q] \in Working /\ login'.call[q].user = "known" => login'.user
  PROVE  LoginInv'
BY DEF LoginInv, TokenPerChallenge, Challenges

\* A call that starts has not asked for anything yet.
LEMMA VerifyKeeps ==
  ASSUME LoginInv, NEW p \in Calls, NEW c \in Challenges, login' \in Login!Verify(login, p, c)
  PROVE  LoginInv'
<1> DEFINE w == [at |-> "working", challenge |-> c, consume |-> "asked", user |-> "asked"]
           h == Login!Host(p)
<1>1. LoginType /\ w \in Working /\ h \in Hosts
  BY DEF LoginInv, Working, Hosts
<1>2. login' = [login EXCEPT !.call[p] = w,
                             !.upsert[h] = IF @ = "none" THEN "looking" ELSE @]
  BY DEF Login!Verify
<1> HIDE DEF w, h
<1>3. login' \in [now : Nat, expires : {Expires}, consumed : [Challenges -> BOOLEAN],
               issued : [Challenges -> Nat], user : BOOLEAN,
               call : {[login.call EXCEPT ![p] = w]},
               upsert : [Hosts -> {"none", "looking", "missing"}]]
  BY <1>1, <1>2 DEF LoginType
<1>4. LoginType' /\ \A q \in Calls : login'.call[q] = IF q = p THEN w ELSE login.call[q]
  BY <1>1, <1>3, CallFields
<1>5. UNCHANGED <<login.issued, login.consumed, login.user>>
  BY <1>1, <1>2 DEF LoginType
<1>6. w.consume = "asked" /\ w.user = "asked"
  BY DEF w
<1>7. \A q \in Calls, d \in Challenges : Wins(q, d)' => Wins(q, d)
  BY <1>4, <1>6 DEF Wins
<1>8. \A q \in Calls : login'.call[q] \in Working /\ login'.call[q].user = "known" => login'.user
  BY <1>4, <1>5, <1>6 DEF LoginInv
<1> QED BY <1>4, <1>5, <1>7, <1>8, NobodyWins

\* What an update of the challenge's row does, and one that fails.
LEMMA ConsumeEffect ==
  ASSUME LoginInv, NEW p \in Calls, NEW s \in Login!Consume(login, p)
  PROVE  /\ login.call[p] \in Working /\ login.call[p].consume = "asked"
         /\ s = [login EXCEPT
                    !.call[p].consume = IF login.consumed[login.call[p].challenge] THEN "lost" ELSE "won",
                    !.consumed[login.call[p].challenge] = TRUE]
BY CallState DEF LoginInv, Login!Consume

\* Then only that call has an answer.
LEMMA AnswerFields ==
  ASSUME LoginInv, NEW p \in Calls, login.call[p] \in Working,
         NEW a \in {"won", "lost", "failed"}, NEW d \in [Challenges -> BOOLEAN],
         login' = [login EXCEPT !.call[p].consume = a, !.consumed = d]
  PROVE  /\ LoginType'
         /\ login'.call[p] \in Working /\ login'.call[p].consume = a
         /\ login'.call[p].challenge = login.call[p].challenge
         /\ login'.call[p].user = login.call[p].user
         /\ \A q \in Calls \ {p} : login'.call[q] = login.call[q]
         /\ login'.consumed = d /\ UNCHANGED <<login.issued, login.user>>
<1> DEFINE w == [login.call[p] EXCEPT !.consume = a]
<1>1. LoginType /\ w \in Working /\ w.consume = a
      /\ w.challenge = login.call[p].challenge /\ w.user = login.call[p].user
  BY DEF LoginInv, Working
<1>2. login' = [login EXCEPT !.call[p] = w, !.consumed = d]
  BY <1>1 DEF LoginType
<1> HIDE DEF w
<1>3. login' \in [now : Nat, expires : {Expires}, consumed : [Challenges -> BOOLEAN],
               issued : [Challenges -> Nat], user : BOOLEAN,
               call : {[login.call EXCEPT ![p] = w]},
               upsert : [Hosts -> {"none", "looking", "missing"}]]
  BY <1>1, <1>2 DEF LoginType
<1>4. LoginType' /\ \A q \in Calls : login'.call[q] = IF q = p THEN w ELSE login.call[q]
  BY <1>1, <1>3, CallFields
<1>5. login'.consumed = d /\ UNCHANGED <<login.issued, login.user>>
  BY <1>1, <1>2 DEF LoginType
<1> QED BY <1>1, <1>4, <1>5

\* The first update wins, and only it: there was neither a winner nor a token.
LEMMA ConsumeKeeps ==
  ASSUME LoginInv, NEW p \in Calls, login' \in Login!Consume(login, p)
  PROVE  LoginInv'
<1> DEFINE c == login.call[p].challenge
           a == IF login.consumed[c] THEN "lost" ELSE "won"
           d == [login.consumed EXCEPT ![c] = TRUE]
<1>1. login.call[p] \in Working /\ login' = [login EXCEPT !.call[p].consume = a, !.consumed[c] = TRUE]
  BY ConsumeEffect
<1>2. c \in Challenges /\ login.consumed \in [Challenges -> BOOLEAN]
  BY <1>1 DEF Working, LoginInv, LoginType
<1>3. /\ d \in [Challenges -> BOOLEAN] /\ d[c] = TRUE /\ a \in {"won", "lost"}
      /\ \A e \in Challenges : login.consumed[e] => d[e]
      /\ a = "won" <=> ~ login.consumed[c]
  BY <1>2
<1>4. login' = [login EXCEPT !.call[p].consume = a, !.consumed = d]
  BY <1>1 DEF LoginInv, LoginType
<1> HIDE DEF a, d
<1>5. /\ LoginType'
      /\ login'.call[p] \in Working /\ login'.call[p].consume = a
      /\ login'.call[p].challenge = c /\ login'.call[p].user = login.call[p].user
      /\ \A q \in Calls \ {p} : login'.call[q] = login.call[q]
      /\ login'.consumed = d /\ UNCHANGED <<login.issued, login.user>>
  BY <1>1, <1>3, <1>4, AnswerFields
<1> HIDE DEF c
<1>6. \A q \in Calls : login'.call[q] \in Working /\ login'.call[q].user = "known" => login'.user
  BY <1>1, <1>5 DEF LoginInv
<1>7. \A q \in Calls \ {p}, e \in Challenges : Wins(q, e)' <=> Wins(q, e)
  BY <1>5 DEF Wins
<1>8. \A e \in Challenges : Wins(p, e)' <=> e = c /\ a = "won"
  BY <1>5 DEF Wins
<1>9. CASE a = "lost"
  <2>1. \A q \in Calls, e \in Challenges : Wins(q, e)' => Wins(q, e)
    BY <1>7, <1>8, <1>9
  <2> QED BY <1>3, <1>5, <1>6, <2>1, NobodyWins
<1>10. CASE a = "won"
  <2>1. \A q \in Calls : ~ Wins(q, c)
    BY <1>2, <1>3, <1>10 DEF LoginInv
  <2>2. login.issued[c] = 0
    BY <1>2, <1>3, <1>10 DEF LoginInv, TokenPerChallenge, LoginType
  <2>3. \A q, r \in Calls, e \in Challenges : Wins(q, e)' /\ Wins(r, e)' => q = r
    <3> SUFFICES ASSUME NEW q \in Calls, NEW r \in Calls, NEW e \in Challenges, Wins(q, e)', Wins(r, e)'
                 PROVE  q = r
      OBVIOUS
    <3>1. CASE e = c
      BY <1>7, <2>1, <3>1
    <3>2. CASE e # c
      BY <1>7, <1>8, <3>2 DEF LoginInv
    <3> QED BY <3>1, <3>2
  <2>4. \A q \in Calls, e \in Challenges : Wins(q, e)' => login'.consumed[e] /\ login'.issued[e] = 0
    <3> SUFFICES ASSUME NEW q \in Calls, NEW e \in Challenges, Wins(q, e)'
                 PROVE  login'.consumed[e] /\ login'.issued[e] = 0
      OBVIOUS
    <3>1. CASE e = c
      BY <1>3, <1>5, <2>2, <3>1
    <3>2. CASE e # c
      BY <1>3, <1>5, <1>7, <1>8, <3>2 DEF LoginInv
    <3> QED BY <3>1, <3>2
  <2>5. TokenPerChallenge'
    BY <1>3, <1>5 DEF LoginInv, TokenPerChallenge, Challenges
  <2> QED BY <1>5, <1>6, <2>3, <2>4, <2>5 DEF LoginInv
<1> QED BY <1>3, <1>9, <1>10

\* An update that fails may have consumed the challenge, for nobody.
LEMMA FailConsumeKeeps ==
  ASSUME LoginInv, NEW p \in Calls, login' \in Login!FailConsume(login, p)
  PROVE  LoginInv'
<1>1. login.call[p] \in Working
  BY CallState DEF LoginInv, Login!FailConsume
<1>2. PICK d \in [Challenges -> BOOLEAN] :
         /\ \A e \in Challenges : login.consumed[e] => d[e]
         /\ login' = [login EXCEPT !.call[p].consume = "failed", !.consumed = d]
  <2>1. PICK t \in {login} \cup Login!Consume(login, p) : login' = [t EXCEPT !.call[p].consume = "failed"]
    BY DEF Login!FailConsume
  <2>2. CASE t = login
    <3>1. login.consumed \in [Challenges -> BOOLEAN]
      BY DEF LoginInv, LoginType
    <3>2. login' = [login EXCEPT !.call[p].consume = "failed", !.consumed = login.consumed]
      BY <2>1, <2>2 DEF LoginInv, LoginType
    <3> QED BY <3>1, <3>2
  <2>3. CASE t \in Login!Consume(login, p)
    <3> DEFINE c == login.call[p].challenge
               d == [login.consumed EXCEPT ![c] = TRUE]
               a == IF login.consumed[c] THEN "lost" ELSE "won"
    <3>1. t = [login EXCEPT !.call[p].consume = a, !.consumed[c] = TRUE]
      BY <2>3, ConsumeEffect
    <3>2. c \in Challenges /\ login.consumed \in [Challenges -> BOOLEAN]
      BY <1>1 DEF Working, LoginInv, LoginType
    <3>3. d \in [Challenges -> BOOLEAN] /\ \A e \in Challenges : login.consumed[e] => d[e]
      BY <3>2
    <3> HIDE DEF a
    <3>4. login' = [login EXCEPT !.call[p].consume = "failed", !.consumed = d]
      BY <1>1, <2>1, <3>1, <3>2 DEF LoginInv, LoginType, Working
    <3> QED BY <3>3, <3>4
  <2> QED BY <2>2, <2>3
<1>3. /\ LoginType'
      /\ login'.call[p] \in Working /\ login'.call[p].consume = "failed"
      /\ login'.call[p].user = login.call[p].user
      /\ \A q \in Calls \ {p} : login'.call[q] = login.call[q]
      /\ login'.consumed = d /\ UNCHANGED <<login.issued, login.user>>
  BY <1>1, <1>2, AnswerFields
<1>4. \A q \in Calls : login'.call[q] \in Working /\ login'.call[q].user = "known" => login'.user
  BY <1>1, <1>3 DEF LoginInv
<1>5. \A q \in Calls, e \in Challenges : Wins(q, e)' => Wins(q, e)
  BY <1>3 DEF Wins
<1> QED BY <1>2, <1>3, <1>4, <1>5, NobodyWins

\* A token is issued to the winner, who was the only one, and wins no more.
LEMMA ConcludeKeeps ==
  ASSUME LoginInv, NEW p \in Calls, login' \in Login!Conclude(login, p)
  PROVE  LoginInv'
<1> DEFINE c == login.call[p].challenge
           won == login.call[p].consume = "won" /\ login.call[p].user = "known"
           n == IF won THEN login.issued[c] + 1 ELSE login.issued[c]
<1>1. /\ login.call[p] \in Working
      /\ login' = [login EXCEPT !.call[p] = Login!Idle, !.issued[c] = IF won THEN @ + 1 ELSE @]
  BY CallState DEF LoginInv, Login!Conclude
<1>2. LoginType /\ c \in Challenges /\ n \in Nat /\ login.issued \in [Challenges -> Nat]
  BY <1>1 DEF LoginInv, LoginType, Working
<1>3. login' = [login EXCEPT !.call[p] = Login!Idle, !.issued = [login.issued EXCEPT ![c] = n]]
  BY <1>1, <1>2 DEF LoginType
<1>4. [login.issued EXCEPT ![c] = n] \in [Challenges -> Nat]
  BY <1>2
<1>w. won => Wins(p, c) /\ login.user
  BY <1>1 DEF Wins, LoginInv
<1>n. n = IF won THEN login.issued[c] + 1 ELSE login.issued[c]
  OBVIOUS
<1> HIDE DEF n, won
<1>5. login' \in [now : Nat, expires : {Expires}, consumed : [Challenges -> BOOLEAN],
               issued : [Challenges -> Nat], user : BOOLEAN,
               call : {[login.call EXCEPT ![p] = Login!Idle]},
               upsert : [Hosts -> {"none", "looking", "missing"}]]
  BY <1>2, <1>3, <1>4 DEF LoginType
<1>6. LoginType' /\ \A q \in Calls : login'.call[q] = IF q = p THEN Login!Idle ELSE login.call[q]
  BY <1>2, <1>5, CallFields
<1>7. /\ login'.consumed = login.consumed /\ login'.user = login.user
      /\ \A e \in Challenges : login'.issued[e] = IF e = c THEN n ELSE login.issued[e]
  BY <1>2, <1>3 DEF LoginType
<1>8. \A q \in Calls, e \in Challenges : Wins(q, e)' => Wins(q, e) /\ q # p
  BY <1>6, CallState, <1>2 DEF Wins
<1>9. \A q \in Calls : login'.call[q] \in Working /\ login'.call[q].user = "known" => login'.user
  BY <1>2, <1>6, <1>7, CallState DEF LoginInv
<1>10. \A q \in Calls, e \in Challenges : Wins(q, e)' => login'.consumed[e] /\ login'.issued[e] = 0
  <2> SUFFICES ASSUME NEW q \in Calls, NEW e \in Challenges, Wins(q, e)'
               PROVE  login'.consumed[e] /\ login'.issued[e] = 0
    OBVIOUS
  <2>1. Wins(q, e) /\ q # p /\ login.consumed[e] /\ login.issued[e] = 0
    BY <1>8 DEF LoginInv
  <2>2. e = c => ~ won
    BY <1>w, <2>1 DEF LoginInv
  <2> QED BY <1>n, <1>7, <2>1, <2>2
<1>11. TokenPerChallenge'
  <2> SUFFICES ASSUME NEW e \in Challenges
               PROVE  /\ login'.issued[e] <= 1
                      /\ login'.issued[e] = 1 => login'.consumed[e] /\ login'.user
    BY DEF TokenPerChallenge, Challenges
  <2>1. CASE e = c /\ won
    <3>1. login.issued[c] = 0 /\ login.consumed[c] /\ login.user
      BY <1>2, <1>w, <2>1 DEF LoginInv
    <3> QED BY <1>n, <1>7, <2>1, <3>1
  <2>2. CASE ~ (e = c /\ won)
    <3>1. login'.issued[e] = login.issued[e]
      BY <1>n, <1>7, <2>2
    <3> QED BY <1>7, <3>1 DEF LoginInv, TokenPerChallenge
  <2> QED BY <2>1, <2>2
<1> QED BY <1>6, <1>8, <1>9, <1>10, <1>11 DEF LoginInv

\* Whoever waits for the upsert of a host is told its answer.
LEMMA UpsertedKeeps ==
  ASSUME LoginInv, NEW h \in Hosts, NEW answer \in {"known", "failed"}, NEW user \in BOOLEAN,
         login.user => user, answer = "known" => user,
         login' = Login!Upserted([login EXCEPT !.user = user], h, answer)
  PROVE  LoginInv'
<1> DEFINE told(q) == IF Login!Host(q) = h /\ login.call[q] # Login!Idle /\ login.call[q].user = "asked"
                      THEN [login.call[q] EXCEPT !.user = answer] ELSE login.call[q]
<1>1. LoginType /\ DOMAIN login.call = Calls
  BY DEF LoginInv, LoginType
<1>2. login' = [login EXCEPT !.user = user, !.upsert[h] = "none", !.call = [q \in Calls |-> told(q)]]
  BY <1>1 DEF Login!Upserted, LoginType
<1>3. \A q \in Calls :
        /\ told(q) \in {Login!Idle} \cup Working
        /\ told(q) \in Working <=> login.call[q] \in Working
        /\ told(q) \in Working =>
              /\ told(q).challenge = login.call[q].challenge
              /\ told(q).consume = login.call[q].consume
              /\ told(q).user \in {login.call[q].user, answer}
  <2> TAKE q \in Calls
  <2>1. CASE login.call[q] \in Working
    BY <2>1 DEF Working, Login!Idle
  <2>2. CASE login.call[q] = Login!Idle
    BY <1>1, <2>2, CallState
  <2> QED BY <1>1, <2>1, <2>2, CallState
<1> HIDE DEF told
<1>4. /\ login'.call = [q \in Calls |-> told(q)]
      /\ login'.consumed = login.consumed /\ login'.issued = login.issued /\ login'.user = user
  BY <1>1, <1>2 DEF LoginType
<1>5. LoginType'
  <2>1. [q \in Calls |-> told(q)] \in [Calls -> {Login!Idle} \cup Working]
    BY <1>3
  <2>2. [login.upsert EXCEPT ![h] = "none"] \in [Hosts -> {"none", "looking", "missing"}]
    BY <1>1 DEF LoginType
  <2> DEFINE calls == [q \in Calls |-> told(q)]
             waits == [login.upsert EXCEPT ![h] = "none"]
  <2>3. login' = [login EXCEPT !.user = user, !.upsert = waits, !.call = calls]
    BY <1>1, <1>2 DEF LoginType
  <2>4. calls \in [Calls -> {Login!Idle} \cup Working] /\ waits \in [Hosts -> {"none", "looking", "missing"}]
    BY <2>1, <2>2
  <2> HIDE DEF calls, waits
  <2> QED BY <1>1, <2>3, <2>4 DEF LoginType
<1>6. \A q \in Calls, e \in Challenges : Wins(q, e)' => Wins(q, e)
  BY <1>3, <1>4 DEF Wins
<1>7. \A q \in Calls : login'.call[q] \in Working /\ login'.call[q].user = "known" => login'.user
  <2> SUFFICES ASSUME NEW q \in Calls, login'.call[q] \in Working, login'.call[q].user = "known"
               PROVE  user
    BY <1>4
  <2>1. login.call[q] \in Working /\ (login.call[q].user = "known" \/ answer = "known")
    BY <1>3, <1>4
  <2> QED BY <2>1 DEF LoginInv
<1> QED BY <1>4, <1>5, <1>6, <1>7, NobodyWins

\* Every step keeps the invariant.
LEMMA LoginStep == ASSUME LoginInv, [LoginNext]_login PROVE LoginInv'
<1>1. ASSUME NEW h \in Hosts, login' \in Login!LookUpUser(login, h) PROVE LoginInv'
  <2>1. CASE login.user
    <3>1. login' = Login!Upserted(login, h, "known") /\ login = [login EXCEPT !.user = TRUE]
      BY <1>1, <2>1 DEF Login!LookUpUser, LoginInv, LoginType
    <3> QED BY <2>1, <3>1, UpsertedKeeps
  <2>2. CASE ~ login.user
    <3>1. login' = [login EXCEPT !.upsert[h] = "missing"]
      BY <1>1, <2>2 DEF Login!LookUpUser
    <3>2. LoginType' /\ login'.call = login.call
          /\ UNCHANGED <<login.issued, login.consumed, login.user>>
      BY <3>1 DEF LoginInv, LoginType, Working, Login!Idle
    <3> QED BY <3>2, NobodyWins DEF Wins, LoginInv
  <2> QED BY <2>1, <2>2
<1>2. ASSUME NEW h \in Hosts, login' \in Login!InsertUser(login, h) PROVE LoginInv'
  <2>1. login' = Login!Upserted([login EXCEPT !.user = TRUE], h, "known")
    BY <1>2 DEF Login!InsertUser
  <2> QED BY <2>1, UpsertedKeeps
<1>3. ASSUME NEW h \in Hosts, login' \in Login!FailUpsert(login, h) PROVE LoginInv'
  <2>1. login' = Login!Upserted(login, h, "failed") /\ login = [login EXCEPT !.user = login.user]
        /\ login.user \in BOOLEAN
    BY <1>3 DEF Login!FailUpsert, LoginInv, LoginType
  <2> QED BY <2>1, UpsertedKeeps
<1>4. CASE login' \in Login!Tick(login)
  <2>1. login' = [login EXCEPT !.now = @ + 1]
    BY <1>4 DEF Login!Tick
  <2>2. LoginType' /\ login'.call = login.call
        /\ UNCHANGED <<login.issued, login.consumed, login.user>>
    BY <2>1 DEF LoginInv, LoginType, Working, Login!Idle
  <2> QED BY <2>2, NobodyWins DEF Wins, LoginInv
<1>5. CASE UNCHANGED login
  BY <1>5 DEF LoginInv, LoginType, Working, Login!Idle, Wins, TokenPerChallenge, Challenges
<1> QED BY <1>1, <1>2, <1>3, <1>4, <1>5, VerifyKeeps, ConsumeKeeps, FailConsumeKeeps, ConcludeKeeps DEF LoginNext

\* A challenge leads to one token at most, and to none without a user's row,
\* whatever fails, however many calls present it and wherever they run: the
\* conditional update of the challenge decides (consume of the repository), not
\* the check that read it before.
THEOREM OneTokenPerChallenge == LoginSpec => []TokenPerChallenge
<1>1. LoginInv => TokenPerChallenge
  BY DEF LoginInv
<1> QED BY <1>1, LoginStarts, LoginStep, PTL DEF LoginSpec

-----------------------------------------------------------------------------
(* The schedule of fees with one administrator.  A refill may be lost, and *)
(* an update that has not been committed; only the invalidation is not.    *)

CONSTANTS Readers, Admin

VARIABLE fee

Fee == INSTANCE FeeSchedules

FeeInit == fee = Fee!Initially(Readers \cup {Admin})

FeeNext ==
    \/ \E r \in Readers : fee' \in Fee!Read(fee, r) \cup Fee!Refill(fee, r) \cup Fee!Lose(fee, r)
    \/ fee' \in Fee!Begin(fee, Admin) \cup Fee!Commit(fee, Admin) \cup Fee!Invalidate(fee, Admin)
    \/ fee.process[Admin].at = "replacing" /\ fee' \in Fee!Lose(fee, Admin)
    \/ fee' \in Fee!Expire(fee)

FeeSpec == FeeInit /\ [][FeeNext]_fee

\* There is one active schedule, and it is what a reader is answered once the
\* call that changed it has returned.
ServedIsActive ==
    /\ \E v \in Nat : Fee!Active(fee) = {v}
    /\ fee.process[Admin].at # "committed" => Fee!Active(fee) = {Fee!Served(fee)}

Newest == Len(fee.rows)

FeeType ==
    fee \in [rows : Seq(BOOLEAN), cache : Nat, key : Nat,
             process : [Readers \cup {Admin} ->
                           [at : {"idle", "read", "replacing", "committed"}, version : Nat]]]

\* The newest schedule is the active one, the one that is being replaced, and
\* the one that was committed.  Unless its invalidation is to come, the copy is
\* of no other, and the key refuses whoever has read an older one.
FeeInv ==
    /\ FeeType
    /\ Newest > 0 /\ \A v \in 1 .. Newest : fee.rows[v] <=> v = Newest
    /\ \A r \in Readers :
          /\ fee.process[r].at \in {"idle", "read"}
          /\ fee.process[r].at = "read" => fee.process[r].version \in 1 .. Newest
    /\ fee.process[Admin].at \in {"idle", "replacing", "committed"}
    /\ fee.process[Admin].at # "idle" => fee.process[Admin].version = Newest
    /\ fee.key <= Newest /\ fee.cache <= Newest
    /\ fee.process[Admin].at # "committed" =>
          /\ fee.cache \in {Fee!None, Newest}
          /\ Newest > 1 => fee.key = Newest

\* With one active row, the newest, that is the current schedule.
LEMMA CurrentIsNewest ==
  ASSUME FeeInv
  PROVE  Newest \in Nat /\ Fee!Active(fee) = {Newest} /\ Fee!Current(fee) = Newest
<1>1. Newest \in Nat /\ DOMAIN fee.rows = 1 .. Newest
  BY DEF FeeInv, FeeType, Newest
<1>2. Fee!Active(fee) = {Newest}
  BY <1>1 DEF FeeInv, Fee!Active
<1>3. Fee!Max({Newest}) = Newest
  BY <1>1 DEF Fee!Max
<1> QED BY <1>1, <1>2, <1>3 DEF Fee!Current

\* Then a reader is answered the active schedule.
LEMMA InvServes == FeeInv => ServedIsActive
<1> SUFFICES ASSUME FeeInv PROVE ServedIsActive
  OBVIOUS
<1> QED BY CurrentIsNewest DEF FeeInv, ServedIsActive, Fee!Served, Fee!None

\* Initially nothing is in the cache.
LEMMA FeeStarts == FeeInit => FeeInv
<1> SUFFICES ASSUME FeeInit PROVE FeeInv
  OBVIOUS
<1>1. fee = [rows |-> <<TRUE>>, cache |-> 0, key |-> 0,
             process |-> [p \in Readers \cup {Admin} |-> [at |-> "idle", version |-> 0]]]
  BY DEF FeeInit, Fee!Initially, Fee!None, Fee!Idle
<1>2. <<TRUE>> \in Seq(BOOLEAN) /\ Newest = 1 /\ fee.rows[1] = TRUE
  BY <1>1 DEF Newest
<1>3. FeeType
  BY <1>1, <1>2 DEF FeeType
<1> QED BY <1>1, <1>2, <1>3 DEF FeeInv, Fee!None

\* The state after a step of process p.
Stepped(p, at, version, rows, cache, key) ==
    [rows : {rows}, cache : {cache}, key : {key},
     process : {[fee.process EXCEPT ![p] = [at |-> at, version |-> version]]}]

LEMMA GoesIs ==
  ASSUME FeeType, NEW p \in Readers \cup {Admin}, NEW at, NEW version
  PROVE  Fee!Goes(fee, p, at, version) \in Stepped(p, at, version, fee.rows, fee.cache, fee.key)
<1> DEFINE next == [fee.process EXCEPT ![p] = [at |-> at, version |-> version]]
<1>1. Fee!Goes(fee, p, at, version) = [fee EXCEPT !.process = next]
  BY DEF Fee!Goes
<1> HIDE DEF next
<1>2. Fee!Goes(fee, p, at, version)
         \in [rows : {fee.rows}, cache : {fee.cache}, key : {fee.key}, process : {next}]
  BY <1>1 DEF FeeType
<1> QED BY <1>2 DEF Stepped, next

\* It leaves the other processes as they are.
LEMMA GoesFields ==
  ASSUME FeeType, NEW p \in Readers \cup {Admin}, NEW at \in {"idle", "read", "replacing", "committed"},
         NEW version \in Nat, NEW rows \in Seq(BOOLEAN), NEW cache \in Nat, NEW key \in Nat,
         fee' \in Stepped(p, at, version, rows, cache, key)
  PROVE  /\ FeeType'
         /\ fee'.rows = rows /\ fee'.cache = cache /\ fee'.key = key
         /\ \A q \in Readers \cup {Admin} :
               fee'.process[q] = IF q = p THEN [at |-> at, version |-> version] ELSE fee.process[q]
<1> DEFINE next == [fee.process EXCEPT ![p] = [at |-> at, version |-> version]]
<1>1. next \in [Readers \cup {Admin} -> [at : {"idle", "read", "replacing", "committed"}, version : Nat]]
  BY DEF FeeType
<1>2. fee' = [rows |-> rows, cache |-> cache, key |-> key, process |-> next]
  BY DEF Stepped
<1>3. \A q \in Readers \cup {Admin} :
         next[q] = IF q = p THEN [at |-> at, version |-> version] ELSE fee.process[q]
  BY DEF FeeType
<1> HIDE DEF next
<1> QED BY <1>1, <1>2, <1>3 DEF FeeType

\* Before a commit's invalidation the rows do not change, and the copy may only
\* vanish or become the newest.
LEMMA ReaderKeeps ==
  ASSUME Admin \notin Readers, FeeInv, NEW r \in Readers,
         fee' \in Fee!Read(fee, r) \cup Fee!Refill(fee, r) \cup Fee!Lose(fee, r)
  PROVE  FeeInv'
<1>1. FeeType /\ fee.rows \in Seq(BOOLEAN) /\ fee.cache \in Nat /\ fee.key \in Nat
      /\ Newest \in Nat /\ Fee!Current(fee) = Newest /\ fee.process[r].version \in Nat
  BY CurrentIsNewest DEF FeeInv, FeeType
<1>2. CASE fee' \in Fee!Read(fee, r)
  <2>1. fee' \in Stepped(r, "read", Newest, fee.rows, fee.cache, fee.key)
    BY <1>1, <1>2, GoesIs DEF Fee!Read
  <2>2. /\ FeeType'
        /\ fee'.rows = fee.rows /\ fee'.cache = fee.cache /\ fee'.key = fee.key
        /\ \A q \in Readers \cup {Admin} :
              fee'.process[q] = IF q = r THEN [at |-> "read", version |-> Newest] ELSE fee.process[q]
    BY <1>1, <2>1, GoesFields
  <2>3. Newest' = Newest
    BY <2>2 DEF Newest
  <2> QED BY <1>1, <2>2, <2>3 DEF FeeInv
<1> DEFINE key == IF fee.process[r].version < fee.key THEN fee.key ELSE fee.process[r].version
           cache == IF fee.process[r].version < fee.key THEN fee.cache ELSE fee.process[r].version
<1>3. CASE fee' \in Fee!Refill(fee, r)
  <2>1. fee.process[r].at = "read" /\ key \in Nat /\ cache \in Nat
    BY <1>1, <1>3 DEF Fee!Refill
  <2> DEFINE done == Fee!Goes(fee, r, "idle", 0)
             v == fee.process[r].version
  <2>a. done \in Stepped(r, "idle", 0, fee.rows, fee.cache, fee.key)
    BY <1>1, GoesIs
  <2>b. fee' = IF v < fee.key THEN done ELSE [done EXCEPT !.key = v, !.cache = v]
    BY <1>3, <2>1 DEF Fee!Refill, Fee!None
  <2> HIDE DEF done
  <2>2. fee' \in Stepped(r, "idle", 0, fee.rows, cache, key)
    BY <2>a, <2>b DEF Stepped
  <2>3. fee.process[r].version \in 1 .. Newest /\ key <= Newest /\ cache <= Newest
    BY <1>1, <2>1 DEF FeeInv
  <2>4. fee.process[Admin].at # "committed" =>
          /\ cache \in {Fee!None, Newest}
          /\ Newest > 1 => key = Newest
    BY <1>1, <2>3 DEF FeeInv
  <2> HIDE DEF key, cache
  <2>5. /\ FeeType'
        /\ fee'.rows = fee.rows /\ fee'.cache = cache /\ fee'.key = key
        /\ \A q \in Readers \cup {Admin} :
              fee'.process[q] = IF q = r THEN [at |-> "idle", version |-> 0] ELSE fee.process[q]
    BY <1>1, <2>1, <2>2, GoesFields
  <2>6. Newest' = Newest
    BY <2>5 DEF Newest
  <2> QED BY <1>1, <2>3, <2>4, <2>5, <2>6 DEF FeeInv
<1>4. CASE fee' \in Fee!Lose(fee, r)
  <2>1. fee' \in Stepped(r, "idle", 0, fee.rows, fee.cache, fee.key)
    BY <1>1, <1>4, GoesIs DEF Fee!Lose, Fee!None
  <2>2. /\ FeeType'
        /\ fee'.rows = fee.rows /\ fee'.cache = fee.cache /\ fee'.key = fee.key
        /\ \A q \in Readers \cup {Admin} :
              fee'.process[q] = IF q = r THEN [at |-> "idle", version |-> 0] ELSE fee.process[q]
    BY <1>1, <2>1, GoesFields
  <2>3. Newest' = Newest
    BY <2>2 DEF Newest
  <2> QED BY <1>1, <2>2, <2>3 DEF FeeInv
<1> QED BY <1>2, <1>3, <1>4

\* The rows after a commit: only the inserted one is active.
LEMMA CommitRows ==
  ASSUME NEW rows \in Seq(BOOLEAN), NEW n \in Nat, n = Len(rows), n > 0,
         \A v \in 1 .. n : rows[v] <=> v = n
  PROVE  LET next == Append([rows EXCEPT ![n] = FALSE], TRUE)
         IN  /\ next \in Seq(BOOLEAN) /\ Len(next) = n + 1
             /\ \A v \in 1 .. n + 1 : next[v] <=> v = n + 1
<1> DEFINE off == [rows EXCEPT ![n] = FALSE]
           next == Append(off, TRUE)
<1>1. n \in 1 .. Len(rows)
  OBVIOUS
<1>2. off \in Seq(BOOLEAN) /\ Len(off) = n
  BY <1>1
<1>3. \A v \in 1 .. n : ~ off[v]
  <2> TAKE v \in 1 .. n
  <2>1. CASE v = n
    BY <1>1, <2>1
  <2>2. CASE v # n
    <3>1. ~ rows[v]
      BY <2>2
    <3> QED BY <1>1, <2>2, <3>1
  <2> QED BY <2>1, <2>2
<1> HIDE DEF off
<1>4. /\ next \in Seq(BOOLEAN) /\ Len(next) = n + 1
      /\ next[n + 1]
      /\ \A v \in 1 .. n : ~ next[v]
  <2>1. next \in Seq(BOOLEAN) /\ Len(next) = n + 1
    BY <1>2
  <2>2. next[n + 1]
    BY <1>2
  <2>3. \A v \in 1 .. n : ~ next[v]
    BY <1>2, <1>3
  <2> QED BY <2>1, <2>2, <2>3
<1> HIDE DEF next
<1>5. \A v \in 1 .. n + 1 : next[v] <=> v = n + 1
  <2> TAKE v \in 1 .. n + 1
  <2>1. CASE v = n + 1
    BY <1>4, <2>1
  <2>2. CASE v # n + 1
    BY <1>4, <2>2
  <2> QED BY <2>1, <2>2
<1>6. next \in Seq(BOOLEAN) /\ Len(next) = n + 1 /\ \A v \in 1 .. n + 1 : next[v] <=> v = n + 1
  BY <1>4, <1>5
<1> QED BY <1>6 DEF next, off

\* An update replaces the newest schedule, and invalidates the copy of it.
LEMMA AdministratorKeeps ==
  ASSUME Admin \notin Readers, FeeInv,
         \/ fee' \in Fee!Begin(fee, Admin) \cup Fee!Commit(fee, Admin) \cup Fee!Invalidate(fee, Admin)
         \/ fee.process[Admin].at = "replacing" /\ fee' \in Fee!Lose(fee, Admin)
  PROVE  FeeInv'
<1>1. FeeType /\ fee.rows \in Seq(BOOLEAN) /\ fee.cache \in Nat /\ fee.key \in Nat
      /\ Newest \in Nat /\ Fee!Current(fee) = Newest /\ fee.process[Admin].version \in Nat
  BY CurrentIsNewest DEF FeeInv, FeeType
<1>2. CASE fee' \in Fee!Begin(fee, Admin)
  <2>1. fee' \in Stepped(Admin, "replacing", Newest, fee.rows, fee.cache, fee.key)
        /\ fee.process[Admin].at = "idle"
    BY <1>1, <1>2, GoesIs DEF Fee!Begin, Fee!Idle
  <2>2. /\ FeeType'
        /\ fee'.rows = fee.rows /\ fee'.cache = fee.cache /\ fee'.key = fee.key
        /\ \A q \in Readers \cup {Admin} :
              fee'.process[q] = IF q = Admin THEN [at |-> "replacing", version |-> Newest] ELSE fee.process[q]
    BY <1>1, <2>1, GoesFields
  <2>3. Newest' = Newest
    BY <2>2 DEF Newest
  <2> QED BY <1>1, <2>1, <2>2, <2>3 DEF FeeInv
<1>3. CASE fee' \in Fee!Commit(fee, Admin)
  <2> DEFINE rows == Append([fee.rows EXCEPT ![Newest] = FALSE], TRUE)
  <2>1. fee.process[Admin].at = "replacing" /\ fee.process[Admin].version = Newest
    BY <1>3 DEF Fee!Commit, FeeInv
  <2>2. rows \in Seq(BOOLEAN) /\ Len(rows) = Newest + 1
        /\ \A v \in 1 .. Newest + 1 : rows[v] <=> v = Newest + 1
    BY <1>1, CommitRows DEF FeeInv, Newest
  <2>3. fee' = Fee!Goes([fee EXCEPT !.rows = rows], Admin, "committed", Len(rows))
    BY <1>3, <2>1 DEF Fee!Commit
  <2> HIDE DEF rows
  <2>4. fee' \in Stepped(Admin, "committed", Newest + 1, rows, fee.cache, fee.key)
    BY <1>1, <2>2, <2>3 DEF Fee!Goes, FeeType, Stepped
  <2>5. /\ FeeType'
        /\ fee'.rows = rows /\ fee'.cache = fee.cache /\ fee'.key = fee.key
        /\ \A q \in Readers \cup {Admin} :
              fee'.process[q] = IF q = Admin THEN [at |-> "committed", version |-> Newest + 1] ELSE fee.process[q]
    BY <1>1, <2>2, <2>4, GoesFields
  <2>6. Newest' = Newest + 1
    BY <2>2, <2>5 DEF Newest
  <2> QED BY <1>1, <2>2, <2>5, <2>6 DEF FeeInv
<1>4. CASE fee' \in Fee!Invalidate(fee, Admin)
  <2> DEFINE done == Fee!Goes(fee, Admin, "idle", 0)
  <2>a. done \in Stepped(Admin, "idle", 0, fee.rows, fee.cache, fee.key)
    BY <1>1, GoesIs
  <2>b. fee' = [done EXCEPT !.key = fee.process[Admin].version, !.cache = 0]
        /\ fee.process[Admin].version = Newest
    BY <1>4 DEF Fee!Invalidate, Fee!None, FeeInv
  <2> HIDE DEF done
  <2>1. fee' \in Stepped(Admin, "idle", 0, fee.rows, 0, Newest)
    BY <2>a, <2>b DEF Stepped
  <2>2. /\ FeeType'
        /\ fee'.rows = fee.rows /\ fee'.cache = 0 /\ fee'.key = Newest
        /\ \A q \in Readers \cup {Admin} :
              fee'.process[q] = IF q = Admin THEN [at |-> "idle", version |-> 0] ELSE fee.process[q]
    BY <1>1, <2>1, GoesFields
  <2>3. Newest' = Newest
    BY <2>2 DEF Newest
  <2> QED BY <1>1, <2>2, <2>3 DEF FeeInv, Fee!None
<1>5. CASE fee.process[Admin].at = "replacing" /\ fee' \in Fee!Lose(fee, Admin)
  <2>1. fee' \in Stepped(Admin, "idle", 0, fee.rows, fee.cache, fee.key)
    BY <1>1, <1>5, GoesIs DEF Fee!Lose, Fee!None
  <2>2. /\ FeeType'
        /\ fee'.rows = fee.rows /\ fee'.cache = fee.cache /\ fee'.key = fee.key
        /\ \A q \in Readers \cup {Admin} :
              fee'.process[q] = IF q = Admin THEN [at |-> "idle", version |-> 0] ELSE fee.process[q]
    BY <1>1, <2>1, GoesFields
  <2>3. Newest' = Newest
    BY <2>2 DEF Newest
  <2> QED BY <1>1, <1>5, <2>2, <2>3 DEF FeeInv
<1> QED BY <1>2, <1>3, <1>4, <1>5

\* With one administrator whose invalidations arrive, there is one active
\* schedule, and once the call that changed it has returned no reader is
\* answered another, however late one that had read an older schedule refills
\* the cache (guardedCacheRefill) and however many read.
THEOREM NoOldSchedule == ASSUME Admin \notin Readers PROVE FeeSpec => []ServedIsActive
<1>1. FeeInv /\ [FeeNext]_fee => FeeInv'
  <2> SUFFICES ASSUME FeeInv, [FeeNext]_fee PROVE FeeInv'
    OBVIOUS
  <2>1. CASE fee' \in Fee!Expire(fee)
    <3>1. fee' = [fee EXCEPT !.cache = 0]
      BY <2>1 DEF Fee!Expire, Fee!None
    <3>2. FeeType' /\ fee'.rows = fee.rows /\ fee'.cache = 0 /\ fee'.key = fee.key
          /\ fee'.process = fee.process /\ Newest' = Newest
      BY <3>1 DEF FeeInv, FeeType, Newest
    <3> QED BY <3>2, CurrentIsNewest DEF FeeInv, Fee!None
  <2>2. CASE UNCHANGED fee
    BY <2>2 DEF FeeInv, FeeType, Newest
  <2> QED BY <2>1, <2>2, ReaderKeeps, AdministratorKeeps DEF FeeNext
<1> QED BY <1>1, FeeStarts, InvServes, PTL DEF FeeSpec
=============================================================================
