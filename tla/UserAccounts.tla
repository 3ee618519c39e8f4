---------------------------- MODULE UserAccounts ----------------------------
(***************************************************************************)
(* The administrators' changes to user accounts and their audit trail:     *)
(* services/admin-user.service.ts behind routes/admin/users.routes.ts.     *)
(*                                                                         *)
(* A state has the users' rows, the trail, and the calls by the            *)
(* administrator who makes them, one at a time each.                       *)
(***************************************************************************)
EXTENDS Sequences

Idle == [at |-> "idle"]
Accounts(roles, admins) ==
    [row |-> [u \in DOMAIN roles |-> [role |-> roles[u], status |-> "active"]],
     trail |-> <<>>, call |-> [p \in admins |-> Idle]]

Columns == {"role", "status"}
Change(column, value) == [column |-> column, value |-> value]
Done(s, p) == [s EXCEPT !.call[p] = Idle]

\* The guards of the router and of the service, on the caller's row of now.
Ask(s, p, user, change) ==
    LET refused == p = user /\ change \in {Change("role", r) : r \in {"investor", "seller", "both"}}
                                           \cup {Change("status", "suspended")}
    IN  IF s.call[p] # Idle \/ s.row[p].status = "suspended" \/ s.row[p].role # "admin" \/ refused THEN {}
        ELSE {[s EXCEPT !.call[p] = [at |-> "asked", user |-> user, change |-> change]]}

\* mutate: the user is found and changed in memory.  A role it has is no change;
\* being suspended already, or not suspended, is an error.
Find(s, p) ==
    IF s.call[p].at # "asked" THEN {}
    ELSE LET call == s.call[p]
             row == s.row[call.user]
         IN  IF row[call.change.column] = call.change.value THEN {Done(s, p)}
             ELSE {[s EXCEPT !.call[p] = [at |-> "found", user |-> call.user, change |-> call.change,
                        previous |-> row[call.change.column],
                        entity |-> [row EXCEPT ![call.change.column] = call.change.value]]]}

\* save: the row is loaded again, to tell which columns of the entity differ.
Compare(s, p) ==
    IF s.call[p].at # "found" THEN {}
    ELSE LET call == s.call[p]
         IN  {[s EXCEPT !.call[p] = [at |-> "compared", user |-> call.user, change |-> call.change,
                    previous |-> call.previous, entity |-> call.entity,
                    columns |-> {c \in Columns : s.row[call.user][c] # call.entity[c]}]]}

\* The update of these columns, the entry of the trail and the commit.
Write(s, p) ==
    IF s.call[p].at # "compared" THEN {}
    ELSE LET call == s.call[p]
             row == s.row[call.user]
         IN  {[Done(s, p) EXCEPT
                !.row[call.user] = [c \in Columns |-> IF c \in call.columns THEN call.entity[c] ELSE row[c]],
                !.trail = Append(@, [actor |-> p, user |-> call.user, column |-> call.change.column,
                                     previous |-> call.previous, new |-> call.change.value])]}

Advance(s, p) == Find(s, p) \cup Compare(s, p) \cup Write(s, p)
=============================================================================
