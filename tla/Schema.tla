------------------------------- MODULE Schema -------------------------------
(***************************************************************************)
(* A PostgreSQL schema as the migrations change it, and TypeORM's runner.  *)
(*                                                                         *)
(* A schema is the set of its objects, <<kind, of, name>>: a name (of a    *)
(* table or of an enumerated type, which share a namespace), and what      *)
(* belongs to it - a column, an index, a named constraint, a value, a      *)
(* trigger - or a reference from a table to the table or type it depends   *)
(* on.  Types, defaults and primary keys of columns are left out.  The     *)
(* rows matter in one place: `rows' objects say what a migration checks.   *)
(***************************************************************************)
EXTENDS Sequences, SequencesExt

Name(t) == <<"name", t, t>>
Column(t, c) == <<"column", t, c>>
Index(t, i) == <<"index", t, i>>
Constraint(t, k) == <<"constraint", t, k>>
Reference(t, u) == <<"reference", t, u>>
Value(type, v) == <<"value", type, v>>
Function(f) == <<"function", f, f>>
Trigger(t, g) == <<"trigger", t, g>>
Rows(t, what) == <<"rows", t, what>>

Columns(t, cs) == {Column(t, c) : c \in cs}
Indexes(t, is) == {Index(t, i) : i \in is}
References(t, us) == {Reference(t, u) : u \in us}
Names(ts) == {Name(t) : t \in ts}

-----------------------------------------------------------------------------
(* Statements: skipped when something of `unless' exists, refused when     *)
(* something of `needs' does not, when something of `clashes' does, or     *)
(* when it clears a name that others refer to.                             *)

Statement == [unless |-> {}, needs |-> {}, clashes |-> {}, adds |-> {}, drops |-> {}, clears |-> {},
              cascades |-> FALSE]

\* A table with its columns, what it refers to, and the indexes made with it.
CreateTable(t, columns, refers, indexes) ==
    LET made == {Name(t)} \cup Columns(t, columns) \cup Indexes(t, indexes)
    IN  [Statement EXCEPT !.needs = Names(refers), !.clashes = made, !.adds = made \cup References(t, refers)]

CreateTableIfAbsent(t, columns, refers) ==
    [CreateTable(t, columns, refers, {}) EXCEPT !.unless = {Name(t)}]

\* What ensureTable() creates: nothing, when there is a table of that name.
EnsureTable(t, columns, refers, indexes) ==
    [CreateTable(t, columns, refers, indexes) EXCEPT !.unless = {Name(t)}]

\* `of' gives the columns of each index.
CreateIndexes(t, of) ==
    [Statement EXCEPT !.needs = {Name(t)} \cup UNION {Columns(t, of[i]) : i \in DOMAIN of},
                      !.clashes = Indexes(t, DOMAIN of), !.adds = Indexes(t, DOMAIN of)]
CreateIndexesIfAbsent(t, of) == [CreateIndexes(t, of) EXCEPT !.clashes = {}]

AddColumns(t, columns) ==
    [Statement EXCEPT !.needs = {Name(t)}, !.clashes = Columns(t, columns), !.adds = Columns(t, columns)]
AddColumnsIfAbsent(t, columns) == [AddColumns(t, columns) EXCEPT !.clashes = {}]

AddConstraint(t, k, needs) ==
    [Statement EXCEPT !.needs = {Name(t)} \cup needs, !.clashes = {Constraint(t, k)}, !.adds = {Constraint(t, k)}]
AddForeignKey(t, k, u) == [AddConstraint(t, k, {Name(u)}) EXCEPT !.adds = @ \cup {Reference(t, u)}]
AddForeignKeyIfAbsent(t, k, u) == [AddForeignKey(t, k, u) EXCEPT !.unless = {Constraint(t, k)}]
Refer(t, us) == [Statement EXCEPT !.needs = Names({t} \cup us), !.adds = References(t, us)]

CreateType(type, values) ==
    [Statement EXCEPT !.clashes = {Name(type)}, !.adds = {Name(type)} \cup {Value(type, v) : v \in values}]
CreateTypeIfAbsent(type, values) == [CreateType(type, values) EXCEPT !.unless = {Name(type)}]
AddValue(type, v) == [Statement EXCEPT !.needs = {Name(type)}, !.adds = {Value(type, v)}]

CreateFunctions(fs) ==
    LET made == {Function(f) : f \in fs} IN [Statement EXCEPT !.clashes = made, !.adds = made]
CreateTrigger(t, g, f) ==
    [Statement EXCEPT !.needs = {Name(t), Function(f)}, !.clashes = {Trigger(t, g)}, !.adds = {Trigger(t, g)}]

DropTable(t) == [Statement EXCEPT !.needs = {Name(t)}, !.clears = {t}]
DropTableIfPresent(t) == [Statement EXCEPT !.clears = {t}]
DropTableCascading(t) == [DropTableIfPresent(t) EXCEPT !.cascades = TRUE]
DropType(type) == DropTable(type)
DropTypeIfPresent(type) == DropTableIfPresent(type)
DropTypeCascading(type) == DropTableCascading(type)
DropIndexes(t, is) == [Statement EXCEPT !.needs = Indexes(t, is), !.drops = Indexes(t, is)]
DropIndexesIfPresent(t, is) == [Statement EXCEPT !.drops = Indexes(t, is)]
DropColumns(t, cs) == [Statement EXCEPT !.needs = {Name(t)} \cup Columns(t, cs), !.drops = Columns(t, cs)]
DropColumnsIfPresent(t, cs) == [Statement EXCEPT !.needs = {Name(t)}, !.drops = Columns(t, cs)]
DropConstraint(t, k) == [Statement EXCEPT !.needs = {Constraint(t, k)}, !.drops = {Constraint(t, k)}]
DropConstraintIfPresent(t, k) == [Statement EXCEPT !.needs = {Name(t)}, !.drops = {Constraint(t, k)}]
DropTriggerIfPresent(t, g) == [Statement EXCEPT !.drops = {Trigger(t, g)}]
DropFunctionsIfPresent(fs) == [Statement EXCEPT !.drops = {Function(f) : f \in fs}]

\* A statement on rows, and a check of rows that raises an exception.
Update(t, columns) == [Statement EXCEPT !.needs = {Name(t)} \cup Columns(t, columns)]
Refuse(rows) == [Statement EXCEPT !.clashes = {rows}]

Skipped(db, s) == s.unless \cap db # {}
Depends(db, s) == {o \in db : o[1] = "reference" /\ o[3] \in s.clears /\ o[2] \notin s.clears}
Refused(db, s) ==
    /\ ~Skipped(db, s)
    /\ \/ ~(s.needs \subseteq db)
       \/ s.clashes \cap db # {}
       \/ ~s.cascades /\ Depends(db, s) # {}

Executed(db, s) ==
    IF Skipped(db, s) THEN db
    ELSE {o \in db \ Depends(db, s) : o \notin s.drops /\ o[2] \notin s.clears} \cup s.adds

\* Statements up to the first that is refused.
Run(db, statements) ==
    FoldLeft(LAMBDA r, s :
                IF ~r.done THEN r
                ELSE IF Refused(r.db, s) THEN [r EXCEPT !.done = FALSE]
                ELSE [r EXCEPT !.db = Executed(r.db, s)],
             [done |-> TRUE, db |-> db], statements)

-----------------------------------------------------------------------------
(* Migrations                                                              *)

Migration(up, down) == [up |-> up, down |-> down, transaction |-> TRUE]
WithoutTransaction(up, down) == [Migration(up, down) EXCEPT !.transaction = FALSE]

\* A migration that fails leaves nothing behind, unless it opted out of its
\* transaction: then it leaves what it had done.
Perform(db, m, statements) ==
    LET r == Run(db, statements)
    IN  IF ~r.done /\ m.transaction THEN [r EXCEPT !.db = db] ELSE r

\* A database and the migrations recorded as run, in that order.
Fresh == [db |-> {}, applied |-> <<>>, failed |-> FALSE]

\* One of them, when it is pending and none has failed.
Apply(s, m) ==
    IF s.failed \/ m \in Range(s.applied) THEN s
    ELSE LET r == Perform(s.db, m, m.up)
         IN  [db |-> r.db, failed |-> ~r.done,
              applied |-> IF r.done THEN Append(s.applied, m) ELSE s.applied]

\* migration:run, and the start of a server that is not a developer's: the pending
\* ones in their order, up to the first that fails.
Migrate(d, migrations) == FoldLeft(Apply, [d EXCEPT !.failed = FALSE], migrations)

\* migration:revert: the migration that ran last.
RevertLast(d) ==
    LET r == Perform(d.db, Last(d.applied), Last(d.applied).down)
    IN  [db |-> r.db, failed |-> ~r.done, applied |-> IF r.done THEN Front(d.applied) ELSE d.applied]
=============================================================================
