----------------------- MODULE MCPaymentVerification -----------------------
(***************************************************************************)
(* Instances of PaymentVerification for TLC.  Two investments of the same  *)
(* wallet and amount, so that payment p1 matches both; p2 matches only i1. *)
(* WorkerBatches, about the jobs that verify payments and settle invoices  *)
(* by the batch, and Migrations and Entities, about the database, are      *)
(* evaluated here: the claims on payments are rows of a table that a       *)
(* migration creates.                                                      *)
(***************************************************************************)
EXTENDS PaymentVerification

MCMatches == {<<"p1", "i1">>, <<"p1", "i2">>, <<"p2", "i1">>}

Ask(i, p, case) == [investment |-> i, hash |-> [payment |-> p, case |-> case]]
MCAsked == {Ask("i1", "p1", "lower"), Ask("i2", "p1", "lower"), Ask("i1", "p2", "upper"),
            Ask("i2", "p2", "lower"), [investment |-> "i1", hash |-> ChainHash]}

-----------------------------------------------------------------------------
LOCAL INSTANCE BoundedRuns
Jobs == INSTANCE WorkerBatches

-----------------------------------------------------------------------------
(***************************************************************************)
(* WorkerBatches evaluated on every set of three invoices, and of a few    *)
(* pending payments, with batches that they fill and batches they do not.  *)
(***************************************************************************)

LOCAL InvoiceRow ==
    [status : {"PUBLISHED", "FUNDED"}, due : 1 .. 2, deadline : {Jobs!None}, full : BOOLEAN, accepted : BOOLEAN]
LOCAL InvoiceTables == [1 .. 3 -> InvoiceRow]
LOCAL Stuck(R) == {i \in DOMAIN R : Jobs!Disposed(R[i]) = R[i]}

\* While fewer invoices than a batch holds cannot be disposed of, every other one is.
ASSUME FewStuckHoldUpNothing ==
    \A R \in InvoiceTables : Cardinality(Stuck(R)) < 2 =>
        \A L \in After(LAMBDA S : Jobs!MaturityTick(S, 2, 2), {R}, 3) :
            \A i \in DOMAIN R \ Stuck(R) : L[i].status \in {"SETTLED", "FAILED"}

\* A batch of older ones that cannot keeps the others waiting for good.
ASSUME AFullBatchStarvesTheRest ==
    \E R \in InvoiceTables : Stuck(R) # DOMAIN R /\ Jobs!MaturityTick(R, 2, 2) = {R}

\* The hourly job has no batch and leaves nothing that can be settled.
ASSUME HourlyJobSettlesAll ==
    \A R \in InvoiceTables : \A i \in DOMAIN R :
        R[i].status = "FUNDED" /\ R[i].accepted => Jobs!SettlementCycle(R, 2)[i].status = "SETTLED"

-----------------------------------------------------------------------------
LOCAL InvestmentTables ==
    {I \in SUBSET [id : {"i", "j"}, status : {"PENDING"}, created : {1, 3}, hash : {"null", "h"}] :
        \A a, b \in I : a.id = b.id => a = b}
LOCAL TransactionTables ==
    SUBSET [status : {"PENDING"}, time : 1 .. 2, investment : {"i", "j"}, hash : {"g"}]

\* One candidate per investment, with its own hash if it has one.
ASSUME OneCandidateEach ==
    \A I \in InvestmentTables, T \in TransactionTables :
        \A C \in Jobs!FindPendingCandidates(I, T, 3, 2) :
            /\ \A c, d \in C : c.investment = d.investment => c = d
            /\ \A c \in C, i \in Jobs!PendingInvestments(I, 3) :
                c.investment = i.id /\ c.source = "investment" => c.hash = i.hash

\* Every pending payment is a candidate while both queries return all their rows.
ASSUME AllAreCandidates ==
    \A I \in InvestmentTables, T \in TransactionTables :
        \A C \in Jobs!FindPendingCandidates(I, T, 3, 4) :
            {c.investment : c \in C}
                = {i.id : i \in Jobs!PendingInvestments(I, 3)} \cup {t.investment : t \in T}

\* A transaction of an investment that is a candidate already takes a place in
\* its query: another payment is not looked at, though it is older.
ASSUME ShadowedRowsTakePlaces ==
    \E I \in InvestmentTables, T \in TransactionTables :
        \A C \in Jobs!FindPendingCandidates(I, T, 3, 1) : \E c \in C : \E t \in T :
            t.investment # c.investment /\ t.time < c.queued

-----------------------------------------------------------------------------
\* What the network decided is recorded in as many ticks as there are rows, if
\* fewer rows than a batch holds stay undecided.
ASSUME DecidedAreRecorded ==
    \A R \in [1 .. 3 -> [status : {"PENDING_CONFIRMATION"}, created : 1 .. 2,
                         network : {"SUCCESS", "FAILED", "NOT_FOUND"}]] :
        Cardinality({i \in 1 .. 3 : R[i].network = "NOT_FOUND"}) < 2 =>
            \A L \in After(LAMBDA S : Jobs!ConfirmationTick(S, 2), {R}, 3) : \A i \in 1 .. 3 :
                R[i].network # "NOT_FOUND" => L[i].status \in {"COMPLETED", "FAILED"}
-----------------------------------------------------------------------------
(***************************************************************************)
(* The migrations, run on an empty PostgreSQL database: in the order of    *)
(* the runner, and in that of docs/DB_WORKFLOW.md:3-5, where the initial   *)
(* schema comes first; stepping over those that fail, to see what all of   *)
(* them lead to.                                                           *)
(***************************************************************************)
LOCAL INSTANCE Migrations
LOCAL INSTANCE Entities

LOCAL Numbers == 1..Len(ByTimestamp)
LOCAL Documented ==
    <<InitialSchema1731513600000>> \o SelectSeq(ByTimestamp, LAMBDA m : m # InitialSchema1731513600000)

LOCAL SteppedOver(t, m) ==
    IF t = <<>> THEN t ELSE Append(t, [Apply(Last(t), m) EXCEPT !.failed = FALSE])

\* Before and after each migration.
LOCAL SchemaBefore == FoldLeft(SteppedOver, <<Fresh>>, Documented)
LOCAL SchemaAfter == Tail(SchemaBefore)
LOCAL Migrated == Last(SchemaAfter)

LOCAL Ran == {n \in Numbers : SchemaAfter[n].applied # SchemaBefore[n].applied}
LOCAL Positions(ms) == {n \in Numbers : Documented[n] \in ms}
LOCAL Reverted == [n \in Ran |-> RevertLast(SchemaAfter[n])]

\* A value added to an enumerated type stays; PostgreSQL cannot take it out.
LOCAL WithoutValues(db) == {o \in db : o[1] # "value"}

\* The migrations whose name sorts before the initial schema's change tables that
\* it creates: the runner stops at the first of them, on a database without any.
ASSUME EmptyDatabaseRefusesTheFirst ==
    LET d == Migrate(Fresh, ByTimestamp) IN d.failed /\ d.applied = <<>>

\* Started from the initial schema, as the docs say, it stops at the tenth, which
\* adds columns the initial schema has.
ASSUME InitialSchemaHasWhatTheyAdd ==
    LET d == Migrate(Fresh, Documented)
    IN  d.failed /\ Documented[Len(d.applied) + 1] = AddInvestmentPaymentVerification1731700000000

\* The initial schema keeps the tables it finds, but not the types: run where it
\* had been applied, it is refused.
ASSUME ExistingTypesRefuseTheInitialSchema ==
    LET initial == InitialSchema1731513600000 IN ~Perform(SchemaAfter[1].db, initial, initial.up).done

\* These four can never run after the others before them: each adds what is there.
ASSUME FourAreAlwaysRefused ==
    Numbers \ Ran = Positions({AddInvestmentPaymentVerification1731700000000,
                               AddUserKycVerifiedFlag1731900000001,
                               AddSorobanIndexerCheckpoint1732800000000,
                               CreateCreatorKeysAndRatingsLeaderboard1740000000000})

\* scripts/test-migrations.sh: each can be reverted, and run again to the same
\* schema.  Three drop, or put back, something the initial schema had made or had
\* not.
ASSUME RevertRestoresTheSchema ==
    \A n \in Ran :
        /\ ~Reverted[n].failed
        /\ n \in Positions({AddTransactionInvoiceAndInvestmentLinks1731800000000,
                            AddInvoiceRejection1732000000000,
                            AddUserAndTransactionPerformanceIndexes1732300000000})
           <=> WithoutValues(Reverted[n].db) # WithoutValues(SchemaBefore[n].db)

ASSUME RevertedMigrationRunsAgain ==
    \A n \in Ran : LET again == Apply(Reverted[n], Documented[n])
                   IN  ~again.failed /\ again.db = SchemaAfter[n].db

\* One that fails leaves nothing behind; those without a transaction - they add
\* values to types - can stop anywhere, and be run again from there.
ASSUME InterruptedMigrationCanBeRunAgain ==
    \A n \in Ran : ~Documented[n].transaction =>
        \A k \in 0..Len(Documented[n].up) :
            Run(Run(SchemaBefore[n].db, SubSeq(Documented[n].up, 1, k)).db, Documented[n].up)
                = [done |-> TRUE, db |-> SchemaAfter[n].db]

\* Rows that credit a payment to two owners stop the migration that makes an owner
\* unique, with the schema as it was.
ASSUME ClaimsRefuseTwoOwners ==
    LET claims == CreateStellarPaymentClaims1755000000000
        n == CHOOSE k \in Numbers : Documented[k] = claims
        r == Perform(SchemaBefore[n].db \cup {TwoOwners}, claims, claims.up)
    IN  ~r.done /\ r.db = SchemaBefore[n].db \cup {TwoOwners} /\ n \in Ran

\* README.md:174 has every change of the schema in a migration.  Of these tables no
\* migration creates one, and of these columns none is added.
ASSUME EntitiesWithoutMigration ==
    LET tables == {"bulk_cancelled_orders", "investor_accreditations", "invoice_ratings", "key_merge_proposals",
                   "key_merge_votes", "pool_rebalances", "secondary_market_price_history"}
    IN  {o \in Entities : o \notin Migrated.db /\ o[2] \notin tables}
            = Columns("invoices", {"title", "seller_wallet", "face_value", "funding_target", "yield_bps",
                                   "funding_deadline", "ipfs_document_url"})
              \cup Columns("soroban_indexer_checkpoints", {"checkpoint_key"})
              \cup Columns("creator_keys", {"name", "description", "key_address", "image_url", "rating_count",
                                            "rating_sum", "average_rating"})
        /\ \A t \in tables : Name(t) \in Entities /\ Name(t) \notin Migrated.db

\* The statuses and kinds the program can store that its types do not have.
ASSUME ValuesWithoutMigration ==
    Enumerations \ Migrated.db
        = {Value("users_kycstatus_enum", "expired")}
          \cup {Value("notifications_notificationtype_enum", v) :
                   v \in {"kyc_approved", "kyc_rejected", "investment_confirmed", "settlement_received",
                          "refund_processed", "secondary_market_sold", "kyc_status_change"}}
=============================================================================
