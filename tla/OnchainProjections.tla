------------------------- MODULE OnchainProjections -------------------------
(***************************************************************************)
(* The read models behind the event indexer: the event bus                 *)
(* (services/contract-event-bus.service.ts) and its seven handlers, with   *)
(* their repositories (services/onchain-projection-repositories.ts):       *)
(*   rows that are inserted once: dividend cycles, royalties, swaps;       *)
(*   rows that are written over: the ACL, the key configuration and the    *)
(*   votes of a key merge;                                                 *)
(*   proposals of a key merge and of a curve migration.                    *)
(*                                                                         *)
(* Composed with EventIndexer: the indexer hands over the event in hand,   *)
(* each write of its handler is a step, a handler that fails is logged and *)
(* skipped, and a crash in between has the event handled again.  Events    *)
(* carry the fields their handlers read (one that does not is as one       *)
(* without a handler), among them a transaction and a closing time; the    *)
(* keys that are configured have their row from the start.  The eviction   *)
(* of caches and the notices to administrators are left out.               *)
(***************************************************************************)
EXTENDS EventIndexer

CONSTANTS
    Key,       \* Key[e]: what the rows of an inserting event are found by
    Holders,   \* Holders[e]: how many allocations dividend event e carries
    Voters,    \* the holders who vote on the key merge
    Subjects,  \* whose row is written over: the voters, contracts and keys
    Subject,   \* Subject[e]: whose row event e writes over
    Support    \* Support[e]: for the key merge, or against it

Of(k) == {e \in Event : Kind[e] = k}

\* The topics of the handlers, by what their repositories do.
InsertKinds ==
    {"dividend_distributed", "dividend_claimed", "royalty_paid", "royalty_claimed",
     "atomic_swap_executed"}
OverwriteKinds == {"merge_voted", "acl_updated", "key_config_updated"}
ProposedKinds == {"merge_proposed", "curve_migration_proposed"}
ExecutedKinds == {"merge_executed", "curve_migration_executed"}

Handled == InsertKinds \cup OverwriteKinds \cup ProposedKinds \cup ExecutedKinds

\* The table of the proposals.
ProposalOf(k) == IF k \in {"merge_proposed", "merge_executed"} THEN "merge" ELSE "migration"

Inserting == {e \in Event : Kind[e] \in InsertKinds}
Overwriting == {e \in Event : Kind[e] \in OverwriteKinds}

ASSUME ProjectionAssumption ==
    /\ IsFiniteSet(Voters) /\ Voters \subseteq Subjects
    /\ Kind \in [Event -> STRING]
    /\ Holders \in [Inserting -> Nat]
    /\ \A e \in Inserting : Kind[e] # "dividend_distributed" => Holders[e] = 0
    /\ Subject \in [Overwriting -> Subjects]
    /\ \A e \in Overwriting : Subject[e] \in Voters <=> Kind[e] = "merge_voted"
    /\ Support \in [Of("merge_voted") -> BOOLEAN]

VARIABLES
    stored,   \* stored[e][k]: the rows event e inserted: its own (k = 0) and
              \* its allocations
    latest,   \* latest[s]: the event that wrote the row of s, 0 for none
    appended, \* appended[e]: the rows e added to the ACL's log, or by how much
              \* it raised the version of the key configuration
    proposal, \* the rows of the proposals: "none", "pending", "completed"
    tally,    \* the votes for and against in the row of the key merge
    written,  \* the writes the handler in hand has done
    lost      \* the events whose handler failed

projections == <<stored, latest, appended, proposal, tally>>
vars == <<indexerVars, stored, latest, appended, proposal, tally, written, lost>>

TypeOK ==
    /\ IndexerTypeOK
    /\ \A e \in Inserting : stored[e] \in [0 .. Holders[e] -> Nat]
    /\ latest \in [Subjects -> {0} \cup Overwriting]
    /\ appended \in [Overwriting -> Nat]
    /\ proposal \in [{"merge", "migration"} -> {"none", "pending", "completed"}]
    /\ tally \in [yes : Nat, no : Nat]
    /\ written \in Nat
    /\ lost \in SUBSET Event

Init ==
    /\ IndexerInit
    /\ stored = [e \in Inserting |-> [k \in 0 .. Holders[e] |-> 0]]
    /\ latest = [s \in Subjects |-> 0]
    /\ appended = [e \in Overwriting |-> 0]
    /\ proposal = [p \in {"merge", "migration"} |-> "none"]
    /\ tally = [yes |-> 0, no |-> 0]
    /\ written = 0 /\ lost = {}

-----------------------------------------------------------------------------
(* The handlers, one write at a time                                       *)

InHand(e, k) == At(e, "dispatch") /\ Kind[e] = k

\* Row k of event e is there, whichever event inserted it.
Taken(e, k) ==
    \E f \in Inserting :
        /\ Kind[f] = Kind[e] /\ Key[f] = Key[e]
        /\ k <= Holders[f] /\ stored[f][k] > 0

\* A row is inserted unless there is one with its key.
\* Mutant: it is inserted without looking.
InsertAgain(e) ==
    /\ written <= Holders[e]
    /\ stored' = [stored EXCEPT ![e][written] = @ + 1]
    /\ written' = written + 1
    /\ UNCHANGED <<indexerVars, latest, appended, proposal, tally, lost>>

Insert(e) ==
    /\ written <= Holders[e]
    /\ stored' = IF Taken(e, written) THEN stored ELSE [stored EXCEPT ![e][written] = 1]
    /\ written' = written + 1
    /\ UNCHANGED <<indexerVars, latest, appended, proposal, tally, lost>>

\* recordDistribution, then recordAllocations one by one.
RecordDividend(e) == InHand(e, "dividend_distributed") /\ Insert(e)
RecordDividendClaim(e) == InHand(e, "dividend_claimed") /\ Insert(e)

\* The key of a royalty is its transaction and ledger.
RecordRoyalty(e) == InHand(e, "royalty_paid") /\ Insert(e)
RecordRoyaltyClaim(e) == InHand(e, "royalty_claimed") /\ Insert(e)

RecordSwap(e) == InHand(e, "atomic_swap_executed") /\ Insert(e)

\* recordProposal keeps a row that is there.
RecordProposal(e, k) ==
    /\ InHand(e, k) /\ written = 0
    /\ proposal' = [proposal EXCEPT ![ProposalOf(k)] = IF @ = "none" THEN "pending" ELSE @]
    /\ written' = 1
    /\ UNCHANGED <<indexerVars, stored, latest, appended, tally, lost>>

\* recordExecution completes a proposal that is there.
RecordExecution(e, k) ==
    /\ InHand(e, k) /\ written = 0
    /\ proposal' = [proposal EXCEPT ![ProposalOf(k)] = IF @ = "none" THEN "none" ELSE "completed"]
    /\ written' = 1
    /\ UNCHANGED <<indexerVars, stored, latest, appended, tally, lost>>

\* The row of the subject is written, over what is there.
Overwrite(e) ==
    /\ written = 0
    /\ latest' = [latest EXCEPT ![Subject[e]] = e]
    /\ written' = 1
    /\ UNCHANGED <<indexerVars, stored, proposal, tally, lost>>

\* applyUpdate and applyConfigUpdate write over the row, and add to the ACL's
\* log or to the version, again when the event is replayed.
Update(e, k) ==
    /\ InHand(e, k) /\ Overwrite(e)
    /\ appended' = [appended EXCEPT ![e] = @ + 1]

\* recordVote first writes the vote of the holder over an earlier one ...
RecordVote(e) == InHand(e, "merge_voted") /\ Overwrite(e) /\ UNCHANGED appended

\* ... and then sums up the votes that are stored, if there is a proposal.
Votes(b) == Cardinality({v \in Voters : latest[v] # 0 /\ Support[latest[v]] = b})
Counted == [yes |-> Votes(TRUE), no |-> Votes(FALSE)]

\* Mutant: the vote is added to the tally.
AddVote(e) ==
    /\ InHand(e, "merge_voted") /\ written = 1
    /\ tally' = IF proposal["merge"] = "none" THEN tally
                ELSE IF Support[e] THEN [tally EXCEPT !.yes = @ + 1]
                ELSE [tally EXCEPT !.no = @ + 1]
    /\ written' = 2
    /\ UNCHANGED <<indexerVars, stored, latest, appended, proposal, lost>>

CountVotes(e) ==
    /\ InHand(e, "merge_voted") /\ written = 1
    /\ tally' = IF proposal["merge"] = "none" THEN tally ELSE Counted
    /\ written' = 2
    /\ UNCHANGED <<indexerVars, stored, latest, appended, proposal, lost>>

-----------------------------------------------------------------------------
(* The bus                                                                 *)

\* How many writes the handler of e does.
WritesOf(e) ==
    IF e \in Inserting THEN Holders[e] + 1
    ELSE IF Kind[e] = "merge_voted" THEN 2
    ELSE IF Kind[e] \in Handled THEN 1 ELSE 0

\* The bus returns to the indexer.
Return(failed) ==
    /\ stage' = "mark"
    /\ written' = 0 /\ lost' = lost \cup failed
    /\ faults' = IF failed = {} THEN faults ELSE faults + 1
    /\ UNCHANGED <<tip, rows, memory, pc, todo, high, status, applied, projections>>

\* The handler is done, or there is none.
Dispatched(e) ==
    At(e, "dispatch") /\ written = WritesOf(e) /\ Return({})

\* The handler throws between two writes: the bus logs it and goes on.
HandlerFails(e) ==
    /\ At(e, "dispatch") /\ written < WritesOf(e) /\ faults < MaxFaults
    /\ Return({e})

Handle ==
    \E e \in todo :
        \/ RecordDividend(e) \/ RecordDividendClaim(e)
        \/ RecordRoyalty(e) \/ RecordRoyaltyClaim(e) \/ RecordSwap(e)
        \/ RecordVote(e) \/ CountVotes(e)
        \/ \E k \in {"acl_updated", "key_config_updated"} : Update(e, k)
        \/ \E k \in ProposedKinds : RecordProposal(e, k)
        \/ \E k \in ExecutedKinds : RecordExecution(e, k)
        \/ Dispatched(e)

\* A step of the indexer leaves the rows alone; a crash ends the handler.
Indexer ==
    /\ IndexerNext
    /\ written' = IF stage' = "dispatch" THEN written ELSE 0
    /\ UNCHANGED <<projections, lost>>

Next == Indexer \/ Handle \/ \E e \in todo : HandlerFails(e)

Spec == Init /\ [][Next]_vars

\* The timer keeps firing and every await returns.
Progress == (Indexer /\ (Poll \/ FetchPage \/ Ingest)) \/ Handle

FairSpec == Spec /\ WF_vars(Progress)
-----------------------------------------------------------------------------
\* The events that are done and whose handler did not fail.
Projected == {e \in Event : log[e] = "processed" /\ e > Known /\ e \notin lost}

\* There is one row for a key, whoever inserted it and however often an event is
\* replayed.  What a handler leaves that was cut short, by a crash or a failure,
\* is the first of its rows, and once it got through all are there, its own or
\* those of another event with its key: two royalties of one transaction are
\* stored as one.  An entry of the ACL's log and a version of the key
\* configuration are made again when their event is replayed, though docs/INDEXER.md
\* says that "replaying a ledger range cannot create duplicate rows": no more
\* often than something failed.
RowsExact ==
    /\ \A e, f \in Inserting : \A k \in 0 .. Holders[e] :
          /\ stored[e][k] <= 1
          /\ Kind[f] = Kind[e] /\ Key[f] = Key[e] /\ k <= Holders[f]
                /\ stored[e][k] > 0 /\ stored[f][k] > 0 => e = f
    /\ \A e \in Inserting : \A k \in 0 .. Holders[e] :
          Taken(e, k) => \A j \in 0 .. k : Taken(e, j)
    /\ \A e \in Inserting \cap Projected : \A k \in 0 .. Holders[e] : Taken(e, k)
    /\ \A e \in Overwriting :
          /\ appended[e] <= faults + 1
          /\ e \in Projected /\ Kind[e] # "merge_voted" => appended[e] >= 1

\* The contract accepts votes on a proposal, whose event therefore comes before
\* theirs.  (The repository stores a vote without one, and counts it at the
\* next vote only.)
VotesFollowProposal ==
    \A e \in Of("merge_voted") : e > Known =>
        \E f \in Of("merge_proposed") : Known < f /\ f < e

\* Unless a handler failed, the tally of the proposal is the count of the
\* stored votes whenever no event is left half done (recordVote writes the
\* vote and the tally apart).
TallyIsCount ==
    lost = {} /\ proposal["merge"] # "none" /\ (\A e \in Event : log[e] # "open")
        => tally = Counted

\* A replayed event never writes over what a later one wrote: neither a vote
\* nor an entry of the ACL nor a key configuration goes back.
LatestGoesForward == [][\A s \in Subjects : latest'[s] >= latest[s]]_latest

Visible == Cardinality({e \in Event : Ledger[e] <= tip})

\* The indexer delivers as promised: in the order of the chain, at least once,
\* and, with finitely many failures, every event.
Delivery == INSTANCE EventDelivery WITH Start <- Known, closed <- Visible, head <- applied

ImplementsDelivery == Delivery!Spec
=============================================================================
