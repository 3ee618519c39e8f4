# A verification project for the StellarSettle backend

TLA+ modules that model this backend, TLC configurations that check them on small
instances, and theorems about them checked by TLAPS. Every definition is translated
from the code under `src/src/`; `PROJECT.json` maps each one to its lines.

The backend lets a seller publish an invoice, investors commit amounts to it until
its net amount is reached, pay on the Stellar ledger, trade their shares, and be paid
back when the invoice is settled. It is an Express application on TypeORM and Postgres;
requests, periodic workers and the indexer of contract events write the same rows,
without a queue or a leader between them. What makes it hard is that

* several requests and jobs change one invoice row, some under its row lock
  (`SELECT ... FOR UPDATE`), some with a conditional `UPDATE` on its version, and
  some with a plain load, a wait for an outside service, and a save;
* Horizon, the escrow contract and the payment distributor answer late, fail, or
  succeed with the answer lost;
* contract events are read by pages, applied one by one, and applied again after a
  crash, by handlers of several writes each;
* a process may die between any two of these steps.

## Inventory

| Component | State | Operations | Talks to | What makes it correct | Module |
|---|---|---|---|---|---|
| Investment funding (`services/investment.service.ts`) | invoice: status, `funded_amount`, version; investments | `investInInvoice`, `createInvestment` | state machine, maturity job, payment verification | never over-funded; `funded_amount` is the sum of the commitments; FUNDED when full, but for a commitment that was rounded up; one commitment per wallet and funding block; every request ends | `InvestmentFunding` |
| Document upload (`services/invoice.service.ts`) | the invoice row, saved whole | `uploadDocument` | IPFS, between load and save | changes nothing but the document | `InvestmentFunding` |
| Payment verification (`services/stellar/verify-payment.service.ts`), escrow drafts, reconciliation | investments, transactions, payment claims | `verifyPayment`, `orchestrateFunding`, a tick | Horizon, unique indexes | a payment counts once; a credit is claimed and matched; a confirmed payment stays | `PaymentVerification` |
| Settlement (`services/settlement.service.ts`), administrator settlement | invoice, investments, settlement intent | prepare, claim, distribute, mark, finalize | payment distributor, escrow contract, jobs | investors are paid at most once, for what they hold; the record is what was paid; what is due is settled | `Settlement` |
| Settlement arithmetic (`lib/investor-return.ts`, `lib/decimal-bigint.ts`) | none | division of the proceeds | settlement, distributor client | shares never exceed the proceeds; the client accepts them | `SettlementMath` |
| Secondary market (`services/secondary-market.service.ts`) | listings, investments | create, buy, cancel, expire | settlement intent | a seller never offers more than held; a listing never loses more units than it offered; every change of a holding is accounted for | `SecondaryMarket` |
| Event indexer (`services/stellar/event-indexer.service.ts`) | event log, checkpoint, in memory: last indexed ledger | poll, ingest, apply, mark, replay | RPC, projections, all of the above | nothing is skipped; events take effect in order; replays do no harm | `EventIndexer`, `EventDelivery` |
| On-chain projections (`services/contract-event-bus.service.ts`, `onchain-projection-repositories.ts` and seven handlers) | one table or more each | the handlers | indexer | a row per event key, however often it is delivered; logs grow with replays only; newer states are not taken back | `OnchainProjections`, `ReadModels` |
| Invoice state machine and lifecycle (`lib/invoice-state-machine.ts`, `services/invoice.service.ts`) | status, history | edit, delete, submit, approve, reject, publish, publish a batch | dispatcher, indexer | a change of status is recorded | `InvoiceLifecycle` |
| Notification dispatcher (`lib/notification-dispatcher.ts`) | queue, retries, dead letters; rows with dedupe keys | enqueue, pump, attempt | state machine | nothing lost silently, once per key, slots are given back | `NotificationDispatcher` |
| Workers (`workers/*.ts`) | - | ticks over batches | verification, settlement | what is due is taken up | `WorkerBatches` |
| Contract clients and pause guard (`services/stellar/`) | queue of unconfirmed transactions, cached flag | submit, poll, confirm, read the flag | RPC | success is told only of what happened; what is undecided is queued | `ContractCalls` |
| Fees (`services/fee-schedule.service.ts`) | schedules, copy in Redis | read, update, invalidate | settlement | one active schedule; the copy is that one | `FeeSchedules` |
| Login (`services/auth.service.ts`), request guards (`middleware/`), user administration, KYC | challenges, users, audit trail, verifications | - | every route | a challenge is good for one token; no bad token passes; the trail is the history; one open verification | `WalletLogin`, `RequestGuards`, `UserAccounts`, `KycReviews` |
| Caches and rate limits | maps in memory, Redis | get, set, drop, count | routes | what is served is not old for long; no window is exceeded | `Caches`, `RequestGuards` |
| Lists, inbox, snapshots, scores, subscriptions | rows they read | pages, counts, daily jobs | users | pages are the list; a day is archived once; who is warned | `PagedLists`, `NotificationInbox`, `DailySnapshots`, `Scores`, `ExpiryWarnings`, `SubscriptionStatus` |
| Views of other contracts' events | one table each | `ingest...` | - (nothing calls them) | the same event twice counts once | `EventViews` |
| Database (`migrations/`, `models/`) | the schema | run, revert | everything | the migrations make what the program uses | `Schema`, `Migrations`, `Entities` |
| Extensions, refunds, drafts, dashboards, automatic investment, webhooks, routes | various | | | see "Not modelled" | - |

How it is wired at this commit (`src/src/index.ts`, `app.ts`): the bootstrap starts
the indexer, the maturity worker, the hourly settlement worker and a confirmation
worker, and mounts both investment routes, the secondary market and the
administrator's settlement. `verifyPayment`, `orchestrateFunding`, the
reconciliation worker, the refund router and the extension routes exist with tests
but are not constructed by the bootstrap. They are modelled where they are part of
the money flow, as services that a caller may use.

## What the models assume of the platform

* **Postgres at READ COMMITTED.** A transaction that holds the row lock of the
  invoice is one action: nobody who needs the lock sees anything in between. What a
  handler reads before it holds the lock, or without one, is an action of its own.
* **Unique indexes and CHECK constraints** (`migrations/`): one investment per
  (invoice, wallet, funding block), one claim per payment, one settlement intent per
  invoice, one row per event key. A violated one rolls the whole transaction back.
* **TypeORM `save(entity)`** reloads the row by id and writes every column in which
  the entity differs from it, a stale version included; if the version does not
  differ it is increased. It never compares versions. This is `Saved` in
  `InvestmentFunding`; in `InvoiceLifecycle` the reload and the write are two steps.
* `prepareSettlementIntent` locks with a `find` that joins a relation; the model
  assumes that the database accepts that statement.
* **The chain.** A payout or a `settle_escrow` call succeeds, fails, or succeeds with
  the answer lost; the events of the chain come in one order, each in one ledger. What
  the contracts do inside is outside this repository.
* **The migration runner** sorts by the timestamp in a migration's name, records what
  ran, and gives each migration a transaction unless it opts out.

## The modules

### Programs with state

**`FundingLedger`** is what the funding of one invoice promises, without rows,
versions or retries: a set of commitments accepted one at a time while open, within
the net amount, at most one per slot; full when a commitment that is stored as it was
asked for reaches the net amount; nothing added once full or closed. `Amount` is what
is stored of a request, `Needed` the room it takes to fit, `Exact` the requests for
which the two are one.

**`InvestmentFunding`** is the component. A request goes through `ready`, `read`,
`checked`, `done`: `ReadInvoice` is the plain read and the checks on it,
`CheckDuplicate` the lookup of an earlier identical request, `CommitFractional` the
transaction of the conditional `UPDATE` (its WHERE clause is `UpdateMatches`), the
insert and the FUNDED transition, `Conflict` an `UPDATE` that matched no row and
its retry, `Refuse` every failure that rolls back. `CreateInvestment` is the other
entry point, wholly under the row lock. `MarkUnderfunded`, `SettleInvoice` and
`ConfirmPayment` are the writers around it that keep the rules; `LoadForUpload` /
`SaveUploaded` and `LoadForEvent` / `SaveEvent` the two that load an entity, wait
and save it whole. `Spec` has the former, `SpecWithEdits` both. Amounts are in
units of 0.0001 (the scale of the columns); a commitment of *k* units is *k* units of
a set, so that a total is a cardinality, which the provers can reason about.
`investInInvoice` refuses more than four decimals, `createInvestment` does not: a request
has `Whole` units and a `Rest` of one, below or above the half. Its row gets
`toFixed(4)` of the two (`Amount`, which may be zero), while whether it fits and whether
the invoice is now FUNDED are decided from the unrounded total (`Needed`, `Exact`). So an
amount that is rounded up may reach the net amount and leave the invoice PUBLISHED;
`FundedWhenFilled` says that nothing else does.

**`PaymentVerification`** has the rows `verifyPayment` writes: `investment`,
`transaction` (by the call that inserted it), `claim`. A call goes through `idle`,
`found` (the investment loaded), `matched` (Horizon answered and the operation
matches), `locked`, `linked`, then `claim` or `credit`, which commits all three
writes. The two reads named `ForUpdate` set no lock mode in this code
(`verify-payment.service.ts:434-441`), so each is an action and `seen` is all that
later steps know. Hashes are kept in the case they were given on investments and in
upper case on transactions and claims, and compared as strings, as the code does.
A caller may also name the hash that the indexer stored with the investment, that of
the escrow contract's transaction (`ChainHash`); it is told `already_verified` without
a claim, or, if it asks earlier, that the transaction has no such payment (`TruthTold`).
Next to it: the reconciliation worker, drafts, the indexer's `investment_funded`
and the settlement of an investment.

**`Settlement`** has the intent, the payouts made, the books (invoice status, its
history row, the investments) and where each caller is. `Prepare`, `Claim`,
`Distribute`, `MarkDistributed` and `Finalize` are the five steps of
`settleInvoice`; without a distributor `Finalize` is the whole call. `Crash` may end
any of them anywhere; `Distribute` may pay and lose the answer.
`AdminSettleOnChain` / `AdminRecord` are the administrator's settlement. Purchases
move one unit per step (a larger one is a sequence of them, under one guard; `MaxHolding`
bounds what a buyer collects); the indexer's saves on `settle_escrow` and on
`payment_recorded`, which settles what is FUNDED, are one step each (`Topics`).
`verifyPayment` and the `investment_funded` event load an investment and save it whole
later, as CONFIRMED: `verifyPayment` refuses only what is CONFIRMED, the event nothing,
so a SETTLED investment becomes CONFIRMED again, and an amount that changed in between
is put back (`LoadInvestment`, `SaveConfirmed`, the entity in `copy`; `rewritten` has the
investments whose amount a save has changed since the snapshot). `deployment` says whether a
distributor is configured and whether the seller's account is found (the wallet
check is skipped without one). **`PayoutLedger`** is what the
settlement promises: holdings that change hands until they are paid for or the invoice is
closed, one payout of what its investors hold, one closing; an investment that is
confirmed once more (`Reconfirm`) is no longer settled. Intents, callers, retries
and lost answers are below it; `ImplementsPromise` says that `Settlement` implements it.

**`SecondaryMarket`** is the resale of one invoice's shares. `createListing` and
`buyListing` each run in one transaction under the invoice's row lock, so each is one
action; a cancellation is a load and a later save of the entity, stale columns
included, and so is the confirmation of a payment, which puts back the amount it loaded
(`shrunk` has the users whose holding that made smaller). Rows are in units of
0.0001; a quantity that is asked for has units and a rest of one: none, below the half,
the half, above. The listing, the seller's and the buyer's investments are each rounded
by themselves, halves up (`Reduced`, `Deduct`, `Rounded`): a listing and a seller
lose `Taken`, a buyer gains `Rounded`, and the two differ on the half. A user has one
investment of their own and one that purchases add; a sale is taken from the
seller's two, in either order, until it is used up or they are.
One clock decides which listings have expired; a settlement intent stops the market,
as the code's check does.

**`EventIndexer`** is the poller: fetch a page, then for each event skip it if it is
processed, log it, apply it to the invoice, hand it to the insights and the
projections, mark it, and at the end of the poll save the checkpoint. Each await is
a step at which the poll may fail or the process may crash; the last indexed ledger is
in memory and read back from the checkpoint, or from the event log without one.
**`EventDelivery`** is its abstract specification: the events of the chain, each
delivered at least once and none before those ahead of it. **`OnchainProjections`**
extends the indexer with the event bus and its seven handlers, one step per write, a
handler's failure logged and swallowed as in the code. Votes, ACL entries and key
configurations are tables of their own, so no two of them share a row.

**`NotificationDispatcher`** has the queue, the running and the retrying jobs, the
rows with their dedupe keys, and the dead letters. **`InvoiceLifecycle`** extends it
with the state machine and the operations of `invoice.service.ts`. An operation
loads its invoices, checks them, and saves them without a lock; a save is a reload
and a write, two steps. The indexer's four escrow events (`Indexed`) do the same past
the state machine, without history. `ChangesRecorded` names what is not recorded: an edit
that checked a draft and writes DRAFT back over a later status (`TakenBack`), and the
indexer's writes (`SetByEvent`). The effects of a transition are enqueued after its commit.

The modules meet in shared rows rather than in one product: each has, as actions,
what the others do to the rows it is about (`ConfirmPayment` and `SettleInvoice`
in `InvestmentFunding`, `Settle` in `PaymentVerification`, `SaveConfirmed` in
`Settlement` and `SecondaryMarket`, the escrow events in `Settlement` and
`InvoiceLifecycle`), with the guard of the full handler weakened to what concerns those
rows. Two are composed outright: the indexer with its projections, and the lifecycle
with the dispatcher it feeds.

### Pure parts

What has no VARIABLES is given as operators: functions of rows, or the set of states
one step may lead to, from which `BoundedRuns` makes the runs up to a length. Facts
about them are named assumptions (`ASSUME`) of the module that instantiates them, and
TLC evaluates each of them over every input in the stated range before it explores the
run.

| Module | Code | Evaluated with |
|---|---|---|
| `WalletLogin`, `KycReviews`, `RequestGuards`, `UserAccounts` | challenges, tokens and login; open verifications and late decisions; middleware, its order and its counters; administration of users and its audit trail | `MCInvestmentFunding` |
| `WorkerBatches` | what the maturity, settlement, reconciliation and confirmation workers take up per tick, and what they leave | `MCPaymentVerification` |
| `Schema`, `Migrations`, `Entities` | all 60 migrations, up and down, as changes of a set of schema objects, with TypeORM's runner; the tables, columns and enum values the 69 entities use | `MCPaymentVerification` |
| `SettlementMath`, `ContractCalls`, `FeeSchedules` | division of the proceeds and decimals; calls of the contracts with polling, queue and the pause flag; the fee schedule and its copy in Redis | `MCSettlement` |
| `PagedLists`, `NotificationInbox`, `Scores`, `DailySnapshots`, `SubscriptionStatus` | cursors of the lists; inbox; reputation and risk; daily snapshots; subscriptions of creator keys | `MCSecondaryMarket` |
| `ExpiryWarnings`, `Caches`, `EventViews` | expiry notices; caches of the process and of Redis; views of other contracts' events | `MCInvoiceLifecycle` |
| `ReadModels` | pages and sums over the projections | `MCOnchainProjections` |

A pure module sits with the run of the component it is nearest to; it does not take
part in that run's behaviours.

## The runs

| Run | Question | Instance |
|---|---|---|
| `funding` | Do two entry points, retries, confirmations, the maturity job and a settlement keep one invoice consistent, and do they implement `FundingLedger`? | 3 fractional requests (two of one slot) of 1, 1 and 2, 2 others of 1 and of more than a half (stored as 1), net 3, 2 attempts |
| `funding_edits` | What still holds next to the handlers that save stale entities? | 2 fractional of 1 and 2, 2 others of more and of less than a half unit (stored as 1 and 0), 1 upload, 1 event, net 2 |
| `funding_overwrite` | Does over-funding stay impossible next to an upload? **No.** | 2 fractional, 1 upload, net 2 |
| `payments` | Is a payment credited once, claimed, matched, and every call answered? | 2 requests, the worker, a draft, an event; 2 investments, 2 payments, one of which matches both, and the event's own hash; 2 attempts |
| `payments_race` | Does a confirmed investment keep its payment? **No.** | 2 requests |
| `settlement` | Are investors paid once, for what they hold, is the record what was paid, and is `PayoutLedger` implemented? | 2 callers of the seller, a stranger, both jobs, an administrator, a verification and an event that confirm what they loaded, both kinds of settling events; holdings 1, 1 and a row a buyer may get, up to 2; all 4 deployments |
| `settlement_event` | Does each status change leave a history row? **No.** | one administrator, the indexer |
| `settlement_automated` | Do the jobs settle what is due in every deployment? **No.** | both jobs, a distributor |
| `market` | Can a seller offer more than they hold, a listing lose more units than it offered, a share appear or vanish unaccounted for? | 2 users with 2 units and 1; listings of 2 and of a half (stored as 1) by one, of 1 by the other; any quantity, whole or not; a cancellation, a verification and an event that save what they loaded, expiry, a settlement |
| `projections` | Through failed polls and crashes: is an event ever skipped, are the rows of all handlers what the chain says, one for a key, is each event delivered, in order? | 18 events of all kinds in 6 ledgers, pages of 3, 2 faults |
| `indexer_fallback` | Is an event whose processing failed retried, without a checkpoint row? **No.** | the same, without a stored checkpoint |
| `lifecycle` | Is each change of status recorded but for stale edits and the indexer's writes, and is every event of a transition told once or dead-lettered? | 2 invoices; an edit, a seller's and an administrator's operation, or events of the indexer in their place; concurrency 1, 2 attempts, 2 faults, 1 change of the KYC status |

### Bounds

* *Amounts and net amount.* Every interesting case is one of: fits with room left,
  fills exactly, does not fit. Net 3 with requests of 1 and 2 has all of them, in an
  order that depends on the interleaving, and requests that together exceed it by far.
  The rounded amount of the fifth request may be added last, and fills the invoice
  without closing it, or before others. In `funding_edits` one is stored as zero.
* *Attempts.* 2 instead of 3: one retry and one exhaustion. The code's number appears
  only in a comparison; the proofs have any.
* *Actors.* Each race in the list of hazards is between two actors; the runs have one
  of every kind, and two of those that race among themselves over a commitment, a
  payment or a payout. The proofs have any number that the module's assumption admits.
* *Payments.* Two, one of which matches two investments and one of which matches one:
  a claim can be contested, and an investment can be paid twice.
* *Listings.* Two of one seller that do not fit together into the holding, one of
  which is itself rounded, and one of a buyer, who may list what was bought; a
  cancellation of the first spans any number of purchases.
* *Half units.* A purchase of half a unit leaves a listing as it is and can be
  repeated for good; `MaxHalves` lets it happen once, from the first listing.
* *Holdings.* `MaxHolding` is more than anyone has at first, so that a purchase
  can be undone by a save of the earlier amount.
* *Events.* A page ends within a ledger, a ledger spans two pages, a ledger is
  empty; two events share a row's key, two write over one row, and a vote changes.
  One event was processed before the run starts (`Known`). Two faults let a replay
  itself be cut off; `MaxFaults` counts failed polls, failed handlers and crashes.
* *Notifications.* One slot and three events per invoice: the queue is contended, and
  a retry meets the queue behind it. `MaxFaults` counts failed deliveries and crashes;
  `MaxReviews` the changes of the seller's KYC status.
* *Versions and retries* are bounded by the number of actors, each of which is
  done after one answer; apart from the bounds named above nothing in the
  configurations cuts a behaviour short.
* *Pure parts.* Ranges are stated in the assumption: sets of up to six rows, runs of
  up to the length the fact needs. `Migrations` and `Entities` are complete, not an
  instance.
* No symmetry is used: five of the seven passing runs check liveness.
* Deadlock is not checked where an instance is over when every request is answered
  (funding, payments, market, lifecycle). It is checked in `settlement` and
  `projections`, where jobs and polls go on.

### Fairness

Weak fairness, and only of what the server does by itself once asked:

* a request being served goes on (`Serve(r)`), because the row lock it may wait for is
  released by every transaction;
* a verification in progress goes on or its fetch fails (`Advance(r) \/
  FetchFails(r)`), because each fetch has a timeout;
* the two settlement jobs run again and again (`Settle(c)` for the system's callers);
* the indexer goes on (`Progress`): its timer fires again after each poll, its awaits
  return, and faults are finite in number;
* the dispatcher's `EventLoop` turns: `setImmediate` and timers fire, deliveries
  return, and the effects of a committed transition are run.

`EventDelivery` has weak fairness of `Deliver`, which the indexer has to establish
(`ImplementsDelivery`). Nothing is assumed of users, of crashes, of time, or of an
outside service's success.

## What disagrees

1. **`uploadDocument` writes old columns back** (`funding_overwrite`). It loads the
   invoice, waits for IPFS and saves the entity. A commitment made meanwhile has its
   `funded_amount` and version reset, so the invoice accepts more than its net
   amount. `funding_edits` shows what still holds: `createInvestment`, which sums the
   rows, does not add to the excess.
2. **`verifyPayment` reads without a lock** (`payments_race`). Two verifications with
   different payments both see the investment pending; the second replaces the first
   payment, which remains claimed and counts for nothing.
3. **The indexer sets SETTLED past the state machine** (`settlement_event`): no
   history row, investments left CONFIRMED, and the administrator's record refused.
4. **With a distributor the jobs cannot settle** (`settlement_automated`): the first
   of the two wallet checks lacks the exemption for system actors.
5. **Without a checkpoint row a failed event is not retried** (`indexer_fallback`).
   `docs/INDEXER.md:27` says that it is, on the next poll; `getLastIndexedLedger` falls
   back to the newest row of the event log, processed or not (`:523`), so a
   restart before the first checkpoint is saved passes over it.

The following have no run of their own that fails: a property that passes names what
the code does instead.

6. **A failed event holds up the later ones.** `docs/INDEXER.md:136` says that it goes to
   a dead letter queue and that the events after it are processed. There is no such
   queue: the poll ends at the failed event and the next one begins with it, as lines
   27 and 119 of the same document have it. `NothingSkipped` and `ImplementsDelivery`,
   delivery in order, hold because of that. (A failed *handler* of a projection is
   logged and passed over.)
7. **A replayed event can add a row.** `docs/INDEXER.md:111-112` and
   `onchain-projection-repositories.ts:33-35` say that it cannot. It does not where a table
   has a key of the chain; but the log of ACL changes
   (`onchain-projection-repositories.ts:113-123`) gets another row, and a key
   configuration another version. `RowsExact` says how many: no more than one for each failure.
8. **Not every change of status is recorded.** `invoice-state-machine.ts:29-32` says so of
   all. An edit that loaded a draft saves it over what the invoice has become
   (`invoice.service.ts:612`), which takes it from PUBLISHED or PENDING back to DRAFT,
   and the indexer writes PUBLISHED, FUNDED and SETTLED by itself
   (`event-indexer.service.ts:375-417`). `ChangesRecorded` names both, and shows that there is
   no third way; `settlement_event` shows the write of SETTLED.
9. **A filled invoice may stay PUBLISHED.** `investment.service.ts:790` has "Transition
   invoice to FUNDED if fully subscribed". The total that decides (`:797`) is not rounded,
   the one that is stored (`:795`) is: 0.00006 on top of 99.9999 of 100 is stored
   as 100.0000, and the invoice stays PUBLISHED for good, for nothing fits any more and the
   maturity job leaves it to the funding flow (`invoice-maturity.worker.ts:276`). An amount
   below 0.00005 is an investment of zero. `FundedWhenFilled` has the first as its exception.
10. **A listing can be paid for beyond its quantity.** `secondary-market.service.ts:464` has
   "Over-purchase beyond listing quantity rejected with 409", which compares with what is left as
   it is stored (`:495`): of a listing of 0.0001, 0.00005 at a time is paid for without
   end, and below the half of a unit of any. `SoldWithinListing` is about the units that are
   lost; what is paid for and takes nothing is `paid[l].half`, and what ends below a half.

### Observations

Facts about the code, evaluated as assumptions or visible in a model, that no line of
the repository contradicts outright or whose intent is not stated.

* *Settlement.* The fee is rounded down twice, in units of 0.0001 and by the
  distributor client in stroops; when they differ the client refuses after the intent
  was claimed, which then stays SUBMITTING. `AcceptedExactly` says when. A settled
  investment becomes CONFIRMED again by a late verification or event, and the sale or the
  purchase of an investment that was loaded before is undone by its save. A
  `payment_recorded` event settles the invoice by itself; every caller that
  would settle its investors is refused from then on.
* *Market.* Half a unit bought from 3.0000 leaves the seller 3.0000 and gives the buyer
  0.0001 (`:536`, `:552-554`, `:564`). The save of a confirmation puts back the
  amount it loaded (`event-indexer.service.ts:419-427`, `verify-payment.service.ts:235-248`),
  sold in the meantime or not. A listing whose rest is rounded to zero stays
  ACTIVE, with nothing to buy.
* *Payments.* Who names the transaction of the escrow event that confirmed an investment is
  told `already_verified`; no payment is claimed.
* *Lifecycle.* A transition is recorded also when its save finds the status written by
  another call, so the history may have two entries for one change (`FoundDone`).
* *Contracts.* A payout whose polling times out is an error although it may have been
  paid. A retried submission may be refused although the first one settled. The row the
  confirmation worker completes never finishes the administrator's settlement, and an
  expired one stays PENDING_CONFIRMATION.
* *Fees.* Invalidations that overtake each other leave an old schedule in the copy; two
  updates at a time leave two active ones.
* *Workers.* A full batch of invoices that can never be settled starves the rest.
* *Projections.* Two of the cursors skip or repeat rows of one time. The breakdown of royalties is
  truncated at its page bound.
* *Lists.* A cursor by creation time carries milliseconds of a time kept in
  microseconds: the rows left of that millisecond are skipped, or shown again.
* *Event views.* A replayed bid or rating counts again; an older tier is taken back; a
  redelivered rebalance proposal is pending for good; an execution marks the newest
  proposal rather than its own; a late bid may exceed the recorded winner.
* *Login.* A challenge's expiry is checked when it is read, not when it is consumed,
  and a failed verification burns it. A token keeps its role and KYC status behind
  `authenticateJWT`.
* *KYC.* The open verification is checked, then inserted, so two may be open; a late
  decision restores the documents the entity was loaded with.
* *Administration.* Concurrent saves of one user undo each other without a row in the
  audit trail; two administrators can remove each other.
* *Caches.* Copies in a process outlive the write of another process, and its
  invalidation in Redis. A refused wallet
  uses up the places of its address in the rate limit.
* *Scores.* An issuer's reputation is never stored (its query does not select
  `updatedAt`); settling on time can lower a score; the suitability check lets pass when
  it fails.
* *Snapshots.* A day is missing after an outage of more than seven days or four failed
  attempts; a confirmation that comes late is in no day's volume.
* *Inbox.* The list ignores its cursor. The count sees only what is addressed to the
  user's id, and only that can be marked read one by one: an item of the wallet, or an
  event, is listed and answers 404.
* *Subscriptions.* An unreadable balance and minimum count as subscribed, an unreadable
  ledger as not expired; a status read across an event stays cached, and the service
  is not on the bus. A renewed subscription is not warned about again.
* *Migrations.* On an empty database the runner refuses the first migration by
  timestamp. Begun with `InitialSchema`, as `docs/DB_WORKFLOW.md:3-5` has it, it stops
  at `AddInvestmentPaymentVerification`. Four are always refused there (that one,
  `AddUserKycVerifiedFlag`, `AddSorobanIndexerCheckpoint`,
  `CreateCreatorKeysAndRatingsLeaderboard`). Every other one can be reverted and run
  again, though three reverts drop or keep what `InitialSchema` made, and
  `InitialSchema` itself is not replayable over its own types.
* *Entities.* No migration makes seven of the tables the entities use, nor
  `invoices.title`, `seller_wallet`, `face_value`, `funding_target`, `yield_bps`,
  `funding_deadline`, `ipfs_document_url`, `soroban_indexer_checkpoints.checkpoint_key`,
  seven columns of `creator_keys`, the KYC status `expired` and seven types of
  notification; `README.md:174` has migrations as the way to the schema.

## What is proved

Every safety property that the passing runs check, for every value of the constants,
from the named assumption of each module (disjoint sets of actors, finite sets where
something is counted) and, for the indexer and its projections, the
hypotheses named below.

**`InvestmentFundingProofs`**: `NoOverfunding`, `FundedAmountAgrees`, `FundedWhenFull`,
`RefinesLedger`, `CommittedWhileOpen`, `OnePerSlot`, `ConflictsHaveCause`, `TypeCorrect`,
and of `SpecWithEdits` `RecomputationSafe` and `TypeCorrectWithEdits`. None of the
invariants is inductive. `CommitFractional` decides FUNDED and the new sum from
the entity it read (`seen`), not from the row, so one has to know that a matching
version means a matching `funded_amount`: `SeenIsCurrent`, which in turn holds because no
version is reused while the invoice is PUBLISHED. `CreateInvestment` sums only pending
and confirmed rows, so one has to know that none is settled before the invoice is
(`NoneSettledEarly`), and a commitment adds to the sum only if its request has no row
yet (`NotYetCommitted`). `FundingInv` is the conjunction of these with the type invariant
and the three; it is preserved with one step per action, most of them by one of
three lemmas: the row and the commitments are untouched (`RowUntouched`), one
commitment that fits is added (`CommitStep`), the invoice is closed (`CloseStep`).
Totals rest on lemmas about the cardinality of the units and on what rounding does to an amount
(`AmountType`): what is stored fits where what was asked for did, so neither
`NeverOverfunded` nor the sum suffers from it; only `FundedWhenFilled`, the invariant of
`FundedWhenFull`, has to except the invoice that was filled by a rounded amount. The refinement maps
each commitment to `Accept`, `MarkUnderfunded` and `SettleInvoice` to `Close`, and the
rest to stuttering; `CommittedWhileOpen` and `OnePerSlot` then follow from the steps of
the ledger alone. That a conflict has its cause counts commits: each failed attempt of a
request that is being served has a commit of somebody else to itself, and so has the one
in progress as soon as the row it read is out of date (`ContentionInv`); a failed attempt
turns the latter into the former. Next to the handlers that save stale entities none
of these survives but the types, and the bound on what `createInvestment` adds, which
needs only those: it sums the rows under the lock.

**`PaymentVerificationProofs`**: `CreditsClaimed`, `CreditedOnce`, `PaidWhenConfirmed`,
`SuccessClaimed`, `RefusalsJustified`, `TypeCorrect`. A credit is backed by a claim because (`PaymentInv`) a call
has matched its payment before it claims and holds the claim before it
credits (`Earned`), a hash once seen with an investment is claimed by it
(`SeenClaimed`), and a claim is never moved. The last fact is what lets every other
actor's part of the invariant survive a commit (`ActorStands`), so each action needs an
argument about its own actor only. `SuccessClaimed` has its exception for the escrow event's hash
from there too: no call matches it, so none gets beyond its first answer with it, and an
investment that was CONFIRMED does not become PENDING. `RefusalsJustified` follows the rows instead: what a
writer saw of them stays true because a row keeps its investment, a claim is not given
up and no investment returns to PENDING (`Kept`), and a row that has a hash belongs to an
investment that is no longer pending (`RowsPaid`).

**`SettlementProofs`**: `PaidOnce`, `IntentTruthful`, `PaidForHoldings`, `RecordedAsPaid`,
`SettledForGood`, `RefinesLedger`, `TypeCorrect`. `RecordedAsPaid` says that only who was paid is
SETTLED after a completed settlement, and that who was paid is SETTLED or was confirmed again.
`SettlementInv` adds that only one caller submits
(`OneSubmitter`), that it does so under an intent in SUBMITTING with nothing paid before
(`SubmitterHoldsIntent`), that the one payout is of the intent's snapshot
(`PaidForIntent`), that holdings stand still once there is an intent,
but for those a save has rewritten (`HoldingsFrozen`, `RewrittenSinceSnapshot`), and that nothing is settled while the invoice is FUNDED
(`NoneSettledEarly`). Steps that leave intent and payouts alone go through `QuietStep`.
The refinement of `PayoutLedger` rests on that invariant: `Distribute` is its `Pay`, of
the snapshot, which is what the investments hold because holdings stand still; a holding that
a save has rewritten since is mapped to that of the snapshot, as what was paid for; the
save itself is `Reconfirm`;
`Finalize` of a payout is `Complete`, which settles exactly the investments of the
payout; a purchase is `Trade`, and nothing is paid when it happens because the
statuses of the intent that let it pass come before a payout, or after the
settlement (`IntentTellsTheTruth`, `NoneSettledEarly`). The administrator's record, the indexer's two
and a call without a distributor are `Close`. `SettledForGood`, which the run does not
check by itself, says of the rows alone that nothing is settled after the invoice is.

**`SecondaryMarketProofs`**: `SellersWithinHoldings`, `SalesWithinListing`,
`SharesAreAccounted`, `NoticeIsTrue`, `TypeCorrect`. Everything rests on what a purchase does
to a holding: the loop over the seller's two investments, rounded at each, takes together what
the listing loses (`LessTwo`, `TakenFromSeller`), and the buyer gains that, or one unit more
(`MoveHoldings`). A seller's active offers are a
sum over listings; two lemmas (`OfferShrinks`, `OfferLess`) say how it changes when one
listing does, and each action is one of the two. That the loop does not run out of
investments needs that what is left of the listing is within the seller's holding
(`BoughtIsHeld`), which is that sum again, of a seller whose holding no save has made
smaller. What a listing lost and what the seller is told rest on `SalesInv`; the latter
(`NoticeMeansSoldOut`) is in no run.

**`OnchainProjectionsProofs`**: `NoEventIsSkipped`, `StatusIsOfTheChain`,
`DeliversInOrder`, `LatestNeverGoesBack`, `RowsAreExact`, `TallyCounts`, `TypeCorrect`. `IdxInv` says
where a poll is relative to the log (types, the log's rows, the bounds of the page, the
event at work). `OrderInv` adds that no unprocessed event lies before the checkpoint,
the fetched page or the one applied; it needs the hypotheses `Checkpointed` and
`Known > 0`, since without a stored checkpoint the fallback may pass an event over, which is
disagreement 5. What the invoice's status is after a prefix of the chain is defined
by its newest event, found by the least-number principle. `DeliversInOrder` is
the safety part of `ImplementsDelivery`. The rows need to know which writes of which
handler are done (`RowsInv`), that what a handler has done is a first part of its writes
(`Begun`), that each entry an event has made in a log has a failure of its own, but for the last one
once its handler is through (`AppendInv`, `Credit`), and that a replayed handler finds its own
row or a newer one (`LatestInv`). `TallyCounts` says when the tally may lag behind the votes: only
while the event of a vote is open, and not between its second write and its end
(`VoteInv`). It needs one more hypothesis, `VotesFollowProposal`: the repository stores a
vote of which it knows no proposal, and a proposal that is recorded later starts from a
tally of zero, so that the count is right only because the contract, which is not
part of the repository, accepts votes on a proposal. `MCOnchainProjections` has TLC
evaluate the hypothesis on the instance.

**`InvoiceLifecycleProofs`**: `ChangesAreRecorded`, `ToldForCause`, `JobsAreAccounted`,
`TypeCorrect`. `JobsInv` partitions the pending jobs into queued, running and
retrying, which the pump keeps (`PumpFacts`); `LifeInv` says that a call under way has all
the invoices of its operation as it checked them, those of an edit as drafts, so that an
edit can only write DRAFT, and a transition only the status it records; `CommitFacts`
and `FundFacts` say what a save does to status and history. `CauseInv`, that an event is owed,
pending or told only after its transition.

**`SettlementMathProofs`**: `NothingOverpaid` (the floors of the proceeds never exceed
them, and leave less than one unit per investor), `AcceptedExactly` (the distributor
client accepts a settlement exactly when the division left something over or the fee is
whole at four decimals but for a stroop), `DecimalsRoundTrip`. Sums are over a function, by a least
counterexample in place of induction.

**`DataProofs`** is about pure parts. `NextPageIsTheRest`, `NewRowsDoNotDisturb`: a keyset
cursor over a total order returns what is left, and rows inserted ahead of it do not
matter. For two others the steps, which the run of their component explores up to a
length, are made up into a specification there, for any number of processes and without
a bound. `OneTokenPerChallenge`: the conditional update of a challenge has one winner, which
has not been issued a token before it concludes (`LoginInv`). `NoOldSchedule`: with one
administrator the newest schedule is the active one, and the version key refuses
whoever read an older one, except while the invalidation is to come (`FeeInv`). That
invalidations are not lost and that there is one administrator are its hypotheses;
`LostInvalidation` and `TwoAdministrators` show both are needed.

Only model-checked:

* liveness: `EveryRequestAnswered`, `EveryCallAnswered`, `DirectlySettled`,
  `EveryEventTold`, and the liveness of `ImplementsDelivery`. Fairness and ENABLED are out
  of the prover's reach;
* the pure parts other than `SettlementMath`, `ReadModels`' keyset, `WalletLogin` and
  `FeeSchedules`: what they compute is evaluated over the stated ranges. Induction over
  data is out of the prover's reach.

## Not modelled

* Within the modelled parts: authorisation, accreditation and suitability in front of
  an investment (their refusal is `Refuse`; the checks themselves are in
  `RequestGuards` and `Scores`), the arguments built for the contracts, the wording of
  notices, signatures, the contents of tokens, sessions, the documents of a KYC
  verification and its history, types and defaults of columns, the circuit breaker
  (nothing uses it).
* Due-date extensions and refunds: not constructed by the bootstrap. The statuses they
  would write do not occur in the models.
* Automatic investment: it calls `createInvestment`, which is modelled.
* Drafts, watchlists, portfolios, leaderboards, onboarding, waitlist, programmes, invoice
  lists: edits of one row by its owner, or queries.
* Governance and insurance records: queries behind a cache.
* Webhooks, e-mail and document storage clients: one outgoing call each; what happens
  while a handler waits for one is modelled where it matters (`LoadForUpload`).
* Routes and bootstrap: wiring.

## Plan

1. *Done*: funding, payments, settlement, market, indexer with projections, lifecycle
   with dispatcher, their proofs; the pure parts.
2. *Done*: a theorem for each safety property; an abstract settlement (paid at most once,
   then recorded) that `Settlement` implements.
3. Theorems about more of the pure parts: the caches of the process and of Redis, the
   subscriptions, the pause guard.
4. Due-date extensions and refunds next to the maturity job, once they are wired.
5. Retries of webhooks; the sums of the portfolio and the dashboards.
