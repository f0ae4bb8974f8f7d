# Flower SaaS in TLA+

Specifications, model checks and proofs for the multi-tenant commerce platform
in `src/`: what its concurrent parts promise, what they rely on, and which
interleavings, crashes and lost messages they survive.

Check a run with `tlc -config <cfg> <module>`, a proof module with
`tlapm <module>.tla`. `PROJECT.json` lists the runs with their properties, the
theorems, the source lines behind every definition, the hazards of the code and,
for every property, a mutation of a definition that the property detects. Such a
mutation stands in the module in front of the definition it mutates, marked
`Defect:`.

## 1. The system

TypeScript monorepo, PostgreSQL and Redis underneath. A tenant has companies, a
company has branches; row-level security keeps tenants apart. `modules/` below is
`apps/api/src/modules/`.

| part | state it keeps | operations | interacts with | modelled in |
|---|---|---|---|---|
| outbox (`common/audit/outbox.writer.ts`, `apps/worker/src/outbox`) | table `outbox`, counter `outbox_tenant_seq`, advisory locks | enqueue, number, publish, back off | every mutation of the API enqueues in its own transaction; Redis streams | `Outbox`, `EventLog` |
| relay, retention (`apps/worker/src/realtime-relay`, `stream-retention`) | the consumer group of each tenant's stream, its pending list | claim, read, publish, acknowledge, trim | streams in, Pub/Sub channels out | `Relay` |
| gateway (`apps/realtime`) | connections per tenant and session, subscriptions, recent ids, replays in progress | connect, resume, refresh a token, deliver, disconnect | channels and streams, WebSocket clients | `Gateway` |
| realtime client (`packages/realtime-client`) | persisted cursor, versions per resource | connect, resume, resync, refetch | gateway, REST API | `Gateway` |
| idempotency (`common/idempotency`) | claims keyed by tenant, scope, principal and key | acquire, take over, mark done, release, sweep | every mutating endpoint | `Idempotency` |
| payments (`modules/payments`) | attempts, payments, allocations, inbox of provider events | direct payment, two-phase initiation, webhook, recovery loop | invoices, receivables, provider | `Payments` |
| receivables (`modules/receivables`) | customer accounts, receivables, advances, refunds, opening balances | receive, convert, apply, refund, open | payments, orders, accounting | `Receivables`, `CustomerLedger` |
| settlements (`modules/settlements`) | batches, lines, matches | draft, match, review, finalize, reconcile | payments, invoices, accounting | `Settlements`, `History` |
| orders, invoices (`modules/orders`) | orders with a version, invoices, credit notes, numbering counters | draft, hold, issue, cancel, charge | sales, receivables, accounting | `Sales`, `Totals`, `History` |
| sales (`modules/sales`) | the plan and journals of a sale | complete a sale in one transaction | orders, payments, accounting | `Sales` |
| accounting (`modules/accounting`) | journals, periods | post, close | all that move money | `Sales` |
| customers (`modules/customers`) | credit configuration | configure | sales | `Sales` |
| catalog (`modules/catalog`) | products, groups, variants, codes | restructure, activate, archive | prices, orders | `Catalog` |
| prices and units (`modules/catalog`, `packages/uom`) | units, conversions, packs, price sets, overrides | register, replace, override | catalog, orders | `Pricing` |
| arithmetic (`packages/money`, `orders/tax-arithmetic.ts`, ...) | none | discounts, shares, taxes, totals | orders | `Totals` |
| reporting (`modules/reporting`) | none | five financial reports, each with checks that refuse it | all tables of money | `Reports`, `History` |
| identity, access, platform, localization, organisation, secrets, jobs, shared packages, web applications, infrastructure | — | — | — | not modelled, section 7 |

What is hard here, and what makes each part correct:

- **Outbox.** Several dispatchers, crashes inside a transaction whose effect on
  Redis is not undone, lost replies. Correct: numbers are gapless and final, the
  stream carries the committed number, every committed row is dispatched.
- **Relay.** Slow and dead relays share a pending list. Correct: no entry is
  forgotten.
- **Gateway and client.** Live messages, replays in chunks, subscriptions on
  their way and scope changes interleave. Correct: no gap at the hand-over, no
  event outside the scope, every resume answered.
- **Idempotency.** A stale claim is taken over while its owner may still run.
  Correct: one execution counts, a stored answer is the winner's.
- **Payments.** A provider with its own will, late replies, redelivered and
  reordered webhooks, other draws on the invoice. Correct: no unit promised or
  collected twice, a released attempt cannot be charged, a capture surfaces.
- **Receivables.** Three sources for one balance, written by a dozen handlers;
  money goes round in advances. Correct: they agree, nothing is spent twice,
  every unit leads back to a payment.
- **Settlements.** Row locks taken one by one by six kinds of transactions.
  Correct: no payment settled twice, an invoice is `SETTLED` exactly when everything
  that covers it is final; only a receipt and a finalization, which rank invoices
  differently, can deadlock.
- **Orders and sales.** Optimistic versions against row locks; numbers, journals
  and credit drawn inside transactions that wait or roll back. Correct: numbers
  have no gaps, the ledger says what the documents say, credit stays in its
  limit, nobody overwrites what they have not seen.
- **Accounting.** Posting against the close of a period, midnight. Correct: the
  journal of a closed period never changes.
- **Catalog, prices and units.** No foreign key says what belongs together; row
  locks do. Correct: no code dangles, variants stay complete, a price keeps the
  base unit it was agreed under.
- **Arithmetic and reports.** Correct: shares and taxes add up exactly, a
  cancellation takes back all of a sale, no report is ever refused, and all five
  tell one story.

## 2. Modules

| module | extends | is | its runs |
|---|---|---|---|
| `EventLog` | — | abstract: a numbered log and a stream of copies | (`outbox`) |
| `Outbox`, `MCOutbox` | — | dispatcher processes, table, Redis | `outbox` |
| `Relay` | — | consumer group of one stream | `relay` |
| `Gateway`, `MCGateway` | `Relay` | gateway and clients over the relay | `gateway_safety`, `gateway_live` |
| `Idempotency`, `MCIdempotency` | — | the requests under one key | `idempotency` |
| `Payments`, `MCPayments` | — | the attempts on one invoice | `payments` |
| `CustomerLedger` | — | abstract: three heaps of money | (`receivables`) |
| `Receivables`, `MCReceivables` | — | the account of one customer | `receivables` |
| `Settlements`, `MCSettlements` | — | transactions lock by lock | `settlements` |
| `Sales`, `MCSales` | — | orders, sales, credit, journals, periods | `sales` |
| `Catalog`, `MCCatalog` | — | one product | `catalog` |
| `Pricing`, `MCPricing` | — | units and prices of one variant | `pricing` |
| `Totals` | — | the arithmetic of a document | (`reports`) |
| `History` | `Totals` | financial operations on whole tables | (`reports`) |
| `Reports`, `MCReports` | `History` | five reports and their checks | `reports` |

Proofs are in `EventProofs` (outbox, relay and gateway), `PaymentsProofs` (which
also has the idempotency store), `ReceivablesProofs`, `SettlementsProofs`,
`SalesProofs`, `CatalogProofs` (which also has units and prices) and
`ReportsProofs` (the arithmetic of an order, and what is left of a cancelled sale), each of which extends what it is
about; `SumTheorems` holds the lemmas about sums that four of them use. The
specifications of `Outbox`, `Idempotency` and `Pricing` and their variables have
names of their own (`OutboxSpec`, `streams`, `StoreSpec`, `place`, `PricingSpec`,
`replacing`, ...), so that one module can extend `Outbox` and `Gateway`, one
`Idempotency` and `Payments`, and one `Pricing` and `Catalog`.

`Payments`, `Receivables`, `Settlements`, `Sales` and `History` look at the same
tables from different sides. `Payments` has the provider and the attempts and
takes the rest of the invoice as four amounts; `Receivables` has the whole
account and takes each operation as one step; `Settlements` and `Sales` take
their transactions apart, lock by lock; `History` has whole documents with lines
and taxes, all journals and both branches, and again one step per operation.

Of the safety properties that the runs check, `NoReportRefuses` and `ReportsAgree` of
`Reports` are the only ones without a theorem; section 5 says why. Still open are the components of
section 7.

## 3. Modules and code

A PostgreSQL transaction is one action when it locks all rows it depends on
before it reads them. Where it does not, or where the order of locks matters, it
is several: one per lock or per read, and one for the commit.

### Outbox, EventLog

One row of table `outbox` is an element of `Rows`, ordered as `(createdAt, id)`.
A dispatcher process is a worker with a place `pc` in its tick:

| actions | code |
|---|---|
| `Enqueue` | `OutboxWriter.enqueue`, at the commit of its transaction |
| `StartTick` | `discoverUnstampedTenants` |
| `AllocBegin`, `AllocNotLeader`, `Stamp`, `AllocCommit`, `AllocRollback` | `allocateTenantSeq`: lock and select; one number per step; commit or rollback |
| `StartPublish`, `PickTenant`, `PublishBegin`, `PublishBreak` | `discoverPublishableTenants`, the loop over tenants and rows |
| `SendXadd`, `ApplyXadd` | `redis.xadd`, split in sending and effect |
| `PublishCommit`, `PublishFail`, `BackoffExpires`, `EndTick` | the two outcomes of `publishNextForTenant`, the end of the tick |
| `Crash` | the process or its publish transaction dies, locks are freed |

A rollback undoes the table and not Redis: a command in `net` may be applied
after its sender gave up on it, which is how one row gets two entries.

`EventLog` is what readers may rely on: a numbered log per tenant that only grows,
a stream whose entries carry log positions, and settlement only after a copy. It
promises no order of the stream. `Outbox!ImplementsEventLog` maps the table, its
counter and the stream to it: the log of a tenant is its committed rows in the
order of their numbers.

### Relay

One tenant's stream with its group `relay`. An entry id is its position.
`Claim` is XAUTOCLAIM (an entry that was trimmed is deleted from the pending
list), `Read` XREADGROUP `>`, `Publish` and `Ack` the two commands per entry,
`RelayCrash` the loss of what a relay held in memory, `Trim` the retention tick,
`GrowIdle` the passing of `minIdleMs`, also for an entry that a slow relay still
holds. `AppendEntry` stands for the dispatcher and may append one event again.

### Gateway

One gateway process and one tenant, over `Relay`. A connection is used once; a
client takes a fresh one when it reconnects. `Connect`, `SubscribeDone` and
`SessionDone` are the three stretches of `register()` and its caller between
awaits; `ToRedis` is the subscriber connection's queue. `Hear` is `deliverLive`.
A resume is `ReadBounds` (the request reaches Redis), `ResumeBounds` (its answer
is used: resync, or a replay up to the tail), `ReplayChunk` with `Finish`, or
`ReplayFails`. `Reauthorize` changes the scope in between, `Disconnect` ends the
connection. `Receive`, `SendResume` and `Refetched` are the client.

### Idempotency

The requests under one key, that is one (tenant, scope, principal, key), and the
row they compete for. Keys do not interact, so one is enough.

| actions | code |
|---|---|
| `Insert`, `Find`, `Reclaim` | the statements of `acquire`: delete if expired and insert; read; take over the claim that was read |
| `InProgress`, `DeadlinePasses` | the waiting loop of `resolve` |
| `HandlerReturns`, `HandlerThrows`, `HandlerThrowsLate` | the handler; the last one throws after a first transaction has committed, as the payment initiation does |
| `Store`, `StoreFails` | `onSuccess`, `markDone`; the response may be one that is not kept |
| `Release`, `ReleaseFails` | `catchError`, `release` |
| `LeaseGoesStale`, `RowExpires` | the clock against `lockedAt` and `expiresAt` |
| `Sweep`, `Crash` | `sweepExpired`; the process |

The statements of `acquire` are one transaction without row locks in between, so
other requests run between them. `now()` is the begin of the transaction: what
has just expired may still be seen as valid, and the actions allow both. A
request claims at most once, so its name stands for its claim token, and a
stored response is the name of the request that computed it. `lapsed` remembers
whose lease has ever run out.

### Payments

One issued invoice. Amounts are in minor units. An attempt is named by the
idempotency key it was created under.

| actions | code |
|---|---|
| `Discover`, `LookUp`, `Reserve` | recovery lookup, second lookup, the locked part of phase 1 |
| `CallProvider`, `CallFails` | `createIntent`; its reply arrives, or is lost with or without effect |
| `ApplyInitiation` | phase 2 |
| `CrashCaller` | the process dies or a transaction rolls back |
| `PayDirectly`, `Receive`, `ApplyAdvance`, `CancelOrder` | the other writers of the balance, each one transaction |
| `DeliverWebhook` | the insert into the inbox |
| `PeekEvent`, `ProcessEvent`, `ProcessFails` | `processVerifiedInboxEventInTx`: the unlocked peek, the locked part, a rollback; run by the webhook request or by the recovery loop. `handling` counts, row by row, the transactions that have peeked |
| `ProviderMoves` | the provider (external) |

Every writer holds the invoice row `FOR UPDATE` from before it reads the balance
to its commit, so the locked part is one action. Events that do not correlate
with an attempt (scope, credential, reference, unknown target) are the
non-genuine ones of `Strays`, all refused alike. An order is represented by
whether it was cancelled after the attempt was made (`fresh`, `Bound`).

The provider is external, modelled from the contract stated in
`payment-provider.port.ts`: one intent per attempt, calls with the same identity
find it, states follow the transition graph, each state is reported by an event
that may come late, repeatedly and out of order.

### Receivables, CustomerLedger

The account of one customer at one branch. Facts are append-only rows; the
projections on the account row, the invoice's status, the journal and the
customer's statement are written along with them and have to agree with them; of the
statement's three balances the third does not (section 6), and `BooksAgree` says by
how much.

| actions | code |
|---|---|
| `IssueInvoice`, `ChargeCancellation`, `OpenReceivable`, `OpenAdvance` | `createReceivableForInvoice`, `issueCancellationCharge`, the two opening balances |
| `FindCandidates`, `Collect` | the unlocked search for open receivables, and the locked receipt that covers them oldest first |
| `PayInvoice` | a payment of one invoice |
| `ConvertToAdvance`, `ApplyAdvance` | what is left of a payment as an advance; an advance on a receivable |
| `CancelInvoice` | the credit note, which turns every source of the coverage into a new advance |
| `LocalRefund`, `ReserveRefund`, `RefundResult` | refunds by hand, and in two phases through the provider |
| `Settle` | a source becomes final |

`CustomerLedger` is the account as money: what is owed, what was received and is
in no use, what is held for the customer. It can be billed, taken in, set aside,
offset, undone and paid out, and no heap gets negative.

### Settlements

Transactions occupy a slot and take their row locks one by one, in the order of
`payment-target-lock.repository.ts`, then read, then commit. `Draft` edits a
batch under its only lock. `Start` begins a finalization, a capture, a receipt,
an application or a conversion of an advance, a refund, a cancellation, or the
reconciliation of what is older than settlements; `Step` takes the next lock,
reads or commits. Receipts lock invoices by the age of their receivables (`AgeOf`),
everybody else by their ids (`IdOf`). Transactions that wait in a circle stay there
until PostgreSQL ends one of them (`Abort`, a rollback). Order rows are left out; they
are locked first by everybody.

### Sales

Users look at rows (`Look`) and act on what they have seen with its version.

| actions | code |
|---|---|
| `Create`, `Edit`, `Hold`, `Resume`, `CancelDraft` | drafts, each a single compare-and-set under the order's lock |
| `ConfigureCredit` | `configureCredit` |
| `StartSale`, `CancelInvoiced` | the transaction that locks the order: a sale with any plan that splits the total into tenders, advances and credit, or a cancellation with or without a charge |
| `LockAccount`, `Allocate`, `Post`, `Commit`, `Rollback` | its steps: account and credit check, one document number, one journal in a period it shares from then on, the end |
| `NextDay`, `ClosePeriod` | midnight between two steps; the period's row lock against those that share it |

A transaction's `todo` is the list of steps it still has, in the order of the
code (`AnonymousSteps`, `CustomerSteps`, `ChargeSteps`). Journals are kept as
what they come to by day and account. Any failed validation is a `Rollback`; a
period that does not exist behaves as one that is closed.

### Catalog

One product: `ProductStep` (create, change the strategy, activate, archive,
remove), `GroupStep` (create a group, replace its values, remove it),
`VariantStep` and `CodeStep`. Creating, editing and activating a variant rely on
rows they have not locked, so each is two steps, and the second meets the
indexes and foreign keys of the database. All other operations lock what they
read. A combination is a function from groups to values. The base unit is only
whether there is one; packs are in `Pricing`.

### Pricing

The units and prices of one variant. `UnitStep`, `VariantChange` and
`ReplaceProductConversions` change units, base unit, packs and conversions under
one lock. Replacing the company's prices or a branch's overrides is a transaction
of several steps, `ReplaceStep`: `BeginReplace`, `ValidateOverride`,
`ClaimCompany` or `ClaimBranch` with the version the caller saw, `CheckOverrides`,
`CommitReplace` or `AbandonReplace`. A set of prices carries the base unit it was agreed
under and whether its writer saw the company's set, as history. Locks on company
and branch rows are omitted: they guard columns that nothing modelled changes.

### Totals, History, Reports

`Totals` is arithmetic without state: discounts of lines and of the document and
their shares, taxes by line or by document in both price modes and five rounding
modes, the credit note's lines. The code's bases of 10 000 are constants.

`History` has thirteen tables, and posts every kind of journal that the code posts
for these modules. An operation is a function from databases to
databases put together from the writes of the code in their order, and an action
applies it: `SaveDraft`, `DiscardDraft`, `CompleteSale`, `CaptureByProvider`,
`Receive`, `OpenBalance`, `ConvertToAdvance`, `UseAdvance`, `CancelInvoice`,
`RefundLocally`, `ReserveRefund`, `RefundResult`, `SettleBatch`, `NextDay`.

`SettleBatch` is the finalization of a batch with its journal: the net into the
bank, the fee into `PAYMENT_PROCESSING_FEE`, the gross out of `PAYMENT_CLEARING`,
dated by the provider. `Promote` makes a paid invoice `SETTLED` when all that covers
it is final, at the end of a finalization and of every `Recompute`; a provider's
refund waits for the settlement of its payment. The draft, match and review of a
batch, and its races, are in `Settlements`. The tender totals leave settlements out
by intent (`tender-totals-report.ts:28`), so `ReportsAgree` compares the movements
of the three tender accounts with the tenders *and* the settlements of the period,
and the fee account with what the batches kept.

`Reports` defines trial balance, sales, tender totals, receivables and customer
liabilities as functions of the tables, for the company, a branch or a customer,
with every check that makes the code refuse a report. Gates of 100 000 rows,
currencies and the wire format are left out; a digest is what it is taken of.

## 4. Runs

All twelve runs pass.

| run | distinct states | what it shows |
|---|---|---|
| `outbox` | 221 000 | committed numbers are gapless, the outbox implements `EventLog`, every committed row is dispatched |
| `relay` | 143 000 | no entry is forgotten, every entry that is not trimmed is published |
| `gateway_safety` | 1 790 000 | a replay is complete, the hand-over leaves no gap, no event leaves the scope |
| `gateway_live` | 86 000 | every resume is answered, a listener is told |
| `idempotency` | 61 000 | one execution counts, stored answers are final, waits end |
| `payments` | 538 000 | with twins under one key and two processors: one payment per capture, a released attempt cannot be charged, nothing is promised twice, a refusal has a cause, captures surface |
| `receivables` | 433 000 | facts, projections and ledger agree, and the statement with them up to conversions, every unit leads back to a payment, the oldest debt is paid first, the account implements `CustomerLedger` |
| `settlements` | 1 810 000 | no payment is settled beyond its amount, `PAID` and `SETTLED` say exactly what is final, only the two orders of invoices clash in a deadlock, what is finalized was reviewed |
| `sales` | 1 280 000 | `Gapless`, `BooksAgree`, `CreditIsAuthorized`, `ActsOnWhatWasSeen`, `ClosedPeriodIsFrozen` |
| `pricing` | 1 840 000 | no code dangles, prices keep their base unit, nobody replaces prices not seen |
| `catalog` | 305 000 | variants are complete, what is on sale is ready |
| `reports` | 40 700 | no report is refused, five reports agree, with each other and with what settlements moved, a cancellation undoes its sale, totals are exact |

### Bounds

- `outbox`: two workers give every race for the two locks; two rows, a batch of
  more than one and an overtaking; one failure per row and one crash. Tenants
  share nothing but a worker's place; theorems cover any number of them.
- `relay`: two relays, three entries of one event (a duplicate included), one
  crash, one slow relay, one trim: a reclaim by the other relay, and by the same.
- Gateway: two connections of one client (a reconnection), two entries with
  `ChunkSize = 1`, so that a replay has a gap between chunks; capacity 1 or 2 of
  the recent ids, so that forgetting happens; one trim, one fault, one refresh.
- `idempotency`: a request, its retry, and another request that reuses the key;
  it is also the third claimant that an owner which has lost its claim could let
  in. Two faults: an execution that dies, and one that cannot store its response.
- `payments`: two keys, the first with twins (c1 and c2 run one request, at once or
  one after the other), two executions in all, so that either the twins race or two
  attempts do; two processors, on one inbox row or on two; one fault, which is a
  crash, a lost reply, a rollback or a stray event. Everything that draws on the
  invoice wants its one unit. Larger amounts and more of everything are left to the
  theorems, which hold for any number.
- `receivables`: two invoices, a charge and an opening balance, amounts up to 2,
  two payments of which one is the provider's, two advances: enough to cover a
  receivable in part from two sources and to send released money round again.
- `settlements`: two transactions at a time (a deadlock of two), two batches that
  share the provider's payment, a cash receipt, an inherited cash payment, two
  invoices that `AgeOf` orders against `IdOf`, so that a receipt and a finalization do
  deadlock, and go on or not after the `Abort` of either.
- `sales`: two users, two orders, one customer whose limit is one order and then
  withdrawn, two days of which the first may close.
- `pricing`: a built-in unit, a custom one in another family, one branch, two
  replacements in flight, versions up to 2.
- `catalog`: two groups of two values, two variants, two codes, two operations in
  flight, all symmetric.
- `reports`: rates in tenths and quantities in halves; one sold draft of three
  lines with a document discount; 3 700 more drafts under every tax policy, some of
  them free of charge, which are computed and then discarded; one invoice with a note
  and a charge, two payments, two advances, a refund of each kind, one settlement of
  one or both payments, of one unit or of all that is left of each, with a fee of 0 or 1,
  captures of two units or of all that is open, six journals, two days, two branches,
  two customers of whom one buys.

`payments`, `idempotency`, `receivables`, `settlements`, `sales`, `pricing`,
`catalog` and `reports` disable TLC's deadlock check: the bounds end, a paid
invoice has nothing left to do, a fully archived product neither. Waits for row locks
are the subject of `OnlyTheTwoOrdersClash`. The other runs check it.

### Fairness

- Outbox: workers go on (the loop re-arms its timer in `finally`), Redis applies
  the command a worker waits for (otherwise the transaction times out, which is
  `Crash`), a backoff ends. Not fair: domain transactions and failures.
- Relay, gateway: loops re-arm, Redis answers, frames arrive, a client reads what
  it is sent, a pending entry nobody works on becomes idle. Not fair: trims,
  crashes, disconnections, faults.
- Payments: the provider delivers its events, and the recovery loop of a running
  API (`WebhookRecoveryProcessor.start`) takes up rows as long as there are any.
  Not fair: callers, provider decisions, customers. The fault budget is finite,
  so a row whose transaction fails for ever is outside `CapturesSurface`.
- Idempotency: the store answers, a handler ends (it returns or throws), and a
  deadline comes (`Date.now()`). Not fair: the clock against leases and expiry,
  the sweep, faults.

The other runs check safety only.

## 5. Proofs

The theorems hold for every value of the constants that meets the module's
assumption (`OutboxAssumption`, `RelayAssumption`, `GatewayAssumption`,
`PaymentsAssumption`, `IdempotencyAssumption`, `ReceivablesAssumption`,
`SettlementsAssumption`, `PricingAssumption`, `CatalogAssumption`,
`SalesAssumption`, `TotalsAssumption`, `HistoryAssumption`), which TLC evaluates in
every run of the module.

### Outbox

- `OutboxTypeCorrect`: `OutboxSpec => [](OutboxTypeOK /\ \A w : WorkerOK(w))`. Types
  alone are not inductive: which lock, row and uncommitted numbers a worker has
  follows from its place in the tick, and `WorkerOK` says so. Lemma `PlacedStep` has
  one step per action.
- `NumberingHolds`: `OutboxSpec => []Numbering`. `Numbering` speaks of committed
  numbers only; while an allocation is open the counter has already moved, in a
  transaction that may roll back. `AllocationOK` says what an open allocation
  has: the rows it drew for are unstamped, its numbers follow the committed ones
  without a gap. `AllocationsApart`: two open allocations are of different
  tenants, because both hold their tenant's lock. From these `NumberStep`.
- `OutboxImplementsLog`: `OutboxSpec => ImplementsEventLog`, the refinement. Every
  action is a `Submit`, `Number`, `Copy` or `Settle` of `EventLog` or a stutter;
  only `AllocCommit` moves the log, and by a whole batch. That the batch is
  appended in the order of creation needs `BatchOK` (an open allocation has
  stamped a prefix of its rows); that a copy carries the right position needs
  `SentOK` (a command on its way bears the committed number of its row, however
  late it comes); that a settled row is in the stream needs `PublishedOK`. The
  three with the invariant of `Numbering` are `RInv`. The log as a sequence is
  the inverse of the numbering, so that the refinement rests on `Numbering`.

### Relay and gateway

Every safety property that a run of the two modules checks, for any number of
relays, clients, sessions and connections, any batch, chunk and cache size and
any bounds:

- `RelayForgetsNothing`: `NothingForgotten`. `RelayInv` adds what a relay between its
  two commands knows (`HolderOK`): what it is about to acknowledge is the head of
  its batch and in the channel, whoever claimed the entry meanwhile.
- `GatewayTypeCorrect`. Types are not inductive alone: that a request of a resume
  has a cursor, then bounds within the stream, needs `Handshake`, which says how
  far a connection has got (acknowledged once, one resume at most per
  acknowledgement, no replay while a request is open).
- `StrandedHolds`: `NobodyIsStranded`, which no run checks. `Registration` says what
  the queue of the subscriber connection may look like: commands that leave an
  earlier channel, then at most one SUBSCRIBE, made for the set there is, then
  commands of sessions. That no set empties while its SUBSCRIBE is on its way
  rests on `FirstOK`: a session that is already in place has its first connection
  still waiting, and that one is a member. Sets of sessions are told apart by the
  connection they were created for (`SetFor`, `Unnamed`).
- `AuthorizedHolds`: `OnlyAuthorizedFrames`, from `GatewayInv` (`Shape`,
  `Registry`, `Handshake`, `Registration`) and a case split over everything that
  pushes frames (`StepWithin`).
- `ReplayHolds` and `HandoffHolds`: `ReplayIsComplete` and `HandoffLeavesNoGap`.
  `Coverage` says what is true in the middle of a replay: the client was told, or
  is being sent, all that the replay is past (`ReplayOK`), an event counted as
  done was told, what this process remembers as heard it heard (`RecentOK`), and
  what a connection heard for the first time waits in its buffer or was told
  (`HandoffOK`). A duplicate of an event that was heard before the connection
  listened is neither: it is the replay's to deliver, or, when that one fails, the
  next one's. An event told stays told,
  because a client's frames only leave its wire into `known`.

`FirstOf`, by which both modules take the oldest entries, is a `CHOOSE` over ranks
(`RankGrows`, `RankOnto`, `FirstOfFacts`).

### Payments

Every safety property of `Payments` that a run checks, for any number of keys,
executions and inbox processors, any amounts and any bounds:

- `PaymentsTypeCorrect`, `CoverageHolds`, `PromiseHolds`, `OnePaymentHolds`,
  `HeldHolds`: `TypeOK`, `NeverOvercovered`, `NeverPromisedTwice`,
  `OnePaymentPerCapture` and `HeldWhileChargeable`, from one inductive invariant
  `IInv`. None of them is inductive alone. That a credit note is not negative
  needs the coverage; that a reservation adds exactly its amount needs that an
  unused key has no payment; `Shape` says what an execution, the provider, the
  inbox and an attempt know of each other (an answer in flight that is a refusal
  means that the intent is refused, an event in the inbox reports a state the
  intent has been in), without which a late answer could release an attempt
  whose intent is still open.
- `RegressionNever` and `VerdictHolds`: the action properties
  `AttemptsNeverRegress` and `VerdictIsFinal`, from `IInv` and a case split of a
  step into the ones that touch money (`MoneyCases`) or verdicts
  (`VerdictCases`).
- `RefusalHolds`: `RefusalHasACause`. `CauseInv` adds that a cancelled order
  leaves nothing outstanding, so that every attempt was reserved at the order's
  first version; the demand of a capture is then exactly what was promised
  (`DemandPromised`).

Sums over attempts are cardinalities of sets of minor units, so the argument
about sums (`UnitsAdd`, `UnitsMonotonic`) rests on the library's theorems about
finite sets.

### Idempotency

Every safety property of `Idempotency`, for any number of requests, any
fingerprints and any number of faults:

- `OwnershipHolds`: `StoreSpec => []StoreIInv`. `OnceUnlessExcused` compares executions and
  says nothing of the row that keeps them apart; `LiveOK` does: a request in or past
  its handler owns the row, unless its lease has lapsed or it ended with an error.
  `RowOK` and `PlaceOK` say that whatever replaces a row (a claim, a takeover, a
  sweep) only replaces one whose owner has lapsed. One lemma per action.
- `IdempotencyTypeCorrect`, `OnceHolds` (two executions that count would own one
  row) and `GenuineHolds` (a request is only answered by an execution of the same
  request) follow; `FinalHolds` is the action property `StoredAnswerIsFinal`.

### Receivables

Every property of the run `receivables`, for any number of receivables, payments,
advances and refund attempts, of any amounts:

- `InvHolds`: `Spec => []Inv`. `NothingOverspent`, `BooksAgree` and `MoneyIsTraced`
  need each other and more. `Links`: rows refer to what exists, what does not exist
  has none, and the receivables that a receipt found are the oldest ones.
  `Closed`: a cancelled invoice owes nothing, and only a cancelled one has a credit
  note. `Solvent`: `NothingOverspent` over fixed sets, so that an operation whose
  guard looks at one balance cannot overdraw another. `Books`: `BooksAgree` over
  fixed sets. `Traced`: payment by payment, what credit notes turned into advances
  is what covered the cancelled invoices, directly or through an advance.
- How it is preserved: lemmas say once what an operation of a shape does to the
  figures of a state (a payment with its shares, a drawing on an advance, a batch
  of new advances), and each action is shown to be of a shape. A credit note is
  the hard one: its advances are a sequence made of the set of sources, and the
  amounts of one payment on it are summed over advances, over sources, and over
  payments and advances at once, which are renamings of one another.
- `TypeCorrect` and `NothingIsOverspent` follow. `BooksAlwaysAgree` takes one more
  invariant: the statement's lines of payments add up to what was received and not
  given to receivables (`LinesAgree`), whatever is converted.
  `MoneyIsAlwaysTraced` follows from `Traced`: what has been received and is on no
  advance covers a receivable that stands or one that was undone, and what was
  undone is on advances again.
- `ReceiptsPayOldestFirst`: `OldestFirst`. `Fifo` gives a receivable what the older
  candidates leave of the amount (`Ahead`), and one that gets anything is behind
  candidates that are all filled. `Collect` pays candidates that may have been paid
  in part or cancelled since they were found.
- `AccountImplementsLedger`: `ImplementsLedger`, the refinement of `CustomerLedger`.
  Each action but `FindCandidates`, `ReserveRefund`, `Settle` and a failed refund is
  a step of the ledger; that the ledger allows it, that no heap is overdrawn,
  is `Solvent` with `Books`: the control accounts are sums of what is not negative.

### Settlements

Every property of the run `settlements`, for any number of transactions, batches,
lines, invoices, payments and advances, of any amounts:

- `InvHolds`: `Spec => []IInv`. Besides the types and the two invariants of the run,
  `IInv` has `RowsOK` (nothing leads to a payment that does not exist, no invoice is
  covered beyond its total), `Exclusive` (no row is locked twice), `PaysOnce` and
  `TxsOK`: what an open transaction of each kind relies on. It claims the rows it
  will change, and what it has read of the rows it holds is still so when it commits.
  For a finalization (`FinalizeOK`) this includes that the batch is as it was
  reviewed, and that it knows every invoice its payments reach, although it looked
  for them before it locked them.
- How it is preserved: `Frame(H)` says what a transaction that holds the rows `H`
  may do to the others, and `TxStays` that what another transaction relies on
  survives a frame of rows it does not hold. Each commit is shown to be a frame of
  the rows it holds, and to leave the books right (`Books`: `RowsOK` with the two
  invariants). A finalization is the hard one: what its lines settle of a payment
  is summed over batches, and which invoices it promotes follows from the verdict
  it reached under the locks. The reconciliation reads an invoice before it has
  its lock; what was covered by final sources stays so (`ReconcileOK`).
- `TypeCorrect`, `NothingIsOversettled` (`NeverOversettled`) and
  `PromotionIsAlwaysExact` (`PromotionIsExact`) follow. TLC does not check `TypeOK`
  here: the type of what a transaction has decided is too large to evaluate.
- `ReviewsAreKept`: the action property `FinalizedAsReviewed`. The request has a
  version and nothing else; that a batch of that version is the one reviewed is part
  of `FinalizeOK`.
- `OnlyTheTwoOrdersDeadlock`: `OnlyTheTwoOrdersClash`, whatever the ages and the ids
  are: every circle of waiting transactions has a receipt in it that waits for an
  invoice with a lower id than one it holds, and a finalization that waits for an
  older one. `OrdersOK`: an open transaction wants its rows in ascending order, by kind
  and then by its own rank of invoices (`RankOf`), and all above those it holds; all
  but receipts and finalizations claim one invoice at most. So a transaction climbs by
  either rank (`ClimbsUnlessBack`), except for a receipt that goes back by id and a
  finalization that goes back by age. Where all transactions of a circle climb by one
  rank, whoever waits for the highest row would wait for one that waits for a higher
  row still (`NoCircle`): by ids the circle needs such a receipt, by ages such a
  finalization.

### Prices and units

Every property of the run `pricing`, for any number of replacements in flight,
branches, units, conversions and versions:

- `Core` has the shapes, what an open replacement has seen, and the locks: who is
  past the claim of a set holds it alone and knows it as it is. From it
  `PricingTypeCorrect` and `NoLostEdit` (`ReplacesWhatWasSeen`). `PricingTypeOK`
  bounds the versions, and that is inductive only because a replacement which saw the
  last version never begins.
- `UnitCodesHold` (`EveryCodeIsRegistered`) adds that a replacement about to commit
  holds the locks of its units, `BaseHolds` (`BaseIsFrozen`) that its base unit is
  still the variant's.
- `OverridesHold`: `OverridesArePriced`, which no run checks. Whatever a branch
  overrides the company prices, if the branch found the company's set when it
  began; `PricedInv` says that it then shares the set's lock to its end.

### Catalog

For any number of groups, values, variants, codes and operations in flight, from
one invariant `IInv` that says what the first step of an operation has read and
what is still true of it at the second:

- `CatalogTypeCorrect`, `CompleteHolds` (`VariantsAreComplete`): an operation that
  writes a combination holds the product, so the set of groups it saw is the set
  there is, and values it refers to are kept by the foreign key.
- `OnSaleHolds` (`OnSaleIsReady`): an activation relies on a product it has not
  locked. What it read stays true: a product never returns to draft, its strategy
  only changes while it is one, and a variant keeps its base unit.
- `CodesHold` and `PrintedHolds`: `CodesResolve` and `PrintedCodesPersist`, which
  no run checks: each code is a variant's, one SKU in use per variant by the
  variant's lock alone; a code of a variant beyond its draft is never deleted.

### Sales

Every property of the run `sales`, for any number of users, orders, customers,
days, totals and credit terms:

- `IInv` has seven parts. `TypeOK`; `Locks`: the locks of open transactions are
  disjoint; `Seen`: a row that a user has looked at is the row, or has a smaller
  version; `OrdersOK`: which documents an order of a status has; `WorkOK`: how
  far a transaction has got; `CreditOK`: the credit it was authorized
  for still stands, as the account is held; `SharesOK`: a period somebody shares is open.
  How far it has got is said by the set of steps that are `Left` of its `todo`
  list, which is ordered by `Rank`; the lemmas `Todo...` say what one step, or
  the concatenation of two lists, does to that set, so no invariant speaks of
  positions in sequences.
- `SalesTypeCorrect`, `ClosedHolds` (`ClosedPeriodIsFrozen`), `CreditHolds`
  (`CreditIsAuthorized`) and `ActsHolds` (`ActsOnWhatWasSeen`).
- `GaplessHolds`: `Gapless`, as `Exactly`: every number below the counter is some
  document's, and no two have the same. A commit appends because `WorkOK` says
  that a number drawn is the counter's next, whose row is held from the allocation
  to the commit.
- `BooksHold`: `BooksAgree`. While a transaction is open its journals are its own,
  and half entered. `BalancedOK`: what it has `Entered` in an account and what is
  `Due`, the lines of the journals it has left, come to the `Effect` its commit has
  on the documents. `Agree` sums the effects of committed orders: one order, and
  one account, changes at a commit.

### Arithmetic of an order

`OrdersAreExact`: `TotalsAreExact` for any number of lines, any prices, quantities,
discounts and rates, and every tax policy. Of the drafts it assumes what the
schemas of the requests let through (`Requests`, `TaxPolicies`), which
`HistoryAssumption` states. The inductive invariant `Counter` is small: an order on
the counter is one that was saved (`OrderOK`: no discount exceeds what it is taken
off). The argument is in the functions, and none of it needs induction over lines:

- Units that are left over go to the lines whose rank, the number of lines before
  them, is below the number of units. `BeforeOrders` shows that the code's comparison
  of fractions of different denominators orders the lines strictly, ties by position,
  and `FirstRanks` that then exactly that many lines are served.
- Who has nothing left over ranks behind all who have, and fewer units are left than
  there are lines with something left over. Hence no share exceeds its line and
  none is a whole unit from its exact part (`AllocateFacts`).
- The exact tax of a document is a sum of fractions, which is between the sum of
  their floors and that sum plus one for each line (`ExactSumBetween`, by induction on
  the sets of lines that have been added up). Rounded in any of the five modes it
  leaves at least 0 and at most one unit per line (`DocumentTaxFits`): the "invariant
  violated" errors of `reconcileDocumentTax` cannot be thrown.
- `TotalsFacts`: the checks of `issueFinalInvoice` accept the totals, and a credit
  note over all lines comes to the same total and the same tax.

For an order whose lines are all free the bound on shares would read 0 < 0, so
`FairShares` states it where there is something to pay; the run has such drafts.

### Cancelled sales

`SalesAreUndone`: `CancellationUndoesSale` in every history, for any customers,
drafts, amounts, fees and days, and any number of rows. The property speaks of one
moment, but it has to survive all that comes after the cancellation: nothing may be
paid, drawn or credited on that invoice again. The inductive invariant is `Good`,
which TLC has checked on the instance of the run `reports` too:

- `Sound`: the tables are sequences and their amounts integers (`Shaped`, `RowsOK`).
  An invoice of a customer has one receivable, of its total, and one journal
  (`Opened`). A note is the only one of its invoice, repeats its totals, leaves
  nothing of the receivable outstanding, and has one journal (`Credited`).
- `Closed`: an invoice with a note no longer stands. Payments of an invoice, its
  cancellation and a capture by the provider all ask for a standing one; receipts
  and advances ask for something outstanding, of which `Credited` leaves nothing. A
  settlement promotes only paid invoices, which still stand.
- An operation only adds rows and changes the status of invoices. `Grows` says which
  rows it may add, and `GrowsSound` that what is sound stays so; `Kept` is the part
  of it that an operation of several writes needs of each.
- Tenders of a sale, shares of a receipt and advances of a credit note are folds
  over sequences. A fold is described by a function of sets of positions
  (`Writes`), which exists by induction on their size (`WritesExist`); what every
  write keeps the whole fold keeps (`WritesKeep`, by `SubsetInduct`).
- That the two journals cancel out to the unit is arithmetic: `TotalsFacts` for the
  totals, `CancelsOut` for the lines.

`HistoryAssumption` says what the argument needs of the constants: `None` is no
number, and the fee is a rate or there is none.
The receivables of a receipt are taken in order by `Ascending`, which says by rank
what the library's sort says by a search over sequences.

### Lemmas about sums

`SumTheorems` has what such arguments need of sums over finite sets
(`SumFunctionOnSet`): a sum is an integer, changes by the change of one summand,
is additive, and is that over a subset when the rest is zero; it is monotonic,
splits, can be renamed, and over pairs may be taken in either order. The folds of the
library are recursive functions, and the library's induction theorems take an
operator, which no prover here can instantiate. Instead, a set of numbers with 0
and closed under successor is `Nat` (`Induct`, by the least number outside it);
hence each set of subsets of a finite set has a minimal one (`MinimalSubset`), and
a set of subsets that has each subset all of whose proper subsets it has is the
whole powerset (`SubsetInduct`). The argument is of first order throughout.

### What is only model-checked

- Liveness (`EventuallyDispatched`, `EventuallyPublished`, `ResumeIsAnswered`,
  `ListenerIsTold`, `WaitsEnd`, `CapturesSurface`): liveness under fairness and
  `ENABLED` are outside the prover's reach.
- `NoReportRefuses` and `ReportsAgree` of `Reports`. Each check of a report compares
  sums over several tables, by branch, customer and day, with sums over the lines of
  journals; a proof would need an invariant for each kind of row, as `Opened` and
  `Credited` are for two of them, and for each report a lemma that rearranges its
  sums. This has not been attempted.

## 6. Where the code departs from what it says

Disagreements with a comment, a document or a test. No run claims what fails here;
where a definition states it, it is named.

- **Order of the stream.** A later row reaches the stream before one that backs
  off, against `dispatcher.ts:50` and `publisher.ts:49`. Readers that order by
  `seq` are not affected.
- **Reconnection.** `transport.ts:212` persists the cursor of every live frame,
  also before its resume has been answered; events in between are skipped, against
  `ADR-0017.md:324`. `ResumeMissesNothing` of `Gateway` does not hold.
- **Order binding.** `order-binding.ts:12` says that its check never rejects; an
  invoiced order can be cancelled under a running attempt
  (`order.repository.ts:1176`). The money is not lost (`CapturesSurface`): the
  capture ends as an exception for the operator.
- **Statement.** In `customer-account-read.repository.ts`, around line 780, the
  effect on the unapplied money ignores conversions of a payment into an advance,
  so after one the statement differs from the summary, which a test without
  conversions expects to be equal (`order.controller.integration.test.ts:6768`).
  `BooksAgree` of `Receivables` says that the difference is exactly what was
  converted.
- **Reconciliation.** `historical-settlement-reconciliation.repository.ts:130`
  reads an invoice without a lock and updates it by id. A cancellation committed
  in between is overwritten by `SETTLED`: `TerminalIsFinal` of `Settlements` does
  not hold. Its caller is a script for operators.
- **Lock order.** `payment-target-lock.repository.ts` speaks of the one cycle that
  existed. There is another: receipts lock invoices by age
  (`customer-receipt-collection.repository.ts:196`), finalizations by id
  (`settlement-finalization.repository.ts:128`), and the two orders can differ, since
  `createdAt` is when the transaction began and the id is drawn when the row is
  inserted. The run `settlements` orders its invoices so and reaches the deadlock;
  PostgreSQL aborts one of the two, which writes nothing and is not retried.
  `OnlyTheTwoOrdersClash` says that it is the only one.
- **Locks of the catalogue.** Against the "LOCKING REVIEW" of
  `identifier.repository.ts:130`: deleting a product, whose cascade locks variants
  and groups, can deadlock with editing a variant and with removing a group, as
  can creating a variant with removing a group. PostgreSQL ends one of the two.
- **Categories.** Two re-parentings checked in parallel can close a cycle of three
  nodes, or exceed the depth, against `category.repository.ts:277`.
- **Default variant.** `option-group.remove` of the last group creates a default
  variant for a custom product, which `product.repository.ts:231` says gets none.
- **Groups and the default.** `option-group.repository.ts:143` says that the first
  group consumes the default variant. `GroupsConsumeDefault` of `Catalog` is
  violated in seven states.
- **Overrides without a price.** While a company has no set of prices, it can
  withdraw what a branch is overriding: `EveryOverrideIsPriced` of `Pricing` does
  not hold, against migration `20260912120000`, lines 18 to 21. The weaker
  `OverridesArePriced` does, and is proved.

Behaviour seen while modelling that no statement of the repository contradicts,
and that no property claims:

- `hub.ts:379`: a stream that was trimmed to nothing has no floor, so a client
  with any cursor is told it has been resumed. `hub.ts:366`: an XINFO that fails
  counts as a stream that does not exist. `hub.ts:396`: a third connection of one
  login session can be acknowledged before the SUBSCRIBE of its tenant is done;
  it misses what is published until then unless its replay covers it
  (`NobodyIsStranded`, which is proved, says that the SUBSCRIBE still comes). `hub.ts:355`:
  the cursor in `resumed` may be older than those of the live frames drained just
  before it. `hub.ts:88`, `hub.ts:417`, `app.ts:104`: reconnection of the
  subscriber, UNSUBSCRIBE against a new connection, and a close during the
  handshake, are as the model has them or left out, and no property is about them.
- `transport.ts:244`: after an error the cleared cursor is stored again by the
  next live frame. `transport.ts:234`: the refetch is not awaited.
- `publisher.ts:128`: discovery takes a LIMIT without rotation, and
  `dispatcher.ts:86`: an error in one tenant's publish ends the tick.
- `payment-attempt-reservation.repository.ts:311`: a twin of a request that is
  between its lookup and its lock is refused for the twin's own reservation.
- `webhook-recovery.repository.ts:94`: a batch full of rows that always fail
  starves later ones.
- `idempotency.interceptor.ts:180` says that a request that failed has changed
  nothing. `payment-attempt.repository.ts:220` throws after the reservation has
  committed; the retry finds its attempt by the domain's own key. `Idempotency`
  therefore counts an error among the excuses of a second execution.
- `snapshot.ts:88`: a successful response without a body is stored as JSON null,
  which `acquire` reads as a response that was not stored: the retry gets
  `IDEMPOTENCY_REPLAY_UNAVAILABLE` (`Store` allows it).
- `idempotency.repository.ts:181`: nothing calls `sweepExpired` but its service, so
  rows of keys that are never used again stay.
- Receipts and advances do not look at reservations (`RefusalHasACause` states the
  consequence). A receipt orders receivables by when they were opened, which is
  not the order of the commits.
- A local card payment is never eligible for a settlement, yet an invoice is final
  only when its payments are settled in full: such an invoice stays `PAID`. Lines
  imported from a file are not matched automatically. The answer to a provider
  refund locks the advance before the account, against the order of the others;
  nothing live calls it.
- Posting dates are taken from the clock for each journal, so a sale across
  midnight posts its receivable on another day than its invoice's date. Sharers
  of a period may starve its close. A credit note's date is the caller's.
- A company price response computes `resolvable` from units loaded before they are
  locked. Replacing a product's attributes reads their definitions without a lock.
  Deleting a draft product with attribute values, or a category or type with
  scoped definitions, ends in a foreign-key error.
- Plan limits are checked in one transaction and used in another
  (`org.service.ts:29`); `tenant.repository.ts` reads a status without a lock;
  `account.repository.ts:106` compares `updatedAt` without one; provisioning that
  dies between its commit and Redis loses the password token and a retry is told
  the slug is taken; seeding templates is not transactional (`seed.ts:272`); a
  cache of entitlements may be refilled with what is stale
  (`entitlement.service.ts:26`).

## 7. Not modelled

- Identity, sessions, access and permissions, secrets: access control is outside
  this project.
- Platform, localization, organisation, catalog reference data (categories, types,
  attributes, taxes): single transactions with optimistic versions, or reads.
- Jobs and scheduler (BullMQ), web applications, UI, i18n, configuration, lint
  rules, test helpers, infrastructure; the shared packages of types and API
  clients, which are declarations.
- SQL policies and triggers of `packages/db`; their effect appears where a module
  needs it: atomic transactions, unique indexes, foreign keys, the coverage trigger
  as the property `NeverOvercovered`.
- Within modelled parts: metrics, logging, audit rows, payload fields, names and
  notes; in `Sales` lines and taxes (they are in `Totals`), collections after the
  sale (in `Receivables`) and the finality of tenders, which is nondeterministic;
  in `Pricing` amounts, availability, price resolution and paging; in `Catalog`
  versions, attributes and the minting of QR codes; the chronology, paging and
  filters of the customer's statement; in the gateway revocation, the
  reconnection of its subscriber, and the client's reducer.

The definitions of the modules stand for about a quarter of the source lines under
`apps`, `packages` and the rest of the repository; most of what is left is of the
kinds listed here.
