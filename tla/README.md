# A TLA+ model of the CaseCellShop backend

CaseCellShop is a NestJS backend around PostgreSQL, Redis and RabbitMQ: an API that
sells phone accessories from a local mirror of an ERP's catalog, and workers that get
accepted orders invoiced by the ERP. These modules specify its transactional core: what
overlapping checkouts, catalog syncs, cache readers and billing messages may do to stock,
orders, answers and invoices.

## 1. Inventory

| component | state | operations | talks to |
|---|---|---|---|
| Checkout service, `apps/api/src/checkout` | `Inventory`, `Order`, `OrderItem`, `IdempotencyKey`, `OutboxEvent`; per call: attempt, transaction | `POST /checkout` | PostgreSQL (serializable transaction, advisory locks), products cache (invalidation) |
| Products cache, `apps/api/src/products`, `libs/cache` | Redis: product cards, query lists, two kinds of locks; `CatalogVersion` | `GET /products` (filters, sort, page), `GET /products/:id`, `invalidateAvailability` | PostgreSQL, Redis |
| Catalog sync, `apps/reconciliation-worker` | `Product`, `Inventory`, `CatalogVersion` | `POST /admin/sync/erp` | ERP, PostgreSQL |
| Order reconciliation, `apps/reconciliation-worker` | `Order.status` | `POST /admin/reconcile` | ERP, PostgreSQL |
| Outbox worker, `apps/outbox-worker` | `OutboxEvent.status`; a channel | flush on a timer | PostgreSQL, RabbitMQ |
| RabbitMQ client, `libs/queue` | three queues; one channel per process, opened once and kept for ever | publish, retry (TTL), dead letter, consume, acknowledge | RabbitMQ |
| Order worker, `apps/order-worker` | `Order.status`, `erpInvoiceId`, `IntegrationAttempt`; `consumerStarted` | start of the consumer (repeated by a heartbeat), handler of a billing message | RabbitMQ, PostgreSQL, ERP |
| Fake ERP, `apps/fake-erp` | catalog, receipts, in memory | catalog, billing, billing status, restart | |
| Database schema, `prisma/schema.prisma` | unique constraints | | |
| Observability, `libs/observability` | counters, the outcome of a call, the order id in a span's context | reports of `checkout()` | metrics, spans |
| Orders controller, HTTP envelope, logging, configuration, bootstrap, health, seeds, scripts | none of interest | | not modelled |

What is hard about it, and hard to test:

* **Checkout.** A serializable transaction has a snapshot, and the snapshot is taken by
  the very statement that *waits* for the advisory lock. A request that waited therefore
  reads the world before the commit it waited for; what saves the stock is not the lock
  but the write conflict of the conditional `UPDATE` and the unique constraints, and what
  saves the client is the retry loop, which has an end.
* **Sync.** Read-compute-overwrite of the available quantity without a lock, product by
  product, with the version bump last, any part of which may be missing; and nothing keeps
  two syncs apart.
* **Billing.** At-least-once delivery, overlapping outbox flushes, a unique row that
  doubles as duplicate protection, publications without confirmation, a handler that
  always acknowledges, a channel that is never replaced once it has died, and an ERP that
  remembers its receipts only until it is restarted.
* **Cache.** Versions read long before they are used, a populate that may land after the
  invalidation it should have preceded, locks with a time to live and no owner, and
  queries that share cards and hydration locks but not lists.
* **Reports.** Counters, the outcome label and the span's order id are set inside a
  transaction callback that may be rolled back and run again, and before its COMMIT.

`PROJECT.json` lists these hazards, each at its line, with the properties that watch it.

## 2. Modules

```
CheckoutData ── requests, stock, and the pure functions on a request
  ├── OrderDesk ── abstract: what POST /checkout promises
  └── Checkout ── the mechanism; implements OrderDesk ── MCCheckout
        ├── CheckoutProofs ── stock, keys, answers, sums
        │     └── OrderDeskProofs ── refusals, and the refinement of OrderDesk
        │           └── ContentionProofs ── lock order, deadlocks, retries
        ├── CatalogSync ── composes Checkout with overlapping syncCatalog calls ── MCCatalogSync
        │     └── CatalogSyncProofs ── the stock formula, reservations, the published mirror
        └── Telemetry ── composes Checkout with what it reports ── MCTelemetry
              └── TelemetryProofs ── outcomes, spans and counters
InvoiceDesk ── abstract: what billing promises of an order
  └── Billing ── outbox, queues, order worker, ERP, reconciliation;
        │        implements InvoiceDesk ── MCBilling
        └── BillingProofs ── invoices, receipts, retries, dead letters
              └── InvoiceDeskProofs ── the refinement of InvoiceDesk; no order is forgotten
ProductQuery ── pure: a query, its cache key, its page
  └── ProductsCache ── readers, buyers, overlapping syncs, over Redis ── MCProductsCache
        └── ProductsCacheProofs ── versions, stampedes, stale cards, lists, pages
```

### CheckoutData and Checkout

| model | code (`checkout.service.ts`) |
|---|---|
| `inv`, `active`, `priced`, `idem`, `orders`, `outbox` | the tables, committed rows only; `priced` are the products that have a `ProductPrice` |
| `snap[r]` | the snapshot of the open transaction of call `r` |
| `got[r]`, `LockId` | advisory locks held by name; `LockId` is `hashtext`, and may collide |
| `reserved[r]` | the lines whose `updateMany` has succeeded, hence their row locks |
| `attempt[r]`, `result[r]`, `pc[r]` | retries used, the answer, the await the call is at |
| `Refuse`, `Start` | guards and `validateRequest` |
| `Begin`, `AcquireLock` | the first statement (takes the snapshot), each advisory lock |
| `RejectReusedKey`, `Replay`, `RejectUnavailable`, `RejectUnpriced`, `AcceptLines` | the decisions after the locks |
| `ReserveLine`, `RejectInsufficient`, `WriteConflict` | `updateMany`: one row, no row, P2034 |
| `Commit`, `DuplicateKey` | the inserts and the commit, or the unique constraint (P2002) |
| `Respond`, `InvalidationFailure` | invalidation, then the answer |
| `DeadlockVictim`, `SerializationFailure`, `TransactionTimeout`, `Crash` | PostgreSQL, Prisma, the process |

A transaction's writes become visible together, in `Commit`; until then other calls see
them only as conflicts. Two calls that reserve one product have its advisory lock, so
they never overlap in `reserving`; a row that changed since the snapshot is a conflict.
An order is named by its request. The service contains the transaction twice, with and
without tracing; both copies are these actions, and the map names lines of both. Which
product order the client sent is kept only where `normalizeRequest` keeps it: several
lines of one product. SHA-256 is injective. `Storable` is the range of an `Int`
column, up to `MaxInt`: an order line or a total (`Total`, the sum the code makes) beyond it
makes `order.create` throw when every line is already reserved (`Overflow`), and all of it
is rolled back.

`OrderDesk` is what a client sees: a shelf, a book with one purchase per key, answers true
at the moment they are given, and errors that say nothing. It has no transactions and no
retries. `ImplementsOrderDesk` maps `shelf` to the available quantities, `book` to the
idempotency rows and `told` to the answers.

### CatalogSync

Extends `Checkout` with the calls `Syncs` of `syncCatalog`, which may overlap.
`FetchCatalog` takes whatever catalog the ERP holds at that time, so two calls may mirror
different ones, the older last. `ReadInventory` opens a product's Read Committed transaction
and remembers `reservedQty` (`seen`). `UpsertProduct` locks the product's row (`upserted`),
against other syncs and against the order items that refer to it; `WriteInventory` waits for
the inventory row until no open checkout has reserved from it (`reserved`), and is the rest
up to the commit. Products are mirrored in the order of the ERP's list (`IsNext`), which is
always the same. `DeactivateAbsent` and `BumpVersion` follow; `SyncFails` cuts a call off
anywhere.

Next to syncs the commit of a checkout has one more thing to wait for (`ItemsMayRefer`), and
so there is a cycle: the sync has the product's row and waits for the inventory row, the
checkout the other way round (`WaitForEachOther`). `BreakDeadlock` is PostgreSQL's choice of
a victim: the sync, which is not tried again, or the checkout, which is retried. `missed`
and `overlapped` are history variables: the units sold between the read and the write of a
product's last sync, and the calls that ran next to another one.

### Telemetry

Extends `Checkout` and splits the steps that report. `RecordIdempotencyDuplicate` and
`RecordCheckoutAccepted` are the end of the callback, `CommitReported` is the COMMIT after
it, and between the two a call may be rolled back (`RolledBack`) or lose its process
(`CrashReported`, which starts the counters again). `stage` is how far the open transaction
has come. A refusal for want of stock is counted (`RejectReported`), one for want of a price
is not: it throws before the report. Every other step of `Checkout` is `Silent`. Each
attempt creates an order with a new id, here the request and the number of the attempt.

What the runs show of these reports: `orders_accepted_total` counts attempts, not orders,
and may exceed them by one for each retry and each call that ended otherwise
(`CountersAreBounded`); `outcome` is never reset by a retry, so a call that is refused may
be measured as accepted (`OutcomesAreTruthful` names the cases); a span that ends well names
the right order, because the attempt that commits overwrites the id (`SpansNameTheOrder`).

### Billing

`main`, `retry` and `dlq` are bags: no prefetch limit is set, so RabbitMQ delivers all and
handlers interleave at their awaits. `jobs` counts the handlers by message and await.

* `Flush` actions are the outbox worker (two may overlap: the timer does not wait).
  `MarkFails` and `FlushFails` are its updates that throw, in the `try` and in the `catch`.
* `EnsureTopology` and `StartConsumer` are `ensureBillingConsumerStarted`, which the
  heartbeat repeats. `ReadOrder` … `PublishToRetry`, `Ack` are the handler;
  `AlreadyRecorded` is the unique constraint on `IntegrationAttempt` throwing out of the
  `catch`; `StatementFails` lets any other statement throw.
* `channel[w]` is `RabbitService.channel` of a worker. `BrokerRestart` closes the
  connections in order: what was unacknowledged goes back to the queue, the channels are
  dead and stay so (`getChannel` returns them). A flush then fails before it reads, or marks
  what it has read FAILED (`PublishFails`); a handler goes on, cannot publish its retry or
  dead letter (`FollowUpFails`, remembered in `cut`), and ends by throwing in `ack` and
  `nack`, an unhandled rejection that ends the process (`AckFails`). An idle order worker
  is worse off: `consumerStarted` stays true and nothing is ever delivered to it again.
* `WorkerCrash` and `OutboxCrash` end a process anywhere. A connection that breaks (rather
  than being closed) emits an error event without a listener, which ends the process, too.
* `ErpRestart` empties `billingByKey`; `issued` and `forgotten` remember.
* `StartReconcile`, `CheckInvoice`, `Repair` and `ReconcileFails` are `reconcileOrders`;
  `owed` is a history variable, the invoices a call has to find.

`InvoiceDesk` is billing without outbox, queues, workers and copies of messages: an order
waits, receives receipts, fails tries in their order without a gap, is billed only with a
receipt, given up only after its last try, and never waits again. `ImplementsInvoiceDesk`
maps `stage` to the status, `receipts` to what the ERP has ever made out, and `failures` to
the `IntegrationAttempt` rows.

### ProductQuery and ProductsCache

`ProductQuery` is the pure part of `listProducts`: `normalizeQuery`, the cache key
(`QueryKey`), the filters (`Matches`), the order (`OrderBy`, `Precedes`) and the page
(`Page`). A text is a value and `Normal` says what `trim` and `toLowerCase` make of it. What
filters and orders look at, the brand, the device models, the price and the relevance of a
product, is its *look*, an argument: a sync changes it.

`ProductsCache` has two calls, each for one of two lists (the whole shop, one brand) or for
a product, step by step over `cards`, `lists` and `locks`, with the time to live of each as
actions; checkouts reduced to the change of one row and the invalidation; syncs, which may
overlap (`written[c]`, `bumped`), reduced to the writes of their products, the switching off
of the rest and the version bump. Lists are stored under the key of their query, cards under
their product: two queries share cards, and the hydration lock of the cards both miss. A row
is its stock, whether it is on sale, its look, and a history component, how often a sync has
written it (`gen`). `published` is a history variable: what those numbers were when each
version was published, so that `Outdated(v, p)` says that a sync has written `p` since. With
two syncs that is all a version can mean: one may write, after the other has published.
`spoiled` is another: cards stored after their row had changed, or not deleted by a failing
Redis. (The key joins the filters as texts, and `all` stands for no filter: a request for a
brand named `all` shares the list of requests for no brand. The shop has no such brand, and
the instance no such text; the theorems that need it say so.)

## 3. Runs

| run | instance | shows |
|---|---|---|
| `checkout` | four requests: one purchase twice, its key reused, a competitor for scarce stock; 4 attempts; every fault | stock, keys, answers, what is reserved is the sum of the orders, no lock cycle, `ImplementsOrderDesk` |
| `checkout_odd` | two requests whose lock numbers collide, one of them with a total beyond the column; a duplicated line, a line of nothing, a product without a price; crash; fairness | deadlocks are broken and every call settles; an overflow leaves nothing behind (refinement) |
| `telemetry` | one purchase twice, a competitor, a customer of another product; before them a product without a price and a quantity beyond the column; 2 attempts; serialization failures, timeouts, crash, failing invalidation | bounds of the counters, truth of outcomes and spans, the inductive invariants of the proofs; each retry was caused by somebody's commit |
| `checkout_overload` | five customers, one product, the code's 4 attempts | **violated**: `NoServerError` |
| `checkout_reuse` | as `checkout`, no faults | **violated**: `ReusedKeyIsConflict` |
| `catalog_sync` | two checkouts of one product, two overlapping syncs, each of either of two catalogs, syncs cut off anywhere, fairness | the exact error of the stock formula, what a version bump guarantees, reserved units are those of the orders, syncs and checkouts end although they deadlock, `SyncInv` |
| `catalog_sync_race` | the same | **violated**: `SyncKeepsCommittedStock` |
| `billing` | one order, two flushes, 2 tries, one fault of any kind (ERP failures unbounded), two reconciliations | invoices, dead letters, no multiplied retries, what a reconciliation finds, the inductive invariants of the proofs, `ImplementsInvoiceDesk` |
| `billing_live` | one order, one flush, 3 tries, two faults (crash of either worker, broker restart, failing statements), failing ERP, no reconciliation; fairness | no order is forgotten, every order settles, and the complete list of exceptions |
| `billing_lost` | two orders, one lost publication | **violated**: `OutboxNeverLosesEvent` |
| `billing_crash` | one order, one crash of the order worker | **violated**: `FailuresAreQueued` |
| `products_cache` | two calls for one list, two lists, a list and a product or one product; two products, one buyer, two overlapping syncs that find the brands exchanged, one lock expiry, failing Redis and queries | what a version guarantees, which products a list may show, stampede bound, why a card is stale, the inductive invariants of the proofs |

Bounds and why they are enough. Three requests under one key and one competitor contain
every pair the code distinguishes (same key and payload, same key, shared product,
disjoint); the stock is short by one for the second buyer. The number of attempts is the
code's 4 where exhaustion matters. `telemetry` has `MaxAttempts` = 2, a first attempt and a
retry; it needs the customer of another product, because only with a commit nobody waits for
can an attempt that has already reported still fail to serialize. Its two requests that are
turned away come first (`TurnedAway`, `Explored`): they touch no row of the others, and only
the counters remember them. The proofs do not depend on any of these bounds. `MaxInt` = 9
stands for 2^31 - 1: prices and quantities are chosen just below and above it. Two `Syncs`
lets one overlap the other or read what it left behind. One catalog restocks the product
both customers want and lists the other one as paused, the other catalog is empty: syncs of
different catalogs mix, products are switched off both ways, and one on again. One of its
two customers is enough for the cycle with a sync; `MaxAttempts` = 1, for a retry begins
like a first call. In `billing` two flushes publish one event twice, and `MaxTries` = 2, a
first try and a last one; `MaxFaults` = 1 allows one crash, restart or failing statement at
any step, and since orders share nothing but the queues and the channels, one order
suffices. `MaxRuns` = 2 reconciliations, next to everything else, of which one finds what
the other has sent. `billing_live` has a try between the first and the last and two faults,
so that a worker can fail on what another fault has left; its one flush publishes twice
after a crash or a failed mark. `MaxExpiries` and `MaxVersion` are 1 and 3: one lock that
expires while held, one version change for each sync. The two calls of `products_cache` are
those that meet somewhere (`Pairs`): in the lock of one list, in the cards and hydration
locks of two lists, in the card of a product. Checkouts, syncs and expiring locks are all
explored, but are combined (`Explored`) only where they meet: a checkout and a sync for the
card of the product bought, two syncs for that card and for the brand's list, an expiring
lock and one sync for the brand's list, whose two calls are rivals for both kinds of lock.
The states at the cut are checked too, and the theorems need none of this. Deadlock is
checked for the checkouts, where `AllFinished` is the only place to stop, with syncs and
reports as well. Billing and the cache may come to rest, so it is not.

Symmetry is used in `checkout_overload` (interchangeable customers), in `telemetry` (the two
copies of one purchase), in `billing` (flushes) and in `products_cache` (calls, syncs),
never together with liveness.

## 4. Fairness

`Checkout!FairSpec`: weak fairness of `Proceed(r)`, per call. A received call is a chain of
promises: each is settled by PostgreSQL, which grants a free lock, detects cycles, and
releases locks when transactions end. No fairness makes clients send or faults occur.
`SyncFairSpec` adds the statements of each sync, PostgreSQL's breaking of a deadlock among
them, not its start and not its failures; a checkout's step is one that finds the product
rows it refers to free. `EveryCallSettles` and `SyncsAndCheckoutsEnd` say that again and
again nothing is in flight: as no call and no sync comes a second time, each one that has
come then has ended. `Billing!FairSpec`: flushes and the start of the consumer (timers
repeat both), deliveries, expirations of the retry queue and the handler's steps. A process
that ended is taken to be started again, for which its operators are responsible
(`docker-compose.yml` does not). `BillOrderFails` is one of the handler's ways to go on, so
an ERP that never recovers is a fair behaviour. Nothing forces a fault, a recovery of a dead
channel, or a reconciliation: `EveryOrderSettles` therefore excepts a worker with a dead
channel (`Stalled`), a FAILED event, and a try whose follow-up was cut off (`cut`).

## 5. What is proved

For every value of the constants: all requests, keys, products, stocks, lock numbers and
catalogs, any number of syncs, orders and flushes, of attempts, tries and faults, of cache
calls, buyers, looks and expiring locks.

| module | theorem | what holds |
|---|---|---|
| `CheckoutProofs` | `Invariance` | `IInv` |
| | `TypeCorrect`, `StockSafe`, `IdempotencySafe`, `AnswersTrue` | `TypeOK`, `StockConserved`, `OneOrderPerKey`, `TruthfulAnswers` |
| | `ReservationsAdd` | `ReservedMatchesOrders` |
| `OrderDeskProofs` | `DeskInvariance` | `DeskInv` |
| | `SoldOutTrue`, `RepetitionsServed` | `SoldOutIsTrue`, `RepetitionsAreNotRefused` |
| | `Refinement` | `ImplementsOrderDesk` |
| `ContentionProofs` | `LocksOrdered`, `LockInvariance` | `LocksInOrder`, `LockInv` |
| | `NoDeadlock`, `RetriesEarned` | `NoLockCycle`, `RetriesNeedCommits`, if `HashSeparates` |
| | `ProofInvariance` | `Checkout!ProofInvariants`, the conjunction of the three invariants |
| `CatalogSyncProofs` | `SyncInvariance`, `FormulaHolds` | `SyncInv`, `StockFormula` |
| | `CheckoutSafeWithSync` | `OneOrderPerKey` and `TruthfulAnswers` next to syncs |
| | `ReservationsSurviveSync` | `ReservedMatchesOrders` next to syncs |
| | `MirrorPublished` | `BumpPublishesMirror` |
| `TelemetryProofs` | `ReportingKeepsCheckout` | `TelemetrySpec => Spec`: the theorems above hold of it |
| | `TelemetryInvariance`, `OutcomesTrue`, `SpansTrue` | `TelemetryInv`, `OutcomesAreTruthful`, `SpansNameTheOrder` |
| | `TelemetryInvariants`, `CountersRight` | `TelemetryProofInvariants`, `CountersAreBounded` |
| `BillingProofs` | `BillingInvariance`, `BillingTypes` | `BillingInv`, `TypeOK` |
| | `InvoicesTrue`, `ReceiptsSingle`, `DeadLettersTrue` | `BilledIsInvoiced`, `InvoicedOnce`, `DeadLettersAreEarned` |
| | `RetriesSingle`, `ReconciliationFinds` | `RetriesAreNotMultiplied`, `ReconcileFindsInvoices` |
| `InvoiceDeskProofs` | `DeskRefinement` | `ImplementsInvoiceDesk` |
| | `CareInvariance` | `Billing!ProofInvariants` |
| | `NothingForgotten` | `NoOrderForgotten`, if the broker loses nothing |
| `ProductsCacheProofs` | `CacheInvariance`, `CacheTypes` | `CacheInv`, `TypeOK` |
| | `StampedesBounded`, `StaleExplained` | `StampedeBounded`, `StaleIsExplained` |
| | `CacheAndLists`, `VersionsKept`, `ListsMatch` | `CacheProofInvariants`, `CachedUnderItsVersion`, `ListsMatchTheirQueries`, if `NoneNamedAll` |
| | `PagesPartition` | the pages of a query partition what it finds, none is too long |

**Assumed** are the named ASSUMEs of `CheckoutData`, `Checkout`, `CatalogSync`, `Billing`,
`ProductQuery` and `ProductsCache` (requests carry keys and lines, keys are not products,
`None` is nothing else, bounds are numbers), which TLC evaluates in the runs. Three
hypotheses are stated in the theorems that need them. `HashSeparates`: `hashtext` gives no
two lock names one number. Where it does, cycles exist, PostgreSQL breaks them
(`DeadlockVictim`), and a call may be retried although nobody bought; the run `checkout_odd`
shows such an instance. `"lost" \notin Faults`: the broker keeps what it was given. Without
it the property is false, which is the run `billing_lost`. `NoneNamedAll`: no filter is the
text `all` once it is trimmed and in lower case. Without it two queries may share a key, and
one is answered with the list of the other; nothing in the code excludes it, the catalog
does.

### Stock, keys and answers (`IInv`)

`StockConserved` is not inductive: a call in `reserving` with a stale snapshot could take
units that are gone. `ReservedIsCurrent` says that a line that was reserved still has the
row of the snapshot, with enough units; for a commit of another call to preserve that, the
two must not share a product: `LockedBeforeUse` gives each the locks of all its products and
`LocksExclusive` says no two hold the same one. For the answers, `SnapshotsArePast` says
that a key row seen in a snapshot is still the row, and `RowsAreOrders` that it belongs to
an order under that key; `UnansweredBeforeCommit` says that an open call has neither an
order nor an answer. `CoreInv` is their conjunction with `OneOrderPerKey` and
`TruthfulAnswers`, and does not speak of the initial stock, so that it holds next to syncs as
well; `IInv` adds `StockConserved`. There is a lemma per action; those that end in a
rollback share theirs.

### Refusals, and the refinement of `OrderDesk` (`DeskInv`)

A refusal is decided on a snapshot that may be old, and must be true of the store when it is
given. Stock only shrinks (`StockOnlyShrinks`), so "insufficient" in the snapshot is
insufficient now. For `RepetitionsAreNotRefused`, take a repetition whose snapshot does not
show the first order: by `UnseenOrdersFit` its snapshot still has the units the first order
took, hence enough for the same purchase, so it cannot be refused: it conflicts and retries.
`ChecksPassed` keeps what an open call has checked, `RefusalsHaveReasons` what a 422 can
mean.

The refinement maps `shelf` to the available quantities, `book` to the orders of the key rows
and `told` to the statuses. `Commit` is `Accept`; an answer is `Tell`, true by the invariant;
a failure or a crash is `Fail`; every other step stutters. `Commit` is the hard one: that all
lines were reserved from a snapshot that is still current makes the order `Fillable` at that
moment, and `Take`, the update of every product of an order at once, is what the desk takes
off the shelf (the first lemmas of `CheckoutProofs` are what the two need of `Orderable` and
`Quantity`: a request on which each product has one line, and equal hashes ask for equal
quantities).

### Reservations (`Booked`)

`ReservedMatchesOrders` says that what is reserved of a product is the sum over its orders,
and a sum is `MapThenSumSet`, a recursion over subsets: the theorems on such a recursion take
an operator as a parameter and cannot be used here. What can be is a cardinality. `SumsUp`
says what the recursion does to one set, and that it removes the element it chooses;
`SumsAreCounts`, that any such function gives a finite set the number of its `Units`, the
pairs of an element and a number up to its weight. Suppose it did not: of the sets for which
it fails take one with the fewest elements (`LeastElement`, from the well-foundedness of the
naturals); without the element the recursion removes it does not fail, and adding that
element adds as many units as it weighs. A commit then adds the units of one order
(`BookedStep`), and a sync none (`SyncKeepsBooked`).

### Deadlocks and retries (`LockInv`)

`LocksInOrder`: a call's key comes first, then its products upwards. In a cycle of waits
every call is waited for, hence holds its key and waits for a product. Take the least product
awaited, and the call that waits for it: somebody in the cycle waits for a lock that call
holds, which is a smaller product, against the choice (`OrderedLocksDoNotCycle`, by the least
element of a set of numbers). `AttemptsAreCounted`: the snapshot
of the attempt number *n* shows at least *n* orders, because a conflict is possible only
where the snapshot lacks an order; so a call that gives up has seen `MaxAttempts` of them.

### Catalog sync (`SyncInv`)

`CoreInv` with `StockFormula`, `ReadsArePast` (a reserved quantity that was read is not
above the present one) and `LoneSyncsMirror` (what a sync that runs alone has written stays
so). `RowLocksExclusive`: no two syncs have the row of a product. The steps of `Checkout`
keep `CoreInv` by the lemmas of `CheckoutProofs`, whether they wait for product rows or not,
and the victim of a deadlock is a retry like any other; a sync changes rows a transaction
has not reserved, because it waits for them.

### Reports (`TelemetryInv`)

`ReportsAhead` is what a transaction that has reported can still do: a replay has the row it
replays, an order has all its lines reserved, a total that fits and a free key, so that the
only ways on are the commit as reported or a rollback from outside. `OutcomesHaveReasons`
keeps the reason of an outcome that is not `error` until the answer.

`CountersAreBounded` compares counters with sets of calls, and is not inductive: a counter
is incremented before the COMMIT that makes it right. `ReportsAreCounted` adds the open
attempts that have reported (`Announced`) to those that have earned their count from below.
From above it bounds the counter by the retries, each of which may have left one behind, and
the calls whose present or last attempt may have counted (`Spent`). `CallsAreReceived` makes
the sets finite; `Retries` is a sum, by the argument of the reservations. An action either
reports, which moves one call and one counter (`ReportCounts`), or is `Quiet`: it moves
calls between the sets, or one call's report to its retries (`QuietCounts`).

### Billing (`BillingInv`)

None of the safety properties is inductive. `AcceptedFirst`: messages, handlers and receipts
are about accepted orders. `ReceiptsAreKnown`: what is being saved or repaired was made out.
`TriesHaveReasons`: a handler past `record` has its attempt in the table, and a message of
try *n* + 1 means that try *n* has failed. The heart is `FollowUpsAreSingle`: of a recorded
failure there is one follow-up, counted over the handler that is to publish it, the queues
and the deliveries not acknowledged (or, for the last try, the dead letters); of an
unrecorded one there is none. The unique row of `RecordAttempt` is what creates the one, and
every other step moves it. For redeliveries the sum must count a message of a dead channel
once, though a handler of it still runs: hence `Unacked`. `OwedIsChecked` is what a
reconciliation has left to do. `HandlerBegins`, `HandlerEnds` and `HandlerGoesOn` say what a
move does to the bag of handlers, and each action has a lemma.

`DeskRefinement` maps an order's status to its stage, the receipts made out, and the recorded
attempts to the failures; `BillingInv` supplies the desk's guards (a try fails only after the
one before it, an order is billed only with a receipt, given up only after the last try).

`NothingForgotten` needs more (`CareInv`), because an acknowledgement removes a message, and
a property of the queue cannot say why that is harmless. `PublishedIsCaredFor`: what is
published is settled, in motion or cut off. `AcksAreEarned`: a handler acknowledges only a
settled order, a cut-off one, or a *recorded* try. In the last case another message must
carry the order on; it need not be this try's own successor, since duplicates of the first
message are acknowledged at any later time. `LastFailureIsFollowedUp` names it: the last
recorded failure of an open order is being followed up, or the next try is under way. There
is a last one because tries are bounded (`LastFailure`, from the well-foundedness of the
naturals).

### The products cache (`CacheInv`, `ListInv`)

`CallsInOrder` is what a call holds at each await. `VersionsLag` is why a version in a key
means something: a sync writes its rows before it increments the version, and a reader reads
the version before the rows. So of every copy under a version, a card or a row in a call,
`Copy` says that it is at least as new as the product was when the version was published,
and has the look of the present row unless a sync has written it since. Rows are only
written again (`Grows`) and what was published stays, whatever other syncs do; hence `Copy`
does, too.  `StampedeBounded` is inductive with the finiteness of the sets it counts:
`releaseLock` deletes a lock without asking whose it is, so that a late holder lets one more
in, but it is late only because its own lock has expired, and the bound counts that expiry.
`StaleIsExplained` is not inductive: a checkout under way explains a card only if it will
delete *this* card, and one that read the version before the sync incremented it will not;
`StaleIsPending` counts only the former.

`ListsArePages` says of the list under any key that it is the page of every query with that
key; `NoneNamedAll` makes the key tell brands and device models apart (`KeysTellApart`).
`CallsMatch` carries that through what a call holds on its way to Redis and to the answer.
Its exact half, that a list is the page of the rows on sale, holds while no sync has written
a row since the version was published (`Untouched`): checkouts change stock only, and
filters, order and page do not look at it. The other half speaks of each product
(`MayShow`): the query matches its row, or a sync has written it since; a card or a row read
by id alone, which nobody filters again, cannot be worse, for `Copy` gives it the look of
the row (`ShownStays`).

`PagesPartition` is about `skip` and `take`: no two products share a place, because every
order ends with the id, so a product's place is the number of those before it, a number of
its own, and a page has room for as many places as its size.

### Model-checked only

* Liveness (`EveryCallSettles`, `SyncsAndCheckoutsEnd`, `EveryOrderSettles`): fairness and
  ENABLED are beyond the proof system. Every other property of a passing run is a theorem.
* What `Total`, the sum of an order, computes: the proofs need only that `Storable` guards
  the commit.

## 6. Where the code and its documents differ

1. `NoServerError` (README.md:233 promises 202, 409 and 422 only). Whoever waits for a lock
   has the older snapshot, so every commit of a competitor costs it an attempt; after four
   the P2034 is rethrown and answered 500.
2. `ReusedKeyIsConflict` (design, line 243). Two payloads under one key at the same time:
   the loser misses the row in its snapshot and fails on the unique constraint, a P2002
   that is not retried: 500 instead of 409.
3. `SyncKeepsCommittedStock` (design, lines 374-377 and 399). The sync's read and write of a
   product are separate; units sold in between are on sale again. `StockFormula` shows that
   this is the only error, and that it is exactly those units.
4. `OutboxNeverLosesEvent` (README.md:119). Publications are not confirmed by the broker.
5. `FailuresAreQueued` (design, lines 476-480). The attempt is recorded before the retry is
   published; after a crash in between, the redelivered message is acknowledged for nothing.

Two more observations, which no document contradicts. The error envelope of a failed
checkout never names its order, as `setOrderId` writes to the context `startSpan` has made
and not to the one of the HTTP request. And the metrics of the outbox, the queues and the
workers are declared in `metrics.service.ts`, but nothing records them.

## 7. Not modelled, and why

* In `CatalogSync`, the amounts of prices, the statistics and the compatibilities: that a
  product has a price is modelled, and what queries see of the rest is its look in
  `ProductsCache`. What compatibilities add to a sync is row locks of device models that
  another sync may wait for; a deadlock among them is one of the ways of `SyncFails`.
* One `findMany` with its relations is one read.
* Log lines, request and correlation ids, HTTP and Redis histograms, the exposition of
  metrics: synchronous functions without state that anything reads.
* `GET /orders/:id` and `GET /orders/by-idempotency-key/:key`: one read of committed rows
  each, without state.
* Health, bootstrap, configuration, seeds, scripts: no behaviour of interest.
* The batch limit of 50 of the outbox, foreign keys and indexes, the connection pool.
* Products the ERP adds: `CatalogSync` starts with an inventory row for every product, so
  the `create` branches of the upserts are not taken.
* Commands of one `Promise.all` are one step of `ProductsCache`, and the order of the
  products within an answer is not kept.
* A worker that reconnects: the code has no such path.

## 8. State of the work

The models came first (CheckoutData, Checkout, OrderDesk, CatalogSync, Billing,
ProductsCache; then InvoiceDesk and the faults of the broker and the ERP, overlapping syncs,
the overflow, Telemetry, ProductQuery), then the proofs; then products without a price, the
row locks of a sync, and overlapping syncs under the cache. All safety and action properties
and both refinements of the passing runs are theorems; the liveness properties are checked.

What could still be added is a composition of `Checkout` with `ProductsCache`, which now
sees a checkout as the change of one row, so that a client's view of stock and its purchase
are one behaviour.
