# A verification project for the order pick-up point (ПВЗ)

The program is the back end of an order pick-up point, written in Go. Couriers bring orders,
clients collect them and may give them back within 48 hours, and orders nobody collects go back
to the courier. It serves gin (HTTP) and gRPC, keeps orders in PostgreSQL, caches them in Redis,
and publishes an audit log to Kafka through an outbox table.

This directory holds TLA+ models of its state-changing parts, TLC configurations that check them
on small instances, and TLAPS proofs that hold for every instance. `PROJECT.json` maps every
definition to the lines it translates, lists the hazards, and pairs every checked property with
a plausible bug that breaks it (the definitions marked "Mutant" in the modules; no specification
uses them).

## 1. The system

| Component | State it keeps | Operations | Hard behaviour |
|---|---|---|---|
| Order store (`repository/orderrepo`, `repository/userorderrepo`, `storage/postgres/orderstorage`, `.../userorderstorage`) | table `orders`, unique `order_id`; row locks | `AcceptOrder`, `ReturnOrder`, `IssueOrders`, `RefundOrders` | checks and writes in separate transactions; clock read before locks; batches that stop half way; deadlocks; lost acknowledgements |
| Order domain (`domain/order.go`) | none; an order's status is derived from its dates | `Status`, `LastUpdated` | equal and out-of-order dates |
| Order service and handlers (`service/storage_service.go`, `api`, `transport/grpc/handler`) | none | one per endpoint; after the commit they update the cache and send an audit event | everything after the commit is lost in a crash; panics |
| Order cache (`cache/cache.go`) | Redis: orders, index per user, index of active orders, history set | set, delete, refresh, read-through | read-modify-write in goroutines, stale fills, TTLs in the past |
| Reports (`repository/reportrepo`, `reportorderstorage`) | none | paginated listings | cursor and page from different queries |
| Audit pipeline (`audit/pipeline.go`, `worker.go`, `worker_pool.go`) | four buffered channels, a batch per worker | `SendEvent`, `Run`, `processBatch` | a goroutine per event, full channels, shutdown |
| Outbox (`audit/outbox_worker.go`, `auditlogstorage`, `service/audit_log_service.go`) | table `audit_tasks`; a worker's copies of its rows | `SaveLog`, `FetchPendingTasksTx`, `UpdateTask`, `processTask` | locks released before processing, stale copies, crashes between two updates, retries |
| Kafka producer (`kafka/producer.go`) | an open Kafka transaction | `SendTransactional` | a commit that times out and took effect |
| Audit consumer (`cmd/consumer`) | group offsets | poll, process, mark, commit | redelivery, skipped records |
| Packaging (`domain/packaging.go`, `repoutils`) | none | `ParsePackaging`, `CheckWeight`, `CalculatePrice` | combinations, limits |
| Authentication (`authrepo`, `authstorage`, `service/auth_service.go`, handlers) | table `users`; tokens in the hands of clients | `Register`, `Login`, `GenerateToken` | check-then-insert over two transports, unknown e-mail |
| Middleware and interceptors (`middleware`, `transport/grpc/interceptor`) | counters, the gauge of calls in flight | around every handler | refusals and panics at different depths |
| Start-up and shutdown (`cmd/api/main.go`, `router`, `transport/grpc/server.go`) | the context, both servers | interrupt, graceful stop | one server waits, the other goes on |
| Other metrics, tracing, configuration, generated gRPC code | counters, spans | | none of the program's decisions read them |

Interactions: a handler calls the service, the service the repository, the repository the storage,
all in the goroutine of the request. After a change of an order the service updates the cache (for
an accept and a return in a goroutine of its own), and the handler hands an event to the pipeline.
The pipeline's workers save events as rows of `audit_tasks`. The outbox worker of each process
polls that table every 500 ms and sends the rows to the topic `audit_logs`, which the consumer
reads. Requests meet each other only in PostgreSQL and Redis; workers only in `audit_tasks`.

What makes each component correct:

* order store: an order passes stored, issued, refunded in this order and once each; what was
  validated still holds at the commit; dates agree with the expiry and the refund period; locks are
  given back; every request is answered;
* outbox: what is reported finished was published; nothing is stuck silently; the number of copies
  is bounded by the number of attempts;
* cache: it is never ahead of the table, what is active does not stay without a TTL, the indexes
  are repaired;
* pipeline and consumer: the event of a committed change is saved, a record is processed before
  its offset is committed, and an event that is lost on the way is lost at a known place;
* reports: the pages of a walk cover what stays in the listing, without repetition, and end;
* authentication: one account per e-mail, tokens for accounts only, every call gets its answer.

## 2. Modules

| Module | What it is |
|---|---|
| `OrderDomain` | the order row, `Status` and `LastUpdated` |
| `OrderStore` | the order store under concurrent requests |
| `OrderLifecycle` | what the store promises about the stage of an order (abstract) |
| `OrderStoreProofs` | TLAPS proofs about `OrderStore` |
| `Outbox` | the table `audit_tasks`, its workers and the topic |
| `OutboxProofs` | TLAPS proofs about `Outbox` |
| `OutboxPromise` | what the outbox promises to both of its ends (abstract) |
| `AuditPipeline` | an event's way from a committed change to `audit_tasks` |
| `AuditPipelineProofs` | TLAPS proofs about `AuditPipeline` |
| `AuditConsumer` | the consumer of the topic and its offsets |
| `AuditTrail` | the composition: `AuditPipeline`, `OutboxPromise` and `AuditConsumer` |
| `AuditTrailProofs` | TLAPS proofs about `AuditTrail` and the `AuditConsumer` in it |
| `OrderCache` | the Redis cache next to the table `orders` |
| `OrderCacheProofs` | TLAPS proofs about `OrderCache` |
| `Reports` | clients that walk through the paged listings |
| `ReportsProofs` | TLAPS proofs about `Reports` |
| `Packaging` | parsing, weight and price of a packaging, as operators with a reference |
| `PackagingProofs` | TLAPS proofs about `Packaging` |
| `Gateway` | calls over HTTP and gRPC: middleware, accounts, tokens, shutdown |
| `GatewayProofs` | TLAPS proofs about `Gateway` |
| `MCOrderStore`, `MCOutbox`, `MCAuditPipeline`, `MCAuditTrail`, `MCOrderCache`, `MCReports`, `MCGateway` | instances for TLC |

### OrderStore

A *request* (`r`) is a handler goroutine. `pc[r]` is its next step; `req`, `held`, `next`, `done`
and `err` are its local variables: its arguments, the date it holds (`now`, `StoredAt`, or the
expiry it has read), the index of the batch loop, `processed`, and `returnErr` or the error it
returns. `orders` has the committed rows, `lock` the row locks. Each step contains at most one
round trip to the database or one reading of the clock on which something depends:

| Action | Code |
|---|---|
| `AcceptOrder`, `AcceptFind`, `AcceptPrepare`, `AcceptSave` | `orderrepo.AcceptOrder`: expiry, duplicate check, packaging and `StoredAt`, `SaveOrder` |
| `ReturnOrder`, `ReturnFind`, `ReturnRecheck`, `ReturnExpiry`, `ReturnDelete` | the lookup of the service, the second lookup and status check of the repository, the expiry check, `DeleteOrder` |
| `IssueOrders`, `RefundOrders` | begin, and `now := time.Now()` |
| `ProcessOrder` | one turn of the loop: `lockAndGetOrder`, validation, update |
| `Commit` | commit and result |
| `DatabaseFailure`, `DeadlockAbort`, `Crash` | a failing statement or a cancelled context; PostgreSQL's deadlock victim; the process dies |
| `Respond` | the handler's answer |

A transaction's updates are not visible to others before its commit (read committed), so they stay
in `done[r]` and `held[r]`, and `RowSeenBy` shows them to the transaction itself. A statement that
took effect may be reported as failed (`Acknowledge`). Two details of the code the model keeps:

* `lockAndGetOrder` looks for `pgx.ErrNoRows`, which `ScanOrder` has already turned into
  `ErrNotFoundOrder`; a missing order therefore fails the whole batch with `ErrDatabase`, and the
  branch that would skip it is dead;
* when a row vanishes between the two lookups of a return, `order.Status()` dereferences nil: gin
  recovers, the gRPC server does not, so the step ends in an error or in a crash of all requests.

Abstractions: a date is a natural number of ticks; nil, NULL and the zero time are all 0, as for
`Status`. Prices, weight and packaging are left out of the row; whether packaging and weight are
accepted is a choice (`AcceptPrepare`), and `Packaging` says how it is made. Requests that the handlers reject before calling the
service (malformed JSON, bad dates, unknown commands) do not appear. The cache updates and audit
events that follow an operation are in `OrderCache` and `AuditPipeline`. `AcceptSave` and `ReturnDelete` are one
step each: between their statements nothing of theirs is visible, and an insert that meets an
uncommitted insert of the same id waits and then sees the committed outcome.

### OrderLifecycle

An order is absent, stored, issued or refunded. Sets of orders advance one stage at a time, in one
step. An order may be removed at any stage: see the finding below for why no stronger promise
holds. `OrderStore` implements it with `Stage`, the status that the reports derive from a row.

### Outbox

`table` has the rows (status, attempt number, and whether `next_retry` has passed), `topic` the
number of committed records per task, and `pc`, `todo`, `cur`, `snap` the locals of each worker:
the batch it has fetched, the task in hand, and the attempt numbers as fetched. `FetchPendingTasks`
and `CommitFetch` are the two ends of the fetching transaction; from the second on the rows are
unlocked and `snap` may go stale. `MarkProcessing`, `SendTransactional` and one of
`RecordFinished`, `RecordFailed` are `processTask`; `MarkFails` and `RecordFails` are its failing
updates; `Restart` is a crash or a shutdown.

Kafka is external. A send ends committed and acknowledged, or with an error; with an error the
record may or may not have been committed. A commit that takes effect only after the worker has
seen its timeout is modelled as having taken effect at the timeout, which can only raise the
number of copies earlier. That two processes share the transactional id and fence each other is
one more way for a send to fail. Rows are named by `created_at`, taken to be distinct.

A single worker implements `OutboxPromise`: a saved task is sent any number of times until it is
closed (finished, given up, or left in PROCESSING by a worker that is gone), and never afterwards.
Two workers do not: a stale copy reopens a finished task.

### AuditPipeline

`Happens` is the moment something is to be reported: the status changes of a request, which are
committed in one transaction, or a request or an answer seen by the audit middleware. `unsent` has
the events for which the handler has not called `SendEvent` yet; a death before that loses them.
`HappensUnreported` is a change that is committed although its handler is told that it failed
(`Acknowledge` in `OrderStore`): the handler returns before `SendEvent`, and the change never has an
event (`unreported`).
`sending` has the goroutines that `SendEvent` starts, one per event, `chan` the buffers of the two
channels, and `pc`, `batch`, `at` the workers: waiting in the `select`, processing a batch, or
processing the last one after the context was cancelled. `Receive`, `Tick` and `Stop` are the cases
of the `select`; `SaveLog` and `BatchDone` are `processBatch`. A save may fail, and may have taken
effect although it is reported as failed; with a cancelled context it always fails. `Exit` is the
end of `main`, which waits for no worker, or a death at any moment. Only the pool that saves to
the database is modelled: the other one's handler does nothing with its events, and the filter of
the configuration is never called.

### AuditConsumer and AuditTrail

One partition; a record is its place in `log`, and an offset the number of records before it.
`position` is where the client fetches next, `uncommitted` what `CommitUncommittedOffsets` would
commit, `next` and `last` what the loop has in hand. The Kafka client is external and modelled from
its use: automatic commits are off, and what is committed is what was polled, processed or not.
`Poll`, `ProcessRecord` and `CommitOffsets` are the loop of `run`, `PollErrors` a poll with errors,
whose records the code drops; `Rebalance` runs the revocation callback next to the loop; `Shutdown`
and `Crash` end the process, `Join` starts it. `MarkCommitRecords` has no effect of its own here.
`excused` collects the records that the code passes over: dropped by a failed poll, older than the
first assignment (`AtEnd`), or committed by a rebalance while they are in hand.

`AuditTrail` puts the pipeline in front, with the actions of `OutboxPromise` between: `OutboxSends`
is `Publish` and `Promise!Send` in one step. What the outbox's own module shows (`KeepsPromise`,
`Settled`) is what is assumed of it here. `GivenUp` names the places where the code gives an event
up: its handler took the committed change for failed, its save failed, its process ended with it in
memory, or the outbox closed its task without having sent it.

### Reports

One client walks through a listing, page by page, while writers change the table: orders are
accepted (with ids and dates taken before the row is visible, so that neither needs to be the
largest), issued, refunded and, at any stage, deleted, and an `order_id` may come back with another `id`.
`ReadPage` is the first query of a request, `AnswerPage` the second, which finds the `id` of the
page's last order by its `order_id`. If that order was returned and accepted again in between, the
cursor gets the `id` of the new row, which is the higher one, as a rule, and may be the lower one
(`raised`, `lowered`: ids are taken before rows are visible). `RefusePage` is an error, after which
the client asks again. `Key` and `Below` are the three ORDER BY clauses, `AfterCursor` the cursor's part of
WHERE. `ReadCut` is a failure while rows are read: `scanOrders` does not ask `rows.Err`, and takes
what it has got for the page. `AcceptedLimits` are those that pass the handlers of each transport.
`owed` and `shown` are history: what the client must get and what it has got.

### Packaging

`Part` is an iteration of the loop of `ParsePackaging`, with its early returns, and `Parsing` the
loop, as a recursive function of the number of iterations; `Adding` is the loop of the composite's
`CalculatePrice`, and `CheckWeight` its other method. The reference counts how often each part is
named.

### Gateway

A *slot* is a call in progress. `Arrive` and `Leave` are the middleware and the interceptors on the
way in and out, in the order in which each transport chains them: HTTP audits before it
authenticates, gRPC after. `Authorize` is the check of the token. `RegisterCheck` and `CreateUser`
are the two round trips of a signup, `Login` and `LoginRefused` the outcomes of a login. The handlers
of orders and reports are one step (`Serve`); the other modules open them. Both a login with an
unknown e-mail and the return of an order that vanishes between two lookups dereference nil; gin
recovers (`RecoveredPanic`: the request is counted, its response is not), gRPC does not
(`FatalPanic`). Which return meets such an order is in `OrderStore`; here any order handler may. `main`
adds `AuditMiddleware` again after the routes are set up, so that gin runs it twice for a request
without a route (`NoRoute`, `AuditLayers`). `Interrupt` and `Exit` are the shutdown: `GracefulStop` waits for the calls over gRPC
and refuses new ones, while the HTTP server serves until `main` returns.

A password stands for its hash; bcrypt refuses passwords of more than 72 bytes (`LongPasswords`),
the HTTP bindings those of less than 8 characters (`ShortPasswords`). A token is its e-mail and its
expiration. The events that the audit middleware sends go along with its counters and are followed
in `AuditPipeline`.

### OrderCache

The writes to the table are the commits of `OrderStore`. A row has its owner and a *generation*,
because an id can be accepted again after a return. Of its dates the module keeps which are set
(`calculateOrderTTL` is a switch over them) and whether the last one is older than the one before it
(`early`): a batch reads the clock and then waits for its rows, and `Status`, by which the store
decides, goes by the latest date. An order with an early issue date is therefore still stored, and can
be issued again or returned. `past` has the deadlines that have passed; two early issue dates of one
order share theirs. A *task* is a request, the goroutine it leaves behind, or the refresher.
Every Redis command is one step, and the pipelines (DEL, SADD) are two, because they are not
transactions.

| Actions | Code |
|---|---|
| `AcceptOrder` .. `IndexRead`, `IndexDel`, `IndexAdd` | the goroutine of `AcceptOrder` |
| `ReturnOrder` .. `ReturnEvict`, then the index | `ReturnOrder` and its goroutine |
| `IssueOrders`, `IssueGet`, `IssueSet`; `RefundOrders`, `RefundEvict`, `RefundHistory` | the loops over the processed orders |
| `GetActiveOrders`, `ReadIndex`, `ReadDB`, `ReadGet`, `ReadFind`, `ReadSet` | `GetUserActiveOrders`, `GetAllActiveOrders` |
| `GetOrderHistoryV2`, `HistoryIndex`, `HistoryBatch`, `HistoryDB` | `GetOrderHistoryV2` |
| `CacheRefresh`, `ReadDB`, `IndexDel`, `IndexAdd` | the tickers, `RefreshActiveOrders`, `RefreshHistory` |
| `InitCache`, `InitQuery`, `InitFind`, `InitSet` | `InitCache` |
| `UpdateFails`, `ReadDBFails`, `Die` | failing commands and queries, the end of a process or of the 5 seconds |

go-redis sets an entry with a duration of zero or less without a TTL, so `HasTTL` is false for a
refunded order and for one whose deadline has passed. The time at which a TTL runs out is left
open (`EntryExpires`), which allows more than the code does. Loops over orders take them in any
order. The queries of ids do not ask `rows.Err`: a failure half way yields a part of the ids, which is
then written as the index (`QueryResults`). `InitCache` may run at any time, as if another process were started next to this one.

## 3. Runs

| Run | Configuration | Shows |
|---|---|---|
| `batches` | 2 requests, 2 orders, 1 user, batches `<<o1,o2>>` and `<<o2,o1>>`, clock 1..2, with fairness | `NoGridlock`, `LocksOwned`, `ValidationStillHolds`, `BatchComplete`, `LockedRowsStable`, `Answered` |
| `dates` | 2 requests, 1 order, 2 users, expiries 1 and 3, refund period 1, clock 1..4, batches that name the order once and twice; packagings of up to 3 parts | `RowsConsistent`, `AcceptedOnce`, `DatesWrittenOnce`, `Implements`, `PackagingAgrees` |
| `return_race` | 2 requests, 1 order | violates `ReturnedOnlyExpired` |
| `outbox` | 1 worker, 3 tasks, batches of 2, 2 attempts, with fairness | `FinishedIsPublished`, `AttemptsMatchStatus`, `CopiesCounted`, `NeverReopened`, `Settled`, `KeepsPromise` |
| `pipeline` | 3 events for one channel of capacity 1, batches of 2, with fairness | `TypeOK`, `SavedOnce`, `Accounted`, `Drained` |
| `trail` | 1 change, a log of 2 records, with fairness | `NothingSkipped`, `NothingVanishes`, `NoRedelivery`, `Delivered`, `RecordedOrGivenUp` |
| `cache` | 2 tasks, 1 id with 2 generations: accept, return, issue, refund, reads of the user's list; dates that are early | `NeverAhead`, `TrueToRow`, `KeptIsOver` |
| `cache_repaired` | 1 task and the refresher, 1 id: accept, return, reads of both common lists, `InitCache`; with fairness | `Repaired` |
| `reports` | 2 order ids, 3 row ids, dates 1..2, limits 0 and 1, with fairness | `Complete`, `NoRepeats`, `WalkEnds` |
| `gateway` | 2 calls at a time, 1 e-mail, 3 passwords, tokens that last 1 of the 2 ticks, with fairness | `CreatedOnce`, `TokenHolds`, `GaugeExact`, `CountersBalance`, `AccountKept`, `CallsEnd` |
| `cache_listed` | 2 tasks, 2 ids of 1 user, no failures, with fairness | violates `Listed` |
| `cache_history` | 1 task, 1 id, no failures | violates `HistoryServed` |

Bounds. Two requests are enough for every race of the store: each is between a check and a write
of one request and the writes of another, and a slot is used again and again, so that a request
can be overtaken by any sequence of others. Two orders are the least for crossing locks and for a
batch that fails half way. Four ticks put a tick before, at and after both the expiry and the end
of the refund period. The clock (`MaxTime`) is the only bound of the store besides these sets. In
the outbox three tasks with batches of two leave a task for a second fetch; two attempts are a first
and a last one (the code has three). What is said of several workers is proved, not run: see below. The number of restarts and failures is not bounded anywhere. Three events against a channel of one and batches of two make senders wait while the worker
is busy; both channels are the same code, so the events go to one. In the cache every race is
between two tasks over one id, and a second generation is what it takes for a stale entry to meet a
new order (both orders are of one user in the run; that the cache does not mix up two owners is
part of what is proved); `Calls` chooses the operations of a run, `MaxGen` bounds the accepts, and `Faults` is off
only in the two violations, which therefore need no failure. In the trail two records are a poll with more than one, a duplicate, and a record that comes
while another is in hand; the pipeline has a run of its own with more events. In the reports a
page can end between the two orders, and the third id is what it takes for a page that is not empty
to follow a cursor that went back up: the order of the cursor comes back with the highest id, and the
other one is below it. Equal dates are as frequent as different ones. Pages
are of one order, so that a walk has several of them; the proofs are for any limit. Without the
exception of `WalkEnds` for a raised cursor the property would hold in a finite instance merely because
the ids run out. In the gateway two calls are the least for a race of
signups and for a shutdown with one call of each transport; `MaxPanics` stops new calls after a
recovered panic until the process is restarted, which only bounds the history variable. The run of the
outbox allows deadlock because a system whose tasks are all settled really stops.

Symmetry: requests are interchangeable; it is used only in the runs without liveness.

Fairness. In the store: the Go scheduler runs every goroutine (weak fairness of `Run`), row locks
are queued by PostgreSQL, so that a waiting `ProcessOrder` or `ReturnDelete` is not overtaken
forever (strong fairness), and its deadlock detector runs (weak fairness of `DeadlockAbort`).
Nothing forces a failure, a crash or a call. In the outbox: time passes, Kafka answers or the two
seconds are over (weak), and a fetch or an update that is tried again and again succeeds at last
(strong: the database is not down, and the process not killed at the same point, forever).
`RecordFails` shares a fairness condition with the other two outcomes: an outcome may fail to be
written every time.
In the pipeline: goroutines run, a `select` does not pass over a ready case forever and a full
channel serves its senders in turn (strong fairness of `Receive`, `Tick` and `Enqueue`), and `main`
returns after an interrupt. In the consumer: the process is started again (weak), and a record that
it comes to again and again is polled and processed at last (strong, per record: it is not killed at
the same point of its loop forever). In the reports: a client that has begun goes on (weak), and a
page that is asked for again and again is answered at last (strong). In the gateway: calls go on, and
`main` ends when the calls over gRPC have ended (weak). In the cache: both tickers go on, a
round of the refresher whose query loses no row (`Whole`) comes again and again and its commands do not
fail every time (strong), and goroutines run (weak).

### Findings

`return_race`: `ReturnOrder` checks one row and deletes by id afterwards, in another transaction.
If another return removes the order in between and a new order is accepted under the same id, the
new order is deleted although it has not expired. `src/tests/integration/api/api_test.go:76-77`
expects `http.StatusBadRequest` for the return of an order that has not expired. The same gap lets a return
delete an order issued since, which is why `OrderLifecycle` allows removal at every stage.

`cache_listed`: `AcceptOrder` reads the index of the user, appends, and writes it back, in a
goroutine without any protection. Two accepts lose an id; and because `GetUserActiveOrders` takes
every index that is not empty for complete, and no refresh touches the indexes of users, an active
order is then missing from its user's list. The repository's `README.md:147` promises invalidation
by event, by periodic refresh and by TTL. The same happens when an index is empty while the user
already has orders: the accept of the next one makes it non-empty.

`cache_history`: if nothing of the history is cached, `GetOrderHistoryV2` asks the table for a page
with limit 0. `README.md:98-104` says that the orders then come from the database, and that the
history is refreshed, which the code does not do either.

`NeverAhead` has an exception that follows from `return_race`: if a return deletes an order that
was issued meanwhile, and the id is accepted again, the cache update of the issue marks the new
order as issued.

`DatesWrittenOnce` states an exception that the code really has: `now` is read before the row
locks, so a batch that waited may write an issue date older than `stored_at`, or a refund date
older than `issued_at`, and `Status` then still shows the stage before.

What the properties of the new parts leave out on purpose, because the code really does it:

* `NothingVanishes` and `RecordedOrGivenUp` name the places where an event is given up (`GivenUp`). A
  change whose COMMIT takes effect while its answer is lost is one of them: it is in the table, the
  client is told `ErrDatabase`, and no audit event ever exists. Nothing in the repository promises a
  complete audit log, so this is an exception and not a finding.
* `NothingSkipped` and `Delivered` name the records the consumer passes over (`excused`). None of it
  needs a crash: a poll with an error is enough.
* `Complete` names a page that is cut to nothing by a failure, and a cursor lowered by an order that
  was accepted again; `NoRepeats` and `WalkEnds` name a cursor raised by one. An order updated during a walk through the history moves to its front
  and may not be seen in that walk. A limit below 1, which the gRPC handlers let through (a missing
  field is 0), makes every listing end at once. A status other than `stored` lists nothing.
* `CountersBalance` counts recovered panics: a login with an unknown e-mail over HTTP is a counted
  request without a counted response, and over gRPC it ends the process with all its calls; so is
  the return of an order that vanishes half way. A request without a route is counted twice, and so is
  its response. Calls
  that gRPC refuses are not counted at all, those that HTTP refuses are.
* the loser of a race of signups is told of a database error, not that the e-mail is taken; a
  password of less than 8 characters can be registered over gRPC and not be used over HTTP.

`AbandonedForever` and `Settled` say together what a crash costs: a task that was PROCESSING is
never fetched again, because the fetch selects only CREATED and FAILED.

## 4. Proofs

All theorems are proved for arbitrary constants. `OrderStoreProofs` assumes `DatesAssumption`
(dates are natural numbers), `BatchesAssumption` (a batch is a sequence of order ids),
`NullsAssumption` (the null values are no orders or requests) and, for `RequestsNeverGridlock` only,
`RequestsAssumption` (finitely many requests at a time); TLC evaluates them in every run.

* `InductiveInvariant`: `IInv` is `TypeOK`, `LocksOwned`, `RequestConsistent` for every request,
  `ValidationStillHolds`, `RowsConsistent` and `BatchComplete` together. None of them is inductive
  alone. `TypeOK` needs `LocksOwned`: a commit writes rows through `[... EXCEPT !.issued_at]`,
  which are rows only because nobody deleted them. `RowsConsistent` needs `ValidationStillHolds`: a commit
  is consistent because what was validated still holds. `ValidationStillHolds` needs
  `RequestConsistent`: the rows in `done` are locked by their request. The proof goes action by
  action with a frame lemma: a step of one request that respects the locks of the others keeps
  the others' part of the invariant.
* `TypeCorrect`, `LocksAreOwned`, `NoStaleValidation`, `RowsAreConsistent`, `BatchesAreComplete`
  follow from it.
* `LockedRowsAreStable`, `OrdersAcceptedOnce`, `DatesAreWrittenOnce` are action properties, proved
  from `IInv` step by step.
* `RequestsNeverGridlock`: the requests under way do not all wait, unless some of them wait for each
  other in a circle, which is all that PostgreSQL's detector looks for (`Deadlocked`). Suppose all
  wait. Whoever a request waits for holds a lock, so it is a batch under way (`LocksOwned`), so it
  waits, too: the set of all of them is closed under "waits for". Requests are finite, so there is a
  minimal closed set (`CircleExists`), in which everybody is also waited for: the circle. This is the
  part of the liveness property `Answered` that can be proved for every instance: nobody is ever left
  to wait for a request that is gone.
* `StoreImplementsLifecycle`: the refinement, initial states and every step.

`PackagingProofs` needs no assumption on constants.

* `PackagingIsRight`: on an input of any length and for any weight, `ParsePackaging` accepts exactly
  what the reference calls permissible, and price and weight check agree with it. The loops are
  recursive functions; `Iterates` shows that such a function satisfies its equations, and the loop
  invariant is `ParsedSoFar`: after n parts there is an error exactly if the first n parts are not
  permissible, and otherwise the strategies are these parts and the main ones among them are counted.
  The library's induction theorems take a predicate as their parameter, which the provers cannot
  instantiate; `SetInduction` states induction over the set of the numbers that satisfy one, and
  follows from the well-foundedness of the natural numbers.
* `PackagingAlwaysAgrees` is the invariant of the run, for every instance.

`OutboxProofs` assumes `TasksAssumption` and `LimitsAssumption`.

* `OutboxInvariant`, for any number of workers: `IInv` adds to the row invariants that a worker in
  `processTask` has its task, that it fetched only tasks with an attempt left, and that after a
  successful send the record is in the topic. `FinishedTasksArePublished` and `NoTaskInLimbo`
  follow. That they hold with stale copies is the point: a worker may overwrite anything, but only
  with values that are consistent in themselves.
* `SingleInvariant`, under `SingleWorker` (any two workers are equal): copies are current
  (`CopyCurrent`), which no longer holds with two workers. `CopiesAreCounted`,
  `TasksAreNeverReopened` and `AbandonedTasksStay` follow.
* `WorkerKeepsPromise`, under `SingleWorker`: the refinement of `OutboxPromise`. Every step of the
  worker concerns the one task in its hand, which is neither terminal nor abandoned while it is
  there: `CopyCurrent` is what makes this true.

`ReportsProofs` assumes `LimitAssumption` (limits are integers) and `NoCursorAssumption` (no cursor
is not a cursor).

* `WalkInvariant`: `IInv` adds to `Complete` and `NoRepeats` what a page relies on. `IdsUnique`: an id
  names one row for ever. `PageRead` and `ShownPassed`: a row that has been read can only have moved
  up since, so that it is never found after the cursor again; this rests on `IssueMovesUp` and
  `RefundMovesUp`, which hold because `Status` lets an order be issued or refunded only when its
  latest date is that of the stage before. `NothingPassed`: what is owed and not shown comes after the
  cursor, and is on the page or after it. `EmptyIsEnd`: with a limit of at least 1, an empty page
  means that nothing is left. A raised cursor endangers only `ShownPassed`, a lowered one only
  `NothingPassed`, which is why each property has one of the two exceptions. `TypeCorrect`, `WalksAreComplete` and `WalksDoNotRepeat` follow.

`GatewayProofs` assumes `GatewayAssumption`: the slots are finite (a gauge counts them), there is an
e-mail and a password, short and long passwords are passwords and "no user" is none, the life of a
token is a natural number.

* `GatewayInvariant`: `IInv` is `TypeOK`, `CreatedOnce`, `TokenHolds`, `GaugeExact`,
  `CountersBalance` and what they need. `OneCreator`: a row of `users` was made by one signup, whose
  success is still to be answered or has been. Without it `CreatedOnce` is not inductive: a second
  call could be on the point of answering "created". `CallConsistent`: a call is not from the
  future, has no answer before its handler is done, is not counted when it is over, and is counted
  while its handler runs, so that a panic that is recovered takes exactly one counted request with
  it. The counters are cardinalities; every step moves at most one slot in or out (`Counted`,
  `NotCounted`), of `audited` and of the slots counted twice.
* `TypeCorrect`, `AccountsAreCreatedOnce`, `HandlersAreAuthorized`, `GaugeIsExact` and
  `CountersAreBalanced` follow from it, `AccountsAreKept` is proved step by step.

`AuditPipelineProofs` assumes `EventsAssumption` (no event belongs to both pools) and
`LimitsAssumption` (a batch has room for one event).

* `PipelineInvariant`: `IInv` is `TypeOK`, `SavedOnce`, `WorkerConsistent` (no event twice in a
  channel or in what is left of a batch, each in the channel of its own pool, and room in the batch
  while the worker selects), `Apart` (an event is at one place only) and `OnItsWay` (what is in
  memory is exactly what is due and not settled). `SavedOnce` needs `OnItsWay`: what is about to be
  saved was not saved before.
* `TypeCorrect` and `EventsAreSavedOnce` follow. `EventsAreAccountedFor` counts: a sequence without
  repetition holds an event once or not at all, and the places exclude each other.

`AuditTrailProofs` assumes in addition `ConsumerAssumption` (the bound of the log is a natural
number, "no offset" is not an offset).

* `TrailInvariant`: `TrailIInv` is the invariant of the pipeline, that of the consumer
  (`ConsumerIInv`), and that every record in the topic is of a saved event. `NothingSkipped` alone is
  not inductive, because a commit takes the position of the client; `NothingDropped` says of that
  position what `NothingSkipped` says of the committed offset: everything below it is handled,
  excused or in hand. `ClientConsistent` ties position, batch and committed offset together.
* `NoRecordIsSkipped` follows, `NoRecordIsRedelivered` is proved step by step, `RecordsAreOfEvents`
  joins the two ends: what the consumer can read has happened.
* `NothingEverVanishes` is the safety half of `RecordedOrGivenUp`: at every moment, whatever died or
  failed, an event that is due is `Recorded` or `GivenUp`, or somebody still has to pass it on: the pipeline (in
  memory), the outbox (a saved task that is not closed), or the consumer (a record `Ahead` of its
  position and of the committed offset). It follows from `TrailIInv` because `NothingDropped` and
  `NothingSkipped` leave no record behind those two that is not handled or excused. That whoever has
  it does pass it on is liveness, and stays with TLC.
* `TrailRunsPipeline`: the steps of the consumer and of the outbox do not disturb the pipeline, whose
  theorems therefore hold of the trail. That the outbox behaves as the trail assumes is not proved
  here: it is `WorkerKeepsPromise`, for a single worker.

`OrderCacheProofs` assumes `ProcsAssumption`, `KeysAssumption`, `BoundAssumption` and `IdsAssumption`
(the refresher is no request, the keys of the indexes are different, there are orders and users).

* `CacheInvariant`: `IInv` is `TypeOK`, `NeverAhead` (which includes that the last order accepted
  under an id is never cached for another owner), `KeptIsOver`, `RowConsistent` (what is
  remembered of the stages an id has reached agrees with its row) and `JobConsistent` (no task holds
  an order that is ahead of the table, and `IssueOrders` marks only ids that were issued). A task may
  be arbitrarily late, and its copy arbitrarily stale: the invariant survives because what has been
  reached stays reached (`Grows`), so that a stale copy never gets ahead, and because `Status` says
  little about early dates and enough (`StatusDates`): what has the status issued has an issue date. The proof takes apart the
  steps that only read, those that write the cache, and those that change the table.
* `TypeCorrect`, `CacheIsNeverAhead` and `OnlyTheOverIsKept` follow, and so does `CacheIsTrueToRow`:
  if a cached order is the one in the table, whatever is remembered of its id is about this order, so
  that a date the cache shows is a date of the row.

TLC has checked each of these inductive invariants on a small instance before it was proved.

Only model-checked: `Answered`, `Settled`, `Drained`, `Repaired`, `Delivered`,
`RecordedOrGivenUp`, `WalkEnds` and `CallsEnd` (liveness under fairness is out
of the prover's reach), and the violations.

## 5. Not modelled, and the plan

Not modelled, for good: the metrics that only grow (counters per order and per cache access, the
histograms), tracing, configuration and generated code, because nothing decides on them; password
hashing and signatures (libraries); the parsing of malformed fields, the text of answers and logs.
`GetAllOrders` and `queryOrders` of the reports' storage, and `IsMain` of the composite packaging, are called by nothing.

The ordering of audit events has no property: every event is sent by a goroutine of its own, and a
failed task is sent after younger ones, so that no order is left to state.

Every safety property that a run checks is proved. What is left are
facts the runs do not ask about: what the indexes of the cache may hold while commands get lost, and
what of the outbox survives several workers besides `FinishedIsPublished` and `AttemptsMatchStatus`.
