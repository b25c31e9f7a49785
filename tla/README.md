# Specifications of the energy plant monitoring service

This directory holds TLA+ specifications of the Go service in `src/`, the TLC
configurations that check them on small instances, and TLAPS proofs of the
properties of all its components for every value of their parameters. Names of
variables and actions follow the functions and fields of the source; every
definition that stands for code is listed with its lines in `PROJECT.json`.

## The system and its parts

Plants publish readings to a Kafka topic. The service consumes them, validates
them against the plant's master data, writes each twice (an operational and an
analytical table), keeps the latest status per plant, evaluates alert rules,
and informs operators through Telegram. Background loops aggregate hours of
readings and send the result to a webhook. A REST interface reads all of it.

| Part (source) | State it keeps | Operations | What is hard | What makes it correct |
|---|---|---|---|---|
| `KafkaService` and the Kafka adapter (`api/kafka_service.go`, `adapters/kafka/adapter.go`) | position, committed offset, retry counter, error counter, health flag, cancelled context, `stopChan` | `ConsumeEvents`, `handleWithRetry`, `sendToDLQWithCtx`, `commitOffset`, `StopConsuming`, `Close`, restart | retries racing with cancellation, two-step stop, failed commits and DLQ sends, crash, `auto.offset.reset=latest` | the committed offset passes only decided messages and never goes back; the loop ends; health tells the truth |
| Intake (`api/intake_handler.go`, `services/event_ingestion_service.go`) | none of its own; builds the entities | `HandleMessage`, `ProcessEvent`, `persistEvents` | a message counts as handled while its event is in memory; redelivery builds new entities; the writer may refuse while the loop goes on | a committed message is accounted for in both pipelines; a refused one comes again |
| `DualEventWriter` (`repositories/dual_event_writer.go`) | two channels, a batch per worker, `stopping`, `stopChan` | `SaveEventAsync(WithRaw)`, `SaveEvent`, both workers, `Stop` | flag read once and channel used later, full channels, failed batches, draining | no event lost without being counted; bounded stranding at shutdown; `Stop` returns; quiet afterwards |
| `Notifier` (`telegram/notifier.go`) | `alertChan`, `stopped`, `stopMu` | `enqueue`, `worker`, `Stop` | send on a closed channel, dropped alerts, draining while the mutex is contended | never a send on a closed channel; all queued alerts tried before `Stop` returns |
| `AnalyticsCoordinator` (`repositories/analytics_coordinator.go`) | three goroutines, WaitGroup, `stopChan`; advisory locks in PostgreSQL | `Start`, `Stop`, `doAggregation`, `doDispatch`, `tryAdvisoryLock`, `releaseAdvisoryLock` | session locks over a connection pool, `Start` racing with `Stop`, replicas | one replica per cycle while sessions live; `Stop` waits for all it knows of, and what it does not know of ends by itself |
| Webhook queue (`repositories/analytics_worker_repo.go`) | `hourly_plant_stats`, `webhook_queue` | `RecalculateDirtyBuckets`, `GetPendingWebhooks`, `GetHourlyStats`, `UpdateWebhookStatus` | aggregator and dispatcher write the same rows, attempts counted on a copy, batches | SENT means that the receiver has the current statistics; attempts bounded; every row settles |
| Webhook adapter (`http/webhook/webhook.go`) | circuit breaker | `SendPayload` | refusals count as attempts | a refusal never settles a row as sent |
| Shutdown (`container/container.go`, `main.go`) | order of calls | `Shutdown` | components stop while others still call them | nothing uses a component that is closed |
| `EnergyPlantRepository` (`repositories/energy_plant_repo.go`) | LRU cache of existence in each process, without expiry | `Exists`, `FindByID` | `Get`, `COUNT` and `Add` are three steps, taken by the consumer and by HTTP handlers; negative answers are cached too | an answer was true at some time since the process started |
| `PlantStatusRepository` (`repositories/plant_status_repo.go`) | row per plant | `Upsert` | the row is overwritten whatever it holds; retries, redeliveries, a former owner of the partition | the status is not behind what is committed |
| `AlertEvaluationService`, rules repository (`services/alert_evaluation_service.go`) | slice of rules, reload ticker | `Start`, `EvaluateEvent`, `Stop` | reload during evaluation; the loop calls the notifier in the consumer's goroutine | an event is judged by one set of rules; an evaluation ends |
| Event repositories, pagination (`repositories/event_*_repo.go`, `ports/output/pagination.go`, `rest/event_handlers.go`) | the two event tables | `Create`, `FindAll`, `FindByEventType` with a cursor, `FindByTimeRange`, aggregations | equal timestamps at the edge of a page, rows inserted between pages, ranges closed where buckets are half open, rows dropped by the retention policy while statistics stay | pages skip and repeat nothing; reports agree with the statistics as long as their rows are kept |
| Rate limiter (`rest/ratelimit.go`) | limiter and time for each client | `getLimiter`, `Middleware`, `cleanupLoop` | cleanup between lookup and use | a client never gets more than its rate |
| Example repository and handlers (`repositories/example_repo.go`, `rest/handlers.go`) | one table | create, read, update, delete | an update reads and writes the whole row in two queries | updates are atomic unless another write comes between |
| Other REST handlers, entities, mappers, configuration, metrics, tracing, receiver, docs | none that decides anything | | | |

How they interact: the consumer goroutine calls the intake handler, which asks
the cache of plants, calls the writer (channel sends) and the status repository
(SQL), and evaluates the alert rules, which call the notifier (channel send under a
mutex). The writer's workers, the notifier's worker and
the coordinator's loops are goroutines of their own; PostgreSQL is shared by
all replicas, Kafka by the consumer group. `Container.Shutdown` stops consumer,
adapter, coordinator, writer, rule evaluator and notifier in that order, then
closes the database; `main` shuts the HTTP server down last, so HTTP handlers
may still call the notifier when it stops.

## Modules

| Module | Models | Checked by | Proved in |
|---|---|---|---|
| `EventSink` | abstract: what a pipeline of the writer promises | refined by `DualEventWriter` | |
| `DualEventWriter` | the writer | `MCDualEventWriter` | `DualEventWriterProofs` |
| `KafkaConsumer` | consumer loop, adapter, brokers, restarts | `MCKafkaConsumer` | `IngestionProofs` |
| `Ingestion` | composes `KafkaConsumer` and `DualEventWriter` through the intake handler, with shutdown order and crashes | `MCIngestion` | `IngestionProofs` |
| `PlantCache` | `Exists` and its cache in each process | through `EventProcessing` | `EventProcessingProofs` |
| `EventProcessing` | `ProcessEvent` in the processes of a consumer group, over `PlantCache`, with the test endpoint, rebalances and restarts | `MCEventProcessing` | `EventProcessingProofs` |
| `TelegramNotifier` | the notifier | through `AlertEvaluation` | `AlertEvaluationProofs` |
| `AlertEvaluation` | rules, reload and evaluation, over `TelegramNotifier` | `MCAlertEvaluation` | `AlertEvaluationProofs` |
| `AnalyticsCoordinator` | goroutines and locks of several replicas | `MCAnalyticsCoordinator` | `AnalyticsProofs` |
| `WebhookQueue` | what the coordinator's cycles do to the tables, and the outcomes of the webhook adapter | `MCWebhookQueue` | `AnalyticsProofs` |
| `EventTables` | the two tables against a clock: late rows, pages, lookback window, retention, reports | `MCEventTables` | `EventTablesProofs` |
| `ClientBuckets` | abstract: one bucket for each client, admissions that take its tokens, time that brings them | refined by `RateLimiter` | |
| `RateLimiter` | limiter entries, requests, cleanup | through `RestApi` | `RestApiProofs` |
| `RestApi` | the examples endpoints behind `RateLimiter` | `MCRestApi` | `RestApiProofs` |
| `ChannelLemmas` | lemmas on bounded channels (append, remove the head) | | itself |

### DualEventWriter

`chan["op"]` and `chan["an"]` are `opChannel` and `anChannel`; `worker[w]` is
where a worker is in its loop (`select`, the drain loop, inside `flush`),
`batch[w]` its local batch. `call[e]` is the goroutine that carries an event:
`CheckStopping` reads the flag, `SendOp` and `SendAn` are the two `select` sends
with their `default` (drop, `HandleSpillover`), `SyncOp` and `SyncAn` the inserts
of `SaveEvent`, either of which may fail or be applied and reported as failed.
`Receive`, `Tick`, `SeeStop`, `DrainEmpty` and `Flush` are the workers' branches;
a flush stores the batch as a whole or not at all, and the batch is emptied in
both cases. Operational and analytical workers have the same loop in the code and
share the actions. `RaiseFlag`, `CloseStopChan` and `WaitForWorkers` are the three
parts of `Stop`. `written`, `dropped` and `discarded` keep where an event ended.

### KafkaConsumer and Ingestion

Messages are offsets of one partition. `pc` is the consumer goroutine:
`select`, `read`, `handle`, `backoff`, `dlq`, `commit`, `ended`. Handlers return
one of three outcomes: nil, a permanent error, a transient one. `StopConsuming`
is two actions, `Cancel` and `CloseConsumerStopChan`, since the loop runs
between them. `Restart` stands for a crash or the end of the process at any
point, followed by a new one that starts at the committed offset or, without one,
at the end of the log (`base`).

`Ingestion` puts the handler in the place of the outcomes: it builds a pair of
entities per attempt, hands it to the writer, and returns nil when the two sends
are done, whatever became of them, or a transient error when the writer is
stopping. Its restart loses channels and batches (`crashLost`). `refused` has the
messages whose pair a stopping writer refused, until they are delivered again.
`RefusedIsRedelivered` says where such a message is all that time: after the committed
offset, and ahead of a consumer that can still commit, in this process and in those
after it. It excepts a message that `base` has passed: with nothing committed the next
process starts at the end of the log, and the message is lost to the group.

### PlantCache and EventProcessing

`cache[r]` is the LRU of a process, the entry used last first; `lookup[c]` is
the call of `Exists` a goroutine is in. `GetFromCache`, `CountPlants` (or
`CountFails`) and `AddToCache` are separate actions since the cache is locked for
each of them only: a slow "no" may be added over a newer "yes". `CreatePlant` is
external; nothing in the code deletes a plant.

`EventProcessing` uses it in the validation of a message. `task[r]` is where
`ProcessEvent` of a process is and the attempt that `handleWithRetry` is at:
extraction (`Malformed`: not retried), `Exists` (an error and an unknown plant are
both transient), validation of the data (`Invalid`: not retried), `PersistEvents`
(refused by a stopping writer: retried), the upsert of the status (an error is
logged, never returned), commit. A rebalance gives the partition to another
process, which starts at the committed offset, while the former owner still
finishes its message. The test endpoint looks plants up in the cache of its process.
`behind` remembers the plants whose last upsert failed or came from a former
owner; `StatusNotBehindCommit` excepts them, since the code promises nothing there.
`KafkaConsumer` has the loop's other ways (DLQ, cancellation, connection errors)
and `Ingestion` what becomes of an accepted event.

### TelegramNotifier and AlertEvaluation

`send[m]` is the call that carries a message through `SendErrorNotification` and
`enqueue`; `stopMu` is the mutex, `alertChan` the buffer, `sender` the worker,
`stopPc` the caller of `Stop`. `Lock`, `CheckStopped`, `TrySendAlert` are one
action each, as other goroutines run between them.

`AlertEvaluation` puts the rule evaluator in front of it. `rules` is the version
of the slice `s.rules` holds, `judgedBy[e]` the one the evaluation of `e` has read,
`next` the rule it is at. A rule that applies calls the notifier and waits for the
call; the ticker, changes of the table, validation errors and the two `Stop`s go on
meanwhile. `Stop` only closes `stopCh` (`stopping`): a reload under way, or one whose
tick `select` takes first, still replaces the rules before the goroutine sees it
(`ReloaderEnds`). Conditions are modelled by what they do to the kinds of values: `eq`
compares the printed forms and needs no number, a string that begins with a number
reads as one, `contains` needs a string.

### AnalyticsCoordinator

Per replica: how many goroutines `Start` has launched, where each is (`loop`),
how far `Stop` has come, and whether the database is open. Per lock: the session
that holds it and how often. A session is a connection of a replica's pool, and
every statement may go over any of them: `Acquire`, `Refused`, `Release` and
`ReleaseMisses` are what the lock functions do on some connection; `Expire` is
the pool closing an old connection. `Start` runs in a goroutine of its own and
may be overtaken by `Stop`, hence `Launch` for each goroutine. `StoppedIsQuiet` is
about the goroutines launched before `Stop`; those launched behind its back
(`lateLoops`) find `stopChan` closed or the database gone, and `LateLoopsEnd` says
that they end.

### WebhookQueue

`events`, `stats` count the events in the analytical table and in the statistics
of a bucket (an hour of a plant); `row` is `webhook_queue`, `created` the order
of its `created_at`, which rows inserted by one statement share. The aggregator is one atomic statement. A dispatcher copies the
pending rows into `job[d].todo` and works through them: statistics, send,
update. A second dispatcher begins beside the first only by consuming `lost`,
the loss of a session, which is what `AnalyticsCoordinator` shows. Time is
`LeaveWindow` (the lookback window) and `RetryDue` (`next_retry_at`).
`UpdateWebhookStatus` has two statements when it retries. The first (142) only reads the
attempts for the length of the backoff, which is abstracted; the row is written by the
second (160) alone, with `attempts + 1` taken from the row. `Updated` is that write, and
a failure of either is `UpdateFails`.

### EventTables

A copy is one time that a message was processed: copies of a message share the id,
and each has a `created_at` of its own. `BuildEvent` stamps it, `StoreOperational`
and `StoreAnalytical` insert the rows later, in any order or never, with the
conflict target of each table. A client's listing goes page by page over the
operational table; `NormalizePageQuery`, the keyset condition `AfterCursor` and the
extra row for `HasMore` are the code's. `RecalculateDirtyBuckets` counts every
hour with a row in the lookback window. `InTime` and the guard of `Tick` say when
the window is wide enough: the delay from `created_at` to the insertion plus the time
between two successful cycles is at most `Lookback`. In the code the window is ten
minutes, a cycle comes every five by default, and a row waits for a batch of at most
two seconds: the assumption holds as long as every cycle succeeds (the advisory lock
may go to another replica, which is a success too). After one that failed the gap is
as wide as the window, and a row stamped before and stored after the cycle before it
is counted only when its hour gets another row.

`DropChunk` is the retention policy of the migrations: a chunk of the analytical table,
a day, goes with all its rows once it ends before the time that is kept (90 days), while
`stats`, which has no policy, stays. `counted` remembers the rows a cycle has met,
dropped or not. `ReportAgreesWithStats` asks for reports over every range of instants,
also one that ends on the first instant of a bucket, which the closed range includes: a
bucket wholly in the range has in the report what it has in the statistics or, when its
chunk is past the retention, nothing; a bucket at the edge has no more. The rows of that
first instant are reported under their own bucket, so an hour's report may have a line
more than the hour, but no count of the hour is off. Once chunks are dropped, reports and
statistics differ for good; the property says that they do so only in this way.

### RateLimiter and RestApi

A request looks its limiter up under the mutex and asks it for a token later, so
a limiter may have been removed by the cleanup while a request holds it. Time is in
units of a token. `Patience` is an assumption on the run time, not a guard of the code:
the lookup and `Allow` are adjacent statements, and a request is taken not to stand still
between them for as long as ten minutes. With `Patience + Burst <= cleanupAge` (20 tokens
at 100 per second against these ten minutes) an entry that is removed is a full and unused
one. `Buckets` maps the state to `ClientBuckets`, where a request is admitted only by a
token of its client's bucket, once, and tokens come only with time: a limiter that admits
from a detached bucket, or without a token, is no behaviour of it.
`HandledWithinRate` carries the limit to the handlers, for any stretch of time up to now.

`RestApi` lets admitted requests run the handlers of the examples endpoints.
`FindForUpdate` and `SaveExample` are the two queries of `UpdateExample`; `serial`
is the table as it were if each update were one step.

## Runs

| Run | Instance | What it shows |
|---|---|---|
| `writer` | 2 events, one with raw data, 2 + 1 workers, channels of 1, batches of 2, 1 caller | `Conservation` (every event in one place however batches fail), `StrandedOnlyByRace` and `StrandedBound` (at shutdown only events of calls that raced with `Stop` stay behind, at most one per caller), `SyncOperationalFirst`, both pipelines implement `EventSink` (`PipesAreSinks`), `StopReturns`, `EnqueuedSettles` |
| `consumer` | 3 messages, one not JSON, 2 retries, 1 tolerated connection error, 2 restarts | `CommitPassesOnlyDecided`, `CommittedNeverRewinds`, `UnhealthyIffEnded`, `DeliveryEnds`, `StopEndsLoop` |
| `ingestion_accounts` | 2 messages, 2 attempts each, 1 + 1 workers, 1 restart | `CommittedIsAccounted`, `RefusedIsRedelivered` |
| `ingestion_live` | 1 message, 2 attempts, 1 restart | `CommittedReachesTables` |
| `ingestion_loss_doc` | as `ingestion_accounts` | violated: "at-least-once delivery semantics" |
| `processing` | 2 processes and a test handler in one of them, 3 messages of one plant, the first with invalid data, 2 plants, one of them there from the start, cache of 1, 1 retry, 1 rebalance or restart | `AnswersJustified` (what the cache says was true since the process started), `StatusNotBehindCommit`, `AcceptedOncePerDelivery` |
| `telegram` | 2 events, 3 sets of 2 rules, 1 message from elsewhere, channel of 1 | `NeverSendOnClosed`, `StoppedIsDrained`, `JudgedByOneRuleSet`, `NotifierStops`, `EvaluationEnds` |
| `coordinator` | 2 replicas with 2 and 1 connections, locks taken up to twice, webhooks disabled as by default | `ExclusiveWhileSessionLives`, `StoppedIsQuiet`, `CoordinatorStops`, `LateLoopsEnd` |
| `webhook_queue` | 2 rows, one of which may change once, 2 dispatchers, 1 attempt, batches of 2, 1 lost session, 1 crash | `SentIsCurrent`, `FailedIsExhausted`, `AttemptsBounded`, `SettledStays` |
| `webhook_live` | 2 rows, 1 dispatcher, 2 attempts, batches of 1, 1 crash | `QueuedSettles` |
| `tables` | 4 copies of 3 messages, pages of 1 and 2, with and without a type, hours of 2 units and days of 4, window and retention of 2, 7 instants; one copy and the listings only in the first two | `PagesAreOneListing`, `NothingMissed`, over a dropped chunk too, `ReportAgreesWithStats` for every range |
| `rest` | 4 requests of 2 clients (two updates of a row, a deletion, a creation), bursts of 2, entries stale after 3 units, 5 instants | `SerialUnlessRaced`, `HandledWithinRate`, the limiter implements `ClientBuckets` (`IsClientBuckets`) |

All type invariants are theorems. Only those of `EventProcessing` and `EventTables`
are part of a run as well: they say more than ranges (a cache is within its size and
holds no plant twice, the operational table has one row for an id).

Why the bounds are enough: the hazards are about one or two events (or
messages, rows, requests) meeting each other and one shutdown or crash. A channel of one
is full after one event and a batch of two is written both when it is full and
when a ticker finds it half full; two workers of a pipeline compete; two
connections are what it takes to unlock on the wrong one; a restart is followed
by a second shutdown in `consumer`; a batch of one makes a row wait for another in
`webhook_live`, a batch of two lets a dispatcher work from an old copy in
`webhook_queue`. A cache of one evicts with every other plant, and two processes
with one handler besides are what it takes for an old answer to overtake a new one
and for a former owner to write after its successor; a message without a
`plant_source_id` ends as one with invalid data does, only earlier, and is not in the
instance. Two instants make
rows of an instant share a page's edge, with a third message to come between two pages.
Hours of two and a window of two make an hour go on after a cycle has counted it; seven
instants, days of four and a retention of two let the first day be dropped while the
second has rows. The constraint `Bounded` of `MCEventTables` ends the listings and takes
the fourth copy away after the first two instants, since reports and statistics do not
depend on listings: without it the product of the two is out of reach.
An entry of the limiter becomes stale, is removed, and its client comes back
within five instants.
The symmetry of dispatchers is used only in `webhook_queue`,
which checks no liveness. `CHECK_DEADLOCK FALSE` is set since every component
may stop for good. For safety the bounds matter only to find out cheaply what holds,
as the proofs cover every size; for liveness they are all there is.

### Fairness

* Writer, ingestion: weak fairness of each worker's step and, for `StopReturns`,
  of a `Stop` that was begun and of calls under way: goroutines are scheduled, tickers fire and
  database calls return. Nothing is assumed of callers or of the select's choice.
* Consumer: weak fairness of the loop as a whole and of the shutdown that has
  begun; reads time out, timers fire, the handler returns. Neither
  successful commits nor reachable brokers are assumed.
* Rule evaluation and notifier (`FairAlertSpec`): strong fairness of a call and of
  `Stop` for the mutex, which Go's mutex gives in its starvation mode; weak fairness
  of the worker and of an evaluation under way. Nothing is assumed of reloads, of
  callers, or of Telegram but that a request ends, by its time limit if need be.
* Coordinator: weak fairness of the cycles and of a shutdown; strong fairness
  of seeing `stopChan`, since `select` chooses at random between it and a ticker.
  Nothing is assumed of connections: that a lock an unlock has missed is freed when
  the pool closes its connection would only restate such an assumption.
* Webhook queue: weak fairness of time and of a dispatcher's cycle, strong
  fairness of a successful update, that is, the database does not refuse every
  one of infinitely many updates. Nothing is assumed of the receiver, and
  crashes within a cycle are bounded by `MaxCrashes`.
* `EventProcessing`, `EventTables`, `RestApi`: safety only, without fairness.

## Proofs

All theorems hold for any events, messages, workers, processes, buckets or requests
and for any sizes that satisfy the named assumptions (`WriterAssumption`,
`ConsumerAssumption`, `IngestionAssumption`, `CacheAssumption`,
`ProcessingAssumption`, `NotifierAssumption`, `EvaluationAssumption`,
`CoordinatorAssumption`, `QueueAssumption`, `TablesAssumption`,
`LimiterAssumption`, `RestAssumption`), which TLC evaluates in the runs. Sets are
assumed finite only where something is counted over them (events of the writer,
processes of a group, buckets and dispatchers, requests). Every safety property of a
run is a theorem; each inductive invariant was checked by TLC on its run's instance
before it was proved.

* **Writer** (`DualEventWriterProofs`). The inductive invariant `WriterInv` is
  `TypeOK`, `RoomForNext` (a worker that waits for an event has room in its batch),
  `Conservation`, `Drained` (workers drain only after `stopChan` is closed; one that
  has left has an empty batch, and its channel holds only late events) and
  `SyncOrder` (between its two inserts `SaveEvent` has written the first).
  `RoomForNext` is needed since a full batch is noticed after the append; `Drained`
  says before `Stop` returns what `StrandedOnlyByRace` says afterwards. From it
  follow `WriterTypeCorrect`, `EventsConserved`, `OnlyLateEventsStranded`,
  `SaveEventOrder` and the action property `QuietAfterStop`.
  Under the mapping in `DualEventWriter` (pending: channel and batches; stored,
  lost) every step of a pipeline is a step of `EventSink` or a stutter:
  `PipelinesAreSinks`. A race with `Stop` strands at most `MaxCallers` events per
  pipeline (`AtMostOnePerCaller`), by relating late events to calls that were under
  way when the flag was raised, with the library's theorems on cardinalities.
* **Consumer** (`IngestionProofs`). `ConsumerInv` is `ConsumerTypeOK`,
  `LoopCounters`, `UnhealthyIffEnded`, `LoopPosition` (what position and the
  commit that comes next have to do with each other) and
  `CommitPassesOnlyDecided`. Theorems: `ConsumerTypeCorrect`,
  `CommitsOnlyDecided`, `HealthIsTruthful` and the action property
  `OffsetNeverRewinds`.
* **Intake** (`IngestionProofs`). `IntakeIsConsumer`: each step of the composition is a
  step of `KafkaConsumer` or a stutter, so the consumer's theorems hold with the real
  handler. `IngestionInv` adds to `ConsumerInv` and the writer's types what each side
  knows of the other: the pair being persisted belongs to the message in the handler
  (`PairInHand`), a call leaves its event in every pipeline it has passed
  (`CallsArePlaced`), what was answered with nil is in both (`HandledIsPlaced`). An
  event once placed stays placed, whatever workers, `Stop` or a crash do, hence
  `CommittedAreAccounted`. For `RefusedAreRedelivered` the invariant says that the writer
  stops only when the adapter is closed (`ClosedBeforeStop`), since `Shutdown` calls them
  in this order, and a closed adapter commits nothing (`ClosedStaysClosed`). So a refused
  message, which is at the loop's position when it is refused, stays after the committed
  offset, and a new process starts before it, or at `base` behind it (`WithinLog`).
* **Plants and processing** (`EventProcessingProofs`). `AddedKeeps` is the lemma on the
  LRU list: what is in it afterwards is the entry added or was there, each plant once,
  within the size. `CacheIsTrue` then says that entries and answers under way are
  justified; plants are never deleted and a process starts with some of them, so a
  late "no" stays justified (`AnswersAreJustified`). `CommitsInOrder`: the owner of the
  partition is at or past the committed offset, and a task that has done its upsert
  leaves its plant with this message's status or a later one, or marked as behind;
  `StatusKeepsUp` is part of it. `HandOversPaid` counts: the hand-overs of a message
  and the processes that are on the way to one are together at most its deliveries, so
  a retry, which sets out again, needs that the attempt before it did not hand over
  (`HandedOverOncePerDelivery`). `ProcessingTypeCorrect` is `TypesOfProcessing`.
* **Event tables** (`EventTablesProofs`). The listing is defined by rank, the number of
  newer rows; `RanksGrow` and `NewestFirstLists` show that this lists any finite set of
  rows in order, each once. `ListingInOrder` says that rows read are in order and that
  a row of the beginning that is not read yet is older than the cursor, whatever is
  inserted meanwhile (`PagesMakeOneListing`). `CountsExact` says that a row that is
  stored after a cycle is not older than `MaxDelay` before it; with the bound on the gap
  between cycles an hour outside the window has nothing uncounted (`QuietIsCounted`),
  hence `CyclesMissNothing`. It also says that a row that is gone was counted and that its
  day has no row left and gets none (`InTimeIsKept`: the retention is longer than a row's
  delay), so an hour that is recounted has all its rows (`HourIsWhole`).
  `ReportsAgreeWithStats` adds up a report's counts of a bucket as the number of their
  units (`TotalOfParts`, `ReportCounts`) and compares the bucket, half open, with the closed
  range (`BucketAsCounted`); days are made of whole hours (`HourWithinDay`).
* **Notifier** (`AlertEvaluationProofs`). `NotifierInv` ties the mutex to the
  places inside it, the flag to the closed channel and the worker's end to the
  empty channel. Theorems: `NotifierTypeCorrect`, `NoSendOnClosedChannel`,
  `StopDrainsNotifier`, `AlertsAreAccounted`.
* **Coordinator** (`AnalyticsProofs`). `CoordinatorInv` is
  `CoordinatorTypeOK`, `StoppedIsQuiet` and `CycleHasLock`: a cycle whose session
  has lived since it began has the lock on some session of its own replica. A
  lock has one session at most, so two such cycles are one (`LocksExclude`, for
  any number of replicas and connections). Also `CoordinatorTypeCorrect` and
  `QuietAfterCoordinatorStop`.
* **Rule evaluation** (`AlertEvaluationProofs`). `AlertsUseNotifier`: every behaviour
  of `AlertSpec` is one of `NotifierSpec`, so the notifier's theorems hold under the
  evaluator, other callers and the order of the two `Stop`s. `JudgedBySliceRead`
  rests on `JudgedOnce`: the rule the loop is at has not called the notifier, and what
  it has passed has, exactly where it applies. `EvaluationTypeCorrect`: the loop
  stays within the slice it has read.
* **Webhook queue** (`AnalyticsProofs`). `QueueInv` says what a dispatcher's copy
  has to do with its row: a cycle has each row once (`TodoIsQueued`), a copy has no
  more attempts than its row unless the row was requeued (`CopiesFollow`), and what is
  about to be sent or written rests on statistics that were read while the row was as it
  is (`VerdictIsRight`). With it `StatisticsArrive`, `FailedAfterAllAttempts` and
  `QueueTypeCorrect`. For the number of attempts the sum of a row's attempts and of
  the dispatchers that may still add one is bounded (`TriesLeft`): a cycle that begins
  alone finds none of them, one that begins beside another is counted by `lost`, and an
  update that counts an attempt leaves their number one less. `AttemptsAreBounded`
  follows, and `SettledIsFinal` from `AloneIsUnsettled`: without a lost session there
  is one cycle and all its rows are unsettled.
* **Limiter and examples** (`RestApiProofs`). `LimiterInv` says, beside the
  types, that a limiter held by a request is that of its client's entry, seen not
  long ago (`HeldIsCurrent`), that clients share none (`OwnLimiter`), and that a
  limiter has been refilled since its entry was last seen (`Refreshed`). So what the cleanup removes is full and held by
  nobody, and `LimiterIsClientBuckets` is a refinement proof step by step: time to
  `Pass`, an admission to `Admit`, everything else to a stutter.
  `HandlersWithinRate` counts the requests admitted since any instant against the tokens
  spent since (`TokensSpent`); `UpdatesAreSerial` needs that a row not raced is the one read.

Only model-checked: the liveness properties (`StopReturns`, `EnqueuedSettles`,
`DeliveryEnds`, `StopEndsLoop`, `CommittedReachesTables`, `NotifierStops`,
`EvaluationEnds`, `CoordinatorStops`, `LateLoopsEnd`, `QueuedSettles`), which need
fairness and `ENABLED` and are out of the prover's reach. Three operators have the
form they have for the sake of the proofs: what a cache keeps is a removal at an
index, a page is sorted by rank, and a sum is the size of a set of units. The
operators for these in the community modules are recursive or opaque to the
prover, and mean the same.

## Where comments and code disagree

The run `ingestion_loss_doc` shows one as a counterexample: at-least-once delivery
(`adapter.go` 85), while an offset is committed with the event still in memory.
Others follow from the source and have no run:

* A message whose processing was cancelled "will be redelivered" (`kafka_service.go`
  198), while a group that has not committed yet starts at the end of the log (`main.go`
  74), behind it; `RefusedIsRedelivered` excepts this case.
* `Stop` speaks of "draining all pending events" (`dual_event_writer.go` 542); a
  call that has passed the flag test (175) may enqueue after the last worker has left.
  `StrandedBound` says how many.
* Permanent errors "go directly to the DLQ" (`errors.go` 12), but a message that is
  not JSON is logged and committed (`kafka_service.go` 97).
* A message whose retries were cancelled may also miss its redelivery in a group that
  has committed: between the cancelled context and the closed `stopChan` (285) the loop
  may read and commit the next one.
* Transient errors "may succeed on retry" (`errors.go` 38); for a plant that was looked
  up before it was created they cannot while the cached "no" stays, as the entry has no
  expiry (`energy_plant_repo.go` 60).
* `EvaluateEvent` is "called asynchronously" (`alert_evaluation_service.go` 75); it is
  called in the consumer's goroutine.
* `SaveEventAsync` says that full channels spill to the DLQ, but passes no raw
  message, and `handleSpillover` does nothing without one (lines 168 to 211).
* `IsConsumerHealthy` speaks of a running goroutine; a failed subscription ends
  `ConsumeEvents` and leaves it true (`kafka_service.go` 121 to 129, 278).
  `UnhealthyIffEnded` has this exception.
* A DLQ send that fails is logged and the offset committed (103, 193).
* Message IDs are deterministic, but each attempt has a `created_at` of its own,
  so `ON CONFLICT (created_at, id)` does not recognise a redelivered message's
  analytical row (`event_ingestion_service.go` 55, 238).
* `tryAdvisoryLock` returns false "if another replica holds it"; after an unlock
  on another connection the replica is refused by its own session
  (`analytics_coordinator.go` 170, 182), until the pool closes that connection.
* The backoff is said to have a jitter of ±33%; it is only ever positive
  (`analytics_worker_repo.go` 146 to 152).

* A message that is processed again has one row in the operational table and two in
  the analytical one, so statistics and reports count it twice; they agree with each
  other, which is what `ReportAgreesWithStats` says as long as the rows are kept.

## Not modelled, and the plan

Written in this order: the writer and its sink, the consumer, their composition,
the notifier, the coordinator, the webhook queue; then plants and processing, rule
evaluation over the notifier, the event tables, limiter and examples, the proofs
for queue, evaluation, limiter and examples, and those for the intake path, processing
and event tables. What is left:

1. A delivery specification that `Ingestion` implements: each message ends in tables,
   DLQ or a counted loss. `CommittedAreAccounted` is its safety part; the abstraction
   would state what a single step may do with a message.
2. `EventProcessing` shown to implement `KafkaConsumer`'s retries for the partition's
   owner, as `IntakeIsConsumer` does for `Ingestion`.
3. The circuit breaker's own state. A refusal is an outcome of sending in
   `WebhookQueue`, which needs no more: the breaker is a library's, is asked once
   for each attempt, and nothing reads its state.

Not modelled, and not planned: `SendEvent` (a plain produce that no handler of the
service decides anything on), handlers that run one query and format the answer, the
router and middleware other than the limiter, mappers and entities, configuration,
metrics and tracing, the development receiver, generated docs and migrations other than
the retention policy. They
keep no state, or none that a decision reads.
Left out within modelled parts: the contents of rows, payloads and messages, the
COPY protocol (a batch is one transaction in the code too), log output,
metrics, topics without a handler, the limiter's goroutine that is never told to end,
and the time limits of HTTP calls and of the HTTP server's shutdown.
