# Acheron in TLA+

Specifications, model-checking runs and proofs for the event platform in `src/`:
a FastAPI process that accepts events on `POST /events`, keeps them in a bounded
in-process queue, writes them in batches to MongoDB, copies them to Elasticsearch
through an outbox, and uses Redis for rate limits, idempotency keys and a cached
summary. Every line number below is one of `src/app/`.

## 1. The system

| part | state it keeps | operations | talks to |
|---|---|---|---|
| event queue, `queue/event_queue.py` | an `asyncio.Queue`: its items, its blocked getters, its count of unfinished tasks | put_nowait, get, get_nowait, task_done, join, full | put by the ingestion service, drained by the workers, joined by the shutdown |
| ingestion service, `ingestion/service.py` | the flag `_accepting` | ingest, stop_accepting | called by `create_event`; fills the queue |
| worker pool, `worker/consumer.py` | N consumer tasks, the stop event, counters | start, `_consume`, `_process_batch`, stop | queue, MongoDB store, dead-letter queue |
| dead-letter queue, `queue/dlq.py` | the in-memory buffer `_unpersisted`, the count `_recorded` | push, push_many | called by the workers; persists through the MongoDB store |
| MongoDB store, `storage/mongo.py` | the collections events, dead_letter, rollups | bulk_write, persist_dead_letters, fetch_unindexed, mark_indexed, list/get/delete_dead_letter, find_events, aggregations | MongoDB |
| Elasticsearch indexer, `worker/es_indexer.py` | one task; the outbox marker is in MongoDB | start, `_run`, `_index_pending`, stop | MongoDB store, Elasticsearch store |
| Elasticsearch store, `storage/es.py` | `_mapping_ready`; the index | ensure_mapping, bulk_index, search | Elasticsearch |
| Redis cache, `cache/redis_cache.py` | keys with a TTL, hit and miss counts | get_or_set, check_rate_limit, check_idempotency | Redis; called by the events API |
| rollup scheduler, `worker/rollup.py` | one task; a document in MongoDB | start, `_run`, `_refresh`, stop | MongoDB store |
| events API, `api/routes_events.py` | none | POST and GET /events, stats, realtime, search, dlq, replay | all of the above |
| lifespan, `main.py` | the wiring | startup, shutdown | all of the above |
| health and metrics API, settings, schemas, logging | none | reads | – |

How they interact. A `POST /events` passes the rate limit (Redis), then the
idempotency check (Redis), then `ingest` (the queue); nothing of it touches MongoDB.
The workers are the only writers of new events, the dead-letter replay the other
one. The indexer and the rollup read what the workers have written; the indexer
marks it. Everything in memory (queue, batches, dead-letter buffer) ends with the
process; MongoDB, Elasticsearch and Redis survive it.

What is hard here:

- *Interleaving on one event loop.* There are no threads, but every `await` lets
  the other tasks run: what was read before it can be stale after it
  (`push_many`, `get_or_set`, `check_idempotency`, replay).
- *Accounting across tasks.* `join()` counts `task_done()` calls made by N workers
  in `finally` clauses, through retries, dead-lettering and cancellation.
- *Partial failure.* A driver call may raise and have written some documents, or
  return and have swallowed write errors; a cancelled call may still be applied.
- *Crashes and restarts.* The outbox has to be correct if the process ends
  between any two calls.
- *Time.* Counters, keys and summaries in Redis expire between the calls that set
  and read them; the clock that names a rate-limit window is read before the
  counter is incremented.
- *Reads in several queries.* A page and its total, a scan and the write of its
  result, one page and the next: inserts and deletes come in between.
- *Boundaries.* A full queue, exhausted retries, a drain timeout, an unbounded
  buffer, the edge of a page.
- *Something must eventually happen.* Accepted events leave the pipeline,
  shutdowns end, Elasticsearch, the rollup and the realtime summary catch up.

What makes each part correct:

| part | properties |
|---|---|
| queue, workers | no event is held twice; `join()` counts what is held; no wake-up is lost; a drain that ends has left nothing; an accepted event settles; the metrics add up |
| dead-letter queue, MongoDB store | what was accepted is in a collection, in memory or given up on purpose, also through replays and restarts |
| replay | a record goes only when its event is stored |
| indexer, Elasticsearch store | marked means indexed; no dynamic mapping; every stored event is indexed in the end |
| Redis cache | a conflict is real, an accepted body is stored; the limit of a window holds and nobody is rejected for the requests of others; a stale summary does not survive |
| rollup | the statistics do not go backwards; a failed refresh is made up for |
| listings | a walk through the pages is complete, or misses no more than was deleted |
| lifespan | no client is used when it is closed; nothing is left running; the shutdown ends |

`PROJECT.json` lists each hazard at its line, with the property that covers it or
the reason why none does.

## 2. The modules

| module | models | extends |
|---|---|---|
| `Events` | what is passed around: submissions, event ids, the ids that cannot be encoded or may be refused | |
| `EventQueue` | `queue/event_queue.py` and the getters of `asyncio.Queue` | `Events` |
| `MongoStore` | the two collections and the two inserts of `storage/mongo.py` | `Events` |
| `DeadLetterQueue` | `queue/dlq.py` | `MongoStore` |
| `WorkerPool` | the composition: POST /events, `worker/consumer.py`, the shutdown | `EventQueue`, `DeadLetterQueue` |
| `MCWorkerPool` | instances of it for TLC | `WorkerPool` |
| `WorkerPoolProofs` | theorems about it | `WorkerPool` |
| `Delivery` | abstract: what a 202 promises; `WorkerPool` and `Platform` implement it | `Events` |
| `DeliveryProofs` | the first of these two refinements | `WorkerPoolProofs` |
| `DlqReplay` | `POST /events/dlq/{event_id}/replay` beside the pipeline | `WorkerPool` |
| `MCDlqReplay` | instances of it for TLC | `DlqReplay` |
| `Platform` | pipeline and replays across restarts of the process | `DlqReplay` |
| `MCPlatform` | an instance of it for TLC | `Platform` |
| `PlatformProofs` | theorems about `DlqReplay` and `Platform`, the second refinement among them | `Platform`, `DeliveryProofs` |
| `Mirror` | abstract: an eventually consistent copy of a store | |
| `EsIndexer` | `worker/es_indexer.py` with `ensure_mapping` and `bulk_index` of `storage/es.py`; it implements `Mirror` | |
| `EsIndexerProofs` | theorems about it | `EsIndexer` |
| `Idempotency` | `create_event` with `check_idempotency` of `cache/redis_cache.py`, and the insert that keeps the first document of an id | |
| `MCIdempotency` | instances of it for TLC | `Idempotency` |
| `IdempotencyProofs` | theorems about it | `Idempotency` |
| `RateLimit` | the dependency `_enforce_rate_limit` with `check_rate_limit` of `cache/redis_cache.py` | |
| `MCRateLimit` | an instance of it for TLC | `RateLimit` |
| `RateLimitProofs` | theorems about it | `RateLimit` |
| `Stats` | `refresh_event_type_rollup`, `get_or_set` for the realtime summary, the unfiltered `GET /events/stats` | |
| `Lifespan` | `lifespan` of `main.py` with `worker/rollup.py`, around `Stats` | `Stats` |
| `LifespanProofs` | theorems about both | `Lifespan` |
| `Paging` | `find_events` and `list_dead_letters`, page by page | |
| `MCPaging` | an instance of it for TLC | `Paging` |
| `PagingProofs` | theorems about it | `Paging` |

`EventQueue`, `MongoStore` and `DeadLetterQueue` declare the variables and the
operations of their components; `WorkerPool` joins the operations into the steps
of the tasks. Definitions named "Faulty variant" are not part of a specification:
each is the definition that follows it with a plausible bug, kept to show that the
properties tell the two apart.

### The pipeline (`WorkerPool`)

All of the pipeline runs on one event loop, and a task keeps the loop from one
`await` to the next. So an action is *one resumption of one task*, with everything
it does until it suspends again. A worker that returns from `mongo.bulk_write`
acknowledges its batch and, in the same step, finds its next batch or blocks:
that is `WriteOk` with `Finish` and `Poll`. `pc[w]` names the `await` at which
worker `w` is suspended.

| action | code |
|---|---|
| `Accept`, `RejectFull`, `RejectClosed` | `create_event` from `service.ingest` on: 202, 429, 503 (`ingest` has no await, so it is one step with the answer) |
| `Resume` | `get()` returns to a worker that a put has woken; the queue may be empty by now, then `get()` blocks again |
| `GetTimeout` | the one-second `wait_for`; the worker exits if the pool stops, else it goes on |
| `WriteOk`, `WriteFail`, `BackoffOver` | the retry loop of `_process_batch`, attempts 0 to `MaxRetries` |
| `PersistOk`, `PersistFail` | `push_many` after its await |
| `Stop`, `Drained`, `DrainTimeout` | the shutdown half of `lifespan` and `WorkerPool.stop` |
| `Cancel` | a cancelled task unwinds through its `finally` |

Modelling decisions:

- *Getters.* `getters` is the set of workers blocked in `get()`. A put takes one of
  them out (`asyncio.Queue._wakeup_next` resolves its future); it takes nothing
  until its task runs. If its `get()` is cancelled or times out in between and the
  queue is not empty, the wake-up is passed on (`AbandonGet`). asyncio wakes the
  getters in the order they came; the model wakes any of them, which is more
  behaviour, not less. `wait_for` is that of Python 3.12 (it awaits in the same
  task).
- *Start.* `Init` is the state once every consumer has reached its first `get()`:
  the tasks are created before the application serves (main.py:90, 114).
- *Requests before shutdown.* `RequestsSettled` guards `Stop`: the server finishes
  the running requests before the shutdown half of `lifespan` begins, so a worker
  woken by the last put has run. `RejectClosed` is kept for a request that is
  handled after `stop_accepting` all the same.
- *MongoDB.* The collections are sets of `_id`s. `BulkWrite` is a call that
  returns: every id is in the collection, except those MongoDB answered with a
  write error that is no duplicate, which is swallowed like one (`Refusable`,
  remembered in the history variable `refused`). `BulkWriteFails` is a call that
  raises, or is cancelled: any part of it may have been written, unless the batch
  holds a document that cannot be encoded (`Unencodable`), where encoding fails
  before anything is sent.
- *Dead-letter queue.* `pending[w]` is the local variable of the `push_many` that
  worker `w` is inside of. The history variable `racedFailure` notes that a persist
  failed while another `push_many` was suspended.
- *Left out.* Bodies of events, log lines, the length of a backoff, the counters
  `batches_processed` and `retries`.

`Delivery` is the promise without the machinery: an accepted submission is
*inside* until its id is *safe* or it is *excused*; only what is inside becomes
safe; safe stays safe. `WorkerPool` implements it with
`inside <- Held`, the buffer and the lists of suspended `push_many` calls,
`safe <- stored \cup dead` and, as excuses, a drain that timed out, a refused id and
a raced failure.

### The outbox (`EsIndexer`)

An event is the rank of its `received_at`, by which `fetch_unindexed` sorts;
`Store(e)` lets them arrive in any order (retries and several workers reorder
them). `pc` names the call that the indexer awaits. Every call may fail with or
without its effect (`PassFails`, `HalfDone`), and the process may end during every
call (`Halt`: a crash, or `stop()`, which cancels the task) and start again
(`Start`: `ensure_mapping` is tried, its failure tolerated, main.py:67-75).
`esIndex` says whether the index is absent, created with the explicit mapping, or
auto-created by a bulk write that did not find it.

| action | code |
|---|---|
| `Store` | a worker's insert of the event with its marker |
| `Start` | startup in `main.py`: `ensure_mapping`, then `ESIndexer.start` |
| `Fetch` | `fetch_unindexed` in `_index_pending`; an empty batch ends the pass |
| `CheckMapping`, `CreateMapping` | the two calls of `ensure_mapping`, made first by `bulk_index` |
| `BulkIndex` | `async_bulk`; items that fail are logged and skipped |
| `MarkIndexed` | `mark_indexed`, and whether the loop sleeps |
| `PassFails`, `Wake` | the handler and the wait in `_run` |
| `Halt` | the process ends |

`Mirror` is the promise: an event is committed in the source, then copied any
number of times, then acknowledged. `EsIndexer` implements it with
`source <- stored, copy <- indexed, acked <- marked \ Rejectable`. The exception is
what the code does against its documentation: an event whose bulk item fails is
logged, skipped and marked like the others (section 3, "Further things seen").

### Replay of dead letters (`DlqReplay`)

`DlqReplay` adds replay requests to the steps of `WorkerPool`. Each names one
event id and makes three calls to MongoDB, between which the workers and the
other replays go on.

| action | code of `replay_dead_letter` |
|---|---|
| `FindRecord` | `get_dead_letter`: found, not found (404), or the driver raises (503) |
| `Rewrite`, `RewriteFails` | `bulk_write` of the event, which also returns if MongoDB refuses the event |
| `DeleteRecord`, `DeleteFails` | `delete_dead_letter`, with or without effect if it raises |

`ReplaysSettled` guards `Stop` for the reason that `RequestsSettled` does: a
request that is being served is over before the shutdown half of `lifespan`.

### Restarts (`Platform`)

`Platform` adds one action to pipeline and replays: `Restart`, at any moment, be it
a crash in the middle of a call or a start after a graceful shutdown. Queue,
batches, buffer and counters are new (`Forgotten`); `stored` and `dead` survive;
the replays under way have failed for their clients. Each call in flight has been
applied in full, in part or not at all by the time the new process serves:
`Inserting`, `Persisting` and `Deleting` are what it may still do. What only
memory held joins `dropped`. A submission is one request, so a client that
retries after a crash is another submission with the same event id.

### Idempotency keys (`Idempotency`)

Each request is at one of its awaits; `claim` is what Redis holds under a key.

| action | code |
|---|---|
| `Unkeyed` | no `Idempotency-Key`: no check |
| `Claim` | `SET NX` of `check_idempotency` |
| `Compare` | its `GET` and the comparison: a replay goes on, a conflict is answered 409 |
| `CheckFails` | either call raises; the check fails open |
| `Expire` | the TTL of a key runs out in Redis |
| `Ingest` | `service.ingest`: 202, 429 or 503, chosen freely, as the queue is not modelled here |
| `Insert` | a worker's insert, in any order; a repeated `_id` is skipped |

A fingerprint is the body itself, as a hash of what the client has set; that two
bodies have one hash is left out. The history variable `forgotten` holds the keys
whose claim has expired, or for which a check failed open: the code promises
nothing for those (config.py:43-45 documents the window of a key). That a key and
a request have different event ids is an assumption: one is a uuid5, the other a
uuid4.

### The rate limit (`RateLimit`)

`_enforce_rate_limit` runs before the handler, so this model ends where
`Idempotency` begins and that one where `WorkerPool` begins. They are three models
and not one: they share no state, and each is as large as TLC takes.

| action | code |
|---|---|
| `Unlimited` | `rate_limit_per_minute <= 0` |
| `ReadClock` | `int(time.time()) // window_seconds`, which names the counter |
| `Incr` | `INCR`: the first request goes on to `EXPIRE`, the others are let through or answered 429 |
| `Expire` | `EXPIRE`, sent by the first request only |
| `IncrFails`, `ExpireFails` | the call raises, with or without its effect; the request is let through |
| `Tick` | time passes; keys whose TTL ends are gone |

Time is counted in ticks, `Window` of them to a window, and the clock starts at any
tick: the TTL starts with the first request, so it reaches into the next window.
The clocks of Redis and of the application are taken to run at one rate. A Redis
that restarts and forgets its counters is left out: the limit starts from zero
then, as it does when the check fails open.

### Statistics and the life of the service (`Stats`, `Lifespan`)

A count is its total. `Counts(before)` is what an aggregation may return that began
when there were `before` events: each insert that it overlaps is seen or not.

| action | code |
|---|---|
| `BeginRefresh`, `CountForRollup`, `WriteRollup`, `AbandonRefresh` | `_refresh`: the aggregation, the upsert, a call that raises or is cancelled |
| `Hit`, `Miss`, `CountForReader`, `SetSummary`, `ReaderFails` | `get_or_set` for `GET /events/stats/realtime` |
| `AskRollup`, `AskLive`, `AnswerLive` | the unfiltered `GET /events/stats`: the rollup if there is one, else a live aggregation |
| `TtlTick`, `Insert` | a tick of the TTL in Redis; a worker's insert |
| `Connect`, `ConnectFails`, `StartTasks`, `Serve` | the startup half of `lifespan`; only Elasticsearch may be absent, and the first refresh is awaited |
| `Interval` | the wait in `RollupScheduler._run` times out |
| `Stop`, `Cancel`, `Unwind`, `Close`, `CloseFails`, `Closed` | the shutdown half: the tasks one after the other, then the clients; a close that raises ends it |

The worker pool and the indexer, modelled step by step elsewhere, are here only
tasks that may call their clients whenever they run. `Unwind` of the rollup task
abandons the call it awaits. A thread of the driver may outlive the cancelled task
and still apply the upsert (`AbandonRefresh`); it needs no open client to do so.
`refresh` and `tally` are kept for each of the two callers of `_refresh`, `start` and
`_run`, as nothing in `_refresh` itself excludes the other: that no two refreshes
overlap follows from the order in which `lifespan` and `start` await.
`Init` has a rollup and a summary as earlier processes may have left them.
`computed_at` is set after the scan, so it can name a moment later than the counts;
no property is about it. That events leave the realtime window as time passes is
left out, for the reason that only inserts make a stale summary wrong here.

### Listings (`Paging`)

A client walks through one listing: `Query` is the sorted `find` with `skip` and
`limit`, `Count` the `count_documents` after it (an events listing may do without),
`CallFails` a 503 that the client repeats, `NextPage` the client going on if
`has_more` (events) or the total (dead letters) says so. `Insert` and `Delete` come
between any two of them; only dead letters are deleted. Records with equal sort
keys may come in another order in each query, which MongoDB leaves undefined:
`NewestFirst` is the set of orders, and the properties are about `Untied` records.

## 3. What the runs check

Passing runs:

| run | instance | shows |
|---|---|---|
| `worker_pool` | 4 submissions, two with one Idempotency-Key, one event that cannot be encoded, one id that may be refused; 2 workers (symmetric); queue of 2, batches of 2, 1 retry; 390 496 states | `TypeOK`, `OneHolder`, `QueueAccounting`, `NoLostWakeup`, `NoSilentLoss`, `CleanDrain`, `MetricsAddUp`, `ImplementsDelivery` |
| `worker_pool_liveness` | 3 submissions, 2 workers, queue of 2, batches of 1, 1 retry; 22 965 states | `AcceptedSettles`, `ShutdownCompletes` |
| `es_indexer` | 4 events, batches of 2, one item that may fail, 2 ends of the process, with fairness; 8 126 states | `TypeOK`, `MarkedIsIndexed`, `NoDynamicMapping`, `ImplementsMirror`, `EventuallyIndexed`, `OutboxDrains` |
| `platform` | 2 submissions, one id that may be refused, 2 workers and 2 replays (symmetric), batches of 2, no retry, 1 restart; 287 492 states | `NoSilentLoss`, `ReplayKeepsEvent`, `KeepsPromise` |
| `idempotency` | 4 requests: two with one key and one body, one with this key and another body, one without a key; expiry and outages of Redis; 8 646 states | `AcceptedIsStored`, `ConflictIsReal` |
| `rate_limit` | 3 requests of one client (symmetric) and 1 of another; limits 0, 1 and 2; 3 windows of 2 ticks; 815 308 states | `LimitKept`, `RejectionIsReal` |
| `service` | the module `Lifespan`: 2 realtime readers, at most 2 events, a TTL of 2 ticks, with fairness; 107 813 states | `NoUseAfterClose`, `NothingLeftRunning`, `StatsRegressOnce`, `ShutdownEnds`, `RollupCatchesUp`, `RealtimeCatchesUp` |
| `paging` | 5 records, two of them with one sort key; limits 1 and 2; both listings; 1 857 018 states | `EventsWalkComplete`, `DeletesHideFew`, `RepeatsAreInserts`, `TotalCoversPage` |

The bounds are the smallest at which the cases of interest happen. Two workers
race for one wake-up, overlap in `push_many` and empty the queue under each other.
A queue of two with batches of two has a full queue, a full batch, a partial batch
and a batch with two submissions of one id. One retry has a failure before and at
the last attempt. Four submissions leave one to arrive while both workers hold a
batch and the queue is occupied. Four events with batches of two give the outbox a
full batch, a partial batch and late old events; two ends of the process allow a
crash in the pass that recovers from a crash. Two replays can name the same record
or two different ones; without retries a batch is dead-lettered after one failed
write, which keeps the instance small and takes nothing from the interleavings of
replay and dead-lettering. Three requests with one key have a retry and a conflict
in either order.

The quantities that would be unbounded are bounded by the instance: each submission
is answered once, each event stored once, each replay made once, `MaxHalts` bounds
`halts`, `MaxCrashes` bounds `crashes`, `LastWindow` bounds `now` and `MaxEvents`
bounds `events`.

One restart is enough for
every difference it can make between memory and the collections: what a second one
finds is a state of the same kind, and the proofs cover any number. Three requests
of one client with limits up to 2 exceed each limit; three windows give the TTL that
reaches into the next one a window after it. Two readers overwrite each other's
summaries with one insert between them. Five records with pages of one and two have
an insert before, on and after an edge, and a walk of several pages.

Deadlock is checked in all of them: the pipeline stops only by `Terminated`,
requests only by `Done`, when each is answered, the service by `Over`, a walk
likewise when it has ended.

Runs in which TLC refutes what the documentation says:

| run | property | what happens |
|---|---|---|
| `dlq_overlap` | `NeverDropped` | two workers fail to persist dead letters at once; the buffer assigned last lacks the entries of the other: an accepted event is gone while the process runs (dlq.py:69-71 says never) |
| `buffer_flush` | `BufferFlushes` | MongoDB recovers for good and stores a later event, yet a buffered dead letter waits for the next batch that fails, and none does (ARCHITECTURE.md:364-366 says the buffer flushes on recovery) |
| `replay_refused` | `RetainedUnlessStored` | `bulk_write` returns although MongoDB refused the event, and the replay deletes the record (routes_events.py:303-304 says it is retained) |
| `false_conflict` | `NoFalseConflict` | the key expires between `SET NX` and `GET`, and a retry with the same body is answered 409 (redis_cache.py:156-157) |

`NoSilentLoss` is what remains true of the promise of a 202: its exceptions are a
raced failure (`dlq_overlap`), a swallowed refusal (`replay_refused`) and a drain
that timed out, which the code logs.

Further things seen while modelling, for which there is no run:

- `persist_dead_letters` swallows every `BulkWriteError` as `bulk_write` does
  (mongo.py:363-366), under a comment that speaks of duplicates only: if MongoDB
  refuses a dead letter, `push_many` clears its copy in memory.
- The buffer of the dead-letter queue grows with every batch of an outage, while
  the workers go on taking events from the queue. ARCHITECTURE.md:140-141 and
  262-263 name the queue as the bound on memory. What is outside the buffer is
  bounded: `BacklogIsBounded` in section 4.
- A dead letter waiting in the buffer is persisted with the next failed batch. If
  its event was persisted and replayed meanwhile, the record comes back and is
  listed as dead although it is stored. It is harmless: a second replay writes a
  duplicate and deletes the record. `NoSilentLoss` holds in `platform` with it.
- The TTL of the realtime summary starts when it is written, not when it was
  counted, and a slow request may overwrite a newer summary: what is served can be
  older than the 15 s of ARCHITECTURE.md:296 by the time of one computation.
  `RealtimeCatchesUp` is what remains: a stale summary goes.
- The event id is derived from the key alone. After the key has expired, or while
  Redis is down, another body with the same key is answered 202, and its insert is
  skipped as a duplicate. `AcceptedIsStored` therefore exempts `forgotten` keys.
- `bulk_index` logs the items that Elasticsearch failed and returns (es.py:136-146),
  and the whole batch is marked: such an event never reaches the index.
  es_indexer.py:6-7, mongo.py:341 and ARCHITECTURE.md:113 say that the marker is flipped
  only on success; ARCHITECTURE.md:253-254 says that a malformed document is skipped.
  `MarkedIsIndexed` is what remains: no other event is marked without being indexed.

### Fairness

`WorkerPool!Fairness`: weak fairness of each worker's steps and of the end of the
drain. The event loop runs every ready task, `get()` and the drain have timeouts,
and a driver call returns or raises after finitely many attempts of its own.
Nothing says that a call succeeds, a request arrives or the server stops: the
liveness properties hold even if MongoDB never answers again.

`EsIndexer!Fairness`: weak fairness of `Start` (the process is restarted) and
`Wake` (the poll interval ends), strong fairness of the success of each call: a
call made again and again succeeds some time, that is, both stores recover. The
documents promise that Elasticsearch catches up after an outage, not during one.

`Lifespan!Fairness`: weak fairness of the startup, the interval of the rollup, the
return of every call, the TTL in Redis, the shutdown and each cancelled task;
strong fairness of the two successes of a refresh, as a call to MongoDB made again
and again succeeds some time. No request need arrive and no server need stop.

`RecoveringSpec`, of the run `buffer_flush`, adds to `WorkerPool!Fairness` strong
fairness of `WriteOk` and `PersistOk`: the outage ends for good. Without it the
counterexample would be an outage that lasts for ever.

### Exceptions in the properties

- `LimitKept` leaves out the requests that were let through because Redis failed,
  which the code does on purpose (redis_cache.py:127-129), and those whose `INCR`
  was applied after their window, when its counter may have expired.
- `StatsRegressOnce` allows one regress: the first answer from a rollup after a
  live aggregation, whose scan may be the later one. It takes a client that asks
  before any rollup has ever been written.
- `DeletesHideFew` is what offset paging gives: for each record that is replayed
  during a walk at most one other can move over the edge of a page unseen.
- The paging properties are about records whose sort key no other record has.

## 4. What is proved

`WorkerPoolProofs` proves, for every finite set of submissions, every non-empty set
of workers and every queue size, batch size and number of retries:

| theorem | states |
|---|---|
| `TypeCorrect` | `Spec => []TypeOK` |
| `OneHolderHolds` | `Spec => []OneHolder` |
| `QueueAccountingHolds` | `Spec => []QueueAccounting` |
| `NoLostWakeupHolds` | `Spec => []NoLostWakeup` |
| `NoSilentLossHolds` | `Spec => []NoSilentLoss` |
| `CleanDrainHolds` | `Spec => []CleanDrain` |
| `MetricsAddUpHolds` | `Spec => []MetricsAddUp` |

The assumptions are those named in `Events`, `EventQueue` and `WorkerPool`:
`Subs` is finite, there is a worker, `EventId` maps submissions to ids, the sizes
are positive.

The other modules, likewise for every value of their constants that the named
assumptions allow: any set of replay requests beside such a pipeline; any number of
events, batch size, set of items that may fail and number of crashes of the outbox;
any finite set of records with any sort keys and page limits; and so on.

| module | theorem | states |
|---|---|---|
| `DeliveryProofs` | `DeliveryImplemented` | `Spec => ImplementsDelivery` |
| `PlatformProofs` | `NoSilentLossUnderReplay` | `ReplaySpec => []NoSilentLoss` |
| `PlatformProofs` | `ReplayKeepsEventHolds` | `ReplaySpec => ReplayKeepsEvent` |
| `PlatformProofs` | `PromiseKept` | `PlatformSpec => KeepsPromise` |
| `PlatformProofs` | `NoSilentLossAcrossRestarts` | `PlatformSpec => []NoSilentLoss` |
| `PlatformProofs` | `RestartKeepsEvent` | `PlatformSpec => ReplayKeepsEvent` |
| `EsIndexerProofs` | `TypeCorrect` | `Spec => []TypeOK`, the limit on a batch included |
| `EsIndexerProofs` | `MarkedIsIndexedHolds` | `Spec => []MarkedIsIndexed` |
| `EsIndexerProofs` | `NoDynamicMappingHolds` | `Spec => []NoDynamicMapping` |
| `EsIndexerProofs` | `MirrorImplemented` | `Spec => ImplementsMirror` |
| `IdempotencyProofs` | `AcceptedIsStoredHolds` | `Spec => []AcceptedIsStored` |
| `IdempotencyProofs` | `ConflictIsRealHolds` | `Spec => []ConflictIsReal` |
| `RateLimitProofs` | `LimitKeptHolds` | `Spec => []LimitKept` |
| `RateLimitProofs` | `RejectionIsRealHolds` | `Spec => []RejectionIsReal` |
| `LifespanProofs` | `NoUseAfterCloseHolds` | `Spec => []NoUseAfterClose` |
| `LifespanProofs` | `NothingLeftRunningHolds` | `Spec => []NothingLeftRunning` |
| `LifespanProofs` | `StatsRegressOnceHolds` | `Spec => StatsRegressOnce` |
| `PagingProofs` | `EventsWalkCompleteHolds` | `Spec => []EventsWalkComplete` |
| `PagingProofs` | `DeletesHideFewHolds` | `Spec => []DeletesHideFew` |
| `PagingProofs` | `RepeatsAreInsertsHolds` | `Spec => []RepeatsAreInserts` |
| `PagingProofs` | `TotalCoversPageHolds` | `Spec => []TotalCoversPage` |

Three theorems state what no run checks. The first would say nothing there: every
instance has fewer submissions than its bound. The others are facts that the
properties of the runs rest on:

| module | theorem | states |
|---|---|---|
| `WorkerPoolProofs` | `BacklogIsBounded` | what the queue and the workers hold is at most `QueueMaxSize` and one batch for each worker, through any outage |
| `EsIndexerProofs` | `IndexedIsStored` | Elasticsearch holds no event that MongoDB does not |
| `PlatformProofs` | `NothingInvented` | the collections hold only accepted events, through replays and restarts |

Three claims of the documentation that runs refute (section 3) hold under a
hypothesis on the constants, which names the cause of what the run finds:

| module | theorem | claim | holds if |
|---|---|---|---|
| `WorkerPoolProofs` | `NeverDroppedByOneWorker` | `NeverDropped` | there is only one worker, so no two `push_many` calls overlap |
| `PlatformProofs` | `RetainedIfNothingRefused` | `RetainedUnlessStored` | MongoDB refuses no event but duplicates |
| `IdempotencyProofs` | `NoFalseConflictWithoutExpiry` | `NoFalseConflict` | no key expires at all (`~KeysExpire`) |

The argument:

- *Types.* One lemma per action that is not obvious, the rest by `TypeStep`.
- *One holder.* `OneHolder` is not inductive alone: a submission could be put twice.
  `HoldingInv` adds that what is held has been answered 202 (`Accept` requires that
  its submission has no answer yet) and that a worker outside
  `writing`, `backoff` and `persisting` has an empty hand. `PollMoves` says what a
  poll does to queue and batch; it rests on `SplitSequence`: the first n elements
  of a sequence without repetitions and its rest partition its range.
- *Accounting.* With one holder for each submission, taking and acknowledging a
  batch changes `Cardinality(Held)` by the size of the batch, which is the number
  of `task_done()` calls.
- *No lost wake-up.* A put wakes a getter if there is one; if there is none, every
  worker is busy, awake or gone, and workers go only once the pool stops. The
  inductive part is `WakeupStep`.
- *No silent loss.* `Pushes` says what the local list of a suspended `push_many`
  holds: the worker's batch and, unless a failure was raced, the whole buffer. It is
  what makes clearing the buffer after a persist sound, and it is where the proof
  needs `~racedFailure`. `EveryStepKeeps` then reduces each action to: what leaves a
  hand or the buffer is in a collection, in the buffer or given up (`Kept`).
- *Drain and metrics.* `Drains` adds to `CleanDrain` that nothing is dropped before
  a timeout; that `join()` returns with nothing held is the accounting above.
  `MetricsAddUp` counts the complement of `Uncounted`: a poll counts nothing
  (`UncountedAfterPoll`), and a write or a push counts its batch, which was not
  counted before (`CountedBatch`).
- *Delivery.* The same case split as for `NoSilentLoss`, now as a step simulation:
  what leaves *inside* is safe or excused, and what becomes safe was inside.
- *Replay.* `Rewritten` says that a replay about to delete its record has had
  `bulk_write` return for that event, so the event is in the collection or was
  refused there; the collections only grow (`Accumulates`), so it stays true.
  `ReplayInv` joins it to the invariant of the pipeline, `LossInv`, which a replay
  preserves because it touches no variable of queue, workers and dead-letter queue.
- *Outbox.* `OutboxInv` adds to the two properties what the indexer knows at each
  of its awaits: only stored events are indexed, marked or fetched; while it is
  marking, the batch is indexed but for the items that may fail; while it is
  indexing, or once `mappingReady` is set, the index exists. The refinement
  (`MirrorStep`) then maps each action to the action of `Mirror` that has its
  effect, or to a stutter.
- *Restarts.* `Restart` drops what is in memory, so nothing is left to be lost; what
  it may still write was in a batch, in a suspended `push_many` or being replayed,
  and a delete in flight is one whose event `Rewritten` says is stored or refused.
- *Idempotency.* `IdemInv`: while the claim on a key stands (`ClaimStands`), some
  request that has begun has set it, every request that passed the check with this
  key has the claimed body, and so has the document of that id if there is one.
  `AcceptedIsStored` follows with `Documented`: what has left the queue has a
  document.
- *Rate limit.* `RateInv`: the counter of the window that runs is the number of
  requests counted in it, because its TTL, if it has one, outlasts the window; so
  those let through in time are at most the limit (`Decided`). A counter
  never exceeds the number of `INCR`s applied for it, which gives
  `RejectionIsReal`.
- *Life of the service.* `LifeInv` ties stages, tasks and open clients together:
  the clients open and close in order, tasks run from the warm-up to the end of their
  stop, and the refresh of the startup is over before the task begins its first
  (`OneRefresh`). `Told` orders the totals: the last answer from a rollup is at most the rollup, which is
  at most what the refresh under way will write, which is at most the number of
  events.
- *Backlog.* A worker takes at most `BatchSize` at a time and a put is refused when
  the queue is full (`Bounds`). Each submission in a hand is named by its worker and
  its number in the batch, so there are at most `Cardinality(Workers) * BatchSize`;
  that `unfinished` counts these and the queue is the accounting above.
- *Limit of a batch.* The number of older events pending differs from event to event
  and is below `BatchSize` for those that `fetch_unindexed` takes, so there are at
  most that many (`FetchLimited`).
- *Nothing invented.* It is shown for `Delivery`, where only what was accepted can
  become safe (`DeliveryInventsNothing`), and holds for `Platform` because that
  implements it.
- *Paging.* The place of an untied record in a listing is the number of records
  above it (`Above`), whichever order the query takes, so a page is known by
  places alone (`Placed`, `Paged`). An insert moves each record by at most one place,
  and as no two untied records share a place it pushes at most one over the edge at
  the offset (`InsertRepeats`); a delete pulls at most one over it
  (`DeleteSkips`). `DeletesPay` and `InsertsPay` keep the balance for each stage of
  a page: what was skipped, or has to be shown twice, is paid for by a
  delete or an insert. `DeletesHideFew` and `RepeatsAreInserts` are not
  inductive without them: at the moment of an insert nobody has seen the repeated
  record yet. `PageCounted` does the same for `TotalCoversPage`: between the two
  queries there are at least as many records as the page has shown.
  `EventsWalkComplete` is the case without deletes.

Only model-checked are the liveness properties, `AcceptedSettles`,
`ShutdownCompletes`, `EventuallyIndexed`, `OutboxDrains`, `ShutdownEnds`,
`RollupCatchesUp` and `RealtimeCatchesUp`: the prover has no rules for fairness and
`ENABLED`. Every safety property of a passing run is a theorem.
No module of the project has a recursive definition, so nothing is lost by
`RECURSIVE` being out of the prover's reach.

## 5. Plan

Done, in this order: the pipeline; the outbox with its abstract specification; the
replay of dead letters; idempotency keys; `Delivery`; the rate limit; statistics,
rollup and the life of the service; paging; `Platform`; the proofs of the safety of
all of them.

What would come next:

1. The rate limit, the idempotency check and the pipeline in one model, when
   requests are retried by a client after 429, 409, 503 or a restart: the
   product of the three is beyond TLC at bounds that mean anything.
2. `Platform` with the outbox: the two share `stored` only, and
   `Mirror` leaves open what is committed when, which is all that the composition
   would add.

## 6. Not modelled

- `ElasticsearchStore.search`, filters and time buckets of `aggregate_counts`, and
  the query parameters of the read endpoints: they build queries that the stores
  evaluate and change no state.
- `ping`, and what a `connect` does inside a driver. That a connect fails, and when a
  client is closed, is in `Lifespan`.
- Health and metrics endpoints: they read what the other components keep. The
  counters behind `/metrics` are checked where they are kept (`MetricsAddUp`); hits
  and misses of the cache, `retries` and `batches_processed` are not.
- An index that an operator deletes while the process runs (es.py:98): neither code nor
  documents provide for it.
- Settings, response schemas and logging: declarations.
- The dead-letter queue without a sink, which only unit tests construct.
