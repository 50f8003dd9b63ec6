# Formal models of IndicAgent

TLA+ specifications of the parts of IndicAgent whose correctness depends on
interleaving, failure and order: how vendor bars get into the database, from the
history fetcher's requests to the canonical rows; how streamed bars are merged,
aggregated, turned into features and written; how configuration changes get to
the services; and how the self-healer acts on alerts. TLC checks the
specifications on small instances; TLAPS proves their safety properties for every
value of the constants.

Paths below are relative to the repository. (`services/` is the top-level
directory, `src/` the Python package of the same name.) `PROJECT.json` lists,
for every definition, the lines it models.

1. [The system](#1-the-system)
2. [Inventory](#2-inventory)
3. [The models](#3-the-models)
4. [What TLC checks](#4-what-tlc-checks)
5. [What is proved](#5-what-is-proved)
6. [Disagreements between the code and its documentation](#6-disagreements-between-the-code-and-its-documentation)
7. [Limits](#7-limits)
8. [Plan](#8-plan)
9. [Running](#9-running)

## 1. The system

IndicAgent is a pipeline: *ingest → features → measurement → research*.

* **Ingest.** Vendors (IBKR, Alpaca) deliver bars in two ways. The history
  fetcher and the loaders ask for spans of history and write the answers
  straight into PostgreSQL through the *ingress contract*
  (`services/ohlcv_ingress_contract.py`): `ohlcv_raw` keeps what each vendor
  said, `ohlcv_revision` what it said before, and a *selection* derives the
  canonical `market_data_ohlcv` from it. The live providers publish 1-minute
  bars on Redpanda topics; the provider merger picks one provider per symbol,
  the aggregator builds higher timeframes, and `BarWriter` stores the rows.
* **Features.** `feature_vector_pipeline` computes feature vectors from bars,
  `FeatureVectorWriter` stores them.
* **Measurement and research.** Batch jobs over the tables (IC, calibration,
  corpus reruns).
* **Cross-cutting.** Configuration lives in `config_state` and is pushed to
  the daemons over a transactional outbox; self-healing acts on alerts; a
  circuit breaker guards vendor calls.

Every daemon is one process with an asyncio event loop (`src/core/agent/base.py`);
Kafka clients add a consume thread. Processes meet only in PostgreSQL (rows, row
locks, transaction-scoped advisory locks) and on the topics.

## 2. Inventory

Status: **M** modelled, **P** partly, **–** not modelled (planned where §8 says so).

| Component | State it keeps | Operations | Interacts with | What is hard, and what correctness means | |
|---|---|---|---|---|---|
| `ohlcv_raw` writer (`services/ohlcv_raw_writer.py`, `src/intelligence/bars/write_contract.py`) | `ohlcv_raw`, `ohlcv_revision` | `preview_series`, `write_raw` | ingress contract; advisory lock per series | concurrent writers of one series; late and repeated answers. No served value is lost; an older answer never replaces a newer one | M |
| Ingress contract (`services/ohlcv_ingress_contract.py`, `_intraday_persist.py`) | one transaction | `apply_raw_contract`, `persist_chunk_atomically` | raw writer, selection, load, coverage and request ledgers | several locks in one transaction; a crash at any step. All of a chunk or none; the preview is exact; no deadlock | P |
| Canonical selection (`src/intelligence/bars/selection.py`, `services/bar_selection.py`) | `market_data_ohlcv`, `bar_session_choice` | `select_and_write`, `reselect_series` | raw table, policy; advisory lock per symbol and timeframe | two vendors' writers selecting one session. Canonical is always the selection of the committed raw rows; a session has one vendor | M |
| Source policy (`scripts/ops/bars/ops_source_policy.py`) | `bar_source_policy` | `write_and_reselect`, `apply_plan`, `insert_row` | selection | a policy change while chunks wait for the selection lock. Canonical follows the policy in force | P |
| Kafka writers (`src/core/agent/base_writer.py`, `services/bar_writer.py`, `services/feature_vector_writer.py`) | row buffer, consumer position | handle a message, flush, commit, teardown | consumer client, database | two tasks over one buffer; prefetching; crash between flush and commit. No buffered row is forgotten, a crash loses little, buffers drain | P |
| Kafka client (`src/core/kafka_utils.py`) | bounded queue, position, commits | `_consume_loop`, `messages`, `commit`, producer | broker, every daemon | the thread runs ahead of the loop | P |
| Config service (`src/config/config_service.py`) | `config_state`, `config_history`, `config_outbox`, a value cache | `set`, `revert_key`, `get`, `list` | outbox | concurrent callers. Unique versions; no unseen overwrite | P |
| Outbox publisher (`src/config/outbox_publisher.py`) | claimed rows | poll, publish, back-off | outbox table, topic | several dispatchers; publish that fails after delivery; crash. Each change arrives, marked published only if it did | M |
| Config consumer (`src/config/config_consumer.py`) | `_config_cache` | snapshot, subscribe, hot reload | topic, `config_state` | snapshot and subscription are two steps; retries reorder. The cache converges to `config_state` | P |
| Daemon base (`src/core/agent/base.py`, `base_batch.py`) | lifecycle, stop event | setup with retries, run, teardown | all daemons | stop while waiting. A stopped daemon ends | P |
| Provider merger (`services/provider_merger.py`) | active provider per symbol, last-seen times | route, fail over, recover | provider topics, merged topic | timeouts racing late bars. A secondary is heard only in the primary's silence; the quality topic names it; an outage of the primary ends for the readers | M |
| Feature pipeline (`services/feature_vector_pipeline.py`, `src/intelligence/pipeline/`) | worker queues, output queues, state, checkpoints | enqueue, process, drain, checkpoint, commit | bars topic, vectors topic | offsets committed before processing; full queues; cancelled publishes; weighted drain. A worker gets every bar once and in order; caches are the replay of their history; what is put into the output queue is published in order, unless its publish raised | P |
| Circuit breaker (`src/core/plugin_circuit_breaker.py`) | state, failure and success counts | `call`, transitions | its tests only | calls in flight across transitions. Closing takes `success_threshold` probes | – |
| Self-healing (`src/self_healing/`, `services/self_healer.py`) | action ledger, pool state | evaluate alert, act, record | service manager, database | duplicate alerts, timeouts of actions that worked. There is always a working pool; no recorded alert is acted on again; the rate limit | P |
| History fetcher (`scripts/infrastructure/backfill/`) | session lock, fetch queue | plan, fetch, persist, settle | ingress contract, vendors | loss of the lock's session; watchdog; retries of what already landed. No slot looks answered whose bar is missing | P |
| Coverage and request ledgers (`services/ohlcv_coverage_writer.py`, `ohlcv_request_writer.py`) | coverage, request rows | extend, settle | same transaction as the chunk | coverage states exactly the bars that landed; a request is recorded once | P |
| Bar aggregator (`services/bar_aggregator.py`, `src/core/bar_accumulator.py`) | accumulators, checkpoint topic | accumulate, emit, checkpoint | 1m topic, higher-timeframe topics | checkpoint and offset are separate. Each minute counted once, each period published once, no bar across two sessions | M |
| Corpus rerun (`services/corpus_rerun*.py`) | step ledger | run, retry, adopt | batch jobs | death inside a step | – |
| Feature lifecycle (`services/feature_lifecycle.py`, `concept_registry_service.py`) | lifecycle rows | promote, retire | measurement | legal transitions only | – |
| Bar derivation, scrub, holds, loads | derived bars, hold ledger | batch steps | canonical bars | mostly data transformation; holds and loads compose with the ingress model | – |
| Resource lease (`src/core/resource_lease.py`) | lease rows | acquire, renew | – | no service takes it at this revision | – |
| Service auditor, DLQ writer, vocabulary service | – | – | – | I/O over systemd; a `BaseWriter` like the modelled ones; a read-through table | – |
| Providers (`src/providers/`) | vendor sessions | stream, fetch | vendors | needs a model of the vendor's side | – |
| Feature factory, measurement, research | – | numerical | tables | arithmetic over reals, out of TLC's reach | – |
| Auditors, API, dashboard | – | read-only | tables | no state of their own | – |

The hazards that follow from this inventory, each at the line where it bites, are
the `hazards` of `PROJECT.json`.

## 3. The models

```
BarSelection      selection as operators (selection.py, bar_selection.py)
  └─ BarStore       abstract specification: one chunk = one step
       └─ RawIngress   transactions, locks, commits, rollbacks; implements BarStore
HistoryFetch      lock, plan, walk, chunk transaction, request sink, rebuild
ProviderMerger    routing, failover, recovery, quality events
HtfStream         abstract specification: minutes cut into bars
  └─ BarAggregator  accumulators, guard, checkpoints, restarts; implements HtfStream
FeaturePipeline   consume loop, workers, histories, caches, start and end
OutputQueue       two priorities, drain loop, cancellation, join
KafkaWriter       consumer thread, queue, loop, timer, database, broker
ConfigOutbox      set(), dispatchers, topic, one service
SelfHealing       webhooks, ledger, rate limit, breaker, pool flush
*Proofs           theorems;  MC*: instances for TLC
```

Data is abstract throughout: a bar's prices and volume are one value, a Kafka
message is its offset and kind, a higher-timeframe bar is the minutes it was made
of, a feature cache is the bars it has counted, a configuration value is a model
value. Locks, transactions, awaits and commits are kept step by step: code between
two awaits of one event loop is one action, because nothing else runs there.

### 3.1 Bars: `BarSelection`, `BarStore`, `RawIngress`

One symbol, one timeframe, one session date. A *series* is a (vendor, kind) pair;
`raw[s][t]` is the row of series `s` at bar stamp `t`: a value and `served`
(`served_at`; 0 for the NULL of the one-time backfill).

`BarSelection` has no state. `partition_session` is `OnGrid`/`Candidates`,
`select_slots` is `SessionSlots` … `Chosen` (first complete vendor of the ranking,
else the one that holds most), `select_and_write` is `SelectAndWrite` (write the
winners, skip a winner without volume, retract the others), and
`record_session_choices` is `RecordSessionChoice`.

`BarStore` is what the tables promise: `ServeChunk` applies a vendor answer to
raw rows, revisions, canonical rows and session choice at once. `Classify` is
`classify` plus the serve-time split of `_classify_series`; `RevisionsLogged` the
log it writes; `Upsert` the `INSERT … ON CONFLICT DO UPDATE` with its guard.

`RawIngress` is what the processes do. Each has a connection and a transaction
with a program counter:

| Action | Code |
|---|---|
| `BeginChunk` | `persist_chunk_atomically` opens the transaction; `load_contract_params` reads the policy |
| `PreviewSeries` | `_lock_series` (`pg_advisory_xact_lock`), then `preview_series`, series in sorted order |
| `WriteRaw` | `write_raw`: classify again, compare with the preview, revisions, rows |
| `LockSelection` | `_lock_selection`, then the policy read again under the lock |
| `SelectSession` | the rest of `select_and_write`, over committed rows plus the transaction's own |
| `WriteAndReselect`, `ReselectSeries` | the operator's transactions |
| `ApplyPlan` | policy rows committed with no selection (`--plan`, or `--add` from today) |
| `Commit`, `Rollback` | end of the transaction; a rollback is possible at every step |

READ COMMITTED is modelled by reading the committed variables with the
transaction's own writes on top. Advisory locks go at the end of the transaction.
`served` (every offer that was committed), `basis` (the ranking of the last
selection) and `planned` are history variables. The properties are in §4.

### 3.2 Writers: `KafkaWriter`

One partition. `topic`, `committed` are the broker's; `fetched`, `enqueued`,
`taken` are the positions of the consume thread, the queue and the loop; `buffer`,
`pc`, `batch` belong to the coroutines; `db` is the table. The actions are
`Fetch`/`Enqueue` (thread of `kafka_utils`), `Handle` (one iteration of the loop:
parse, `_buffer_rows` with the overflow guard, `maybe_flush`), `TimerFlush`
(`_periodic_flush_loop`, FeatureVectorWriter only), and `_do_flush` cut at its
awaits: `BeginFlush` copies the buffer, `FlushOk` stores the copy and clears the
buffer *as it is then*, `FlushFail` keeps it (the rows may or may not be stored),
`Commit`/`CommitLost` are `commit()` without offsets, which commits the client's
position. `Stop`, `LoopEnds`, `TimerEnds`, `Teardown`, `Close`, `Crash`, `Restart`
are the lifecycle. `Periodic` chooses the service: FALSE is BarWriter, TRUE
FeatureVectorWriter.

### 3.3 Configuration: `ConfigOutbox`

One key. `state`, `history`, `outbox` are the three tables. A setter's transaction
is `BeginSet` (`SELECT … FOR UPDATE`, which locks a row only if there is one, and
the comparison with `expected_version`), `WriteSet`, `CommitSet` or `RollbackSet`;
`RevertKey` is `set()` of an old value. A dispatcher's is `Claim` (`FOR UPDATE SKIP
LOCKED`, `ORDER BY id LIMIT`), `PublishRow`/`PublishFail` per row in any order
(`UPDATE … RETURNING` promises none), `CommitBatch`, or `CrashDispatcher`;
`BackoffOver` is the arrival of `next_attempt_at`. The service is `LoadSnapshot`/
`SnapshotFails`, `Subscribe`/`SubscribeFails`, `ReceiveUpdate`, `AutoCommit` and
`RestartService`.

### 3.4 Streamed bars: `ProviderMerger`, `HtfStream`, `BarAggregator`

`ProviderMerger` is one symbol. `lastTs` is `_last_bar_ts`, `promoted` is
`_promoted`; the clock counts bar intervals. One message is handled to its end, so
every branch of `_handle_bar` is one action: `PrimaryBar` (a recovery if a
secondary was promoted), `PromotedBar`, `FailoverBar` (the bar that reveals the
silence: promotion, quality event, and the bar itself dropped), `SecondaryBar`
(dropped). A publish may fail, which ends the handler where it stands, and may have
reached the broker all the same. `Restart` empties the dictionaries; the topics keep
what they say. The history variables are what a reader of the topics knows:
`announced` (the provider the last routing event names), `routed` (the last bar on
`market.bars`, with what was announced then) and `missed` (the last change of the
promotion has no event of its own).

`HtfStream` says what a consumer of `market.bars.htf` may rely on: minutes in
increasing order are merged into an open bar, a minute of another period or
session closes it, a closed bar is published at most once per period or dropped,
and a restart takes up the open bar. Every timeframe moves by itself.

`BarAggregator` is the service: `acc` is `_accumulators`, `completed` the bars
`update` returned, `lastEmitted` the guard, `ckpts` the checkpoint topic.

| Action | Code |
|---|---|
| `ProcessBar` | `BarAccumulator.update` over all timeframes: late bars refused, session break, period change, inverted accumulator reset |
| `EmitOk`, `EmitFails`, `EmitSuppressed` | one completed bar in `_run`: emit-once guard, publish, its five seconds |
| `CheckpointOk`, `CheckpointFails` | `_checkpoint_state`; a failure, the third in a minute too, ends in the handler around the bar |
| `HealthCheck`, `ConsumerRestart` | `_health_checker` sets the flag; the loop sees it with the next message, which it loses |
| `Crash`, `Restore` | a new process reads any part of the checkpoints behind the restore group's offset |

### 3.5 Features: `FeaturePipeline`, `OutputQueue`

`FeaturePipeline` is the bar side of the service for several (symbol, timeframe)
keys. `log` is the two bar topics, `table` what BarWriter has stored of them,
`queue`, `worker`, `history` and `cache` belong to the workers.

| Action | Code |
|---|---|
| `Produce`, `Store` | the aggregator's and BarWriter's side (external to the service) |
| `Connect` | `skip_lag_if_needed`: a lag over `max_lag` is skipped, a group without an offset begins at the end, and the poll that forces the assignment discards a message |
| `Seed` | `_seed_bar_history_from_db`, complete, partial or raising, and the caches it makes |
| `TakeMessage` | one iteration of the loop: `try_enqueue`, and every `COMMIT_BATCH_SIZE` messages a commit of the client's position |
| `ConsumerFails` | `messages()` raises and is called again; what the client held is gone |
| `AppendBar` | the worker appends to `_bar_history` (then awaits) |
| `Compute`, `FactoryFails`, `ComputeFails` | session state, features, weekly state, momentum for the lower timeframes; or the exception at either point |
| `End` | stop or crash: workers are cancelled with their queues |

`OutputQueue` is its output buffer: `Enqueue`, `EnqueueBlocking`, `PutWakes`,
`PutTimeout` are the callers; `TakeBatch` chooses a whole batch (no await in
between) by `drain_ratio`; `PublishOk`/`PublishFail` per item; `BackoffOver`;
`LoopEnds` when `running_fn()` is false and both queues are empty; `Cancel` in the
middle of a batch with its re-enqueue; `JoinBegin`, `JoinQueue` are `join()`.
`unfinished` is asyncio's own counter. `batch[p]` holds what the loop has taken of
priority `p` and not handled yet, and `InFlight` says which message is published
next; `Behind` is what a cancellation finds unhandled behind it. History variables:
`put` (every message put, per priority and in order), `failed` (those whose publish
raised), `published` (the topic) and `late` (puts behind the end of the loop).

### 3.6 History: `HistoryFetch`

One intraday series of one vendor; a slot is a day. `raw`, `cover`, `fails`,
`ledger` are the tables, `buffer` and `unknown` the request sink, `item` the item
in progress. `Gaps` and `Windows` are `gap_plan`; `Evidence`, `Covered` which
recorded answers count. A run is `StartRun` (advisory lock), `TakeItem` (plan),
then per chunk `AnswerBars` or `AnswerNone` and the chunk's transaction
`PersistOk`/`PersistFails` (bars, request rows and coverage together; the commit
may succeed unseen), then `ItemFlush`, `RecordOutcome`, `Teardown`. A flush of the
sink (`FlushResults`) writes its rows, fails before or during the COPY and restores
them, or loses the answer to its commit, with the rows there or not. The primary key
of `ohlcv_request` refuses a second copy of a row (`Duplicate`); one item to a run
never gets there. `Stall`,
`IntakeStall`, `SessionLost`, `NoteFails`, `QualifyFails`, `DieWithBuffer` are the
ways it goes wrong, `Replan` the retry. `RebuildReads`/`RebuildWrites` and
`ResetFailures` are the operator's tools. The raw rows and the selection inside
the chunk's transaction are §3.1's; here a transaction is one step.

### 3.7 Self-healing: `SelfHealing`

Concurrent webhook requests in one loop, each at a place `pc[r]` between two
awaits: `Receive`, `CheckAlert` (ledger, fails closed), `MeasurePre`, `AskBreaker`,
`AskLimit`, `AcquireLock`, `Create`, `Swap`, `Drained` (the flush in
`pool_manager.py`, then the rebinding of the ledger), `MeasurePost`, `Record`,
`AutoDisable`, with `CreateFails`, `VerifyFails`, `RecordFailed`, `Timeout` (the
`wait_for` around the action, at any of its awaits) and `Crash`. The pools are
numbered; the ledger keeps the number it was made with.

## 4. What TLC checks

All runs but `merger` set `CHECK_DEADLOCK FALSE`: an idle system waits for work,
and it stops when the bounds (`MaxTx`, `MaxMsgs`, `MaxSets`, …) are used up.
Waiting in a circle is checked by `NoWaitCycle`, and otherwise by the liveness
properties. The type invariants that §5 proves are not repeated in the runs, apart
from those of `OutputQueue` and `HistoryFetch`, which say more than types (the
queues' limits; the sink and the lock between runs).

### Runs that pass

| Run | Instance | Properties | States |
|---|---|---|---|
| `raw_ledger` | 2 processes, 2 series (2 vendors), 1 slot, 2 values (one without a volume), 2 answer times, 2 transactions, with or without a backfilled row, with fairness | `NothingServedIsLost`; `ServeTimeNeverGoesBack`; `PreviewIsExact`; `NoWaitCycle`; `TransactionsEnd` | 16,023 |
| `raw_selection` | 2 processes, 3 series (one never selected, two regular-hours only), 2 slots of which one is on the grid, 2 values of which one has no volume (served by IBKR, on the grid), 3 rankings, 3 transactions | `SelectionIsSettled`; `SessionFromOneVendor`; `PolicyFollowed`; `AppliesChunksAtomically` (refinement of `BarStore`) | 57,269 |
| `writer_bars` | BarWriter: 5 messages, at most one of them not a row, fetch 2, queue 1, batch 2, buffer 2, 2 stops or crashes | `BufferedOrStored`; `LossWindow` | 758,753 |
| `writer_vectors` | FeatureVectorWriter: 3 messages, with fairness | `BufferDrains` | 13,047 |
| `config` | 2 callers, 2 changes, 2 values, 2 dispatchers, claims of 2, one fault, seeded key, with fairness | `VersionsIncrease`; `NoLostUpdate`; `RepeatsAreRetries`; `EveryChangeArrives` | 158,964 |
| `output_queue` | 5 messages, queues of 2, batches of 3, ratio 2, back-off after 2 failed batches, with fairness | `TypeOK`; `AtMostOnce`; `JoinCounts`; `DeliversInOrder`; `JoinReturns` | 2,810,360 |
| `aggregator` | timeframes of 2 and 4 minutes, 7 timestamps over three long periods, a session boundary inside one, 4 bars, one failure, one crash | `BarsAreWhole`; `SuppressedOnlyAtBreak`; `ImplementsStream` (refinement of `HtfStream`) | 846,853 |
| `merger` | a primary and 2 secondaries, silence of 2, clock to 3, with fairness | `OnlyInSilence`; `TopicTellsRouting`; `OutageEnds` | 54,492 |
| `healing` | 2 requests at a time, 2 alerts, 3 webhooks, limit 1, 2 faults, with fairness | `WorkingPool`; `LedgerFollowsPool`; `RecordedNotRepeated`; `RateBound`; `RequestsEnd` | 217,911 |
| `history_fetch` | 5 slots of which 3 have bars, chunks of 3, gap cluster 1, 2 attempts, a sink of 2 rows, 2 runs, 1 rebuild, 3 faults, with fairness | `TypeOK`; `CoverageIsExact`; `NoSilentHole`; `RecordedOnce`; `LockFreed` | 219,465 |
| `pipeline` | an hourly and a five-minute key, queues of 2, commit every 2 messages, lag limit 2, prefetch 1, 4 bars, 2 starts, 1 fault, with fairness | `CacheIsReplay`; `FeedIsComplete`; `QueuesDrain` | 931,814 |

*Why these bounds.*
- **Ingress.** The races are between two transactions (a lock missing shows with
  two); a late or repeated answer needs two answer times; a slot on the grid and one
  off it are the two cases of `partition_session`, and chunks of two bars make one
  vendor complete and the other not. A policy change between two chunks makes the
  third transaction of `raw_selection`; a bar without volume at the one slot that is
  judged lets a winner be skipped over the other vendor's row. `MCSelectionChunks`
  keeps the other series from multiplying the chunks: the series that is never
  selected needs one slot, and only the vendor whose winner is skipped needs the
  second value.
- **Writers.** Fetch 2 and queue 1 let the thread hold one fetched message outside
  the queue and one in it; a buffer of 2 equal to the batch overflows after one
  failed flush; five messages exceed all of these together; two ends give a crash
  after a restart. `MostlyRows` keeps the kinds of message from multiplying: two
  messages that are not rows interact no further than one.
- **Configuration.** Two changes give one between another's read and write, and a
  claim of two rows or of one each; one fault is a failed publish, a publish that
  raises after delivery, or a crash with rows claimed.
- **Output queue.** A batch of 3 over queues of 2 mixes both priorities and a ratio
  of 2 forces a low item; five messages fill a queue, leave a put waiting and one
  to come late.
- **Aggregator.** Four bars close a period, open the next, and leave a late and a
  repeated one; the boundary at minute 6 is inside the long period and on the edge
  of the short one, so both cases of a session break occur. One failure and one
  crash give a failed publish followed by a restart from a partial checkpoint.
- **Merger.** Two secondaries are needed for them to compete and for one promotion to
  replace another. The threshold of 2 tells an old bar from a recent one, and the
  clock of 3 leaves an interval in silence; late bars (any timestamp up to now) and
  restarts give silence, recovery and silence again at one reading of the clock.
- **Healing.** Two overlapping requests exceed a limit of one; three webhooks give a
  repeated alert after its record; two faults give a timeout and a failed record.
- **History.** The vendor's bars leave a hole at the start and one inside, so windows
  have answers with and without bars; a chunk of 3 splits the series with the
  request's one-day overlap; a sink of 2 rows overflows; two runs and a rebuild
  between them; three faults combine, say, a lost commit, a failed flush and a crash.
- **Pipeline.** The hourly key passes momentum to the five-minute key and to itself
  (as `1d` does); its minimum of 1 bar and the other's of 2 give a cache made before
  and after its history is long enough; a queue of 2 holds bars in their order and
  still refuses the third of one key; the second start reads bars again that the seed
  has, or skips some.

Each property was seen to fail under a mutated definition (`mutants` in
`PROJECT.json`): a lock left out, a policy cached across the wait for the lock, an
offset committed after a failed flush, an inequality off by one, a ledger that
fails open, a cache created by another worker, a worker ended by a failed
computation, and so on.

*Symmetry.* The processes of `raw_selection` are interchangeable and permuted; the
runs with fairness use no symmetry.

*Fairness.*
- `FairIngressSpec`: a transaction that can run does (weak fairness of its steps).
  Lock grants are strongly fair, because PostgreSQL's lock manager queues waiters:
  nobody is passed over for ever. Nothing obliges a process to begin.
- `KafkaWriter.FairSpec`: the thread, the event loop and the service manager's
  restart make progress (weak); a database that is tried again and again answers
  once (strong fairness of `FlushOk`; without it a permanently failing database
  trivially keeps the buffer full). Nobody has to publish, stop or crash.
- `ConfigOutbox.FairSpec`: dispatchers poll, back-offs end, the service starts and
  reads (weak); the broker acknowledges a message that is tried again and again
  (strong). Crashes are bounded by `MaxFaults`. Setters owe nothing.
- `OutputQueue.FairSpec`: the event loop runs the drain task, puts that were woken,
  and a `join()` whose counter is zero (weak). Whether a publish succeeds is open:
  a failed one also counts as handled.
- `SelfHealing.FairSpec`: the loop runs a request that can go on (weak; the drain is
  bounded by its own ten seconds); `asyncio.Lock` is FIFO, hence strong fairness of
  `AcquireLock`. Timeouts need not happen.
- `HistoryFetch.FairSpec`: the stall bound, the intake watchdog and the bounded
  teardown keep a started run moving (weak fairness of its steps together), and the
  rebuild's one statement ends. Nobody has to start a run.
- `ProviderMerger.FairMergerSpec`: a broker to which the promoted provider's bars are
  sent again and again takes one of them again and again. Which bars come, in what
  order, how routing events fare and when the service restarts is open; the outage
  itself (the primary silent for good, one secondary alone, no restart) is the
  hypothesis of `OutageEnds`.
- `FeaturePipeline.FairSpec`: the event loop runs every worker that can go on
  (weak). The reader, the broker and the end of the service owe nothing.

### The run that shows a violation

`writer_erased` checks `BufferedOrStored` for FeatureVectorWriter and finds a row
that is erased; see §6. It is a safety property, so no fairness is involved.

## 5. What is proved

`tlapm` checks every theorem below to the last leaf, for arbitrary constants that
satisfy the modules' assumptions: any processes, series, slots, chunks, buffer and
queue sizes, callers and dispatchers, and any number of transactions, messages and
faults (the bounds are arbitrary naturals).

**Bars** (`RawIngressProofs`). The argument has two layers.
First, the atomic store: `StoreTypeCorrect`, `StoreNothingLost`, `StoreServeTime`,
`StoreSettled`, `StoreOneVendor`. `NothingServedIsLost` and `SelectionIsSettled`
are inductive with the type invariant; the latter needs
`SelectionIdempotent`: selecting twice is selecting once, although a winner
without volume leaves the old row standing. `StoreOneVendor` excepts the slots where
that happens (`Skipped`: the chosen vendor's candidate has no volume), and assumes
nothing of volumes. It needs `OneVendorInv`: every canonical row is at a slot that
still has a candidate, and of the currently chosen vendor unless the slot is skipped,
because a selection does not touch slots without candidates.

Second, `IngressImplementsStore`: the concurrent system implements the atomic one,
with the tables mapped to themselves. Every commit (`ApplyPlan` included) is a `BarStore` step and every
other step a stutter. That a commit writes what an atomic application would have
written is the inductive invariant `IngressInv`: what a transaction has staged is at
every moment a function of the *committed* tables (`StagedInv`, `SelectedInv`)
although others commit meanwhile. It holds because the rows it was computed from
belong to series the transaction has locked, and because only the holder of the
selection lock commits (`LockInv`, `ProgressInv`). The theorems on the store then
carry over: `IngressNothingLost`, `IngressServeTime`, `IngressSettled`,
`IngressOneVendor`. `IngressPreviewExact` (the `RuntimeError` of
`apply_raw_contract` is unreachable) follows from `StagedInv`.
`IngressPolicyFollowed` adds `PolicyInv`: the ranking a transaction selects by is
the one in force, *until* `ApplyPlan` commits a policy row without a selection.

`IngressNoWaitCycle` is the absence of deadlock. `OrderInv`: whoever holds the
selection lock waits for nothing, whoever holds a series lock still needs it, and a
transaction's locked series all sort before its pending ones. In a circle of waiting
transactions the one that waits for the greatest series would wait for a holder that
waits for a greater one still (or for the selection lock, whose holder waits for
nothing). "The greatest" needs a finite set, which a set of processes need not be:
that only finitely many transactions are open at a time is part of the invariant, and
`GreatestRank` finds the maximum by a least counterexample.

**Writers** (`KafkaWriterProofs`). `WriterTypeCorrect` holds for both services.
`WriterBufferedOrStored` and `WriterLossWindow` assume `~Periodic`; with the timer
the first is false (§6). The invariant `WriterInv` says that only one coroutine
flushes at a time (`PhaseInv`), hence a flush covers all of the buffer it clears and
the buffer is empty when the offset is committed (`FlushInv`), and that the thread
is at most a queue and a fetch ahead of the loop (`PipelineInv`). So what a commit
covers unstored lies within `FetchSize + QueueSize` of the committed offset.

**Configuration** (`ConfigOutboxProofs`). `ConfigTypeCorrect`;
`ConfigVersionsIncrease` and `ConfigNoLostUpdate` assume `Seeded` (without a row
the first is false, §6). `LockInv`: the row lock is held from the read to the
commit, so at most one transaction has read the row, and what it read is still
committed. `ConfigPublishedWasSent`: what a dispatcher counts as sent is on the
topic, and the topic only grows (`SentInv`). `ConfigRepeatsAreRetries` is a count:
every message on the topic is that of a row marked published, or sent in an open
batch, or charged to a fault (`ChargeInv`). It needs that claims are disjoint, hold at
most `ClaimSize` rows and only pending ones (`ClaimInv`), which is what
`FOR UPDATE SKIP LOCKED` with its `LIMIT` gives (`FirstRowsFew`).

**Aggregator** (`StreamedBarsProofs`). The inductive invariant `IndInv` speaks of
one timeframe at a time (`OneTf`: open bar, bar in hand, published bars, guard) next
to types (`Functions4`, `Controls`, `Phases`), the checkpoints (`Checkpoints`) and
the bars held back (`HeldBack`). `AllWhole` alone is not inductive: that a period is
published once needs the order of the bars (`Ordered`), where the guard's period
lies between them (`Guards`), and that two bars of one period have a session
boundary between them (`SplitPeriods`). From it follow `AggregatorTypeCorrect`,
`AggregatesWholeBars`, `MinutesCountedOnce` (`BarsInOrder`), `EmitOnce`
(`OneBarPerPeriod`) and `HeldBackOnlyAtBreak`. `AggregatorImplementsStream` maps
every action to a step of every timeframe of `HtfStream`; a bar that is handled for
several timeframes at once is why the stream lets its timeframes move together.

**Merger** (`StreamedBarsProofs`). `MergerInv` is the conjunction of the two safety
properties and the type invariant, and is inductive as it stands: a bar on
`market.bars` keeps what was announced when it was sent, and only a promotion in force
routes a secondary. It gives `MergerTypeCorrect`, `SecondariesOnlyInSilence` and
`QualityTopicIsTrue`, for any providers and threshold; the last one with the two
exceptions of the property (an event whose publish raised, a restart during a
failover).

**Self-healing** (`SelfHealingProofs`). `HealingInv` adds to the properties that the
pool waiting for its swap is open (`FreshIsOpen`; without it a swap could install a
closed pool), that a known alert stays recorded until its request asks
(`KnownIsRecorded`), and a count: every action begun is recorded, in progress or
lost (`ActionsAccounted`), and those that have passed the limit and wait are bounded
with them (`PassedBound`). `AlwaysAWorkingPool`, `LedgerOnManagedPool`,
`NoSecondRemediation`, `RateLimitOvershoot` hold for any finite set of requests and
any limit.

**Pipeline** (`FeaturePipelineProofs`). `PipelineInv` has `FeedIsComplete` (with
`MissedWereRead`: what was refused was read) and `CacheIsReplay` with what makes it
inductive: nothing is kept while the service is down (`NothingKept`), a worker
computes only when its history is long enough (`ComputesWhenWarm`), failed positions
are settled ones (`LostAreSettled`), and a key whose cache is not made has lost
nothing (`UnmadeIsClean`) because a cache made later counts every bar but the last.
`PipelineTypeCorrect`, `PipelineCacheIsReplay`, `PipelineFeedIsComplete` follow, for
any keys, any momentum map in which a key has one source, and any sizes.

**Output queue** (`OutputQueueProofs`). `QueueInv` is the run's invariants and
the type invariant with `Apart`: a message that was offered is at one place at most,
in a queue, in the batch, in the hands of a waiting caller or on the topic. Without
it `AtMostOnce` is not inductive, because a publish would not know that its message
is nowhere else. The lemmas under it say what appending, taking a prefix, removing an
entry and putting a batch back do to the range, the length and the injectivity of a
sequence. `DeliversInOrder` needs `OrderInv` beside them: a message is put once, under
one priority, and not while a caller still waits with it (`PutApart`). Then, by
`Accounted`, everything of a priority that had its publish was put before what is in
the batch and the queue, so the next publish comes behind it on the topic. A
cancellation ends the accounting (a re-enqueue may find no room) and all further
publishes, so the order on the topic stays. `QueueTypeCorrect`, `QueueAtMostOnce`, `QueueJoinCounts` and
`QueueDeliversInOrder` hold for any sizes, ratio, threshold and number of messages.

**History** (`HistoryFetchProofs`). `FetchInv` has three parts beside the types.
`CoverInv`: the coverage row is the aggregate of the stored rows, and so is what a
rebuild has read while it holds the lock; `Widened` keeps it because adding bars to a
set adds their number and moves `Min` and `Max` as the upsert does, whether or not
some were there. `HonestInv`: a row in the ledger hides no bar (nothing was held where
it says "no data"; what was held where it says "bars" is stored or noted as partial,
unless the row met a full buffer), and a buffered row is honest too, except the one
whose bars the persister has in hand, which leaves the buffer with them or is
forgotten. `IdInv`: one row per request id over ledger and buffer together, and a row
in both only after a commit that was not seen. `FetchTypeCorrect`,
`FetchCoverageExact`, `FetchNoSilentHole` and `FetchRecordedOnce` hold for any number
of slots, any holdings of the vendor, and any sizes, runs and faults.

**Only model-checked.** The liveness properties `TransactionsEnd`, `BufferDrains`,
`EveryChangeArrives`, `JoinReturns`, `OutageEnds`, `RequestsEnd`, `LockFreed`,
`QueuesDrain`: liveness under fairness and `ENABLED` are outside the prover's reach. And the
violation. Every invariant and every action or refinement property of the passing
runs is proved. The inductive invariants were checked by TLC on the runs' instances
before they were proved.

## 6. Disagreements between the code and its documentation

| Run | Claim | What the code does |
|---|---|---|
| `writer_erased` | "Offset committed ONLY after _flush_batch succeeds (no data loss on crash)" (`src/core/agent/base_writer.py:258`) | FeatureVectorWriter's timer clears the buffer as it is *after* its await and so erases a row the loop buffered meanwhile; the row's offset is committed |

Visible in the models, with no run of their own (`src/`, `services/` and `scripts/`
paths as in the repository):

*Writers and Kafka client*
* `commit()` passes no offsets and covers prefetched messages (up to 500 in the
  queue, 500 in the batch in hand), against the same sentence; `LossWindow` bounds
  the loss.
* BarWriter looks at its flush interval only when a message comes
  (`services/bar_writer.py:347`), and a stop is noticed only with the next message
  (`src/core/kafka_utils.py:433`): on a quiet topic neither happens. An exception in
  the consume thread leaves `messages()` waiting for ever.
* BarWriter's docstring says `auto.offset.reset=latest`; it passes `earliest`.

*Configuration*
* `SELECT ... FOR UPDATE` (`src/config/config_service.py:10`, "safe concurrency")
  locks nothing when the key has no row: two first changes both get version 1. Hence
  the assumption `Seeded`.
* A row waiting for its retry is overtaken by a later one and the consumer ignores
  versions, so "ensures per-key ordering" (`src/core/stream_keys.py:178`) does not
  hold under retries.
* "New consumers receive full latest state by reading from beginning of compacted
  topic" (`src/core/stream_keys.py:196`): the consumer starts at the end, and a change
  between its snapshot and its subscription is missed until the next one.

*Ingress*
* An unchanged re-serve does not move `served_at` (`services/ohlcv_raw_writer.py:21`
  says so), so "last-wins by serve time" compares with the answer that first brought
  the stored value. Nothing is lost; the old value is logged.
* A winner without volume is skipped (`services/bar_selection.py:224`) and its slot
  keeps the row it has, possibly the other vendor's, although "a vendor switch is
  written across the session, never half of it" (l. 28-29); `SessionFromOneVendor`
  names these slots.
* `ApplyPlan` leaves canonical behind the policy by design until the next selection
  of the session, which is why `PolicyFollowed` is conditional.

*History fetcher*
* A full sink buffer writes the row of a "bars" answer before its bars are persisted
  (`services/ohlcv_request_writer.py:224`); if that persist fails, the slots look
  answered, although `_intraday_persist.py:15` says "a recorded answer can never
  outrun its stored bars". `NoSilentHole` names this one exception and excludes every other.
* When a chunk's transaction fails, the request rows taken off the sink are not put
  back: the asking is not recorded, though the bars will be asked for again. The same
  happens for an observation without a mapping, where the comment says "The request
  row stays buffered for the ledger" (`_history_fetch_item.py:443`): it was taken off
  the sink five lines above.
* The request to IBKR spans one day more than the window its row records
  (`src/providers/ibkr.py:1287`), so that a day without a bar at the edge of a window
  may be asked for on every run.
* A landed chunk resets `consecutive_failures` even when another window of the item
  fails.

*Aggregator and merger*
* A session boundary inside a period closes it twice, and the guard throws the second
  half away, while `src/core/bar_accumulator.py:13-14` says the partial bar "is closed
  and emitted". `SuppressedOnlyAtBreak` shows it happens nowhere else.
* The third checkpoint failure in a minute raises, but the handler around the bar
  catches it: the service goes on. The restore group commits what it reads, so a
  second restart finds less. A `no_bars` restart is noticed only with the next
  message, that is when bars have come back; that message is lost.
* The bar that reveals the primary's silence is dropped. With two live secondaries
  each bar takes the promotion from the other, and *nothing* is routed; `OutageEnds`
  is about one that goes on alone, and TLC refutes it without that condition.
* "Recovery event published when primary resumes" (`services/provider_merger.py:8`):
  a restart during a failover forgets the promotion, so the primary resumes without
  an event and the quality topic goes on naming the secondary. An event whose publish
  raises is not repeated either. `TopicTellsRouting` names both.
* After a restart in an outage nobody is promoted until the primary was seen once.
* A failover asks for a silent primary "AND secondary has recent data" (class
  docstring, l. 61-62): the second condition is not in the code. Any bar of a
  secondary, however old, takes the promotion.

*Self-healing*
* A timeout behind the swap leaves the ledger on the closed pool, though the docstring
  of `_flush_connection_pool` says it is re-bound; every later ledger query fails and,
  failing closed, nothing is healed until the next flush or restart.
* An error of the automatic disable records the outcome twice.
  `refresh_success_rates` is never called. Two overlapping deliveries of one alert
  both act.

*Feature pipeline*
* `update_session_vp` and `update_wk_vwap` say "once per bar". A bar that is in the
  seeded history and is read again after a restart counts twice. A cache made at the
  start never counts the bars appended while the history is below `min_bars`. An
  error of `FeatureFactory.compute` leaves the weekly state without the bar the
  session state has.
* `skip_lag_if_needed` discards the message its assignment poll returns.
* Offsets are committed when bars are queued: a stop loses the queued ones.
* The seeder's docstring calls a cold pipeline "a real failure"; its caller swallows
  the exception and starts cold.
* The computation inside the worker's five-second `wait_for` does not suspend, so the
  timeout cannot fire, and on Python versions where `wait_for` does not yield first
  append and computation are one step; the model allows the interleavings of both.
* The output queue takes a low-priority item only when a batch has emptied the high
  queue, whatever `drain_ratio` is (`output_queue.py:305`): a busy high queue starves
  it. A failed publish is counted as handled and not repeated, although the docstring
  of `drain_loop` speaks of at-least-once (l. 244-245); `DeliversInOrder` names the
  failed publish as the only way a message is left out before a cancellation.

## 7. Limits

* **Bars.** One session of a timeframe that is selected directly (1m, 5m, 4h); the
  derived ones (15m, 1h, 1d) skip the selection. Several sessions are independent
  apart from the selection lock, which is shared per timeframe. `HasGrid` FALSE is
  a timeframe the calendar gives no grid. When no judged slot is left, the first
  vendor of the ranking counts as complete, as in the code. Row validation happens before
  any SQL and is the type of a chunk. Not modelled: the `exclude` argument, the
  restatement detector, and BarWriter's streamed 1m rows, which go to
  `market_data_ohlcv` past the selection. Request and coverage rows of the chunk's
  transaction are in `HistoryFetch`, where the transaction is one step (justified by
  `IngressImplementsStore`).
* **History.** One intraday series, one worker: not the daily path, the empty-history
  record and the walk's early stop, head floors, per-contract futures, overlap
  verdicts, the queue's ranking and due rules, loss of the lock's session, the
  asynchronous sink, the 1d coverage bounds. `PersistFails` has no branch for an
  observation without a mapping (`_history_fetch_item.py:442-451`, §6), after which the
  rows taken off the sink are lost as well and the walk goes on. `Evidence` leaves out
  the refused-load clause of the SQL and Alpaca's 5m evidence for other timeframes,
  `Plan` the tail start of the update lane.
* **Writers.** One partition and no rebalance; no stall watchdog (`sys.exit`); the SQL
  of the rows is set union (`ON CONFLICT`). `skip_lag_if_needed` is in
  `FeaturePipeline`.
* **Configuration.** One key, one service; values are opaque. Parsing differs
  between `config_consumer` and `config_service` (for booleans such as "yes") and
  is left out, as are prefix filters and `ConfigService`'s own cache.
* **Aggregator, merger.** One symbol (symbols share only the checkpoint message, which
  holds all accumulators); no price arithmetic beyond `high < low`; parsing, DLQ and
  metrics left out.
* **Pipeline.** A run within one session and below the history's `maxlen`; no
  checkpoints of the state manager, contract messages, cross-asset series or feature
  arithmetic. The log has only bars that are handed on: not in it are payloads that
  are no dict (`feature_vector_pipeline.py:1272`, skipped), bars that do not parse (l.
  1294-1297, sent to the DLQ without being counted), messages of the other topics
  (handled in the loop and counted for the commit like bars), and symbols of other
  shards (`per_key_worker_manager.py:94-95`, dropped and counted). They change after
  how many bars a commit comes, on which no property depends. The seed's two sources
  (`intelligence_features`, then `market_data_ohlcv_tradeable`) are one table.
  `OutputQueue` is checked apart from the workers: nothing flows back.
* **Self-healing.** The strategy that replaces the pool; restarts and scripts are
  opaque commands with the same skeleton. The model spans less than the rate limit's
  hour. A record that commits and still raises is left out: it would only make the
  count the limit reads higher. That the drain of an old pool ends is built into
  `Drained` (its ten seconds); `RequestsEnd` rests on it.

### Not modelled

The repository has about 135,000 lines, of which the modules stand for some 4,900.
Most of the rest has no control that a model checker could say more about than a
test: feature kernels, the feature factory, research and measurement are arithmetic
over real numbers; auditors, API and dashboard only read; providers need a model of
the vendor's side of a session; scrub, derivation and loaders transform whole tables
in one batch. The circuit breaker (`src/core/plugin_circuit_breaker.py`) and the
resource lease (`src/core/resource_lease.py`) have no caller at this revision, so
there are no steps to interleave.

## 8. Plan

1. **`CorpusRerun`** (step ledger, retries, adopted units): what survives death inside
   a step.
2. **Feature lifecycle** transitions (`services/feature_lifecycle.py`) and **bar
   holds and loads** over the ingress transaction.
3. **Compositions**: BarWriter's rows with the selection over one canonical table;
   `ConfigService`'s cache with `ConfigOutbox`; the fetcher's queue (rank and due
   rules) over several series of `HistoryFetch`.
4. **Proofs**: an abstract at-least-once channel and its refinement by
   `ConfigOutbox`; lemmas for several items over one sink of `HistoryFetch`, where
   `Duplicate` becomes reachable.

## 9. Running

In this directory, with the TLA+ tools and the community modules on the path:

```
tlc -workers 2 -config MCRawIngress_selection.cfg MCRawIngress
tlapm RawIngressProofs.tla
```
