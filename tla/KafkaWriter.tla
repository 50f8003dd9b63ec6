----------------------------- MODULE KafkaWriter -----------------------------
(***************************************************************************)
(* The Kafka-to-database writers: src/core/agent/base_writer.py BaseWriter *)
(* with its two services, BarWriter and FeatureVectorWriter, over the      *)
(* consumer client of src/core/kafka_utils.py.                             *)
(*                                                                         *)
(* A consume thread fetches batches from the broker and puts them one by   *)
(* one into a bounded queue.  The loop task takes a message, parses it     *)
(* into a row, buffers the row and flushes the buffer when it is large or  *)
(* old enough: the rows are written to the database, the buffer is         *)
(* cleared, the offset committed.  FeatureVectorWriter has a second task,  *)
(* the timer, that flushes the same buffer.  Tasks interleave at every     *)
(* await; the thread runs at any time.                                     *)
(*                                                                         *)
(* A message is its offset in the topic, a row the offset it came from.    *)
(* At most one row comes from a message, and rows are buffered in offset   *)
(* order, so the buffer is a set whose oldest row is its least element.    *)
(* One partition; a rebalance of the consumer group is not modelled.       *)
(***************************************************************************)
EXTENDS Integers, Sequences, FiniteSets

CONSTANTS
  Kinds,      \* the kinds of message produced, a subset of AllKinds
  Periodic,   \* has a timer task (FeatureVectorWriter); FALSE for BarWriter
  FetchSize,  \* num_messages of consume()
  QueueSize,  \* maxsize of the queue
  BatchSize,  \* BATCH_SIZE
  MaxBuffer,  \* MAX_BUFFER_SIZE
  MaxMsgs,    \* bound: messages produced
  MaxEnds     \* bound: stops and crashes

(***************************************************************************)
(* "row": a payload with a valid row.  "refused": parsed to no row (a      *)
(* refused timeframe, an invalid payload; neither service has a producer,  *)
(* so _send_to_dlq logs it and discards it).  "contract": a contract       *)
(* update, which the loop takes without maybe_flush.  "undecodable": not   *)
(* JSON, passed over by the client before the loop sees it.                *)
(***************************************************************************)
AllKinds == {"row", "refused", "contract", "undecodable"}

ASSUME WriterAssumption ==
  /\ Kinds \subseteq AllKinds
  /\ Periodic \in BOOLEAN
  /\ FetchSize \in Nat /\ QueueSize \in Nat
  /\ BatchSize \in Nat /\ MaxBuffer \in Nat
  /\ MaxMsgs \in Nat /\ MaxEnds \in Nat

VARIABLES
  topic,      \* broker: the messages produced, by kind
  committed,  \* broker: the group's committed offset
  db,         \* the rows in the database
  phase,      \* "run", "stopping" (_stop_event set), "closing", "down"
  start,      \* the offset this process started from
  fetched,    \* the consumer's position: what consume() has returned
  enqueued,   \* how far the fetched messages are in the queue
  taken,      \* how far the loop has taken messages from the queue
  buffer,     \* _buffer
  pc,         \* per task: "idle", "flushing", "committing", "done"
  batch,      \* per task: the copy of the buffer it flushes
  dropped,    \* history: rows dropped by the overflow guard
  ends        \* stops and crashes so far, for the bound

broker == <<topic, committed>>
consumer == <<fetched, enqueued, taken>>
tasks == <<pc, batch>>
bookkeeping == <<dropped, ends>>
vars == <<broker, db, phase, start, consumer, buffer, tasks, bookkeeping>>

\* The coroutines that flush: the consume loop, the timer, and the main
\* coroutine that runs the teardown once the others are done.
Workers == IF Periodic THEN {"loop", "timer"} ELSE {"loop"}
Tasks == Workers \cup {"main"}

IsRow(i) == topic[i] = "row"
AllIdle == [t \in Tasks |-> "idle"]
NoBatches == [t \in Tasks |-> {}]
Running == phase \in {"run", "stopping", "closing"}

Init ==
  /\ topic = <<>>
  /\ committed = 0
  /\ db = {}
  /\ phase = "run"
  /\ start = 0
  /\ fetched = 0 /\ enqueued = 0 /\ taken = 0
  /\ buffer = {}
  /\ pc = AllIdle
  /\ batch = NoBatches
  /\ dropped = {}
  /\ ends = 0

-----------------------------------------------------------------------------
\* Another service publishes.
Produce(k) ==
  /\ Len(topic) < MaxMsgs
  /\ topic' = Append(topic, k)
  /\ UNCHANGED <<committed, db, phase, start, consumer, buffer, tasks,
                 bookkeeping>>

\* The consume thread asks for messages once the last batch is in the queue.
Fetch(n) ==
  /\ Running
  /\ enqueued = fetched
  /\ n <= Len(topic) - fetched
  /\ fetched' = fetched + n
  /\ UNCHANGED <<broker, db, phase, start, enqueued, taken, buffer, tasks,
                 bookkeeping>>

\* _put_batch: one put, when the queue has room.
Enqueue ==
  /\ Running
  /\ enqueued < fetched
  /\ enqueued - taken < QueueSize
  /\ enqueued' = enqueued + 1
  /\ UNCHANGED <<broker, db, phase, start, fetched, taken, buffer, tasks,
                 bookkeeping>>

-----------------------------------------------------------------------------
\* Overflow guard: over MAX_BUFFER_SIZE the oldest rows go.
Overflow(rows) ==
  IF Cardinality(rows) > MaxBuffer
  THEN {i \in rows : \A j \in rows : i <= j}
  ELSE {}

\* _buffer_rows
BufferRow(i) ==
  LET rows == buffer \cup {i}
  IN  /\ buffer' = rows \ Overflow(rows)
      /\ dropped' = dropped \cup Overflow(rows)

\* _do_flush up to its await: task t copies the buffer.
BeginFlush(t, rows) ==
  /\ pc' = [pc EXCEPT ![t] = "flushing"]
  /\ batch' = [batch EXCEPT ![t] = rows]

\* maybe_flush: a full batch is flushed, a smaller one if the interval is over.
MaybeFlush(t, rows) ==
  \/ rows # {} /\ BeginFlush(t, rows)
  \/ rows = {} /\ UNCHANGED tasks
  \/ Cardinality(rows) < BatchSize /\ UNCHANGED tasks

\* The loop takes the next message of the queue.
Handle ==
  /\ pc["loop"] = "idle"
  /\ taken < enqueued
  /\ \/ phase = "run"
     \/ phase = "stopping" /\ topic[taken + 1] = "undecodable"
  /\ taken' = taken + 1
  /\ CASE topic[taken + 1] = "row" ->
            BufferRow(taken + 1) /\ MaybeFlush("loop", buffer')
       [] topic[taken + 1] = "refused" ->
            MaybeFlush("loop", buffer) /\ UNCHANGED <<buffer, dropped>>
       [] OTHER ->
            UNCHANGED <<buffer, dropped, tasks>>
  /\ UNCHANGED <<broker, db, phase, start, fetched, enqueued, ends>>

\* Mutant of TimerFlush: the timer waits for a full batch.
TimerFlush_FullBatch ==
  /\ Periodic
  /\ phase \in {"run", "stopping"}
  /\ pc["timer"] = "idle"
  /\ Cardinality(buffer) >= BatchSize
  /\ BeginFlush("timer", buffer)
  /\ UNCHANGED <<broker, db, phase, start, consumer, buffer, bookkeeping>>

\* _periodic_flush_loop: the sleep is over and there is something to flush.
TimerFlush ==
  /\ Periodic
  /\ phase \in {"run", "stopping"}
  /\ pc["timer"] = "idle"
  /\ buffer # {}
  /\ BeginFlush("timer", buffer)
  /\ UNCHANGED <<broker, db, phase, start, consumer, buffer, bookkeeping>>

-----------------------------------------------------------------------------
\* _flush_batch returns: the batch is in the database (ON CONFLICT makes a
\* repetition harmless), and the buffer, as it is now, is cleared.
FlushOk(t) ==
  /\ pc[t] = "flushing"
  /\ db' = db \cup batch[t]
  /\ buffer' = {}
  /\ pc' = [pc EXCEPT ![t] = "committing"]
  /\ batch' = [batch EXCEPT ![t] = {}]
  /\ UNCHANGED <<broker, phase, start, consumer, bookkeeping>>

\* Mutant of FlushFail: the buffer is cleared before the error is known.
FlushFail_Cleared(t) ==
  /\ pc[t] = "flushing"
  /\ db' = db
  /\ pc' = [pc EXCEPT ![t] = "idle"]
  /\ batch' = [batch EXCEPT ![t] = {}]
  /\ buffer' = {}
  /\ UNCHANGED <<broker, phase, start, consumer, bookkeeping>>

\* Mutant of FlushFail: the offset is committed in any case.
FlushFail_Committed(t) ==
  /\ pc[t] = "flushing"
  /\ db' = db
  /\ pc' = [pc EXCEPT ![t] = "committing"]
  /\ batch' = [batch EXCEPT ![t] = {}]
  /\ UNCHANGED <<broker, phase, start, consumer, buffer, bookkeeping>>

\* _flush_batch raises: nothing was written, or all of the batch was and the
\* answer is lost.  The buffer is kept and the offset is not committed.
FlushFail(t) ==
  /\ pc[t] = "flushing"
  /\ db' \in {db, db \cup batch[t]}
  /\ pc' = [pc EXCEPT ![t] = "idle"]
  /\ batch' = [batch EXCEPT ![t] = {}]
  /\ UNCHANGED <<broker, phase, start, consumer, buffer, bookkeeping>>

\* commit() without offsets commits the position of the consumer, wherever
\* the consume thread has brought it by now.
Commit(t) ==
  /\ pc[t] = "committing"
  /\ committed' = fetched
  /\ pc' = [pc EXCEPT ![t] = "idle"]
  /\ UNCHANGED <<topic, db, phase, start, consumer, buffer, batch, bookkeeping>>

\* The commit fails, or (it is asynchronous) never reaches the broker.
CommitLost(t) ==
  /\ pc[t] = "committing"
  /\ pc' = [pc EXCEPT ![t] = "idle"]
  /\ UNCHANGED <<broker, db, phase, start, consumer, buffer, batch, bookkeeping>>

-----------------------------------------------------------------------------
\* SIGTERM sets _stop_event.
Stop ==
  /\ phase = "run"
  /\ ends < MaxEnds
  /\ phase' = "stopping"
  /\ ends' = ends + 1
  /\ UNCHANGED <<broker, db, start, consumer, buffer, tasks, dropped>>

\* The loop looks at the stop only when a message comes, and leaves with it.
LoopEnds ==
  /\ phase = "stopping"
  /\ pc["loop"] = "idle"
  /\ taken < enqueued
  /\ topic[taken + 1] # "undecodable"
  /\ taken' = taken + 1
  /\ pc' = [pc EXCEPT !["loop"] = "done"]
  /\ UNCHANGED <<broker, db, phase, start, fetched, enqueued, buffer, batch,
                 bookkeeping>>

TimerEnds ==
  /\ Periodic
  /\ phase = "stopping"
  /\ pc["timer"] = "idle"
  /\ pc' = [pc EXCEPT !["timer"] = "done"]
  /\ UNCHANGED <<broker, db, phase, start, consumer, buffer, batch, bookkeeping>>

\* _teardown: a final flush of what is buffered ...
Teardown ==
  /\ phase = "stopping"
  /\ \A t \in Workers : pc[t] = "done"
  /\ phase' = "closing"
  /\ IF buffer = {} THEN UNCHANGED tasks ELSE BeginFlush("main", buffer)
  /\ UNCHANGED <<broker, db, start, consumer, buffer, bookkeeping>>

\* What is left of a process that has ended.
Gone ==
  /\ phase' = "down"
  /\ buffer' = {}
  /\ pc' = AllIdle
  /\ batch' = NoBatches

\* ... and the consumer is closed.
Close ==
  /\ phase = "closing"
  /\ pc["main"] = "idle"
  /\ Gone
  /\ UNCHANGED <<broker, db, start, consumer, bookkeeping>>

\* The process is killed.
Crash ==
  /\ Running
  /\ ends < MaxEnds
  /\ ends' = ends + 1
  /\ Gone
  /\ UNCHANGED <<broker, db, start, consumer, dropped>>

\* A new process resumes from the committed offset.
Restart ==
  /\ phase = "down"
  /\ phase' = "run"
  /\ start' = committed
  /\ fetched' = committed
  /\ enqueued' = committed
  /\ taken' = committed
  /\ UNCHANGED <<broker, db, buffer, tasks, bookkeeping>>

-----------------------------------------------------------------------------
FlushStep(t) == FlushOk(t) \/ FlushFail(t) \/ Commit(t) \/ CommitLost(t)

Next ==
  \/ \E k \in Kinds : Produce(k)
  \/ \E n \in 1..FetchSize : Fetch(n)
  \/ Enqueue
  \/ Handle
  \/ TimerFlush
  \/ \E t \in Tasks : FlushStep(t)
  \/ Stop \/ LoopEnds \/ TimerEnds \/ Teardown \/ Close
  \/ Crash \/ Restart

Spec == Init /\ [][Next]_vars

(***************************************************************************)
(* The thread, the event loop and the service manager's restart make       *)
(* progress, and a database that is tried again and again answers.         *)
(* Nothing obliges anybody to publish, to stop or to crash.                *)
(***************************************************************************)
Fairness ==
  /\ WF_vars(\E n \in 1..FetchSize : Fetch(n))
  /\ WF_vars(Enqueue)
  /\ WF_vars(Handle)
  /\ WF_vars(TimerFlush)
  /\ \A t \in Tasks : WF_vars(FlushStep(t)) /\ SF_vars(FlushOk(t))
  /\ WF_vars(LoopEnds) /\ WF_vars(TimerEnds)
  /\ WF_vars(Teardown) /\ WF_vars(Close) /\ WF_vars(Restart)

FairSpec == Spec /\ Fairness

-----------------------------------------------------------------------------
\* Type invariant of the broker, the process and the database; in particular
\* the positions of the pipeline never overtake each other.
TypeOK ==
  /\ topic \in Seq(AllKinds)
  /\ committed \in Nat /\ start \in Nat
  /\ fetched \in Nat /\ enqueued \in Nat /\ taken \in Nat
  /\ start <= taken /\ taken <= enqueued /\ enqueued <= fetched
  /\ fetched <= Len(topic) /\ committed <= fetched
  /\ db \subseteq 1..Len(topic)
  /\ buffer \subseteq 1..Len(topic)
  /\ dropped \subseteq 1..Len(topic)
  /\ phase \in {"run", "stopping", "closing", "down"}
  /\ pc \in [Tasks -> {"idle", "flushing", "committing", "done"}]
  /\ batch \in [Tasks -> SUBSET (1..Len(topic))]
  /\ ends \in Nat

\* The messages the loop has dealt with: it leaves with one it only took.
Handled == IF pc["loop"] = "done" THEN taken - 1 ELSE taken

\* _do_flush: whatever fails or overlaps, a row the loop has buffered is in
\* the database, still in the buffer, or counted by the overflow guard.
\* With the timer task of FeatureVectorWriter this fails: the row is erased
\* by the buffer.clear() of a flush that began before it came.
BufferedOrStored ==
  phase # "down" =>
    \A i \in start + 1 .. Handled :
      IsRow(i) => i \in db \cup buffer \cup dropped

\* commit(): rows that a crash would now lose, being committed but not in the
\* database, lie within one fetch and one queue of the committed offset (and
\* the message the loop stops with); rows long buffered are never among them.
LossWindow ==
  \A i \in start + 1 .. committed :
    IsRow(i) /\ i \notin db \cup dropped =>
      committed - i <= FetchSize + QueueSize

\* "flush on batch size or interval", "the next flush interval will retry
\* the same batch": what a running service has buffered does not stay there.
\* True of FeatureVectorWriter; BarWriter flushes only when a message comes.
BufferDrains ==
  (phase = "run" /\ buffer # {}) ~> (phase # "run" \/ buffer = {})
=============================================================================
