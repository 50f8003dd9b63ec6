-------------------------- MODULE KafkaWriterProofs --------------------------
(***************************************************************************)
(* What BaseWriter guarantees for every size of fetch, queue, batch and    *)
(* buffer, and any number of messages, failures, stops and crashes.        *)
(***************************************************************************)
EXTENDS KafkaWriter, TLAPS

\* The loop and the main coroutine exist in both services.
LEMMA TasksFacts == "loop" \in Tasks /\ "main" \in Tasks /\ "loop" \in Workers
BY DEF Tasks, Workers

(***************************************************************************)
(* Types.                                                                  *)
(***************************************************************************)

\* The process variables of _run and the flush: every step keeps the types,
\* and no position of the pipeline overtakes the next.
LEMMA TypeStep == TypeOK /\ [Next]_vars => TypeOK'
<1> SUFFICES ASSUME TypeOK, [Next]_vars
             PROVE  TypeOK'
    OBVIOUS
<1> USE DEF TypeOK
<1>a. AllIdle \in [Tasks -> {"idle", "flushing", "committing", "done"}]
    BY DEF AllIdle
<1>b. NoBatches \in [Tasks -> SUBSET (1..Len(topic))]
    BY DEF NoBatches
<1>1. ASSUME NEW k \in Kinds, Produce(k)
      PROVE  TypeOK'
  <2>1. k \in AllKinds
      BY WriterAssumption
  <2>2. topic' \in Seq(AllKinds) /\ Len(topic') = Len(topic) + 1
      BY <1>1, <2>1 DEF Produce
  <2>3. 1..Len(topic) \subseteq 1..Len(topic')
      BY <2>2
  <2>4. batch' \in [Tasks -> SUBSET (1..Len(topic'))]
      BY <1>1, <2>3 DEF Produce, tasks
  <2> QED
      BY <1>1, <2>2, <2>3, <2>4 DEF Produce, consumer, tasks, bookkeeping
<1>2. ASSUME NEW n \in 1..FetchSize, Fetch(n)
      PROVE  TypeOK'
    BY <1>2, WriterAssumption DEF Fetch, broker, tasks, bookkeeping
<1>3. CASE Enqueue
    BY <1>3 DEF Enqueue, broker, tasks, bookkeeping
<1>4. CASE Handle
  <2>1. /\ taken' = taken + 1 /\ taken + 1 <= enqueued
        /\ UNCHANGED <<topic, committed, db, phase, start, fetched, enqueued,
                       ends>>
      BY <1>4 DEF Handle, broker
  <2>2. buffer' \subseteq 1..Len(topic) /\ dropped' \subseteq 1..Len(topic)
    <3>1. taken + 1 \in 1..Len(topic)
        BY <2>1
    <3>2. CASE UNCHANGED <<buffer, dropped>>
        BY <3>2
    <3>3. CASE BufferRow(taken + 1)
      <4>1. Overflow(buffer \cup {taken + 1}) \subseteq buffer \cup {taken + 1}
          BY DEF Overflow
      <4> QED
          BY <3>1, <3>3, <4>1 DEF BufferRow
    <3> QED
        BY <1>4, <3>2, <3>3 DEF Handle
  <2>3. \/ UNCHANGED tasks
        \/ BeginFlush("loop", buffer) \/ BeginFlush("loop", buffer')
      BY <1>4 DEF Handle, MaybeFlush
  <2>4. /\ pc' \in [Tasks -> {"idle", "flushing", "committing", "done"}]
        /\ batch' \in [Tasks -> SUBSET (1..Len(topic))]
      BY <2>2, <2>3 DEF BeginFlush, tasks
  <2> QED
      BY <2>1, <2>2, <2>4
<1>5. CASE TimerFlush
    BY <1>5 DEF TimerFlush, BeginFlush, broker, consumer, bookkeeping
<1>6. ASSUME NEW t \in Tasks, FlushStep(t)
      PROVE  TypeOK'
  <2>1. CASE FlushOk(t)
      BY <2>1 DEF FlushOk, broker, consumer, bookkeeping
  <2>2. CASE FlushFail(t)
      BY <2>2 DEF FlushFail, broker, consumer, bookkeeping
  <2>3. CASE Commit(t)
      BY <2>3 DEF Commit, consumer, bookkeeping
  <2>4. CASE CommitLost(t)
      BY <2>4 DEF CommitLost, broker, consumer, bookkeeping
  <2> QED
      BY <1>6, <2>1, <2>2, <2>3, <2>4 DEF FlushStep
<1>7. CASE Stop
    BY <1>7 DEF Stop, broker, consumer, tasks
<1>8. CASE LoopEnds
  <2>1. /\ taken < enqueued /\ taken' = taken + 1
        /\ pc' = [pc EXCEPT !["loop"] = "done"]
        /\ UNCHANGED <<topic, committed, db, phase, start, fetched, enqueued,
                       buffer, batch, dropped, ends>>
      BY <1>8 DEF LoopEnds, broker, bookkeeping
  <2>2. pc' \in [Tasks -> {"idle", "flushing", "committing", "done"}]
      BY <2>1
  <2>3. taken' \in Nat /\ start <= taken' /\ taken' <= enqueued
      BY <2>1
  <2> QED
      BY <2>1, <2>2, <2>3
<1>9. CASE TimerEnds
    BY <1>9 DEF TimerEnds, broker, consumer, bookkeeping
<1>10. CASE Teardown
    BY <1>10 DEF Teardown, BeginFlush, broker, consumer, tasks, bookkeeping
<1>11. CASE Close
    BY <1>11, <1>a, <1>b DEF Close, Gone, broker, consumer, bookkeeping
<1>12. CASE Crash
    BY <1>12, <1>a, <1>b DEF Crash, Gone, broker, consumer
<1>13. CASE Restart
    BY <1>13 DEF Restart, broker, tasks, bookkeeping
<1>14. CASE UNCHANGED vars
    BY <1>14 DEF vars, broker, consumer, tasks, bookkeeping
<1> QED
    BY <1>1, <1>2, <1>3, <1>4, <1>5, <1>6, <1>7, <1>8, <1>9, <1>10, <1>11,
       <1>12, <1>13, <1>14 DEF Next

\* The consume loop, flush and lifecycle of the writers keep their types, with
\* or without a timer task.
THEOREM WriterTypeCorrect == Spec => []TypeOK
<1>1. Init => TypeOK
    BY WriterAssumption DEF Init, TypeOK, AllIdle, NoBatches
<1> QED
    BY <1>1, TypeStep, PTL DEF Spec

-----------------------------------------------------------------------------
(***************************************************************************)
(* One task at a time: without a timer nobody appends to the buffer while  *)
(* a flush is on its way, because the loop waits for its own flush and the *)
(* teardown begins when the loop has left.  So a flush writes all of the   *)
(* buffer it clears, and the buffer is empty when the offset is committed. *)
(***************************************************************************)
PhaseInv ==
  /\ pc["main"] # "idle" => phase = "closing"
  /\ phase = "closing" => pc["loop"] = "done"
  /\ phase \in {"run", "down"} => pc["loop"] # "done"
  /\ phase = "down" => pc["loop"] = "idle"

FlushInv ==
  \A t \in Tasks :
    /\ pc[t] = "flushing" => buffer \subseteq batch[t]
    /\ pc[t] = "committing" => buffer = {}

PipelineInv ==
  /\ enqueued - taken <= QueueSize
  /\ fetched - enqueued <= FetchSize

WriterInv ==
  TypeOK /\ PhaseInv /\ FlushInv /\ PipelineInv /\ BufferedOrStored /\ LossWindow

\* PhaseInv is inductive: the coroutines take turns.
LEMMA PhaseStep ==
  ASSUME ~Periodic, TypeOK, PhaseInv, [Next]_vars
  PROVE  PhaseInv'
<1> USE TasksFacts DEF TypeOK, PhaseInv
<1>0. Tasks = {"loop", "main"}
    BY DEF Tasks, Workers
<1>1. CASE \E k \in Kinds : Produce(k)
    BY <1>1 DEF Produce, tasks
<1>2. CASE \E n \in 1..FetchSize : Fetch(n)
    BY <1>2 DEF Fetch, tasks
<1>3. CASE Enqueue
    BY <1>3 DEF Enqueue, tasks
<1>4. CASE Handle
  <2>1. /\ phase' = phase /\ phase \in {"run", "stopping"}
        /\ pc["loop"] = "idle"
        /\ pc' \in {pc, [pc EXCEPT !["loop"] = "flushing"]}
      BY <1>4 DEF Handle, MaybeFlush, BeginFlush, tasks
  <2> QED
      BY <2>1
<1>5. CASE TimerFlush
    BY <1>5 DEF TimerFlush
<1>6. ASSUME NEW t \in Tasks, FlushStep(t)
      PROVE  PhaseInv'
  <2>1. /\ phase' = phase /\ pc[t] \in {"flushing", "committing"}
        /\ \E v \in {"idle", "committing"} : pc' = [pc EXCEPT ![t] = v]
      BY <1>6 DEF FlushStep, FlushOk, FlushFail, Commit, CommitLost
  <2> QED
      BY <1>0, <2>1
<1>7. CASE Stop
    BY <1>7 DEF Stop, tasks
<1>8. CASE LoopEnds
    BY <1>8 DEF LoopEnds
<1>9. CASE TimerEnds
    BY <1>9 DEF TimerEnds
<1>10. CASE Teardown
    BY <1>10 DEF Teardown, BeginFlush, tasks
<1>11. CASE Close
    BY <1>11 DEF Close, Gone, AllIdle
<1>12. CASE Crash
    BY <1>12 DEF Crash, Gone, AllIdle
<1>13. CASE Restart
    BY <1>13 DEF Restart, tasks
<1>14. CASE UNCHANGED vars
    BY <1>14 DEF vars, tasks
<1> QED
    BY <1>1, <1>2, <1>3, <1>4, <1>5, <1>6, <1>7, <1>8, <1>9, <1>10, <1>11,
       <1>12, <1>13, <1>14 DEF Next

\* FlushInv is inductive: nobody appends during a flush.
LEMMA FlushInvStep ==
  ASSUME ~Periodic, TypeOK, PhaseInv, FlushInv, [Next]_vars
  PROVE  FlushInv'
<1> USE TasksFacts DEF TypeOK, FlushInv
<1>0. Tasks = {"loop", "main"}
    BY DEF Tasks, Workers
<1>1. CASE UNCHANGED <<buffer, tasks>>
    BY <1>1 DEF tasks
<1>2. CASE Handle
  <2>1. pc["loop"] = "idle" /\ pc["main"] = "idle"
      BY <1>2 DEF Handle, PhaseInv
  <2>2. \/ UNCHANGED tasks
        \/ /\ pc' = [pc EXCEPT !["loop"] = "flushing"]
           /\ batch' = [batch EXCEPT !["loop"] = buffer']
    <3>1. CASE topic[taken + 1] = "row"
        BY <1>2, <3>1 DEF Handle, MaybeFlush, BeginFlush
    <3>2. CASE topic[taken + 1] # "row"
        BY <1>2, <3>2 DEF Handle, MaybeFlush, BeginFlush
    <3> QED
        BY <3>1, <3>2
  <2>3. CASE UNCHANGED tasks
      BY <1>0, <2>1, <2>3 DEF tasks
  <2>4. CASE /\ pc' = [pc EXCEPT !["loop"] = "flushing"]
             /\ batch' = [batch EXCEPT !["loop"] = buffer']
      BY <1>0, <2>1, <2>4
  <2> QED
      BY <2>2, <2>3, <2>4
<1>3. ASSUME NEW t \in Tasks, FlushStep(t)
      PROVE  FlushInv'
  <2>1. \A u \in Tasks : u # t => pc[u] \in {"idle", "done"}
      BY <1>0, <1>3
         DEF FlushStep, FlushOk, FlushFail, Commit, CommitLost, PhaseInv
  <2>2. \A u \in Tasks : u # t => pc'[u] = pc[u]
      BY <1>3 DEF FlushStep, FlushOk, FlushFail, Commit, CommitLost
  <2>3. CASE FlushOk(t)
      BY <2>1, <2>2, <2>3 DEF FlushOk
  <2>4. CASE FlushFail(t) \/ Commit(t) \/ CommitLost(t)
    <3>1. pc'[t] = "idle"
        BY <2>4 DEF FlushFail, Commit, CommitLost
    <3> QED
        BY <2>1, <2>2, <3>1
  <2> QED
      BY <1>3, <2>3, <2>4 DEF FlushStep
<1>4. CASE LoopEnds
    BY <1>4 DEF LoopEnds
<1>5. CASE Teardown
    BY <1>0, <1>5 DEF Teardown, BeginFlush, tasks, PhaseInv, Workers
<1>6. CASE Close \/ Crash
    BY <1>6 DEF Close, Crash, Gone, AllIdle
<1> QED
    BY <1>1, <1>2, <1>3, <1>4, <1>5, <1>6
       DEF Next, Produce, Fetch, Enqueue, TimerFlush, TimerEnds, Stop, Restart,
           vars, tasks

\* PipelineInv is inductive: the thread is a queue and a fetch ahead at most.
LEMMA PipelineStep ==
  ASSUME TypeOK, PipelineInv, [Next]_vars
  PROVE  PipelineInv'
<1> USE WriterAssumption DEF TypeOK, PipelineInv
<1>1. CASE UNCHANGED consumer
    BY <1>1 DEF consumer
<1>2. ASSUME NEW n \in 1..FetchSize, Fetch(n)
      PROVE  PipelineInv'
    BY <1>2 DEF Fetch
<1>3. CASE Enqueue
    BY <1>3 DEF Enqueue
<1>4. CASE Handle \/ LoopEnds
  <2>1. taken' = taken + 1 /\ UNCHANGED <<fetched, enqueued>>
      BY <1>4 DEF Handle, LoopEnds
  <2> QED
      BY <2>1
<1>5. CASE Restart
    BY <1>5 DEF Restart
<1> QED
    BY <1>1, <1>2, <1>3, <1>4, <1>5
       DEF Next, Produce, TimerFlush, FlushStep, FlushOk, FlushFail, Commit,
           CommitLost, Stop, TimerEnds, Teardown, Close, Crash, vars

\* Rows of BufferedOrStored: only Handle adds a row to be accounted for, and
\* no flush clears a row it has not written.
LEMMA BufferedStep ==
  ASSUME ~Periodic, TypeOK, TypeOK', PhaseInv, FlushInv, BufferedOrStored,
         [Next]_vars
  PROVE  BufferedOrStored'
<1> USE TasksFacts DEF TypeOK
<1>1. ASSUME NEW k \in Kinds, Produce(k)
      PROVE  BufferedOrStored'
  <2>1. topic' = Append(topic, k) /\ Handled' = Handled /\ start' = start
        /\ phase' = phase /\ db' = db /\ buffer' = buffer /\ dropped' = dropped
      BY <1>1 DEF Produce, Handled, consumer, tasks, bookkeeping
  <2>2. \A i \in start + 1 .. Handled : topic'[i] = topic[i]
    <3>1. \A i \in start + 1 .. Handled : i \in 1..Len(topic)
        BY DEF Handled
    <3>2. \A i \in 1..Len(topic) : topic'[i] = topic[i]
        BY <2>1
    <3> QED
        BY <3>1, <3>2
  <2> QED
      BY <2>1, <2>2 DEF BufferedOrStored, IsRow
<1>2. CASE Handle
  <2>1. /\ pc["loop"] = "idle" /\ taken' = taken + 1
        /\ UNCHANGED <<topic, db, phase, start>>
        /\ phase # "down"
      BY <1>2 DEF Handle, broker
  <2>2. pc'["loop"] # "done"
      BY <1>2 DEF Handle, MaybeFlush, BeginFlush, tasks
  <2>3. Handled = taken /\ Handled' = taken + 1
      BY <2>1, <2>2 DEF Handled
  <2>4. buffer \cup dropped \subseteq buffer' \cup dropped'
      BY <1>2 DEF Handle, BufferRow
  <2>5. IsRow(taken + 1) => taken + 1 \in buffer' \cup dropped'
      BY <1>2 DEF Handle, BufferRow, IsRow
  <2>6. \A i \in start + 1 .. taken + 1 : i = taken + 1 \/ i \in start + 1 .. taken
      OBVIOUS
  <2> QED
      BY <2>1, <2>3, <2>4, <2>5, <2>6 DEF BufferedOrStored, IsRow
<1>3. ASSUME NEW t \in Tasks, FlushStep(t)
      PROVE  BufferedOrStored'
  <2>1. /\ UNCHANGED <<topic, phase, start, taken, dropped>>
        /\ db \cup buffer \subseteq db' \cup buffer'
      BY <1>3 DEF FlushStep, FlushOk, FlushFail, Commit, CommitLost, broker,
                  consumer, bookkeeping, FlushInv
  <2>2. pc["loop"] = "done" <=> pc'["loop"] = "done"
      BY <1>3 DEF FlushStep, FlushOk, FlushFail, Commit, CommitLost
  <2>3. Handled' = Handled
      BY <2>1, <2>2 DEF Handled
  <2> QED
      BY <2>1, <2>3 DEF BufferedOrStored, IsRow
<1>4. CASE LoopEnds
  <2>1. Handled' = Handled /\ UNCHANGED <<topic, phase, start, db, buffer, dropped>>
      BY <1>4 DEF LoopEnds, Handled, broker, bookkeeping
  <2> QED
      BY <2>1 DEF BufferedOrStored, IsRow
<1>5. CASE Teardown
  <2>1. pc["loop"] = "done" /\ pc'["loop"] = "done"
      BY <1>5 DEF Teardown, BeginFlush, tasks
  <2>2. Handled' = Handled /\ UNCHANGED <<topic, start, db, buffer, dropped>>
        /\ phase # "down"
      BY <1>5, <2>1 DEF Teardown, Handled, broker, consumer, bookkeeping
  <2> QED
      BY <2>2 DEF BufferedOrStored, IsRow
<1>6. CASE Close \/ Crash
    BY <1>6 DEF Close, Crash, Gone, BufferedOrStored
<1>7. CASE Restart
  <2>1. start' = committed /\ taken' = committed /\ Handled' <= committed
      BY <1>7 DEF Restart, Handled
  <2> QED
      BY <2>1 DEF BufferedOrStored, Handled
<1>8. CASE UNCHANGED <<topic, db, start, taken, buffer, dropped, pc>> /\ phase # "down"
    BY <1>8 DEF BufferedOrStored, Handled, IsRow
<1>9. CASE UNCHANGED vars
    BY <1>9 DEF BufferedOrStored, Handled, IsRow, vars, broker, consumer, tasks,
                bookkeeping
<1>10. CASE (\E n \in 1..FetchSize : Fetch(n)) \/ Enqueue \/ Stop
    BY <1>8, <1>10 DEF Fetch, Enqueue, Stop, Running, broker, consumer, tasks,
                       bookkeeping
<1> QED
    BY <1>1, <1>2, <1>3, <1>4, <1>5, <1>6, <1>7, <1>9, <1>10
       DEF Next, TimerFlush, TimerEnds

\* Only a commit moves the committed offset, and by then every handled row is
\* in the database: what it covers beyond is at most a queue and a fetch.
LEMMA LossStep ==
  ASSUME ~Periodic, TypeOK, TypeOK', PhaseInv, FlushInv, PipelineInv,
         BufferedOrStored, LossWindow, [Next]_vars
  PROVE  LossWindow'
<1> USE TasksFacts, WriterAssumption DEF TypeOK
<1>1. ASSUME NEW k \in Kinds, Produce(k)
      PROVE  LossWindow'
  <2>1. topic' = Append(topic, k)
        /\ UNCHANGED <<committed, start, db, dropped>>
      BY <1>1 DEF Produce, bookkeeping
  <2>2. \A i \in 1..Len(topic) : topic'[i] = topic[i]
      BY <2>1
  <2>3. \A i \in start + 1 .. committed : topic'[i] = topic[i]
      BY <2>2
  <2> QED
      BY <2>1, <2>3 DEF LossWindow, IsRow
<1>2. ASSUME NEW t \in Tasks, Commit(t)
      PROVE  LossWindow'
  <2>1. /\ UNCHANGED <<topic, start, db, dropped>> /\ committed' = fetched
        /\ buffer = {}
      BY <1>2 DEF Commit, FlushInv, bookkeeping
  <2>2. phase # "down"
      BY <1>2 DEF Commit, PhaseInv, Tasks, Workers
  <2>3. ASSUME NEW i \in start + 1 .. fetched, IsRow(i), i \notin db \cup dropped
        PROVE  fetched - i <= FetchSize + QueueSize
    <3>1. i \notin start + 1 .. Handled
        BY <2>1, <2>2, <2>3 DEF BufferedOrStored
    <3>2. i >= taken
        BY <3>1 DEF Handled
    <3> QED
        BY <3>2 DEF PipelineInv
  <2> QED
      BY <2>1, <2>3 DEF LossWindow, IsRow
<1>3. CASE Restart
  <2>1. start' = committed /\ committed' = committed
      BY <1>3 DEF Restart, broker
  <2> QED
      BY <2>1 DEF LossWindow
<1>4. CASE /\ UNCHANGED <<topic, committed, start>>
           /\ db \subseteq db' /\ dropped \subseteq dropped'
    BY <1>4 DEF LossWindow, IsRow
<1>5. CASE Handle
  <2>1. dropped \subseteq dropped'
      BY <1>5 DEF Handle, BufferRow
  <2> QED
      BY <1>4, <1>5, <2>1 DEF Handle, broker
<1>6. ASSUME NEW t \in Tasks, FlushOk(t) \/ FlushFail(t) \/ CommitLost(t)
      PROVE  LossWindow'
    BY <1>4, <1>6 DEF FlushOk, FlushFail, CommitLost, broker, bookkeeping
<1>7. CASE UNCHANGED vars
    BY <1>4, <1>7 DEF vars, broker, bookkeeping
<1>8. CASE \/ \E n \in 1..FetchSize : Fetch(n)
           \/ Enqueue \/ Stop \/ LoopEnds \/ Teardown \/ Close \/ Crash
    BY <1>4, <1>8 DEF Fetch, Enqueue, Stop, LoopEnds, Teardown, Close, Crash,
                      broker, bookkeeping
<1> QED
    BY <1>1, <1>2, <1>3, <1>5, <1>6, <1>7, <1>8
       DEF Next, FlushStep, TimerFlush, TimerEnds

\* WriterInv is an invariant of the service without a timer.
LEMMA WriterInvariant ==
  ASSUME ~Periodic
  PROVE  Spec => []WriterInv
<1>1. Init => WriterInv
  <2> SUFFICES ASSUME Init
               PROVE  WriterInv
      OBVIOUS
  <2>1. TypeOK
      BY WriterAssumption DEF Init, TypeOK, AllIdle, NoBatches
  <2>2. PhaseInv /\ FlushInv
      BY TasksFacts DEF Init, PhaseInv, FlushInv, AllIdle
  <2>3. PipelineInv
      BY WriterAssumption DEF Init, PipelineInv
  <2>4. BufferedOrStored /\ LossWindow
      BY TasksFacts DEF Init, BufferedOrStored, LossWindow, Handled, AllIdle
  <2> QED
      BY <2>1, <2>2, <2>3, <2>4 DEF WriterInv
<1>2. WriterInv /\ [Next]_vars => WriterInv'
    BY TypeStep, PhaseStep, FlushInvStep, PipelineStep, BufferedStep, LossStep
       DEF WriterInv
<1> QED
    BY <1>1, <1>2, PTL DEF Spec

\* _do_flush of BarWriter: a buffered row is stored, still buffered or counted
\* as dropped, whatever flushes and commits fail.
THEOREM WriterBufferedOrStored ==
  ASSUME ~Periodic
  PROVE  Spec => []BufferedOrStored
<1>1. WriterInv => BufferedOrStored
    BY DEF WriterInv
<1> QED
    BY <1>1, WriterInvariant, PTL

\* commit() of BarWriter: what a crash or a stop loses is within one fetch and
\* one queue of the committed offset.
THEOREM WriterLossWindow ==
  ASSUME ~Periodic
  PROVE  Spec => []LossWindow
<1>1. WriterInv => LossWindow
    BY DEF WriterInv
<1> QED
    BY <1>1, WriterInvariant, PTL
=============================================================================
