---------------------------- MODULE OutputQueue ----------------------------
(***************************************************************************)
(* The output buffer of the feature pipeline,                              *)
(* src/intelligence/pipeline/output_queue.py OutputQueue: a high and a low *)
(* priority asyncio.Queue, callers that put messages into them with and    *)
(* without waiting, one drain loop that publishes batches of both, its     *)
(* cancellation, and join(), which a teardown awaits.                      *)
(*                                                                         *)
(* A message is a number, given in the order of the calls.  All code runs  *)
(* in one event loop, so what lies between two awaits is one step: the     *)
(* choice of a whole batch, for instance.                                  *)
(***************************************************************************)
EXTENDS Integers, SequencesExt

CONSTANTS
  MaxSize,     \* maxsize of either queue
  BatchSize,   \* drain_batch_size
  DrainRatio,  \* drain_ratio
  Threshold,   \* _DRAIN_BACKOFF_THRESHOLD
  MaxItems     \* bound: messages offered

ASSUME OutputAssumption ==
  /\ MaxSize \in Nat \ {0} /\ BatchSize \in Nat \ {0}
  /\ DrainRatio \in Nat \ {0} /\ Threshold \in Nat \ {0}
  /\ MaxItems \in Nat

Priorities == {"high", "low"}

NoBatch == [p \in Priorities |-> <<>>]

VARIABLES
  queue,       \* _high_queue and _low_queue
  unfinished,  \* asyncio.Queue._unfinished_tasks of either
  waiting,     \* the puts of enqueue_blocking that wait for room
  batch,       \* the messages of the drain loop's batch that are not handled yet
  noneSent,    \* batch_failures counts every message of the batch so far
  loop,        \* where the drain loop is
  highSince,   \* high_drained_since_low, up to DrainRatio
  allFail,     \* consecutive_all_fail_batches, up to Threshold
  running,     \* running_fn()
  join,        \* which queue join() awaits, if it was called
  offered,     \* how many messages callers have offered
  late,        \* history: the messages put after the drain loop had ended
  put,         \* history: the messages put into either queue, in order
  failed,      \* history: the messages whose publish raised
  published    \* history: the messages on the topic, in order

queues == <<queue, unfinished, waiting>>
drain == <<batch, noneSent, loop, highSince, allFail>>
history == <<late, put, failed, published>>
vars == <<queues, drain, running, join, offered, history>>

Init ==
  /\ queue = NoBatch
  /\ unfinished = [p \in Priorities |-> 0]
  /\ waiting = NoBatch
  /\ batch = NoBatch /\ noneSent = TRUE /\ loop = "idle"
  /\ highSince = 0 /\ allFail = 0
  /\ running = TRUE /\ join = "none"
  /\ offered = 0
  /\ late = {} /\ put = NoBatch /\ failed = {} /\ published = <<>>

Min2(a, b) == IF a < b THEN a ELSE b

\* Mutant of Full: the test is off by one.
Full_OffByOne(p) == Len(queue[p]) > MaxSize

Full(p) == Len(queue[p]) >= MaxSize

\* asyncio.Queue.put_nowait of a message, when there is room.
Put(p, i) ==
  /\ queue' = [queue EXCEPT ![p] = Append(@, i)]
  /\ unfinished' = [unfinished EXCEPT ![p] = @ + 1]
  /\ late' = IF loop \in {"off", "dead"} THEN late \cup {i} ELSE late
  /\ put' = [put EXCEPT ![p] = Append(@, i)]

-----------------------------------------------------------------------------
Offer(i) == offered < MaxItems /\ i = offered + 1 /\ offered' = i

\* enqueue: a full queue drops the message.
Enqueue(p, i) ==
  /\ Offer(i)
  /\ IF Full(p) THEN UNCHANGED <<queue, unfinished, late, put>> ELSE Put(p, i)
  /\ UNCHANGED <<waiting, drain, running, join, failed, published>>

\* enqueue_blocking, and enqueue_many for each of its messages: a full queue
\* makes the caller wait.
EnqueueBlocking(p, i) ==
  /\ Offer(i)
  /\ IF Full(p)
     THEN /\ waiting' = [waiting EXCEPT ![p] = Append(@, i)]
          /\ UNCHANGED <<queue, unfinished, late, put>>
     ELSE Put(p, i) /\ UNCHANGED waiting
  /\ UNCHANGED <<drain, running, join, failed, published>>

\* The first waiting put finds room.
PutWakes(p) ==
  /\ waiting[p] # <<>> /\ ~Full(p)
  /\ Put(p, Head(waiting[p]))
  /\ waiting' = [waiting EXCEPT ![p] = Tail(@)]
  /\ UNCHANGED <<drain, running, join, offered, failed, published>>

\* timeout_sec: a low message is dropped, for a high one the caller gets the
\* error; neither is in the queue.
PutTimeout(p, n) ==
  /\ n \in DOMAIN waiting[p]
  /\ waiting' = [waiting EXCEPT ![p] = RemoveAt(@, n)]
  /\ UNCHANGED <<queue, unfinished, drain, running, join, offered, history>>

-----------------------------------------------------------------------------
HighTaken == Min2(Len(queue["high"]), BatchSize)

\* high_drained_since_low after the high messages of the batch.
SinceLow == Min2(highSince + HighTaken, DrainRatio)

\* A low message is taken first if the high queue is empty, and otherwise last,
\* when the batch has exhausted the high queue and the ratio is met.
LowTaken ==
  IF /\ queue["low"] # <<>>
     /\ HighTaken < BatchSize
     /\ HighTaken = 0 \/ SinceLow >= DrainRatio
  THEN 1 ELSE 0

Taken(p) == IF p = "high" THEN HighTaken ELSE LowTaken

\* Mutant of TakeBatch: task_done() follows the get, as in a loop that counts a
\* message when it takes it.
TakeBatch_DoneEarly ==
  /\ loop = "idle"
  /\ HighTaken + LowTaken > 0
  /\ batch' = [p \in Priorities |-> SubSeq(queue[p], 1, Taken(p))]
  /\ queue' = [p \in Priorities |-> SubSeq(queue[p], Taken(p) + 1, Len(queue[p]))]
  /\ unfinished' = [p \in Priorities |-> unfinished[p] - Taken(p)]
  /\ highSince' = IF LowTaken > 0 THEN 0 ELSE SinceLow
  /\ loop' = "publish"
  /\ UNCHANGED <<waiting, noneSent, allFail, running, join, offered, history>>

\* One pass of drain_loop up to its first publish.
TakeBatch ==
  /\ loop = "idle"
  /\ HighTaken + LowTaken > 0
  /\ batch' = [p \in Priorities |-> SubSeq(queue[p], 1, Taken(p))]
  /\ queue' = [p \in Priorities |-> SubSeq(queue[p], Taken(p) + 1, Len(queue[p]))]
  /\ highSince' = IF LowTaken > 0 THEN 0 ELSE SinceLow
  /\ loop' = "publish"
  /\ UNCHANGED <<unfinished, waiting, noneSent, allFail, running, join, offered,
                 history>>

\* The for loop over the batch: the high messages come first.
InFlight == IF batch["high"] # <<>> THEN "high" ELSE "low"

Current == Head(batch[InFlight])

\* The messages of one priority behind the one in flight.
Behind(p) == IF p = InFlight THEN Tail(batch[p]) ELSE batch[p]

\* The messages of one priority a caller was told are in and no publish has
\* ended for.
Pending(p) == Range(queue[p]) \cup Range(batch[p])

\* The finally of a publish: task_done() on the message's queue.
Handle == unfinished' = [unfinished EXCEPT ![InFlight] = @ - 1]

\* One publish has ended; behind the last one, the batch's failures decide
\* whether the loop backs off.
Advance(raised) ==
  /\ batch' = [p \in Priorities |-> Behind(p)]
  /\ IF \E p \in Priorities : Behind(p) # <<>>
     THEN /\ noneSent' = (noneSent /\ raised)
          /\ UNCHANGED <<loop, allFail>>
     ELSE /\ noneSent' = TRUE
          /\ allFail' = IF noneSent /\ raised THEN Min2(allFail + 1, Threshold) ELSE 0
          /\ loop' = IF allFail' >= Threshold THEN "backoff" ELSE "idle"

PublishOk ==
  /\ loop = "publish"
  /\ published' = Append(published, Current)
  /\ Handle
  /\ Advance(FALSE)
  /\ UNCHANGED <<queue, waiting, highSince, running, join, offered, late, put, failed>>

\* Mutant of PublishFail: the failure ends the whole batch.
PublishFail_EndsBatch ==
  /\ loop = "publish"
  /\ UNCHANGED published
  /\ failed' = failed \cup {Current}
  /\ unfinished' = [p \in Priorities |-> unfinished[p] - Len(batch[p])]
  /\ batch' = NoBatch /\ noneSent' = TRUE /\ loop' = "idle"
  /\ UNCHANGED <<queue, waiting, highSince, allFail, running, join, offered, late, put>>

\* The publish of one message fails; the batch goes on without it.  The broker
\* may have taken it.
PublishFail ==
  /\ loop = "publish"
  /\ published' \in {published, Append(published, Current)}
  /\ failed' = failed \cup {Current}
  /\ Handle
  /\ Advance(TRUE)
  /\ UNCHANGED <<queue, waiting, highSince, running, join, offered, late, put>>

LoopTo(l) ==
  /\ loop' = l
  /\ UNCHANGED <<queues, batch, noneSent, highSince, allFail, running, join, offered,
                 history>>

\* Mutant of BackoffOver: the back-off lasts until a publish succeeds, which
\* only the loop itself could do.
BackoffOver_Stuck == loop = "backoff" /\ allFail < Threshold /\ LoopTo("idle")

BackoffOver == loop = "backoff" /\ LoopTo("idle")

\* The condition of the while: the loop ends when the service has stopped and
\* both queues are empty.
LoopEnds ==
  /\ loop = "idle" /\ ~running
  /\ \A p \in Priorities : queue[p] = <<>>
  /\ LoopTo("off")

-----------------------------------------------------------------------------
\* Mutant of Requeued: the message in flight is put back too.
Requeued_InFlight(p) ==
  SubSeq(batch[p], 1, Min2(Len(batch[p]), MaxSize - Len(queue[p])))

\* The messages that cancelling puts back: those behind the one in flight,
\* while there is room.
Requeued(p) ==
  SubSeq(Behind(p), 1, Min2(Len(Behind(p)), MaxSize - Len(queue[p])))

\* The drain task is cancelled during a publish.  The message in flight counts
\* as handled whether or not it reached the broker.  task_done() is called for
\* it alone, and what is put back counts once more.
Cancel ==
  /\ loop = "publish"
  /\ published' \in {published, Append(published, Current)}
  /\ queue' = [p \in Priorities |-> queue[p] \o Requeued(p)]
  /\ unfinished' = [p \in Priorities |->
       unfinished[p] + Len(Requeued(p)) - (IF p = InFlight THEN 1 ELSE 0)]
  /\ loop' = "dead"
  /\ batch' = NoBatch /\ noneSent' = TRUE
  /\ UNCHANGED <<waiting, highSince, allFail, running, join, offered, late, put, failed>>

\* A cancellation while the loop waits for a message or backs off.
CancelIdle == loop \in {"idle", "backoff"} /\ LoopTo("dead")

StopRunning ==
  /\ running
  /\ running' = FALSE
  /\ UNCHANGED <<queues, drain, join, offered, history>>

\* join(): first the high queue, then the low one.
JoinBegin ==
  /\ join = "none"
  /\ join' = "high"
  /\ UNCHANGED <<queues, drain, running, offered, history>>

JoinQueue(p) ==
  /\ join = p
  /\ unfinished[p] = 0
  /\ join' = IF p = "high" THEN "low" ELSE "done"
  /\ UNCHANGED <<queues, drain, running, offered, history>>

-----------------------------------------------------------------------------
Drain == TakeBatch \/ PublishOk \/ PublishFail \/ BackoffOver \/ LoopEnds

Next ==
  \/ \E p \in Priorities :
       \/ Enqueue(p, offered + 1) \/ EnqueueBlocking(p, offered + 1)
       \/ PutWakes(p) \/ JoinQueue(p)
       \/ \E n \in 1..MaxItems : PutTimeout(p, n)
  \/ Drain
  \/ Cancel \/ CancelIdle \/ StopRunning \/ JoinBegin

Spec == Init /\ [][Next]_vars

\* The event loop runs the drain task, woken puts and a join that can go on.
FairSpec ==
  /\ Spec
  /\ WF_vars(Drain)
  /\ \A p \in Priorities : WF_vars(PutWakes(p)) /\ WF_vars(JoinQueue(p))

-----------------------------------------------------------------------------
Items == 1..MaxItems

TypeOK ==
  /\ queue \in [Priorities -> Seq(Items)]
  /\ \A p \in Priorities : Len(queue[p]) <= MaxSize
  /\ unfinished \in [Priorities -> Nat]
  /\ waiting \in [Priorities -> Seq(Items)]
  /\ batch \in [Priorities -> Seq(Items)] /\ Len(batch["low"]) <= 1
  /\ Len(batch["high"]) + Len(batch["low"]) <= BatchSize
  /\ loop \in {"idle", "publish", "backoff", "off", "dead"}
  /\ noneSent \in BOOLEAN
  /\ (batch = NoBatch) <=> (loop # "publish")
  /\ highSince \in 0..DrainRatio /\ allFail \in 0..Threshold
  /\ running \in BOOLEAN /\ join \in {"none", "high", "low", "done"}
  /\ offered \in 0..MaxItems /\ late \subseteq Items /\ failed \subseteq Items
  /\ put \in [Priorities -> Seq(Items)] /\ published \in Seq(Items)

(* A message reaches the topic at most once, and one that may have reached it  *)
(* is not in a queue any more: neither a failed publish nor a cancellation in  *)
(* the middle of a batch (l. 346-362) makes a later publish repeat it.         *)
AtMostOnce ==
  /\ IsInjective(published)
  /\ \A p \in Priorities : Range(published) \cap Pending(p) = {}

(* The unfinished count of a queue covers every message that is queued or in   *)
(* the batch before its publish, so join() never returns before they are       *)
(* handled; as long as the drain task was not cancelled it counts exactly      *)
(* them, so a clean stop does not leave join() waiting for its timeout.        *)
JoinCounts ==
  \A p \in Priorities :
    LET open == Len(queue[p]) + Len(batch[p])
    IN  /\ unfinished[p] >= open
        /\ loop # "dead" => unfinished[p] = open

\* How many messages of one priority no publish is to come for any more.
Settled(p) == Len(put[p]) - Len(batch[p]) - Len(queue[p])

\* Of what was put, the first messages had their publish, and the others are
\* in the batch and the queue, in the order of the puts.
Accounted(p) ==
  /\ Settled(p) >= 0
  /\ \A n \in 1..Settled(p) : put[p][n] \in Range(published) \cup failed
  /\ \A n \in 1..Len(batch[p]) : batch[p][n] = put[p][Settled(p) + n]
  /\ \A n \in 1..Len(queue[p]) :
       queue[p][n] = put[p][Settled(p) + Len(batch[p]) + n]

\* The topic has the messages of one priority in the order of the puts.
TopicInOrder(p) ==
  \A m, n \in DOMAIN put[p], a, b \in DOMAIN published :
    m < n /\ put[p][m] = published[a] /\ put[p][n] = published[b] => a < b

(* Until the drain task is cancelled no message that was put goes missing: it  *)
(* waits in the batch or the queue, in the order of the puts, or it had its    *)
(* publish, and only a publish that raised may have left it off the topic.     *)
(* Nor do failures, batches of both priorities or a cancellation make the      *)
(* topic repeat the puts in another order.  So a loop that drains what remains *)
(* after running_fn() returns False (l. 244-245) delivers all that was put     *)
(* before its end but for failed publishes, which nothing tries again.         *)
DeliversInOrder ==
  /\ loop # "dead" => \A p \in Priorities : Accounted(p)
  /\ loop = "off" => \A p \in Priorities : Range(queue[p]) \subseteq late
  /\ \A p \in Priorities : TopicInOrder(p)

(* A teardown's join() returns once callers stop, unless the drain task was    *)
(* cancelled or a message arrived after its end; in those cases only the       *)
(* timeout around join() ends it.                                              *)
JoinReturns == (join = "high") ~> (join = "done" \/ loop = "dead" \/ late # {})
=============================================================================
