----------------------- MODULE FeaturePipelineProofs -----------------------
(***************************************************************************)
(* Proofs about FeaturePipeline, for any keys, momentum map, queue sizes   *)
(* and numbers of bars, starts and faults.                                 *)
(***************************************************************************)
EXTENDS FeaturePipeline, SequenceTheorems, TLAPS

\* A sequence that has every member of a set once, in order.
Counts(s, S) == Increasing(s) /\ {s[i] : i \in DOMAIN s} = S

\* Nothing is left of an earlier run when the service reads no bars.
NothingKept ==
  phase # "run" =>
    /\ missed = {} /\ eager = {} /\ first = pos
    /\ \A k \in Keys : /\ queue[k] = <<>> /\ worker[k] = "none"
                       /\ history[k] = <<>> /\ seeded[k] = 0
                       /\ cache[k] = NoCache /\ lost[k] = NoLoss

\* Only bars that were read are missed.
MissedWereRead == missed \subseteq 1..pos

\* A bar in computation is the last of a history that is long enough, and so is
\* the history of a cache that its worker has made.
ComputesWhenWarm ==
  \A k \in Keys :
    worker[k] = "compute" \/ (cache[k].made /\ k \notin eager) => Len(history[k]) >= MinBars[k]

\* Failed computations are of settled bars.
LostAreSettled == \A k \in Keys : lost[k].vp \cup lost[k].wk \subseteq Settled(k)

\* A key without a cache had none at the start and no failed computation.
UnmadeIsClean ==
  \A k \in Keys : ~cache[k].made => k \notin eager /\ lost[k] = NoLoss

PipelineInv ==
  /\ TypeOK
  /\ NothingKept
  /\ MissedWereRead /\ FeedIsComplete
  /\ ComputesWhenWarm /\ LostAreSettled /\ UnmadeIsClean /\ CacheIsReplay

-----------------------------------------------------------------------------
(* Sequences.                                                               *)

LEMMA CountsEmpty == Counts(<<>>, {})
  BY DEF Counts, Increasing

LEMMA CountsRange ==
  ASSUME NEW n \in Nat
  PROVE  [i \in 1..n |-> i] \in Seq(Nat) /\ Counts([i \in 1..n |-> i], 1..n)
<1>1. [i \in 1..n |-> i] \in [1..n -> Nat]
  OBVIOUS
<1>2. [i \in 1..n |-> i] \in Seq(Nat)
  BY <1>1, SeqDef
<1> QED
  BY <1>2 DEF Counts, Increasing

\* A member above all others goes to the end.
LEMMA CountsAppend ==
  ASSUME NEW s \in Seq(Nat), NEW S, Counts(s, S), NEW n \in Nat, \A x \in S : x < n
  PROVE  Append(s, n) \in Seq(Nat) /\ Counts(Append(s, n), S \cup {n})
<1> DEFINE t == Append(s, n)
<1>1. /\ t \in Seq(Nat) /\ Len(t) = Len(s) + 1 /\ Len(s) \in Nat
      /\ DOMAIN t = 1..Len(s) + 1 /\ DOMAIN s = 1..Len(s)
      /\ t[Len(s) + 1] = n /\ \A i \in 1..Len(s) : t[i] = s[i]
  BY AppendProperties, LenProperties
<1>2. \A i \in 1..Len(s) : s[i] \in S /\ s[i] < n
  BY <1>1 DEF Counts
<1> HIDE DEF t
<1>3. Increasing(t)
  <2> SUFFICES ASSUME NEW i \in DOMAIN t, NEW j \in DOMAIN t, i < j PROVE t[i] < t[j]
    BY DEF Increasing
  <2>1. CASE j = Len(s) + 1
    BY <1>1, <1>2, <2>1
  <2>2. CASE j # Len(s) + 1
    <3>1. i \in 1..Len(s) /\ j \in 1..Len(s)
      BY <1>1, <2>2
    <3>2. s[i] < s[j]
      BY <1>1, <3>1 DEF Counts, Increasing
    <3> QED
      BY <1>1, <3>1, <3>2
  <2> QED
    BY <2>1, <2>2
<1>4. {t[i] : i \in DOMAIN t} = S \cup {n}
  BY <1>1 DEF Counts
<1> QED
  BY <1>1, <1>3, <1>4 DEF Counts, t

-----------------------------------------------------------------------------
(* Types.                                                                   *)

LEMMA PipelineInitTypes == Init => TypeOK
<1> SUFFICES ASSUME Init PROVE TypeOK
  OBVIOUS
<1>1. cache \in [Keys -> Caches] /\ lost \in [Keys -> [vp : SUBSET Nat, wk : SUBSET Nat]]
  BY DEF Init, Caches, NoCache, NoLoss
<1> QED
  BY <1>1, PipelineAssumption DEF Init, TypeOK, NoOffset

LEMMA LastBarType ==
  ASSUME NEW s \in Seq(Nat), s # <<>>
  PROVE  LastBar(s) \in Nat
  BY DEF LastBar

LEMMA CacheOfType ==
  ASSUME NEW n \in Nat, NEW bar \in Nat
  PROVE  CacheOf(n, bar) \in Caches
  BY CountsRange DEF CacheOf, Caches

LEMMA BrokerTypes ==
  ASSUME TypeOK, (\E k \in Keys : Produce(k)) \/ Store
  PROVE  TypeOK'
<1>1. CASE \E k \in Keys : Produce(k)
  <2> PICK k \in Keys : Produce(k)
    BY <1>1
  <2>1. log' \in Seq(Keys) /\ Len(log') = Len(log) + 1
    BY DEF Produce, TypeOK
  <2> QED
    BY <2>1 DEF Produce, TypeOK, reader, state, bounds, ghosts, NoOffset
<1>2. CASE Store
  <2>1. log[stored + 1] \in Keys /\ stored' \in 0..Len(log)
    <3>1. stored < Len(log) /\ stored' = stored + 1
      BY <1>2 DEF Store
    <3>2. log \in Seq(Keys) /\ stored \in 0..Len(log)
      BY DEF TypeOK
    <3> QED
      BY <3>1, <3>2
  <2>2. table' \in [Keys -> Seq(Nat)]
    BY <1>2, <2>1 DEF Store, TypeOK
  <2> QED
    BY <1>2, <2>1, <2>2 DEF Store, TypeOK, reader, state, bounds, ghosts, NoOffset
<1> QED
  BY <1>1, <1>2

LEMMA ConnectTypes ==
  ASSUME TypeOK, Connect
  PROVE  TypeOK'
<1>1. Len(log) \in Nat /\ (committed = NoOffset \/ committed \in 0..Len(log))
  BY DEF TypeOK
<1>2. pos' \in 0..Len(log)
  BY <1>1 DEF Connect
<1>3. committed' \in {NoOffset} \cup 0..Len(log)
  BY <1>1 DEF Connect
<1>4. /\ UNCHANGED <<log, stored, table, msgCount, queue, worker, history, cache, faults, seeded,
                    missed, lost, passed, eager>>
      /\ first' = pos' /\ phase' = "seed" /\ starts' = starts + 1
  BY DEF Connect, state
<1> QED
  BY <1>2, <1>3, <1>4 DEF TypeOK

LEMMA LatestType ==
  ASSUME TypeOK, NEW k \in Keys
  PROVE  Latest(k) \in Seq(Nat)
<1> DEFINE n == Len(table[k]) - 2 * MinBars[k]
           m == IF n > 0 THEN n + 1 ELSE 1
<1>1. table[k] \in Seq(Nat) /\ Len(table[k]) \in Nat /\ MinBars[k] \in Nat
  BY PipelineAssumption DEF TypeOK
<1>2. m \in Nat \ {0}
  BY <1>1
<1> HIDE DEF m
<1>3. SubSeq(table[k], m, Len(table[k])) \in Seq(Nat)
  BY <1>1, <1>2, SubSeqProperties
<1> QED
  BY <1>3 DEF Latest, m

LEMMA SeedTypes ==
  ASSUME TypeOK, Seed
  PROVE  TypeOK'
<1> PICK found \in SUBSET Keys, raised \in BOOLEAN : SeedHistory(found, raised)
  BY DEF Seed
<1> DEFINE bars == [k \in Keys |-> IF k \in found THEN Latest(k) ELSE <<>>]
           giving == {h \in Keys : ~raised /\ bars[h] # <<>>}
<1>1. bars \in [Keys -> Seq(Nat)] /\ history' = bars
  BY LatestType DEF SeedHistory
<1>2. seeded' \in [Keys -> Nat] /\ \A k \in Keys : seeded'[k] = Len(history'[k])
  BY <1>1 DEF SeedHistory
<1>3. passed' \in [Keys -> Nat]
  BY <1>1, LastBarType DEF SeedHistory
<1>4. cache' \in [Keys -> Caches]
  <2> SUFFICES ASSUME NEW l \in Keys PROVE cache'[l] \in Caches
    BY DEF SeedHistory
  <2>1. CASE \E h \in giving : l \in Lower[h]
    <3> DEFINE h == CHOOSE h \in giving : l \in Lower[h]
    <3>1. h \in Keys /\ bars[h] # <<>>
      BY <2>1
    <3>2. cache'[l] = CacheOf(Len(bars[l]), LastBar(bars[h]))
      BY <2>1 DEF SeedHistory
    <3> HIDE DEF h, bars
    <3> QED
      BY <1>1, <3>1, <3>2, LastBarType, CacheOfType
  <2>2. CASE ~ \E h \in giving : l \in Lower[h]
    <3>1. cache'[l] = NoCache
      BY <2>2 DEF SeedHistory
    <3> QED
      BY <3>1 DEF NoCache, Caches
  <2> QED
    BY <2>1, <2>2
<1>5. eager' \subseteq Keys
  BY DEF SeedHistory
<1>6. \A k \in Keys : seeded'[k] <= Len(history'[k])
  BY <1>1, <1>2
<1> HIDE DEF bars
<1> QED
  BY <1>1, <1>2, <1>3, <1>4, <1>5, <1>6 DEF Seed, TypeOK, broker, reader, bounds

LEMMA TakeTypes ==
  ASSUME TypeOK, TakeMessage
  PROVE  TypeOK'
<1>1. pos + 1 \in 1..Len(log) /\ log[pos + 1] \in Keys /\ pos' \in 0..Len(log) /\ first \in 0..pos'
  <2>1. pos < Len(log) /\ pos' = pos + 1
    BY DEF TakeMessage
  <2>2. log \in Seq(Keys) /\ pos \in 0..Len(log) /\ first \in 0..pos
    BY DEF TypeOK
  <2> QED
    BY <2>1, <2>2
<1>2. committed' \in {NoOffset} \cup 0..Len(log) /\ msgCount' \in Nat /\ faults' \in Nat
  <2>1. Fetched \subseteq 0..Len(log)
    BY DEF Fetched, TypeOK
  <2>2. committed' = committed \/ committed' \in Fetched
    BY DEF TakeMessage
  <2>3. msgCount' \in {0, msgCount + 1} /\ faults' \in {faults, faults + 1}
    BY DEF TakeMessage, Fault
  <2>4. /\ committed \in {NoOffset} \cup 0..Len(log)
        /\ msgCount \in Nat /\ faults \in Nat
    BY DEF TypeOK
  <2>5. msgCount' \in Nat /\ faults' \in Nat
    BY <2>3, <2>4
  <2>6. committed' \in {NoOffset} \cup 0..Len(log)
    BY <2>1, <2>2, <2>4
  <2> QED
    BY <2>5, <2>6
<1>3. worker' \in [Keys -> {"none", "idle", "compute"}] /\ missed' \subseteq Nat
  <2>1. missed' = missed \/ missed' = missed \cup {pos + 1}
    BY DEF TakeMessage, TryEnqueue
  <2>2. pos + 1 \in Nat /\ missed \subseteq Nat
    BY <1>1 DEF TypeOK
  <2>3. missed' \subseteq Nat
    BY <2>1, <2>2
  <2>4. \E to \in {"none", "idle", "compute"} : worker' = [worker EXCEPT ![log[pos + 1]] = to]
    BY <1>1 DEF TakeMessage, TryEnqueue, TypeOK
  <2> QED
    BY <2>3, <2>4 DEF TypeOK
<1>4. queue' \in [Keys -> Seq(Nat)] /\ \A k \in Keys : Len(queue'[k]) <= QueueMax
  <2> DEFINE key == log[pos + 1]
             longer == Append(queue[key], pos + 1)
  <2>1. CASE Len(queue[key]) < QueueMax
    <3>1. key \in Keys /\ queue[key] \in Seq(Nat) /\ pos + 1 \in Nat
      BY <1>1 DEF TypeOK
    <3>2. longer \in Seq(Nat) /\ Len(longer) = Len(queue[key]) + 1 /\ Len(queue[key]) \in Nat
      BY <3>1, AppendProperties, LenProperties
    <3>3. queue' = [queue EXCEPT ![key] = longer]
      BY <2>1, <3>2, PipelineAssumption DEF TakeMessage, TryEnqueue
    <3> HIDE DEF key, longer
    <3>4. queue' \in [Keys -> Seq(Nat)]
      BY <3>1, <3>2, <3>3 DEF TypeOK
    <3>5. \A k \in Keys : queue'[k] = IF k = key THEN longer ELSE queue[k]
      BY <3>3 DEF TypeOK
    <3>6. Len(longer) <= QueueMax
      BY <2>1, <3>2, PipelineAssumption
    <3> QED
      BY <3>4, <3>5, <3>6 DEF TypeOK
  <2>2. CASE ~(Len(queue[key]) < QueueMax)
    <3>1. Len(queue[key]) \in Nat /\ QueueMax \in Nat
      BY <1>1, LenProperties, PipelineAssumption DEF TypeOK
    <3>2. queue' = queue
      BY <2>2, <3>1 DEF TakeMessage, TryEnqueue
    <3> QED
      BY <3>2 DEF TypeOK
  <2> QED
    BY <2>1, <2>2
<1>5. UNCHANGED <<log, stored, table, phase, history, cache, starts, first, seeded, lost, passed,
                  eager>>
  BY DEF TakeMessage
<1> QED
  BY <1>1, <1>2, <1>3, <1>4, <1>5 DEF TypeOK

LEMMA ConsumerFailsTypes ==
  ASSUME TypeOK, NEW n \in Nat, ConsumerFails(n)
  PROVE  TypeOK'
<1>1. /\ UNCHANGED <<log, stored, table, committed, phase, msgCount, queue, worker, history, cache,
                    starts, first, seeded, lost, passed, eager>>
      /\ faults' = faults + 1 /\ pos' = n /\ n \in pos..Len(log)
      /\ missed' = missed \cup pos + 1..n
  BY DEF ConsumerFails, Fault, broker, state
<1>2. pos' \in 0..Len(log) /\ first \in 0..pos' /\ missed' \subseteq Nat
  BY <1>1 DEF TypeOK
<1> QED
  BY <1>1, <1>2 DEF TypeOK

LEMMA AppendBarTypes ==
  ASSUME TypeOK, NEW k \in Keys, AppendBar(k)
  PROVE  TypeOK'
<1>1. /\ Head(queue[k]) \in Nat /\ Tail(queue[k]) \in Seq(Nat)
      /\ Len(Tail(queue[k])) = Len(queue[k]) - 1
  <2>1. queue[k] \in Seq(Nat) /\ queue[k] # <<>>
    BY DEF AppendBar, TypeOK
  <2> QED
    BY <2>1, HeadTailProperties
<1>2. queue' \in [Keys -> Seq(Nat)] /\ \A l \in Keys : Len(queue'[l]) <= QueueMax
  <2>1. queue' = [queue EXCEPT ![k] = Tail(queue[k])]
    BY DEF AppendBar
  <2>2. /\ queue \in [Keys -> Seq(Nat)] /\ \A l \in Keys : Len(queue[l]) <= QueueMax
        /\ QueueMax \in Nat /\ \A l \in Keys : Len(queue[l]) \in Nat
    BY PipelineAssumption DEF TypeOK
  <2>3. /\ queue' \in [Keys -> Seq(Nat)] /\ queue'[k] = Tail(queue[k])
        /\ \A l \in Keys \ {k} : queue'[l] = queue[l]
    BY <1>1, <2>1, <2>2
  <2> QED
    BY <1>1, <2>2, <2>3
<1>3. /\ history' \in [Keys -> Seq(Nat)] /\ \A l \in Keys : seeded[l] <= Len(history'[l])
  <2>1. history'[k] \in Seq(Nat) /\ Len(history'[k]) = Len(history[k]) + 1
    BY <1>1, AppendProperties DEF AppendBar, TypeOK
  <2> QED
    BY <1>1, <2>1 DEF AppendBar, TypeOK
<1>4. worker' \in [Keys -> {"none", "idle", "compute"}]
  BY DEF AppendBar, TypeOK
<1> QED
  BY <1>2, <1>3, <1>4 DEF AppendBar, TypeOK, broker, reader, bounds, ghosts

\* A computation has a bar, and a cache of the right type.
LEMMA UpdatedType ==
  ASSUME TypeOK, ComputesWhenWarm, NEW k \in Keys, worker[k] = "compute"
  PROVE  /\ Len(history[k]) \in Nat \ {0} /\ LastBar(history[k]) \in Nat
         /\ OwnCache(k) \in Caches
         /\ Updated(k) \in [Keys -> Caches]
<1>1. Len(history[k]) \in Nat \ {0} /\ history[k] \in Seq(Nat) /\ history[k] # <<>>
  <2>1. Len(history[k]) >= MinBars[k]
    BY DEF ComputesWhenWarm
  <2>2. MinBars[k] \in Nat \ {0} /\ history[k] \in Seq(Nat)
    BY PipelineAssumption DEF TypeOK
  <2> QED
    BY <2>1, <2>2
<1>2. LastBar(history[k]) \in Nat
  BY <1>1, LastBarType
<1>3. OwnCache(k) \in Caches
  BY <1>1, CacheOfType DEF OwnCache, TypeOK
<1>4. ASSUME NEW l \in Keys, NEW c \in Caches
      PROVE  Momentum(k, l, c) \in Caches
  BY <1>2 DEF Momentum, Caches
<1>5. [OwnCache(k) EXCEPT !.vp = Append(@, Len(history[k]))] \in Caches
  <2>1. OwnCache(k).vp \in Seq(Nat)
    BY <1>3 DEF Caches
  <2>2. Append(OwnCache(k).vp, Len(history[k])) \in Seq(Nat)
    BY <1>1, <2>1, AppendProperties
  <2> QED
    BY <1>3, <2>2 DEF Caches
<1>6. Updated(k) \in [Keys -> Caches]
  BY <1>4, <1>5 DEF Updated, TypeOK
<1> QED
  BY <1>1, <1>2, <1>3, <1>6

LEMMA ComputeTypes ==
  ASSUME TypeOK, ComputesWhenWarm, NEW k \in Keys,
         Compute(k) \/ FactoryFails(k) \/ ComputeFails(k)
  PROVE  TypeOK'
<1>1. worker[k] = "compute"
  BY DEF Compute, FactoryFails, ComputeFails, Computed
<1>2. /\ Len(history[k]) \in Nat \ {0} /\ LastBar(history[k]) \in Nat
      /\ OwnCache(k) \in Caches
      /\ Updated(k) \in [Keys -> Caches]
  BY <1>1, UpdatedType
<1>3. /\ worker' \in [Keys -> {"none", "idle", "compute"}]
      /\ UNCHANGED <<broker, phase, reader, queue, history, starts, first, seeded, missed, eager>>
  BY DEF Compute, FactoryFails, ComputeFails, Computed, TypeOK
<1>4. cache' \in [Keys -> Caches]
  <2>1. CASE Compute(k)
    <3>1. [Updated(k)[k] EXCEPT !.wk = Append(@, Len(history[k]))] \in Caches
      <4>1. Updated(k)[k] \in Caches
        BY <1>2
      <4>2. Append(Updated(k)[k].wk, Len(history[k])) \in Seq(Nat)
        BY <1>2, <4>1, AppendProperties DEF Caches
      <4> QED
        BY <4>1, <4>2 DEF Caches
    <3> QED
      BY <1>2, <2>1, <3>1 DEF Compute
  <2>2. CASE FactoryFails(k)
    BY <1>2, <2>2 DEF FactoryFails
  <2>3. CASE ComputeFails(k)
    BY <1>2, <2>3 DEF ComputeFails, TypeOK
  <2> QED
    BY <2>1, <2>2, <2>3
<1>5. passed' \in [Keys -> Nat] /\ faults' \in Nat
  <2>1. faults' \in {faults, faults + 1}
    BY DEF Compute, FactoryFails, ComputeFails, Fault
  <2>2. passed' = passed \/ passed' = [passed EXCEPT ![k] = LastBar(history[k])]
    BY DEF Compute, FactoryFails, ComputeFails
  <2>3. passed \in [Keys -> Nat] /\ faults \in Nat
    BY DEF TypeOK
  <2>4. passed' \in [Keys -> Nat]
    BY <1>2, <2>2, <2>3
  <2> QED
    BY <2>1, <2>3, <2>4
<1>6. lost' \in [Keys -> [vp : SUBSET Nat, wk : SUBSET Nat]]
  <2> DEFINE n == Len(history[k])
  <2>1. lost[k] \in [vp : SUBSET Nat, wk : SUBSET Nat] /\ n \in Nat
    BY <1>2 DEF TypeOK
  <2> HIDE DEF n
  <2>2. /\ [lost[k] EXCEPT !.wk = @ \cup {n}] \in [vp : SUBSET Nat, wk : SUBSET Nat]
        /\ [vp |-> lost[k].vp \cup {n}, wk |-> lost[k].wk \cup {n}]
             \in [vp : SUBSET Nat, wk : SUBSET Nat]
    BY <2>1
  <2>3. \/ lost' = lost
        \/ lost' = [lost EXCEPT ![k] = [lost[k] EXCEPT !.wk = @ \cup {n}]]
        \/ lost' = [lost EXCEPT ![k] = [vp |-> lost[k].vp \cup {n}, wk |-> lost[k].wk \cup {n}]]
    BY DEF Compute, FactoryFails, ComputeFails, n
  <2> QED
    BY <2>2, <2>3 DEF TypeOK
<1> QED
  BY <1>3, <1>4, <1>5, <1>6 DEF TypeOK, broker, reader

LEMMA EndTypes ==
  ASSUME TypeOK, End
  PROVE  TypeOK'
<1>1. cache' \in [Keys -> Caches] /\ lost' \in [Keys -> [vp : SUBSET Nat, wk : SUBSET Nat]]
  BY DEF End, Caches, NoCache, NoLoss
<1> QED
  BY <1>1, PipelineAssumption DEF End, TypeOK, broker, bounds

LEMMA PipelineNextTypes ==
  ASSUME TypeOK, ComputesWhenWarm, [Next]_vars
  PROVE  TypeOK'
<1>1. CASE UNCHANGED vars
  BY <1>1 DEF TypeOK, vars, broker, reader, state, bounds, ghosts
<1>2. CASE Next
  <2>1. MaxBars \in Nat
    BY PipelineAssumption
  <2> QED
    BY <1>2, <2>1, BrokerTypes, ConnectTypes, SeedTypes, TakeTypes, ConsumerFailsTypes,
       AppendBarTypes, ComputeTypes, EndTypes DEF Next, Work
<1> QED
  BY <1>1, <1>2

-----------------------------------------------------------------------------
(* The feed.                                                                *)

\* The bars of a key that were read and not missed.
Read(k) == {i \in first + 1..pos : log[i] = k} \ missed

\* What a worker's history and queue have of this run.
Fed(k) == Live(k) \o queue[k]

LEMMA FeedCounts == FeedIsComplete <=> \A k \in Keys : Counts(Fed(k), Read(k))
  BY DEF FeedIsComplete, Counts, Fed, Read

LEMMA FeedFollows ==
  ASSUME FeedIsComplete, \A k \in Keys : Read(k)' = Read(k) /\ Fed(k)' = Fed(k)
  PROVE  FeedIsComplete'
<1>1. ASSUME NEW k \in Keys PROVE Counts(Fed(k), Read(k))'
  <2>1. Counts(Fed(k), Read(k))
    BY FeedCounts
  <2> QED
    BY <2>1 DEF Counts, Increasing
<1> QED
  BY <1>1 DEF FeedIsComplete, Counts, Fed, Read

LEMMA LiveType ==
  ASSUME TypeOK, NEW k \in Keys
  PROVE  Live(k) \in Seq(Nat) /\ Fed(k) \in Seq(Nat)
<1>1. /\ history[k] \in Seq(Nat) /\ Len(history[k]) \in Nat /\ seeded[k] \in Nat
      /\ seeded[k] <= Len(history[k]) /\ queue[k] \in Seq(Nat)
  BY DEF TypeOK
<1>2. Live(k) \in Seq(Nat)
  BY <1>1, SubSeqProperties DEF Live
<1> QED
  BY <1>1, <1>2, ConcatProperties DEF Fed

LEMMA ConcatShifts ==
  \A s, t, u \in Seq(Nat) : (s \o t) \o u = s \o (t \o u)
  BY ConcatAssociative, SMTT(30)

\* The head of the queue goes to the end of the history.
LEMMA FedMoves ==
  ASSUME NEW h \in Seq(Nat), NEW q \in Seq(Nat), q # <<>>, NEW n \in Nat, n <= Len(h)
  PROVE  SubSeq(Append(h, Head(q)), n + 1, Len(Append(h, Head(q)))) \o Tail(q)
           = SubSeq(h, n + 1, Len(h)) \o q
<1> DEFINE a == Append(h, Head(q))
<1>1. Head(q) \in Nat /\ Tail(q) \in Seq(Nat) /\ q = <<Head(q)>> \o Tail(q)
  BY HeadTailProperties, ConcatSimplifications
<1>2. /\ a \in Seq(Nat) /\ Len(a) = Len(h) + 1 /\ Len(h) \in Nat
      /\ a[Len(h) + 1] = Head(q) /\ a = h \o <<Head(q)>>
  BY <1>1, AppendProperties, AppendIsConcat, LenProperties
<1>3. SubSeq(a, n + 1, Len(a)) = SubSeq(a, n + 1, Len(h)) \o <<Head(q)>>
  <2> HIDE DEF a
  <2>1. n + 1 \in 1..Len(a) /\ Len(a) \in n + 1..Len(a)
    BY <1>2
  <2>2. SubSeq(a, n + 1, Len(a)) = SubSeq(a, n + 1, Len(a) - 1) \o <<a[Len(a)]>>
    BY <1>2, <2>1, SubSeqRecursiveSecond, Zenon
  <2>3. Len(a) - 1 = Len(h) /\ a[Len(a)] = Head(q)
    BY <1>2
  <2> QED
    BY <2>2, <2>3, Zenon
<1>4. SubSeq(a, n + 1, Len(h)) = SubSeq(h, n + 1, Len(h))
  <2>1. CASE n < Len(h)
    <3>1. <<Head(q)>> \in Seq(Nat) /\ n + 1 \in 1..Len(h) /\ Len(h) \in 1..Len(h)
      BY <1>1, <1>2, <2>1
    <3> QED
      BY <1>2, <3>1, SubSeqOfConcat1
  <2>2. CASE n = Len(h)
    <3>1. n + 1 \in Int /\ Len(h) \in Int /\ Len(h) < n + 1
      BY <1>2, <2>2
    <3> QED
      BY <3>1, SubSeqEmpty
  <2> QED
    BY <1>2, <2>1, <2>2
<1>5. SubSeq(h, n + 1, Len(h)) \in Seq(Nat) /\ <<Head(q)>> \in Seq(Nat)
  BY <1>1, <1>2, SubSeqProperties
<1> DEFINE front == SubSeq(h, n + 1, Len(h))
<1> HIDE DEF a, front
<1>6. front \in Seq(Nat) /\ SubSeq(a, n + 1, Len(a)) = front \o <<Head(q)>>
  BY <1>3, <1>4, <1>5, Zenon DEF front
<1>7. (front \o <<Head(q)>>) \o Tail(q) = front \o (<<Head(q)>> \o Tail(q))
  <2>1. front \in Seq(Nat) /\ <<Head(q)>> \in Seq(Nat) /\ Tail(q) \in Seq(Nat)
    BY <1>1, <1>5, <1>6
  <2> QED
    BY <2>1, ConcatShifts, Zenon
<1>8. <<Head(q)>> \o Tail(q) = q
  BY <1>1
<1>9. SubSeq(a, n + 1, Len(a)) \o Tail(q) = front \o q
  <2>1. SubSeq(a, n + 1, Len(a)) \o Tail(q) = (front \o <<Head(q)>>) \o Tail(q)
    BY <1>6, Zenon
  <2>2. front \o (<<Head(q)>> \o Tail(q)) = front \o q
    BY <1>8, Zenon
  <2> QED
    BY <1>7, <2>1, <2>2, Zenon
<1> QED
  BY <1>9 DEF a, front
\* Nothing is left in a service that has just been connected, seeded or ended.
LEMMA FeedIsEmpty ==
  ASSUME first = pos, pos \in Nat, NEW k \in Keys, seeded[k] \in Nat,
         Len(history[k]) = seeded[k], queue[k] = <<>>
  PROVE  Counts(Fed(k), Read(k))
<1>1. Live(k) = <<>>
  BY SubSeqEmpty DEF Live
<1>2. Fed(k) = <<>>
  BY <1>1 DEF Fed
<1>3. Read(k) = {}
  BY DEF Read
<1> QED
  BY <1>2, <1>3, CountsEmpty

LEMMA InitFeed == Init => MissedWereRead /\ FeedIsComplete
<1> SUFFICES ASSUME Init PROVE MissedWereRead /\ FeedIsComplete
  OBVIOUS
<1>1. \A k \in Keys : Counts(Fed(k), Read(k))
  BY FeedIsEmpty DEF Init
<1> QED
  BY <1>1, FeedCounts DEF Init, MissedWereRead

\* A longer log has the same bars at the places that were read.
LEMMA ProduceFeed ==
  ASSUME TypeOK, MissedWereRead, FeedIsComplete, NEW k \in Keys, Produce(k)
  PROVE  MissedWereRead' /\ FeedIsComplete'
<1>1. UNCHANGED <<pos, first, missed, history, seeded, queue>>
  BY DEF Produce, reader, state, ghosts
<1>2. \A i \in first + 1..pos : log'[i] = log[i]
  BY DEF Produce, TypeOK
<1>3. ASSUME NEW l \in Keys PROVE Read(l)' = Read(l) /\ Fed(l)' = Fed(l)
  BY <1>1, <1>2 DEF Read, Fed, Live
<1> QED
  BY <1>1, <1>3, FeedFollows DEF MissedWereRead

LEMMA EmptyFeed ==
  ASSUME TypeOK, TypeOK', NothingKept, (Connect \/ Seed \/ End)
  PROVE  MissedWereRead' /\ FeedIsComplete'
<1>1. missed' = {} /\ first' = pos'
  BY DEF NothingKept, Connect, Seed, End, reader
<1>2. ASSUME NEW k \in Keys PROVE Len(history'[k]) = seeded'[k] /\ queue'[k] = <<>>
  <2>1. CASE Connect
    BY <2>1 DEF Connect, NothingKept, state
  <2>2. CASE Seed
    BY <2>2 DEF Seed, SeedHistory, NothingKept
  <2>3. CASE End
    BY <2>3 DEF End
  <2> QED
    BY <2>1, <2>2, <2>3
<1>3. /\ pos' \in Nat /\ \A k \in Keys : seeded'[k] \in Nat
  BY DEF TypeOK
<1>4. ASSUME NEW k \in Keys PROVE Counts(Fed(k), Read(k))'
  <2>1. Live(k)' = <<>>
    BY <1>2, <1>3, SubSeqEmpty DEF Live
  <2>2. Fed(k)' = <<>> /\ Read(k)' = {}
    BY <1>1, <1>2, <1>3, <2>1 DEF Fed, Read
  <2> QED
    BY <2>2, CountsEmpty DEF Counts, Increasing
<1>5. FeedIsComplete'
  BY <1>4 DEF FeedIsComplete, Counts, Fed, Read
<1> QED
  BY <1>1, <1>5 DEF MissedWereRead

\* A bar goes to the end of its queue, above all that were read before, or is
\* missed.
LEMMA TakeFeed ==
  ASSUME TypeOK, MissedWereRead, FeedIsComplete, TakeMessage
  PROVE  MissedWereRead' /\ FeedIsComplete'
<1> DEFINE bar == pos + 1
           key == log[bar]
<1>1. /\ bar \in Nat /\ pos \in Nat /\ first \in Nat /\ first <= pos /\ key \in Keys /\ pos' = bar
      /\ UNCHANGED <<log, first, history, seeded>>
  BY DEF TakeMessage, TypeOK
<1>2. \/ missed' = missed \cup {bar} /\ queue' = queue
      \/ missed' = missed /\ queue' = [queue EXCEPT ![key] = Append(@, bar)]
  BY DEF TakeMessage, TryEnqueue
<1>3. MissedWereRead'
  <2>1. bar \in 1..bar /\ 1..pos \subseteq 1..bar
    BY <1>1
  <2> QED
    BY <1>1, <1>2, <2>1 DEF MissedWereRead
<1>4. ASSUME NEW k \in Keys PROVE Counts(Fed(k), Read(k)) /\ \A x \in Read(k) : x < bar
  BY <1>1, FeedCounts DEF Read
<1>5. first + 1..bar = (first + 1..pos) \cup {bar}
  BY <1>1
<1>6. bar \notin missed
  BY <1>1 DEF MissedWereRead
<1>7. ASSUME NEW k \in Keys PROVE Counts(Fed(k), Read(k))'
  <2>1. CASE key = k /\ missed' = missed
    <3>1. /\ Read(k)' = Read(k) \cup {bar}
      BY <1>1, <1>5, <1>6, <2>1 DEF Read
    <3>2. Fed(k)' = Append(Fed(k), bar)
      <4>1. queue[k] \in Seq(Nat) /\ Live(k) \in Seq(Nat) /\ Live(k)' = Live(k)
        BY <1>1, LiveType DEF TypeOK, Live
      <4>2. queue'[k] = Append(queue[k], bar)
        BY <1>2, <1>6, <2>1 DEF TypeOK
      <4>3. Live(k) \o Append(queue[k], bar) = Append(Live(k) \o queue[k], bar)
        BY <1>1, <4>1
      <4> QED
        BY <4>1, <4>2, <4>3 DEF Fed
    <3>3. Counts(Append(Fed(k), bar), Read(k) \cup {bar})
      BY <1>1, <1>4, CountsAppend, LiveType
    <3> QED
      BY <3>1, <3>2, <3>3 DEF Counts, Increasing
  <2>2. CASE ~(key = k /\ missed' = missed)
    <3>1. Read(k)' = Read(k)
      BY <1>1, <1>2, <1>5, <2>2 DEF Read
    <3>2. queue'[k] = queue[k]
      BY <1>2, <2>2 DEF TypeOK
    <3>3. Fed(k)' = Fed(k)
      BY <1>1, <3>2 DEF Fed, Live
    <3> QED
      BY <1>4, <3>1, <3>3 DEF Counts, Increasing
  <2> QED
    BY <2>1, <2>2
<1>8. FeedIsComplete'
  BY <1>7 DEF FeedIsComplete, Counts, Fed, Read
<1> QED
  BY <1>3, <1>8

LEMMA ConsumerFailsFeed ==
  ASSUME TypeOK, MissedWereRead, FeedIsComplete, NEW n \in Nat, ConsumerFails(n)
  PROVE  MissedWereRead' /\ FeedIsComplete'
<1>1. /\ pos \in Nat /\ first \in Nat /\ pos' = n /\ pos <= n /\ first <= pos
      /\ missed' = missed \cup pos + 1..n
      /\ UNCHANGED <<log, first, history, seeded, queue>>
  BY DEF ConsumerFails, TypeOK, broker, state
<1>2. ASSUME NEW k \in Keys PROVE Read(k)' = Read(k) /\ Fed(k)' = Fed(k)
  <2>1. Read(k)' = Read(k)
    BY <1>1 DEF Read, MissedWereRead
  <2> QED
    BY <1>1, <2>1 DEF Fed, Live
<1>3. MissedWereRead'
  BY <1>1 DEF MissedWereRead
<1> QED
  BY <1>2, <1>3, FeedFollows

LEMMA AppendBarFeed ==
  ASSUME TypeOK, MissedWereRead, FeedIsComplete, NEW k \in Keys, AppendBar(k)
  PROVE  MissedWereRead' /\ FeedIsComplete'
<1>1. UNCHANGED <<log, pos, first, missed, seeded>>
  BY DEF AppendBar, broker, reader, ghosts
<1>2. ASSUME NEW l \in Keys PROVE Fed(l)' = Fed(l)
  <2>1. CASE l = k
    <3>1. /\ history'[k] = Append(history[k], Head(queue[k])) /\ queue'[k] = Tail(queue[k])
          /\ history[k] \in Seq(Nat) /\ queue[k] \in Seq(Nat) /\ queue[k] # <<>>
          /\ seeded[k] \in Nat /\ seeded[k] <= Len(history[k])
      BY DEF AppendBar, TypeOK
    <3>2. SubSeq(history'[k], seeded[k] + 1, Len(history'[k])) \o queue'[k]
            = SubSeq(history[k], seeded[k] + 1, Len(history[k])) \o queue[k]
      BY <3>1, FedMoves, Zenon
    <3> QED
      BY <1>1, <2>1, <3>2, Zenon DEF Fed, Live
  <2>2. CASE l # k
    <3>1. history'[l] = history[l] /\ queue'[l] = queue[l]
      BY <2>2 DEF AppendBar, TypeOK
    <3> QED
      BY <1>1, <3>1 DEF Fed, Live
  <2> QED
    BY <2>1, <2>2
<1>3. \A l \in Keys : Read(l)' = Read(l)
  BY <1>1 DEF Read
<1> QED
  BY <1>1, <1>2, <1>3, FeedFollows DEF MissedWereRead

LEMMA NextFeed ==
  ASSUME TypeOK, TypeOK', NothingKept, MissedWereRead, FeedIsComplete, [Next]_vars
  PROVE  MissedWereRead' /\ FeedIsComplete'
<1>1. CASE UNCHANGED <<log, pos, first, missed, history, seeded, queue>>
  <2>1. \A k \in Keys : Read(k)' = Read(k) /\ Fed(k)' = Fed(k)
    BY <1>1 DEF Read, Fed, Live
  <2> QED
    BY <1>1, <2>1, FeedFollows DEF MissedWereRead
<1>2. CASE \E k \in Keys : Produce(k) \/ AppendBar(k)
  BY <1>2, ProduceFeed, AppendBarFeed
<1>3. CASE Connect \/ Seed \/ End
  BY <1>3, EmptyFeed
<1>4. CASE TakeMessage \/ \E n \in 0..MaxBars : ConsumerFails(n)
  BY <1>4, TakeFeed, ConsumerFailsFeed, PipelineAssumption
<1>5. ASSUME Store \/ UNCHANGED vars
             \/ \E k \in Keys : Compute(k) \/ FactoryFails(k) \/ ComputeFails(k)
      PROVE  UNCHANGED <<log, pos, first, missed, history, seeded, queue>>
  BY <1>5 DEF Store, Compute, FactoryFails, ComputeFails, Computed, vars, broker, reader, state,
              ghosts
<1> QED
  BY <1>1, <1>2, <1>3, <1>4, <1>5 DEF Next, Work

-----------------------------------------------------------------------------
(* The caches.                                                              *)

\* What is said of one key.
KeyInv(k) ==
  /\ worker[k] = "compute" \/ (cache[k].made /\ k \notin eager) => Len(history[k]) >= MinBars[k]
  /\ lost[k].vp \cup lost[k].wk \subseteq Settled(k)
  /\ ~cache[k].made => k \notin eager /\ lost[k] = NoLoss
  /\ cache[k].made => /\ Counts(cache[k].vp, Settled(k) \ lost[k].vp)
                      /\ Counts(cache[k].wk, Settled(k) \ lost[k].wk)

MomentumPassed(k) ==
  cache[k].made => \A h \in Keys : k \in Lower[h] => cache[k].ctf \in {0, passed[h]}

CacheInv == \A k \in Keys : KeyInv(k) /\ MomentumPassed(k)

LEMMA CacheInvParts ==
  CacheInv <=> ComputesWhenWarm /\ LostAreSettled /\ UnmadeIsClean /\ CacheIsReplay
  BY DEF CacheInv, KeyInv, MomentumPassed, Counts, ComputesWhenWarm, LostAreSettled,
         UnmadeIsClean, CacheIsReplay

\* A key none of whose state changes.
LEMMA KeyStays ==
  ASSUME NEW k \in Keys, KeyInv(k),
         history'[k] = history[k], seeded'[k] = seeded[k], lost'[k] = lost[k],
         cache'[k].made = cache[k].made, cache'[k].vp = cache[k].vp, cache'[k].wk = cache[k].wk,
         k \in eager' <=> k \in eager, worker'[k] = "compute" <=> worker[k] = "compute"
  PROVE  KeyInv(k)'
<1>1. Unseen(k)' = Unseen(k)
  BY DEF Unseen
<1>2. Settled(k)' = Settled(k)
  BY <1>1 DEF Settled
<1> QED
  BY <1>2 DEF KeyInv, Counts, Increasing

LEMMA InitCaches == Init => CacheInv
<1> SUFFICES ASSUME Init, NEW k \in Keys PROVE KeyInv(k) /\ MomentumPassed(k)
  BY DEF CacheInv
<1> QED
  BY DEF Init, KeyInv, MomentumPassed, NoCache, NoLoss

LEMMA QuietCaches ==
  ASSUME TypeOK, CacheInv,
         UNCHANGED vars \/ (\E k \in Keys : Produce(k)) \/ Store \/ Connect \/ TakeMessage
           \/ \E n \in 0..MaxBars : ConsumerFails(n)
  PROVE  CacheInv'
<1>1. UNCHANGED <<history, cache, seeded, lost, passed, eager>>
  BY DEF vars, Produce, Store, Connect, TakeMessage, ConsumerFails, state, ghosts
<1>2. ASSUME NEW k \in Keys PROVE worker'[k] = "compute" <=> worker[k] = "compute"
  <2>1. CASE TakeMessage
    BY <2>1 DEF TakeMessage, TryEnqueue, TypeOK
  <2>2. CASE ~TakeMessage
    BY <2>2 DEF vars, Produce, Store, Connect, ConsumerFails, state
  <2> QED
    BY <2>1, <2>2
<1>3. ASSUME NEW k \in Keys PROVE KeyInv(k)' /\ MomentumPassed(k)'
  <2>1. KeyInv(k) /\ MomentumPassed(k)
    BY DEF CacheInv
  <2> QED
    BY <1>1, <1>2, <2>1, KeyStays DEF MomentumPassed
<1> QED
  BY <1>3 DEF CacheInv

LEMMA SeedCaches ==
  ASSUME TypeOK, TypeOK', NothingKept, Seed
  PROVE  CacheInv'
<1> PICK found \in SUBSET Keys, raised \in BOOLEAN : SeedHistory(found, raised)
  BY DEF Seed
<1> DEFINE bars == [k \in Keys |-> IF k \in found THEN Latest(k) ELSE <<>>]
           giving == {h \in Keys : ~raised /\ bars[h] # <<>>}
<1>1. history' = bars /\ seeded' = [k \in Keys |-> Len(bars[k])]
  BY DEF SeedHistory
<1>2. ASSUME NEW k \in Keys PROVE worker'[k] = "none" /\ lost'[k] = NoLoss
  BY DEF Seed, NothingKept
<1>3. ASSUME NEW k \in Keys
      PROVE  \/ cache'[k] = NoCache
             \/ \E h \in giving : /\ k \in Lower[h]
                                 /\ cache'[k] = CacheOf(Len(bars[k]), LastBar(bars[h]))
  BY DEF SeedHistory
<1>4. giving \subseteq Keys /\ \A h \in giving : passed'[h] = LastBar(bars[h])
  BY DEF SeedHistory
<1>5. eager' = {k \in Keys : cache'[k].made}
  BY DEF SeedHistory
<1>6. ASSUME NEW k \in Keys PROVE Len(bars[k]) \in Nat
  BY <1>1 DEF TypeOK
<1> HIDE DEF bars, giving
<1>7. ASSUME NEW k \in Keys PROVE Settled(k)' = 1..Len(bars[k])
  <2>1. \A i \in Unseen(k)' : i > Len(bars[k])
    BY <1>1, <1>6, PipelineAssumption DEF Unseen
  <2>2. Settled(k)' = 1..Len(bars[k]) \ Unseen(k)'
    BY <1>1, <1>2 DEF Settled
  <2> QED
    BY <1>6, <2>1, <2>2
<1>8. ASSUME NEW k \in Keys PROVE KeyInv(k)' /\ MomentumPassed(k)'
  <2>1. CASE cache'[k] = NoCache
    BY <1>2, <1>5, <2>1 DEF NoCache, NoLoss, KeyInv, MomentumPassed
  <2>2. CASE cache'[k] # NoCache
    <3>1. PICK h \in giving : k \in Lower[h] /\ cache'[k] = CacheOf(Len(bars[k]), LastBar(bars[h]))
      BY <1>3, <2>2
    <3>2. \A g \in Keys : k \in Lower[g] => g = h
      BY <1>4, <3>1, PipelineAssumption
    <3>3. MomentumPassed(k)'
      BY <1>4, <3>1, <3>2 DEF MomentumPassed, CacheOf
    <3>4. /\ cache'[k].made /\ Counts(cache'[k].vp, 1..Len(bars[k]))
          /\ Counts(cache'[k].wk, 1..Len(bars[k]))
      BY <1>6, <3>1, CountsRange DEF CacheOf
    <3>5. KeyInv(k)'
      <4>1. k \in eager' /\ lost'[k].vp = {} /\ lost'[k].wk = {} /\ worker'[k] # "compute"
        BY <1>2, <1>5, <3>4 DEF NoLoss
      <4>2. Counts(cache[k].vp, Settled(k) \ lost[k].vp)'
        BY <1>7, <3>4, <4>1 DEF Counts, Increasing
      <4>3. Counts(cache[k].wk, Settled(k) \ lost[k].wk)'
        BY <1>7, <3>4, <4>1 DEF Counts, Increasing
      <4> QED
        BY <3>4, <4>1, <4>2, <4>3 DEF KeyInv
    <3> QED
      BY <3>3, <3>5
  <2> QED
    BY <2>1, <2>2
<1> QED
  BY <1>8 DEF CacheInv

LEMMA AppendBarCaches ==
  ASSUME TypeOK, CacheInv, NEW k \in Keys, AppendBar(k)
  PROVE  CacheInv'
<1>1. UNCHANGED <<cache, seeded, lost, passed, eager>>
  BY DEF AppendBar, ghosts
<1>2. ASSUME NEW l \in Keys PROVE MomentumPassed(l)'
  BY <1>1 DEF CacheInv, MomentumPassed
<1>3. ASSUME NEW l \in Keys \ {k} PROVE KeyInv(l)'
  <2>1. history'[l] = history[l] /\ worker'[l] = worker[l]
    BY DEF AppendBar, TypeOK
  <2> QED
    BY <1>1, <2>1, KeyStays DEF CacheInv
<1>4. KeyInv(k)'
  <2> DEFINE n == Len(history[k])
  <2>1. n \in Nat /\ seeded[k] \in Nat /\ seeded[k] <= n /\ MinBars[k] \in Nat \ {0}
    BY PipelineAssumption DEF TypeOK
  <2>2. Len(history'[k]) = n + 1
    BY HeadTailProperties, AppendProperties DEF AppendBar, TypeOK
  <2>3. worker'[k] = IF n + 1 >= MinBars[k] THEN "compute" ELSE "idle"
    BY <2>2 DEF AppendBar, TypeOK
  <2>4. Unseen(k)' = Unseen(k)
    BY <1>1 DEF Unseen
  <2>5. KeyInv(k) /\ Settled(k) = 1..n \ Unseen(k)
    BY DEF CacheInv, AppendBar, Settled
  <2> HIDE DEF n
  <2>6. CASE n + 1 >= MinBars[k]
    <3>1. Settled(k)' = 1..n \ Unseen(k)
      <4>1. Len(history'[k]) - 1 = n /\ worker'[k] = "compute"
        BY <2>1, <2>2, <2>3, <2>6
      <4>2. Settled(k)' = 1..Len(history'[k]) - 1 \ Unseen(k)'
        BY <4>1 DEF Settled
      <4> QED
        BY <2>4, <4>1, <4>2
    <3> QED
      <4>1. Len(history'[k]) >= MinBars[k]
        BY <2>2, <2>6
      <4>2. Settled(k)' = Settled(k)
        BY <2>5, <3>1
      <4> QED
        BY <1>1, <2>5, <4>1, <4>2 DEF KeyInv, Counts, Increasing
  <2>7. CASE ~(n + 1 >= MinBars[k])
    <3>1. Settled(k)' = 1..n + 1 \ Unseen(k)
      BY <2>2, <2>3, <2>4, <2>7 DEF Settled
    <3>2. CASE k \in eager
      <4>1. n + 1 \in Unseen(k)
        BY <2>1, <2>7, <3>2 DEF Unseen
      <4>2. Settled(k)' = Settled(k)
        <5>1. 1..n + 1 = 1..n \cup {n + 1}
          BY <2>1
        <5> QED
          BY <2>5, <3>1, <4>1, <5>1
      <4> QED
        BY <1>1, <2>3, <2>5, <2>7, <3>2, <4>2 DEF KeyInv, Counts, Increasing
    <3>3. CASE k \notin eager
      <4>1. ~cache[k].made
        BY <2>1, <2>5, <2>7, <3>3 DEF KeyInv, n
      <4> QED
        BY <1>1, <2>3, <2>5, <2>7, <3>3, <4>1 DEF KeyInv, NoLoss
    <3> QED
      BY <3>2, <3>3
  <2> QED
    BY <2>6, <2>7
<1> QED
  BY <1>2, <1>3, <1>4 DEF CacheInv

\* The caches after the session state has taken a bar: the session of the key at
\* work is ahead of its week, the others have no more than another momentum.
LEMMA UpdatedCaches ==
  ASSUME TypeOK, CacheInv, NEW k \in Keys, worker[k] = "compute"
  PROVE  /\ \A l \in Keys \ {k} :
              /\ Updated(k)[l].made = cache[l].made
              /\ Updated(k)[l].vp = cache[l].vp /\ Updated(k)[l].wk = cache[l].wk
         /\ Updated(k)[k].made
         /\ Updated(k)[k].vp = Append(OwnCache(k).vp, Len(history[k]))
         /\ Updated(k)[k].wk = OwnCache(k).wk
         /\ \A l \in Keys : Updated(k)[l].made =>
              \A h \in Keys : l \in Lower[h] =>
                Updated(k)[l].ctf \in {0, IF h = k THEN LastBar(history[k]) ELSE passed[h]}
<1> DEFINE own == [OwnCache(k) EXCEPT !.vp = Append(@, Len(history[k]))]
<1>1. ComputesWhenWarm
  BY CacheInvParts
<1>2. OwnCache(k) \in Caches /\ OwnCache(k).made
  BY <1>1, UpdatedType DEF OwnCache, CacheOf
<1>3. /\ own \in Caches /\ own.made /\ own.vp = Append(OwnCache(k).vp, Len(history[k]))
      /\ own.wk = OwnCache(k).wk /\ own.ctf = OwnCache(k).ctf
  <2>1. Append(OwnCache(k).vp, Len(history[k])) \in Seq(Nat)
    BY <1>1, <1>2, UpdatedType, AppendProperties DEF Caches
  <2> QED
    BY <1>2, <2>1 DEF Caches
<1> HIDE DEF own
<1>4. ASSUME NEW l \in Keys
      PROVE  Updated(k)[l] = Momentum(k, l, IF l = k THEN own ELSE cache[l])
  BY DEF Updated, own
<1>5. ASSUME NEW l \in Keys, NEW c \in Caches
      PROVE  /\ Momentum(k, l, c).made = c.made
             /\ Momentum(k, l, c).vp = c.vp /\ Momentum(k, l, c).wk = c.wk
             /\ l \notin Lower[k] => Momentum(k, l, c).ctf = c.ctf
             /\ l \in Lower[k] /\ c.made => Momentum(k, l, c).ctf = LastBar(history[k])
  BY DEF Momentum, Caches
<1>6. \A l \in Keys : cache[l] \in Caches
  BY DEF TypeOK
<1>7. ASSUME NEW l \in Keys, NEW h \in Keys, l \in Lower[h], Updated(k)[l].made
      PROVE  Updated(k)[l].ctf \in {0, IF h = k THEN LastBar(history[k]) ELSE passed[h]}
  <2> DEFINE c == IF l = k THEN own ELSE cache[l]
  <2>1. c \in Caches /\ c.made
    BY <1>3, <1>4, <1>5, <1>6, <1>7
  <2>2. CASE h = k
    BY <1>4, <1>5, <1>7, <2>1, <2>2
  <2>3. CASE h # k
    <3>1. l \notin Lower[k]
      BY <1>7, <2>3, PipelineAssumption
    <3>2. Updated(k)[l].ctf = c.ctf
      BY <1>4, <1>5, <2>1, <3>1
    <3>3. c.ctf \in {0, passed[h]}
      <4>1. cache[l].made => cache[l].ctf \in {0, passed[h]}
        BY <1>7 DEF CacheInv, MomentumPassed
      <4>2. CASE l = k
        <5>1. c.ctf = OwnCache(k).ctf
          BY <1>3, <4>2
        <5> QED
          BY <4>1, <4>2, <5>1 DEF OwnCache, CacheOf
      <4>3. CASE l # k
        BY <2>1, <4>1, <4>3
      <4> QED
        BY <4>2, <4>3
    <3> QED
      BY <2>3, <3>2, <3>3
  <2> QED
    BY <2>2, <2>3
<1> QED
  BY <1>3, <1>4, <1>5, <1>6, <1>7

\* Both states of the cache at work have every settled bar, and the bar in
\* computation is above them.
LEMMA OwnCounts ==
  ASSUME TypeOK, CacheInv, NEW k \in Keys, worker[k] = "compute"
  PROVE  /\ Counts(OwnCache(k).vp, Settled(k) \ lost[k].vp)
         /\ Counts(OwnCache(k).wk, Settled(k) \ lost[k].wk)
         /\ Len(history[k]) \notin Unseen(k)
         /\ Settled(k) \cup {Len(history[k])} = 1..Len(history[k]) \ Unseen(k)
         /\ \A x \in Settled(k) : x < Len(history[k])
<1> DEFINE n == Len(history[k])
<1>1. n \in Nat \ {0} /\ n >= MinBars[k] /\ seeded[k] \in Nat /\ MinBars[k] \in Nat
  BY UpdatedType, CacheInvParts, PipelineAssumption DEF CacheInv, KeyInv, TypeOK
<1>2. n \notin Unseen(k)
  BY <1>1 DEF Unseen
<1>3. Settled(k) = 1..n - 1 \ Unseen(k)
  BY DEF Settled
<1> HIDE DEF n
<1>4. 1..n = 1..n - 1 \cup {n} /\ \A x \in 1..n - 1 : x < n
  BY <1>1
<1>5. CASE cache[k].made
  BY <1>2, <1>3, <1>4, <1>5 DEF CacheInv, KeyInv, OwnCache, n
<1>6. CASE ~cache[k].made
  <2>1. k \notin eager /\ lost[k] = NoLoss
    BY <1>6 DEF CacheInv, KeyInv
  <2>2. Settled(k) = 1..n - 1 /\ lost[k].vp = {} /\ lost[k].wk = {}
    BY <1>3, <2>1 DEF Unseen, NoLoss
  <2>3. /\ OwnCache(k).vp = [i \in 1..n - 1 |-> i]
        /\ OwnCache(k).wk = [i \in 1..n - 1 |-> i]
    BY <1>6 DEF OwnCache, CacheOf, n
  <2>4. n - 1 \in Nat
    BY <1>1
  <2>5. Counts([i \in 1..n - 1 |-> i], 1..n - 1)
    BY <2>4, CountsRange
  <2>6. /\ Counts(OwnCache(k).vp, Settled(k) \ lost[k].vp)
        /\ Counts(OwnCache(k).wk, Settled(k) \ lost[k].wk)
    BY <2>2, <2>3, <2>5
  <2> QED
    BY <1>2, <1>3, <1>4, <2>6 DEF n
<1> QED
  BY <1>5, <1>6

LEMMA ComputeCaches ==
  ASSUME TypeOK, CacheInv, NEW k \in Keys,
         Compute(k) \/ FactoryFails(k) \/ ComputeFails(k)
  PROVE  CacheInv'
<1> DEFINE n == Len(history[k])
           Session == Settled(k) \ lost[k].vp
           Week == Settled(k) \ lost[k].wk
<1>1. /\ worker[k] = "compute" /\ worker'[k] = "idle"
      /\ \A l \in Keys \ {k} : worker'[l] = worker[l]
      /\ UNCHANGED <<history, seeded, eager>>
  BY DEF Compute, FactoryFails, ComputeFails, Computed, TypeOK
<1>2. /\ n \in Nat /\ OwnCache(k) \in Caches /\ Updated(k) \in [Keys -> Caches]
      /\ n >= MinBars[k]
  BY <1>1, UpdatedType, CacheInvParts DEF CacheInv, KeyInv
<1>3. /\ Settled(k)' = Settled(k) \cup {n}
      /\ \A x \in Settled(k) : x < n
      /\ lost[k].vp \subseteq Settled(k) /\ lost[k].wk \subseteq Settled(k)
  <2>1. Settled(k)' = 1..n \ Unseen(k)
    BY <1>1 DEF Settled, Unseen
  <2> QED
    BY <1>1, <2>1, OwnCounts DEF CacheInv, KeyInv
<1>4. n \notin Settled(k)
  BY <1>2, <1>3
<1>5. /\ Counts(OwnCache(k).vp, Session) /\ Counts(OwnCache(k).wk, Week)
      /\ OwnCache(k).vp \in Seq(Nat) /\ OwnCache(k).wk \in Seq(Nat) /\ OwnCache(k).made
  BY <1>1, <1>2, OwnCounts DEF Caches, OwnCache, CacheOf
<1>6. /\ Counts(Append(OwnCache(k).vp, n), Session \cup {n})
      /\ Counts(Append(OwnCache(k).wk, n), Week \cup {n})
  BY <1>2, <1>3, <1>5, CountsAppend
<1> HIDE DEF n, Session, Week
<1>7. CASE Compute(k) \/ FactoryFails(k)
  <2>1. ASSUME NEW l \in Keys \ {k}
        PROVE  /\ cache'[l].made = cache[l].made /\ cache'[l].vp = cache[l].vp
               /\ cache'[l].wk = cache[l].wk /\ cache'[l].ctf = Updated(k)[l].ctf
               /\ lost'[l] = lost[l]
    <3>1. cache'[l] = Updated(k)[l] /\ lost'[l] = lost[l]
      BY <1>2, <1>7 DEF Compute, FactoryFails, TypeOK
    <3> QED
      BY <1>1, <3>1, UpdatedCaches
  <2>2. /\ cache'[k].made /\ cache'[k].vp = Append(OwnCache(k).vp, n)
        /\ cache'[k].ctf = Updated(k)[k].ctf
    <3>1. Updated(k)[k] \in Caches
      BY <1>2
    <3>2. /\ cache'[k].made = Updated(k)[k].made /\ cache'[k].vp = Updated(k)[k].vp
          /\ cache'[k].ctf = Updated(k)[k].ctf
      BY <1>2, <1>7, <3>1 DEF Compute, FactoryFails, Caches
    <3> QED
      BY <1>1, <3>2, UpdatedCaches DEF n
  <2>3. ASSUME NEW l \in Keys PROVE MomentumPassed(l)'
    <3>1. ASSUME NEW h \in Keys
          PROVE  passed'[h] = IF h = k THEN LastBar(history[k]) ELSE passed[h]
      BY <1>7 DEF Compute, FactoryFails, TypeOK
    <3>2. (cache'[l].made => Updated(k)[l].made) /\ cache'[l].ctf = Updated(k)[l].ctf
      BY <1>1, <2>1, <2>2, UpdatedCaches
    <3> QED
      BY <1>1, <3>1, <3>2, UpdatedCaches DEF MomentumPassed
  <2>4. ASSUME NEW l \in Keys \ {k} PROVE KeyInv(l)'
    BY <1>1, <2>1, KeyStays DEF CacheInv
  <2>5. KeyInv(k)'
    <3>1. CASE Compute(k)
      <4>1. cache'[k].wk = Append(OwnCache(k).wk, n) /\ lost' = lost
        <5>1. Updated(k)[k] \in Caches /\ Updated(k)[k].wk = OwnCache(k).wk
          BY <1>1, <1>2, UpdatedCaches
        <5> QED
          BY <1>2, <3>1, <5>1 DEF Compute, Caches, n
      <4>2. /\ Session \cup {n} = Settled(k)' \ lost'[k].vp
            /\ Week \cup {n} = Settled(k)' \ lost'[k].wk
        BY <1>3, <1>4, <4>1 DEF Session, Week
      <4>3. /\ Counts(cache[k].vp, Settled(k) \ lost[k].vp)'
            /\ Counts(cache[k].wk, Settled(k) \ lost[k].wk)'
        BY <1>6, <2>2, <4>1, <4>2 DEF Counts, Increasing
      <4>4. lost'[k].vp \cup lost'[k].wk \subseteq Settled(k)' /\ Len(history'[k]) >= MinBars[k]
        BY <1>1, <1>2, <1>3, <4>1 DEF n
      <4> QED
        BY <2>2, <4>3, <4>4 DEF KeyInv
    <3>2. CASE FactoryFails(k)
      <4>1. /\ cache'[k].wk = OwnCache(k).wk
            /\ lost'[k].vp = lost[k].vp /\ lost'[k].wk = lost[k].wk \cup {n}
        <5>1. cache'[k].wk = OwnCache(k).wk
          BY <1>1, <3>2, UpdatedCaches DEF FactoryFails
        <5>2. lost[k] \in [vp : SUBSET Nat, wk : SUBSET Nat]
          BY DEF TypeOK
        <5>3. lost'[k] = [lost[k] EXCEPT !.wk = @ \cup {n}]
          BY <3>2 DEF FactoryFails, TypeOK, n
        <5> QED
          BY <5>1, <5>2, <5>3
      <4>2. /\ Session \cup {n} = Settled(k)' \ lost'[k].vp
            /\ Week = Settled(k)' \ lost'[k].wk
        BY <1>3, <1>4, <4>1 DEF Session, Week
      <4>3. /\ Counts(cache[k].vp, Settled(k) \ lost[k].vp)'
            /\ Counts(cache[k].wk, Settled(k) \ lost[k].wk)'
        <5>1. Counts(cache[k].vp, Settled(k) \ lost[k].vp)'
          BY <1>6, <2>2, <4>2 DEF Counts, Increasing
        <5>2. Counts(cache[k].wk, Settled(k) \ lost[k].wk)'
          BY <1>5, <4>1, <4>2 DEF Counts, Increasing
        <5> QED
          BY <5>1, <5>2
      <4>4. lost'[k].vp \cup lost'[k].wk \subseteq Settled(k)' /\ Len(history'[k]) >= MinBars[k]
        BY <1>1, <1>2, <1>3, <4>1 DEF n
      <4> QED
        BY <2>2, <4>3, <4>4 DEF KeyInv
    <3> QED
      BY <1>7, <3>1, <3>2
  <2> QED
    BY <2>3, <2>4, <2>5 DEF CacheInv
<1>8. CASE ComputeFails(k)
  <2>1. /\ cache'[k] = OwnCache(k) /\ UNCHANGED passed
        /\ lost'[k].vp = lost[k].vp \cup {n} /\ lost'[k].wk = lost[k].wk \cup {n}
    BY <1>8 DEF ComputeFails, TypeOK, n
  <2>2. ASSUME NEW l \in Keys \ {k} PROVE cache'[l] = cache[l] /\ lost'[l] = lost[l]
    BY <1>8 DEF ComputeFails, TypeOK
  <2>3. ASSUME NEW l \in Keys PROVE MomentumPassed(l)'
    <3>1. MomentumPassed(l)
      BY DEF CacheInv
    <3>2. CASE l # k
      BY <2>1, <2>2, <3>1, <3>2 DEF MomentumPassed
    <3>3. CASE l = k
      <4>1. cache'[k].ctf = 0 \/ (cache[k].made /\ cache'[k].ctf = cache[k].ctf)
        BY <2>1 DEF OwnCache, CacheOf
      <4> QED
        BY <2>1, <3>1, <3>3, <4>1 DEF MomentumPassed
    <3> QED
      BY <3>2, <3>3
  <2>4. ASSUME NEW l \in Keys \ {k} PROVE KeyInv(l)'
    BY <1>1, <2>2, KeyStays DEF CacheInv
  <2>5. KeyInv(k)'
    <3>1. Session = Settled(k)' \ lost'[k].vp /\ Week = Settled(k)' \ lost'[k].wk
      BY <1>3, <1>4, <2>1 DEF Session, Week
    <3>2. /\ Counts(cache[k].vp, Settled(k) \ lost[k].vp)'
          /\ Counts(cache[k].wk, Settled(k) \ lost[k].wk)'
      <4>1. Counts(cache[k].vp, Settled(k) \ lost[k].vp)'
        BY <1>5, <2>1, <3>1 DEF Counts, Increasing
      <4>2. Counts(cache[k].wk, Settled(k) \ lost[k].wk)'
        BY <1>5, <2>1, <3>1 DEF Counts, Increasing
      <4> QED
        BY <4>1, <4>2
    <3>3. lost'[k].vp \cup lost'[k].wk \subseteq Settled(k)' /\ Len(history'[k]) >= MinBars[k]
      BY <1>1, <1>2, <1>3, <2>1 DEF n
    <3> QED
      BY <1>5, <2>1, <3>2, <3>3 DEF KeyInv
  <2> QED
    BY <2>3, <2>4, <2>5 DEF CacheInv
<1> QED
  BY <1>7, <1>8

LEMMA EndCaches ==
  ASSUME End
  PROVE  CacheInv'
<1> SUFFICES ASSUME NEW k \in Keys PROVE KeyInv(k)' /\ MomentumPassed(k)'
  BY DEF CacheInv
<1> QED
  BY DEF End, KeyInv, MomentumPassed, NoCache, NoLoss

LEMMA NextCaches ==
  ASSUME TypeOK, TypeOK', NothingKept, CacheInv, [Next]_vars
  PROVE  CacheInv'
  BY QuietCaches, SeedCaches, AppendBarCaches, ComputeCaches, EndCaches DEF Next, Work

-----------------------------------------------------------------------------
(* The theorems.                                                            *)

LEMMA NextKeepsNothing ==
  ASSUME NothingKept, [Next]_vars
  PROVE  NothingKept'
<1>1. CASE UNCHANGED vars \/ (\E k \in Keys : Produce(k)) \/ Store
  <2>1. UNCHANGED <<phase, missed, eager, first, pos, queue, worker, history, seeded, cache, lost>>
    BY <1>1 DEF vars, Produce, Store, reader, state, ghosts
  <2> QED
    BY <2>1 DEF NothingKept
<1>2. CASE Connect
  <2>1. /\ UNCHANGED <<missed, eager, queue, worker, history, seeded, cache, lost>>
        /\ first' = pos' /\ phase # "run"
    BY <1>2 DEF Connect, state
  <2> QED
    BY <2>1 DEF NothingKept
<1>3. CASE End
  BY <1>3 DEF End, NothingKept
<1>4. CASE Seed \/ TakeMessage \/ (\E n \in 0..MaxBars : ConsumerFails(n)) \/ \E k \in Keys : Work(k)
  <2>1. phase' = "run"
    BY <1>4 DEF Seed, TakeMessage, ConsumerFails, Work, AppendBar, Compute, FactoryFails,
                ComputeFails, Computed
  <2> QED
    BY <2>1 DEF NothingKept
<1> QED
  BY <1>1, <1>2, <1>3, <1>4 DEF Next

\* The inductive invariant of the pipeline.
THEOREM PipelineInvariant == Spec => []PipelineInv
<1>1. Init => PipelineInv
  <2> SUFFICES ASSUME Init PROVE PipelineInv
    OBVIOUS
  <2>1. NothingKept
    BY DEF Init, NothingKept
  <2> QED
    BY <2>1, PipelineInitTypes, InitFeed, InitCaches, CacheInvParts DEF PipelineInv
<1>2. PipelineInv /\ [Next]_vars => PipelineInv'
  <2> SUFFICES ASSUME PipelineInv, [Next]_vars PROVE PipelineInv'
    OBVIOUS
  <2>1. CacheInv
    BY CacheInvParts DEF PipelineInv
  <2>2. TypeOK'
    BY PipelineNextTypes DEF PipelineInv
  <2>3. NothingKept'
    BY NextKeepsNothing DEF PipelineInv
  <2>4. MissedWereRead' /\ FeedIsComplete'
    BY <2>2, NextFeed DEF PipelineInv
  <2>5. CacheInv'
    BY <2>1, <2>2, NextCaches DEF PipelineInv
  <2>6. ComputesWhenWarm' /\ LostAreSettled' /\ UnmadeIsClean' /\ CacheIsReplay'
    BY <2>5 DEF CacheInv, KeyInv, MomentumPassed, Counts, ComputesWhenWarm, LostAreSettled,
                UnmadeIsClean, CacheIsReplay
  <2> QED
    BY <2>2, <2>3, <2>4, <2>6 DEF PipelineInv
<1> QED
  BY <1>1, <1>2, PTL DEF Spec

\* The log, the reader, the queues, the histories and the caches keep their
\* types, and no queue is longer than queue_maxsize.
THEOREM PipelineTypeCorrect == Spec => []TypeOK
<1>1. PipelineInv => TypeOK
  BY DEF PipelineInv
<1> QED
  BY <1>1, PipelineInvariant, PTL

\* Every cache is the replay of its history (update_session_vp, update_wk_vwap
\* and _update_ctf_cache_from_htf_bar, whenever and by whomever it was made).
THEOREM PipelineCacheIsReplay == Spec => []CacheIsReplay
<1>1. PipelineInv => CacheIsReplay
  BY DEF PipelineInv
<1> QED
  BY <1>1, PipelineInvariant, PTL

\* Every bar read in a run is appended or queued, once and in order, unless
\* try_enqueue refused it or the client lost it.
THEOREM PipelineFeedIsComplete == Spec => []FeedIsComplete
<1>1. PipelineInv => FeedIsComplete
  BY DEF PipelineInv
<1> QED
  BY <1>1, PipelineInvariant, PTL
=============================================================================
