-------------------------- MODULE FeaturePipeline --------------------------
(***************************************************************************)
(* The bar side of the feature pipeline: the consume loop of               *)
(* services/feature_vector_pipeline.py FeatureVectorPipeline, the workers  *)
(* of src/intelligence/pipeline/per_key_worker_manager.py, the bar history *)
(* (src/core/bar_history.py) and the feature caches that the workers keep  *)
(* in step with it, with the start of the service: where it begins to read *)
(* and the history it is seeded with.                                      *)
(*                                                                         *)
(* A key is a symbol and a timeframe; a bar is its offset in one log of    *)
(* both bar topics.  A cache is the bars its session state (vp) and its    *)
(* weekly state (wk) have counted, by their positions in the history, and  *)
(* the higher-timeframe bar its momentum comes from (ctf).  A run has      *)
(* fewer bars than the history's maxlen and stays within one session.      *)
(*                                                                         *)
(* A worker appends a bar and computes it in two steps, with an await      *)
(* between them, as the docstring of _update_ctf_cache_from_htf_bar has    *)
(* it.  The five seconds around the computation never run out: it does     *)
(* not suspend.                                                            *)
(***************************************************************************)
EXTENDS Integers, Sequences, FiniteSets

CONSTANTS
  Keys,         \* symbol and timeframe, of the symbols the service owns
  Lower,        \* per key, the keys whose cache takes its momentum (_ctf_lower_tfs)
  MinBars,      \* per key, min_bars_for_tf
  QueueMax,     \* queue_maxsize of a worker's queue
  CommitBatch,  \* COMMIT_BATCH_SIZE
  MaxLag,       \* max_lag of skip_lag_if_needed
  Prefetch,     \* messages the client may hold in front of the loop
  MaxBars,      \* bound: bars produced
  MaxStarts,    \* bound: starts of the service
  MaxFaults     \* bound: failed computations, commits and consumers

ASSUME PipelineAssumption ==
  /\ Lower \in [Keys -> SUBSET Keys]
  /\ \A h, g \in Keys : h # g => Lower[h] \cap Lower[g] = {}
  /\ MinBars \in [Keys -> Nat \ {0}]
  /\ QueueMax \in Nat \ {0} /\ CommitBatch \in Nat \ {0}
  /\ MaxLag \in Nat /\ Prefetch \in Nat
  /\ MaxBars \in Nat /\ MaxStarts \in Nat /\ MaxFaults \in Nat

VARIABLES
  log,        \* the bar topics: the key of every bar
  stored,     \* how far BarWriter has read the topics
  table,      \* the bars it has stored, per key
  committed,  \* the group's committed offset, or NoOffset
  phase,      \* "down", "seed" (in _setup), "run"
  pos,        \* how far the loop has read
  msgCount,   \* msg_count
  queue,      \* the workers' queues
  worker,     \* "none" (not spawned), "idle", "compute" (a bar is appended)
  history,    \* _bar_history
  cache,      \* _feature_caches
  starts, faults,
  first,      \* history: where this run began to read
  seeded,     \* history: how many bars of a key's history were seeded
  missed,     \* history: bars read in this run and not given to a worker
  lost,       \* history: positions whose computation failed, before vp and before wk
  passed,     \* history: the last bar of a key whose momentum was passed on
  eager       \* history: the keys whose cache was made at the start

broker == <<log, stored, table, committed>>
reader == <<pos, msgCount>>
state == <<queue, worker, history, cache>>
bounds == <<starts, faults>>
ghosts == <<first, seeded, missed, lost, passed, eager>>
vars == <<broker, phase, reader, state, bounds, ghosts>>

NoOffset == -1
NoCache == [made |-> FALSE, vp |-> <<>>, wk |-> <<>>, ctf |-> 0]
NoLoss == [vp |-> {}, wk |-> {}]

Init ==
  /\ log = <<>> /\ stored = 0 /\ table = [k \in Keys |-> <<>>] /\ committed = NoOffset
  /\ phase = "down" /\ pos = 0 /\ msgCount = 0
  /\ queue = [k \in Keys |-> <<>>] /\ worker = [k \in Keys |-> "none"]
  /\ history = [k \in Keys |-> <<>>] /\ cache = [k \in Keys |-> NoCache]
  /\ starts = 0 /\ faults = 0
  /\ first = 0 /\ seeded = [k \in Keys |-> 0] /\ missed = {}
  /\ lost = [k \in Keys |-> NoLoss] /\ passed = [k \in Keys |-> 0] /\ eager = {}

Fault == faults < MaxFaults /\ faults' = faults + 1

-----------------------------------------------------------------------------
(* The surroundings.                                                        *)

Produce(k) ==
  /\ Len(log) < MaxBars
  /\ log' = Append(log, k)
  /\ UNCHANGED <<stored, table, committed, phase, reader, state, bounds, ghosts>>

\* BarWriter stores the next bar.
Store ==
  /\ stored < Len(log)
  /\ stored' = stored + 1
  /\ table' = [table EXCEPT ![log[stored + 1]] = Append(@, stored + 1)]
  /\ UNCHANGED <<log, committed, phase, reader, state, bounds, ghosts>>

-----------------------------------------------------------------------------
(* The start of the service.                                                *)

\* skip_lag_if_needed.  A group without an offset begins at the end ("latest").
\* The poll that forces the assignment may return a bar, which is discarded.  A
\* long lag, counted from the beginning if nothing is committed, is skipped.
Connect ==
  /\ phase = "down" /\ starts < MaxStarts
  /\ LET from == IF committed = NoOffset THEN Len(log) ELSE committed
         lag == Len(log) - (IF committed = NoOffset THEN 0 ELSE committed)
     IN  IF lag > MaxLag
         THEN pos' = Len(log) /\ committed' = Len(log)
         ELSE /\ pos' \in {from} \cup (IF from < Len(log) THEN {from + 1} ELSE {})
              /\ UNCHANGED committed
  /\ first' = pos'
  /\ starts' = starts + 1
  /\ phase' = "seed"
  /\ UNCHANGED <<log, stored, table, msgCount, state, faults, seeded, missed, lost, passed, eager>>

\* A cache made from the first n bars of a history, with one bar's momentum.
CacheOf(n, bar) ==
  [made |-> TRUE, vp |-> [i \in 1..n |-> i], wk |-> [i \in 1..n |-> i], ctf |-> bar]

LastBar(bars) == bars[Len(bars)]

\* The seed queries: the stored bars of a key, no more than twice its MinBars.
Latest(k) ==
  LET n == Len(table[k]) - 2 * MinBars[k]
  IN  SubSeq(table[k], IF n > 0 THEN n + 1 ELSE 1, Len(table[k]))

\* _seed_bar_history_from_db: the queries of some keys may fail.  Then every key
\* with a history gives its momentum to its lower keys, whose caches are made
\* from all of their bars; not so if the seeder raises behind its queries.
SeedHistory(found, raised) ==
  LET bars == [k \in Keys |-> IF k \in found THEN Latest(k) ELSE <<>>]
      giving == {h \in Keys : ~raised /\ bars[h] # <<>>}
  IN  /\ history' = bars
      /\ cache' = [l \in Keys |->
           IF \E h \in giving : l \in Lower[h]
           THEN CacheOf(Len(bars[l]), LastBar(bars[CHOOSE h \in giving : l \in Lower[h]]))
           ELSE NoCache]
      /\ seeded' = [k \in Keys |-> Len(bars[k])]
      /\ passed' = [k \in Keys |-> IF k \in giving THEN LastBar(bars[k]) ELSE 0]
      /\ eager' = {k \in Keys : cache'[k].made}

Seed ==
  /\ phase = "seed"
  /\ \E found \in SUBSET Keys, raised \in BOOLEAN : SeedHistory(found, raised)
  /\ phase' = "run"
  /\ UNCHANGED <<broker, reader, queue, worker, bounds, first, missed, lost>>

-----------------------------------------------------------------------------
(* The consume loop.                                                        *)

\* Mutant of TryEnqueue: a full queue makes room by dropping its oldest bar.
TryEnqueue_DropOldest(k, bar) ==
  /\ worker' = [worker EXCEPT ![k] = IF @ = "none" THEN "idle" ELSE @]
  /\ queue' = [queue EXCEPT ![k] =
       IF Len(@) >= QueueMax THEN Append(Tail(@), bar) ELSE Append(@, bar)]
  /\ UNCHANGED missed

\* try_enqueue: the worker is spawned with its first bar; a full queue drops
\* the new bar.
TryEnqueue(k, bar) ==
  /\ worker' = [worker EXCEPT ![k] = IF @ = "none" THEN "idle" ELSE @]
  /\ IF Len(queue[k]) >= QueueMax
     THEN missed' = missed \cup {bar} /\ UNCHANGED queue
     ELSE queue' = [queue EXCEPT ![k] = Append(@, bar)] /\ UNCHANGED missed

\* The client commits what it has fetched, which is ahead of the loop.
Fetched == {n \in pos + 1..Len(log) : n <= pos + 1 + Prefetch /\ n >= committed}

\* One message of _process_loop.  A commit that fails leaves the count.
TakeMessage ==
  /\ phase = "run" /\ pos < Len(log)
  /\ pos' = pos + 1
  /\ TryEnqueue(log[pos + 1], pos + 1)
  /\ IF msgCount + 1 >= CommitBatch
     THEN \/ /\ committed' \in Fetched
             /\ msgCount' = 0 /\ UNCHANGED faults
          \/ /\ Fault
             /\ msgCount' = msgCount + 1 /\ UNCHANGED committed
     ELSE msgCount' = msgCount + 1 /\ UNCHANGED <<committed, faults>>
  /\ UNCHANGED <<log, stored, table, phase, history, cache, starts, first, seeded, lost,
                 passed, eager>>

\* messages() raises and is called again: what the client held in front of the
\* loop is gone.
ConsumerFails(n) ==
  /\ phase = "run" /\ n \in pos..Len(log) /\ n <= pos + Prefetch
  /\ Fault
  /\ pos' = n
  /\ missed' = missed \cup pos + 1..n
  /\ UNCHANGED <<broker, phase, msgCount, state, starts, first, seeded, lost, passed,
                 eager>>

-----------------------------------------------------------------------------
(* The workers.                                                             *)

\* _process_bar_inner up to its await: below MinBars there is nothing to do.
AppendBar(k) ==
  /\ phase = "run" /\ worker[k] = "idle" /\ queue[k] # <<>>
  /\ queue' = [queue EXCEPT ![k] = Tail(@)]
  /\ history' = [history EXCEPT ![k] = Append(@, Head(queue[k]))]
  /\ worker' = [worker EXCEPT ![k] = IF Len(history'[k]) >= MinBars[k] THEN "compute" ELSE "idle"]
  /\ UNCHANGED <<broker, phase, reader, cache, bounds, ghosts>>

\* _get_cache of the key at work: a new cache is made from the bars before the
\* one being processed.
OwnCache(k) == IF cache[k].made THEN cache[k] ELSE CacheOf(Len(history[k]) - 1, 0)

\* Mutant of Momentum: a missing cache is made on the spot.
Momentum_Creates(k, l, c) ==
  IF l \notin Lower[k] THEN c
  ELSE [(IF c.made THEN c ELSE CacheOf(Len(history[l]), 0)) EXCEPT !.ctf = LastBar(history[k])]

\* _update_ctf_cache_from_htf_bar during a run: only caches that exist take the
\* momentum of key k.
Momentum(k, l, c) ==
  IF l \in Lower[k] /\ c.made THEN [c EXCEPT !.ctf = LastBar(history[k])] ELSE c

\* The caches after the session state has taken the bar of key k.
Updated(k) ==
  LET own == [OwnCache(k) EXCEPT !.vp = Append(@, Len(history[k]))]
  IN  [l \in Keys |-> Momentum(k, l, IF l = k THEN own ELSE cache[l])]

Computed(k) ==
  /\ phase = "run" /\ worker[k] = "compute"
  /\ worker' = [worker EXCEPT ![k] = "idle"]
  /\ UNCHANGED <<broker, phase, reader, queue, history, starts, first, seeded, missed,
                 eager>>

\* _process_bar_compute: momentum and session state, the feature vector, the
\* week.
Compute(k) ==
  /\ Computed(k)
  /\ cache' = [Updated(k) EXCEPT ![k].wk = Append(@, Len(history[k]))]
  /\ passed' = [passed EXCEPT ![k] = LastBar(history[k])]
  /\ UNCHANGED <<faults, lost>>

\* FeatureFactory.compute raises: the session has the bar, the week has not.
FactoryFails(k) ==
  /\ Computed(k) /\ Fault
  /\ cache' = Updated(k)
  /\ passed' = [passed EXCEPT ![k] = LastBar(history[k])]
  /\ lost' = [lost EXCEPT ![k].wk = @ \cup {Len(history[k])}]

\* Mutant of ComputeFails: the error ends the worker.
ComputeFails_EndsWorker(k) ==
  /\ phase = "run" /\ worker[k] = "compute" /\ Fault
  /\ worker' = [worker EXCEPT ![k] = "gone"]
  /\ cache' = [cache EXCEPT ![k] = OwnCache(k)]
  /\ lost' = [lost EXCEPT ![k] = [vp |-> @.vp \cup {Len(history[k])},
                                  wk |-> @.wk \cup {Len(history[k])}]]
  /\ UNCHANGED <<broker, phase, reader, queue, history, starts, first, seeded, missed, passed,
                 eager>>

\* An error before that, in refresh_regime: the worker logs it and goes on; no
\* state has the bar.
ComputeFails(k) ==
  /\ Computed(k) /\ Fault
  /\ cache' = [cache EXCEPT ![k] = OwnCache(k)]
  /\ lost' = [lost EXCEPT ![k] = [vp |-> @.vp \cup {Len(history[k])},
                                  wk |-> @.wk \cup {Len(history[k])}]]
  /\ UNCHANGED passed

-----------------------------------------------------------------------------
\* The service stops or dies: the workers are cancelled with their queues, and
\* nothing is committed.
End ==
  /\ phase \in {"seed", "run"}
  /\ phase' = "down" /\ pos' = 0 /\ msgCount' = 0 /\ first' = 0
  /\ queue' = [k \in Keys |-> <<>>] /\ worker' = [k \in Keys |-> "none"]
  /\ history' = [k \in Keys |-> <<>>] /\ cache' = [k \in Keys |-> NoCache]
  /\ seeded' = [k \in Keys |-> 0] /\ missed' = {}
  /\ lost' = [k \in Keys |-> NoLoss] /\ passed' = [k \in Keys |-> 0] /\ eager' = {}
  /\ UNCHANGED <<broker, bounds>>

Work(k) == AppendBar(k) \/ Compute(k) \/ FactoryFails(k) \/ ComputeFails(k)

Next ==
  \/ \E k \in Keys : Produce(k) \/ Work(k)
  \/ Store \/ Connect \/ Seed \/ TakeMessage \/ End
  \/ \E n \in 0..MaxBars : ConsumerFails(n)

Spec == Init /\ [][Next]_vars

\* The event loop runs every worker that can go on.
FairSpec == Spec /\ \A k \in Keys : WF_vars(Work(k))

-----------------------------------------------------------------------------
Caches == [made : BOOLEAN, vp : Seq(Nat), wk : Seq(Nat), ctf : Nat]

TypeOK ==
  /\ log \in Seq(Keys) /\ stored \in 0..Len(log) /\ table \in [Keys -> Seq(Nat)]
  /\ committed \in {NoOffset} \cup 0..Len(log)
  /\ phase \in {"down", "seed", "run"}
  /\ pos \in 0..Len(log) /\ first \in 0..pos /\ msgCount \in Nat
  /\ queue \in [Keys -> Seq(Nat)] /\ \A k \in Keys : Len(queue[k]) <= QueueMax
  /\ worker \in [Keys -> {"none", "idle", "compute"}]
  /\ history \in [Keys -> Seq(Nat)] /\ cache \in [Keys -> Caches]
  /\ seeded \in [Keys -> Nat] /\ \A k \in Keys : seeded[k] <= Len(history[k])
  /\ missed \subseteq Nat
  /\ lost \in [Keys -> [vp : SUBSET Nat, wk : SUBSET Nat]]
  /\ passed \in [Keys -> Nat] /\ eager \subseteq Keys
  /\ starts \in Nat /\ faults \in Nat

\* A cache made at the start never sees the bars that are appended before the
\* history is long enough.
Unseen(k) == IF k \in eager THEN seeded[k] + 1..MinBars[k] - 1 ELSE {}

\* The positions of a key's history that its cache is to have counted.
Settled(k) ==
  (1..(IF worker[k] = "compute" THEN Len(history[k]) - 1 ELSE Len(history[k]))) \ Unseen(k)

Increasing(s) == \A i, j \in DOMAIN s : i < j => s[i] < s[j]

(* A cache is what a replay of its history gives (update_session_vp,           *)
(* update_wk_vwap: "once per bar"), however it came to be: made at the start,  *)
(* by its worker, before or behind bars too few to compute, while other        *)
(* workers pass their momentum to it.  Its session and weekly state have every *)
(* settled bar once and in order, except the bars whose computation failed and *)
(* those that came to a cache made at the start before MinBars were reached;   *)
(* a momentum it has is that of the last bar passed on.                        *)
CacheIsReplay ==
  \A k \in Keys : cache[k].made =>
    /\ Increasing(cache[k].vp)
    /\ {cache[k].vp[i] : i \in DOMAIN cache[k].vp} = Settled(k) \ lost[k].vp
    /\ Increasing(cache[k].wk)
    /\ {cache[k].wk[i] : i \in DOMAIN cache[k].wk} = Settled(k) \ lost[k].wk
    /\ \A h \in Keys : k \in Lower[h] => cache[k].ctf \in {0, passed[h]}

\* The bars of a key that this run of the service has appended.
Live(k) == SubSeq(history[k], seeded[k] + 1, Len(history[k]))

(* The feed of a worker: of the bars read in this run every one is appended or *)
(* queued, in the order of the topic and none twice, except those a full queue *)
(* has refused and those the client held when it failed.  The log has only the *)
(* bars the loop hands on: a message that is no dict or does not parse, and a  *)
(* bar of a symbol the service does not own, never reach a queue.  (A bar may  *)
(* be in the seeded part as well.  Across a restart nothing is promised: the   *)
(* queued bars go with the workers, whatever was committed.)                   *)
FeedIsComplete ==
  \A k \in Keys :
    LET fed == Live(k) \o queue[k]
    IN  /\ Increasing(fed)
        /\ {fed[i] : i \in DOMAIN fed}
             = {i \in first + 1..pos : log[i] = k} \ missed

(* A worker empties its queue as long as the service runs, failed computations *)
(* included (per_key_worker_manager.py: the loop goes on).                     *)
QueuesDrain ==
  \A k \in Keys : (queue[k] # <<>>) ~> (queue[k] = <<>> \/ phase # "run")
=============================================================================
