--------------------------- MODULE BarAggregator ---------------------------
(***************************************************************************)
(* The bar aggregator, services/bar_aggregator.py and                      *)
(* src/core/bar_accumulator.py, for one symbol: one-minute bars from       *)
(* market.bars go into one accumulator per timeframe; a bar that leaves    *)
(* the period or the session closes the accumulators, the closed bars are  *)
(* published through an emit-once guard, and the accumulators are          *)
(* checkpointed on a compacted topic that a restart reads back.            *)
(*                                                                         *)
(* Prices are abstracted to which minutes an accumulator holds, how often  *)
(* it merged one (its volume), and whether its high is below its low.      *)
(***************************************************************************)
EXTENDS Integers, SequencesExt, FiniteSets

CONSTANTS
  Timeframes,   \* _timeframes, in their order
  Minutes,      \* _TF_MINUTES
  Breaks,       \* the minutes at which the regular session opens or closes
  Times,        \* the minutes bars may carry
  MaxBars,      \* bound: messages of market.bars
  MaxFailures,  \* bound: failed publishes
  MaxCrashes    \* bound: stops and crashes

Tfs == Range(Timeframes)

ASSUME AggregatorAssumption ==
  /\ Timeframes \in Seq(STRING) /\ IsInjective(Timeframes)
  /\ Minutes \in [Tfs -> Nat \ {0}]
  /\ Breaks \subseteq Nat /\ Times \subseteq Nat
  /\ MaxBars \in Nat /\ MaxFailures \in Nat /\ MaxCrashes \in Nat

VARIABLES
  acc,          \* _accumulators
  sane,         \* _is_accumulator_valid of each
  completed,    \* completed_bars still to be emitted, at most one per timeframe
  lastEmitted,  \* _last_emitted, -1 for none
  loop,         \* where _run is: "idle", "emit", "down"
  restart,      \* _consumer_restart_needed
  ckpts,        \* the checkpoints behind the committed offset of the restore group
  out,          \* history: the bars on market.bars.htf, of this run of the service
  suppressed,   \* history: those the emit-once guard held back
  bars, failures, crashes

state == <<acc, sane>>
history == <<out, suppressed>>
bounds == <<bars, failures, crashes>>
vars == <<state, completed, lastEmitted, loop, restart, ckpts, history, bounds>>

Nothing == [period |-> 0, last |-> -1, minutes |-> {}, volume |-> 0]

NoBars == [tf \in Tfs |-> Nothing]

NoState == [acc |-> NoBars, sane |-> [tf \in Tfs |-> TRUE]]

Init ==
  /\ acc = NoState.acc /\ sane = NoState.sane
  /\ completed = NoBars
  /\ lastEmitted = [tf \in Tfs |-> -1]
  /\ loop = "idle" /\ restart = FALSE
  /\ ckpts = <<>>
  /\ out = [tf \in Tfs |-> <<>>] /\ suppressed = {}
  /\ bars = 0 /\ failures = 0 /\ crashes = 0

-----------------------------------------------------------------------------
(* BarAccumulator.                                                          *)

Floor(t, tf) == (t \div Minutes[tf]) * Minutes[tf]

IsSessionBreak(prev, curr) == \E b \in Breaks : prev < b /\ b <= curr

NewAccumulator(t, tf) ==
  [period |-> Floor(t, tf), last |-> t, minutes |-> {t}, volume |-> 1]

Extended(b, t) ==
  [period |-> b.period, last |-> t, minutes |-> b.minutes \cup {t},
   volume |-> b.volume + 1]

\* Mutant of OutOfOrder: the minute merged last is merged again.
OutOfOrder_Repeat(t, tf) == t < acc[tf].last

OutOfOrder(t, tf) == t <= acc[tf].last

\* The accumulator is complete: a session boundary, or another period.
Closes(t, tf) ==
  /\ ~OutOfOrder(t, tf)
  /\ acc[tf] # Nothing
  /\ IsSessionBreak(acc[tf].last, t) \/ acc[tf].period # Floor(t, tf)

\* A fresh accumulator: none before, a closed one, or one that makes no sense.
Starts(t, tf) == acc[tf] = Nothing \/ Closes(t, tf) \/ ~sane[tf]

\* The accumulator of one timeframe after a one-minute bar.
Updated(t, tf) ==
  CASE OutOfOrder(t, tf) -> acc[tf]
    [] ~OutOfOrder(t, tf) /\ Starts(t, tf) -> NewAccumulator(t, tf)
    [] OTHER -> Extended(acc[tf], t)

\* One message of market.bars: BarAccumulator.update.
ProcessBar(t, ok) ==
  /\ loop = "idle" /\ ~restart
  /\ bars < MaxBars /\ bars' = bars + 1
  /\ acc' = [tf \in Tfs |-> Updated(t, tf)]
  /\ sane' = [tf \in Tfs |->
       IF OutOfOrder(t, tf) THEN sane[tf] ELSE Starts(t, tf) => ok]
  /\ completed' = [tf \in Tfs |-> IF Closes(t, tf) THEN acc[tf] ELSE Nothing]
  /\ loop' = "emit"
  /\ UNCHANGED <<lastEmitted, restart, ckpts, history, failures, crashes>>

-----------------------------------------------------------------------------
(* Emission and checkpoint, in _run.                                        *)

\* The bars are emitted in the order of the timeframes.
Comes(tf) ==
  /\ loop = "emit" /\ completed[tf] # Nothing
  /\ \A k, l \in DOMAIN Timeframes :
       Timeframes[k] = tf /\ l < k => completed[Timeframes[l]] = Nothing

\* Mutant of Guarded: the guard's key is the symbol, without the timeframe.
Guarded_AnyTf(tf) == \E other \in Tfs : lastEmitted[other] = completed[tf].period

Guarded(tf) == lastEmitted[tf] = completed[tf].period

EmitSuppressed(tf) ==
  /\ Comes(tf) /\ Guarded(tf)
  /\ suppressed' = suppressed \cup {[tf |-> tf, period |-> completed[tf].period]}
  /\ completed' = [completed EXCEPT ![tf] = Nothing]
  /\ UNCHANGED <<state, lastEmitted, loop, restart, ckpts, out, bounds>>

Sent(tf) == out' = [out EXCEPT ![tf] = Append(@, completed[tf])]

EmitOk(tf) ==
  /\ Comes(tf) /\ ~Guarded(tf)
  /\ lastEmitted' = [lastEmitted EXCEPT ![tf] = completed[tf].period]
  /\ Sent(tf)
  /\ completed' = [completed EXCEPT ![tf] = Nothing]
  /\ UNCHANGED <<state, loop, restart, ckpts, suppressed, bounds>>

\* The publish raises or the five seconds of the bar are over: the handler
\* skips the other closed bars and the checkpoint.
EmitFails(tf) ==
  /\ Comes(tf) /\ ~Guarded(tf)
  /\ failures < MaxFailures /\ failures' = failures + 1
  /\ lastEmitted' = [lastEmitted EXCEPT ![tf] = completed[tf].period]
  /\ Sent(tf) \/ UNCHANGED out
  /\ completed' = NoBars
  /\ loop' = "idle"
  /\ UNCHANGED <<state, restart, ckpts, suppressed, bars, crashes>>

Checkpoint == Append(ckpts, [acc |-> acc, sane |-> sane])

CheckpointOk ==
  /\ loop = "emit" /\ completed = NoBars
  /\ ckpts' = Checkpoint
  /\ loop' = "idle"
  /\ UNCHANGED <<state, completed, lastEmitted, restart, history, bounds>>

\* The third failure in a minute raises, but the handler around the bar catches
\* that too: every failure ends like this.
CheckpointFails ==
  /\ loop = "emit" /\ completed = NoBars
  /\ failures < MaxFailures /\ failures' = failures + 1
  /\ ckpts' \in {ckpts, Checkpoint}
  /\ loop' = "idle"
  /\ UNCHANGED <<state, completed, lastEmitted, restart, history, bars, crashes>>

-----------------------------------------------------------------------------
(* The health checker and restarts.                                         *)

\* _health_checker finds no_bars or consuming_not_emitting.
HealthCheck ==
  /\ loop # "down" /\ ~restart
  /\ restart' = TRUE
  /\ UNCHANGED <<state, completed, lastEmitted, loop, ckpts, history, bounds>>

\* Mutant of ConsumerRestart: a new consumer begins with empty accumulators.
ConsumerRestart_Clears ==
  /\ loop = "idle" /\ restart
  /\ bars < MaxBars /\ bars' = bars + 1
  /\ restart' = FALSE
  /\ acc' = NoState.acc /\ sane' = NoState.sane
  /\ UNCHANGED <<completed, lastEmitted, loop, ckpts, history, failures, crashes>>

\* The flag is seen with the next message, which is not processed: the consumer
\* is stopped and made anew.
ConsumerRestart ==
  /\ loop = "idle" /\ restart
  /\ bars < MaxBars /\ bars' = bars + 1
  /\ restart' = FALSE
  /\ UNCHANGED <<state, completed, lastEmitted, loop, ckpts, history, failures, crashes>>

Crash ==
  /\ loop # "down"
  /\ crashes < MaxCrashes /\ crashes' = crashes + 1
  /\ loop' = "down" /\ restart' = FALSE
  /\ acc' = NoState.acc /\ sane' = NoState.sane
  /\ completed' = NoBars
  /\ lastEmitted' = [tf \in Tfs |-> -1]
  /\ out' = [tf \in Tfs |-> <<>>] /\ suppressed' = {}
  /\ UNCHANGED <<ckpts, bars, failures>>

\* _restore_state_checkpoint reads n checkpoints in its five seconds, each of
\* which holds every accumulator; m of them are committed for the group, and
\* the next restart reads from there.
Restore(n, m) ==
  /\ loop = "down" /\ n <= m
  /\ IF n = 0 THEN UNCHANGED state
     ELSE acc' = ckpts[n].acc /\ sane' = ckpts[n].sane
  /\ ckpts' = SubSeq(ckpts, m + 1, Len(ckpts))
  /\ loop' = "idle"
  /\ UNCHANGED <<completed, lastEmitted, restart, history, bounds>>

-----------------------------------------------------------------------------
Next ==
  \/ \E t \in Times, ok \in BOOLEAN : ProcessBar(t, ok)
  \/ \E tf \in Tfs : EmitSuppressed(tf) \/ EmitOk(tf) \/ EmitFails(tf)
  \/ CheckpointOk \/ CheckpointFails
  \/ HealthCheck \/ ConsumerRestart \/ Crash
  \/ \E m \in 0..Len(ckpts) : \E n \in 0..m : Restore(n, m)

Spec == Init /\ [][Next]_vars

-----------------------------------------------------------------------------
HtfBars(tf) ==
  [period : {Floor(t, tf) : t \in Times}, last : Times, minutes : SUBSET Times,
   volume : Nat \ {0}]

TypeOK ==
  /\ DOMAIN acc = Tfs /\ DOMAIN completed = Tfs /\ DOMAIN out = Tfs
  /\ \A tf \in Tfs :
       /\ acc[tf] \in HtfBars(tf) \cup {Nothing}
       /\ completed[tf] \in HtfBars(tf) \cup {Nothing}
       /\ out[tf] \in Seq(HtfBars(tf))
  /\ sane \in [Tfs -> BOOLEAN]
  /\ lastEmitted \in [Tfs -> {-1} \cup Nat]
  /\ loop \in {"idle", "emit", "down"} /\ restart \in BOOLEAN
  /\ loop # "emit" => completed = NoBars
  /\ \A k \in DOMAIN ckpts :
       /\ \A tf \in Tfs : ckpts[k].acc[tf] \in HtfBars(tf) \cup {Nothing}
       /\ ckpts[k].sane \in [Tfs -> BOOLEAN]
  /\ bars \in 0..MaxBars /\ failures \in 0..MaxFailures /\ crashes \in 0..MaxCrashes

Stream == INSTANCE HtfStream
  WITH open <- acc, closed <- [tf \in Tfs |-> IF completed[tf] = Nothing THEN <<>>
                                   ELSE <<completed[tf]>>]

(* Refinement: the aggregator is an HtfStream, through late and repeated bars, *)
(* failed publishes, lost and partly read checkpoints and restarts.            *)
ImplementsStream == Stream!StreamSpec

(* What the stream promises, of the accumulators, the bars in hand and the     *)
(* topic: one period and one session in a bar, every minute counted once.      *)
BarsAreWhole == Stream!BarsAreWhole

(* A run of the service counts a minute in at most one bar of a timeframe,     *)
(* also when a restart restores an accumulator and its minutes come again.     *)
BarsInOrder == Stream!BarsInOrder

(* A run of the service publishes at most one bar per timeframe and period     *)
(* (AGG-EMIT-ONCE), also after a publish that failed without anyone knowing    *)
(* whether the bar arrived.                                                    *)
OneBarPerPeriod == Stream!OneBarPerPeriod

(* The emit-once guard (l. 431) holds back a bar only where a session boundary *)
(* lies inside the bar's period: there the accumulator closes twice for one    *)
(* period and the second session's minutes never reach the topic.  A period    *)
(* without a boundary is never held back.                                      *)
SuppressedOnlyAtBreak ==
  \A s \in suppressed :
    \E b \in Breaks : s.period < b /\ b < s.period + Minutes[s.tf]
=============================================================================
