----------------------------- MODULE HtfStream -----------------------------
(***************************************************************************)
(* What the bar aggregator promises for the timeframes of one symbol: the  *)
(* one-minute bars it accepts are cut, in the order of their timestamps,   *)
(* into higher-timeframe (HTF) bars that never mix two periods or two      *)
(* trading sessions, no minute is counted twice, and one run of the        *)
(* service puts at most one bar per period on the topic.  It does not      *)
(* promise that every bar arrives: a closed bar may be dropped.            *)
(*                                                                         *)
(* A timestamp is a minute.  An HTF bar is the record of what the prices   *)
(* are aggregated from: the period it stands for, the last minute merged,  *)
(* the minutes in it, and a volume that counts one for every merge.        *)
(***************************************************************************)
EXTENDS Integers, Sequences, FiniteSets

CONSTANTS
  Tfs,      \* the timeframes
  Minutes,  \* the length of a period of each
  Breaks,   \* the minutes at which a trading session opens or closes
  Times     \* the timestamps of one-minute bars

VARIABLES
  open,    \* the bar of each timeframe that is being accumulated
  closed,  \* the bars that are complete and not yet on the topic
  out      \* the bars this run of the service put on the topic

streamVars == <<open, closed, out>>

Floor(t, tf) == (t \div Minutes[tf]) * Minutes[tf]

IsSessionBreak(prev, curr) == \E b \in Breaks : prev < b /\ b <= curr

\* No bar: the accumulator before its first minute.
Nothing == [period |-> 0, last |-> -1, minutes |-> {}, volume |-> 0]

NewBar(t, tf) == [period |-> Floor(t, tf), last |-> t, minutes |-> {t}, volume |-> 1]

Merged(b, t) ==
  [period |-> b.period, last |-> t, minutes |-> b.minutes \cup {t},
   volume |-> b.volume + 1]

Belongs(b, t, tf) == Floor(t, tf) = b.period /\ ~IsSessionBreak(b.last, t)

\* The minutes of a bar lie in its period and in one session, none counted twice.
Whole(b, tf) ==
  /\ b.last \in b.minutes /\ b.minutes \subseteq Times
  /\ \A m \in b.minutes :
       m <= b.last /\ Floor(m, tf) = b.period /\ ~IsSessionBreak(m, b.last)
  /\ IsFiniteSet(b.minutes) /\ b.volume = Cardinality(b.minutes)

-----------------------------------------------------------------------------
StreamInit ==
  /\ open = [tf \in Tfs |-> Nothing]
  /\ closed = [tf \in Tfs |-> <<>>] /\ out = [tf \in Tfs |-> <<>>]

\* A minute behind the last one is merged if it belongs to the open bar.
Merge(tf, t) ==
  /\ open[tf] # Nothing /\ t > open[tf].last /\ Belongs(open[tf], t, tf)
  /\ open'[tf] = Merged(open[tf], t)
  /\ closed'[tf] = closed[tf] /\ out'[tf] = out[tf]

\* Otherwise the open bar, if there is one, is complete and the minute starts
\* the next.
Turn(tf, t) ==
  /\ t > open[tf].last
  /\ open[tf] = Nothing \/ ~Belongs(open[tf], t, tf)
  /\ open'[tf] = NewBar(t, tf)
  /\ closed'[tf] = IF open[tf] = Nothing THEN closed[tf]
                   ELSE Append(closed[tf], open[tf])
  /\ out'[tf] = out[tf]

\* An open bar whose prices make no sense is given up.
Reset(tf, t) ==
  /\ open[tf] # Nothing /\ t > open[tf].last
  /\ open'[tf] = NewBar(t, tf)
  /\ closed'[tf] = closed[tf] /\ out'[tf] = out[tf]

\* The first closed bar reaches the topic, if none of its period has.
Publish(tf) ==
  /\ closed[tf] # <<>>
  /\ \A k \in DOMAIN out[tf] : out[tf][k].period # Head(closed[tf]).period
  /\ out'[tf] = Append(out[tf], Head(closed[tf]))
  /\ closed'[tf] = Tail(closed[tf])
  /\ open'[tf] = open[tf]

\* Or it does not.
Drop(tf) ==
  /\ closed[tf] # <<>>
  /\ closed'[tf] = Tail(closed[tf])
  /\ open'[tf] = open[tf] /\ out'[tf] = out[tf]

\* The service restarts with the open bar of an earlier checkpoint, or without.
Recover(tf) ==
  /\ open'[tf] = Nothing \/ Whole(open'[tf], tf)
  /\ closed'[tf] = <<>> /\ out'[tf] = <<>>

Stays(tf) == open'[tf] = open[tf] /\ closed'[tf] = closed[tf] /\ out'[tf] = out[tf]

Step(tf) ==
  \/ \E t \in Times : Merge(tf, t) \/ Turn(tf, t) \/ Reset(tf, t)
  \/ Publish(tf) \/ Drop(tf) \/ Recover(tf)
  \/ Stays(tf)

\* One minute may move every timeframe at once.
StreamNext ==
  /\ DOMAIN open' = Tfs /\ DOMAIN closed' = Tfs /\ DOMAIN out' = Tfs
  /\ \A tf \in Tfs : Step(tf)

StreamSpec == StreamInit /\ [][StreamNext]_streamVars

-----------------------------------------------------------------------------
\* The bars of this run, in the order in which they were cut.
Cut(tf) == out[tf] \o closed[tf]

(* Every bar, open, complete or published, is whole: one period, one session,  *)
(* every minute counted once (bar_accumulator.py l. 18-22).                    *)
BarsAreWhole ==
  \A tf \in Tfs :
    /\ open[tf] = Nothing \/ Whole(open[tf], tf)
    /\ \A k \in DOMAIN Cut(tf) : Whole(Cut(tf)[k], tf)

(* Bars are cut in the order of time, so that a minute is in at most one bar   *)
(* of a run.                                                                   *)
BarsInOrder ==
  \A tf \in Tfs :
    /\ \A k, l \in DOMAIN Cut(tf) : k < l =>
         \A m \in Cut(tf)[k].minutes, n \in Cut(tf)[l].minutes : m < n
    /\ \A k \in DOMAIN Cut(tf) :
         \A m \in Cut(tf)[k].minutes, n \in open[tf].minutes : m < n

(* A run puts at most one bar per period on the topic.                         *)
OneBarPerPeriod ==
  \A tf \in Tfs : \A k, l \in DOMAIN out[tf] :
    k # l => out[tf][k].period # out[tf][l].period
=============================================================================
