------------------------- MODULE StreamedBarsProofs -------------------------
(***************************************************************************)
(* The path of a streamed bar: ProviderMerger, which decides whose bars    *)
(* reach market.bars, and BarAggregator, which makes the higher timeframes *)
(* of them.                                                                *)
(*                                                                         *)
(* For any set of providers, threshold and length of time the merger keeps *)
(* its invariants.                                                         *)
(*                                                                         *)
(* For every set of timeframes, session calendar and number of faults: the *)
(* aggregator keeps its type, its bars are whole, in order and published   *)
(* at most once per period, only a period with a session boundary inside   *)
(* is ever held back, and the aggregator implements HtfStream.             *)
(*                                                                         *)
(* The inductive invariant is stated for one timeframe at a time, of its   *)
(* open bar a, the closed bar in hand c, the published bars o and the      *)
(* period e the emit-once guard remembers.                                 *)
(***************************************************************************)
EXTENDS BarAggregator, ProviderMerger, FiniteSetTheorems, TLAPS

Bar == [period : Int, last : Int, minutes : SUBSET Int, volume : Int]

Whole(b, tf) == Stream!Whole(b, tf)

\* A session boundary lies inside the period.
Split(p, tf) == \E b \in Breaks : p < b /\ b < p + Minutes[tf]

AllWhole(a, c, o, tf) ==
  /\ a = Nothing \/ Whole(a, tf)
  /\ c = Nothing \/ Whole(c, tf)
  /\ \A k \in DOMAIN o : Whole(o[k], tf)

\* Published bars are before the one in hand, and that before the open one.
Ordered(a, c, o) ==
  /\ a = Nothing => c = Nothing /\ o = <<>>
  /\ c # Nothing => \A n \in a.minutes : c.last < n
  /\ \A k \in DOMAIN o : \A n \in a.minutes : o[k].last < n
  /\ \A k \in DOMAIN o : \A n \in c.minutes : o[k].last < n
  /\ \A k \in DOMAIN o : \A l \in DOMAIN o : k < l =>
       \A n \in o[l].minutes : o[k].last < n

\* The guard's period lies between the published periods and the next ones.
Guards(a, c, o, e) ==
  /\ e >= -1
  /\ a = Nothing => e = -1
  /\ a # Nothing => e <= a.period
  /\ c # Nothing => e <= c.period
  /\ \A k \in DOMAIN o : o[k].period <= e
  /\ \A k \in DOMAIN o : \A l \in DOMAIN o : k # l => o[k].period # o[l].period

\* Two bars of one period have a session boundary between them.
SplitPeriods(a, c, e, tf) ==
  /\ a # Nothing /\ e = a.period => Split(a.period, tf)
  /\ c # Nothing /\ e = c.period => Split(c.period, tf)
  /\ c # Nothing /\ c.period = a.period => Split(c.period, tf)

OneTf(a, c, o, e, tf) ==
  /\ a \in Bar /\ c \in Bar /\ o \in Seq(Bar) /\ e \in Int
  /\ AllWhole(a, c, o, tf)
  /\ Ordered(a, c, o)
  /\ Guards(a, c, o, e)
  /\ SplitPeriods(a, c, e, tf)

Functions4 ==
  /\ acc \in [Tfs -> Bar] /\ completed \in [Tfs -> Bar]
  /\ out \in [Tfs -> Seq(Bar)] /\ lastEmitted \in [Tfs -> Int]

Controls ==
  /\ sane \in [Tfs -> BOOLEAN]
  /\ loop \in {"idle", "emit", "down"} /\ restart \in BOOLEAN
  /\ bars \in 0..MaxBars /\ failures \in 0..MaxFailures /\ crashes \in 0..MaxCrashes

\* Between two messages no closed bar is in hand; after a crash nothing is.
Phases ==
  /\ loop # "emit" => completed = NoBars
  /\ loop = "down" => /\ acc = NoBars
                      /\ out = [tf \in Tfs |-> <<>>]
                      /\ lastEmitted = [tf \in Tfs |-> -1]

Checkpoints ==
  /\ ckpts \in Seq([acc : [Tfs -> Bar], sane : [Tfs -> BOOLEAN]])
  /\ \A k \in DOMAIN ckpts : \A tf \in Tfs :
       ckpts[k].acc[tf] = Nothing \/ Whole(ckpts[k].acc[tf], tf)

HeldBack == \A s \in suppressed : s.tf \in Tfs /\ Split(s.period, s.tf)

IndInv ==
  /\ Functions4
  /\ Controls
  /\ Phases
  /\ Checkpoints
  /\ HeldBack
  /\ \A tf \in Tfs : OneTf(acc[tf], completed[tf], out[tf], lastEmitted[tf], tf)

-----------------------------------------------------------------------------
(* Periods.                                                                 *)

LEMMA MulMono ==
  ASSUME NEW a \in Int, NEW b \in Int, NEW n \in Nat, a <= b
  PROVE  a * n <= b * n
OBVIOUS

(* A minute lies in its period. *)
LEMMA FloorBounds ==
  ASSUME NEW tf \in Tfs, NEW t \in Nat
  PROVE  Floor(t, tf) \in Nat /\ Floor(t, tf) <= t /\ t < Floor(t, tf) + Minutes[tf]
<1>1. ASSUME NEW n \in Nat \ {0}
      PROVE (t \div n) * n \in Nat /\ (t \div n) * n <= t /\ t < (t \div n) * n + n
  OBVIOUS
<1>2. Minutes[tf] \in Nat \ {0}
  BY AggregatorAssumption
<1> QED BY <1>1, <1>2 DEF Floor

(* A later minute lies in no earlier period. *)
LEMMA FloorMono ==
  ASSUME NEW tf \in Tfs, NEW s \in Nat, NEW t \in Nat, s <= t
  PROVE  Floor(s, tf) <= Floor(t, tf)
<1> DEFINE n == Minutes[tf]  a == s \div n  b == t \div n
<1>1. n \in Nat \ {0}
  BY AggregatorAssumption
<1>2. a \in Int /\ b \in Int /\ a * n <= s /\ t < b * n + n
  BY <1>1
<1>3. CASE a <= b
  BY <1>1, <1>2, <1>3, MulMono DEF Floor
<1>4. CASE b + 1 <= a
  <2>1. (b + 1) * n <= a * n
    BY <1>1, <1>2, <1>4, MulMono
  <2>2. (b + 1) * n = b * n + n
    BY <1>1, <1>2
  <2> QED BY <1>1, <1>2, <2>1, <2>2
<1> QED BY <1>2, <1>3, <1>4

-----------------------------------------------------------------------------
(* Bars.                                                                    *)

LEMMA NothingIsBar == Nothing \in Bar /\ Nothing.minutes = {} /\ Nothing.last = -1
BY DEF Nothing, Bar

LEMMA SeqOfBars ==
  ASSUME NEW o \in Seq(Bar), NEW k \in DOMAIN o
  PROVE  o[k] \in Bar /\ o[k].period \in Int /\ o[k].last \in Int
<1>1. o[k] \in Bar
  OBVIOUS
<1> QED BY <1>1 DEF Bar

LEMMA WholeDef ==
  ASSUME NEW b, NEW tf
  PROVE  Whole(b, tf) <=>
           /\ b.last \in b.minutes /\ b.minutes \subseteq Times
           /\ \A m \in b.minutes :
                m <= b.last /\ Floor(m, tf) = b.period /\ ~IsSessionBreak(m, b.last)
           /\ IsFiniteSet(b.minutes) /\ b.volume = Cardinality(b.minutes)
BY DEF Whole, Stream!Whole, Stream!Floor, Stream!IsSessionBreak, Floor, IsSessionBreak,
  Stream!IsFiniteSet, IsFiniteSet, Stream!Cardinality, Cardinality

LEMMA WholeFacts ==
  ASSUME NEW tf \in Tfs, NEW b \in Bar, Whole(b, tf)
  PROVE  /\ b # Nothing
         /\ b.last \in Nat /\ b.last \in Times /\ b.last \in b.minutes
         /\ b.period = Floor(b.last, tf) /\ b.period \in Nat
         /\ b.minutes \subseteq Nat
         /\ \A m \in b.minutes : m <= b.last
<1>1. b.last \in b.minutes /\ b.minutes \subseteq Times
  BY WholeDef
<1>2. b # Nothing
  BY <1>1, NothingIsBar
<1>3. b.minutes \subseteq Nat
  BY <1>1, AggregatorAssumption
<1>4. \A m \in b.minutes : m <= b.last /\ Floor(m, tf) = b.period
  BY WholeDef
<1>5. Floor(b.last, tf) \in Nat
  BY <1>1, <1>3, FloorBounds
<1> QED BY <1>1, <1>2, <1>3, <1>4, <1>5

(* A new accumulator is a whole bar. *)
LEMMA NewWhole ==
  ASSUME NEW tf \in Tfs, NEW t \in Times
  PROVE  /\ NewAccumulator(t, tf) \in Bar
         /\ Whole(NewAccumulator(t, tf), tf)
<1>1. t \in Nat
  BY AggregatorAssumption
<1>2. Floor(t, tf) \in Nat
  BY <1>1, FloorBounds
<1>3. ~IsSessionBreak(t, t)
  BY <1>1, AggregatorAssumption DEF IsSessionBreak
<1>4. IsFiniteSet({t}) /\ Cardinality({t}) = 1
  BY FS_Singleton
<1> DEFINE b == NewAccumulator(t, tf)
<1>5. b.period = Floor(t, tf) /\ b.last = t /\ b.minutes = {t} /\ b.volume = 1
  BY DEF NewAccumulator
<1>6. b \in Bar
  BY <1>1, <1>2 DEF Bar, NewAccumulator
<1>7. Whole(b, tf)
  <2> HIDE DEF b
  <2> QED BY <1>1, <1>3, <1>4, <1>5, WholeDef
<1> QED BY <1>6, <1>7

(* So is a whole bar with the next minute of its period and session. *)
LEMMA ExtendedWhole ==
  ASSUME NEW tf \in Tfs, NEW b \in Bar, Whole(b, tf), NEW t \in Times, t > b.last,
         Floor(t, tf) = b.period, ~IsSessionBreak(b.last, t)
  PROVE  /\ Extended(b, t) \in Bar
         /\ Whole(Extended(b, t), tf)
         /\ Extended(b, t).last = t
         /\ Extended(b, t).minutes = b.minutes \cup {t}
         /\ Extended(b, t).period = b.period
<1>1. t \in Nat /\ Breaks \subseteq Nat
  BY AggregatorAssumption
<1>2. b.last \in Nat /\ b.minutes \subseteq Nat /\ \A m \in b.minutes : m <= b.last
  BY WholeFacts
<1> DEFINE c == Extended(b, t)
<1>3. /\ c.period = b.period /\ c.last = t
      /\ c.minutes = b.minutes \cup {t} /\ c.volume = b.volume + 1
  BY DEF Extended, Bar
<1>4. c \in Bar
  <2>1. b.volume + 1 \in Int /\ b.minutes \cup {t} \subseteq Int /\ t \in Int
    BY <1>1 DEF Bar
  <2> QED BY <2>1 DEF Extended, Bar
<1>5. t \notin b.minutes
  BY <1>1, <1>2
<1>6. IsFiniteSet(c.minutes) /\ Cardinality(c.minutes) = Cardinality(b.minutes) + 1
  <2>1. IsFiniteSet(b.minutes)
    BY WholeDef
  <2>2. /\ IsFiniteSet(b.minutes \cup {t})
        /\ Cardinality(b.minutes \cup {t}) = Cardinality(b.minutes) + 1
    BY <2>1, <1>5, FS_AddElement
  <2> QED BY <1>3, <2>2
<1>7. ASSUME NEW m \in b.minutes PROVE ~IsSessionBreak(m, t)
  <2>1. ~IsSessionBreak(m, b.last)
    BY WholeDef
  <2> QED BY <1>1, <1>2, <2>1 DEF IsSessionBreak
<1>8. ~IsSessionBreak(t, t)
  BY <1>1 DEF IsSessionBreak
<1>9. \A m \in b.minutes : Floor(m, tf) = b.period
  BY WholeDef
<1>10. b.minutes \subseteq Times /\ b.volume = Cardinality(b.minutes)
  BY WholeDef
<1>11. Whole(c, tf)
  <2> HIDE DEF c
  <2> QED BY <1>1, <1>2, <1>3, <1>6, <1>7, <1>8, <1>9, <1>10, WholeDef
<1> QED BY <1>3, <1>4, <1>11

-----------------------------------------------------------------------------
(* What one step does to one timeframe.                                     *)

(* A restored accumulator, or none, is a good start. *)
LEMMA Begins ==
  ASSUME NEW tf \in Tfs, NEW a \in Bar, a = Nothing \/ Whole(a, tf)
  PROVE  OneTf(a, Nothing, <<>>, -1, tf)
<1>1. AllWhole(a, Nothing, <<>>, tf)
  BY DEF AllWhole
<1>2. Ordered(a, Nothing, <<>>)
  BY DEF Ordered
<1>3. a # Nothing => a.period \in Nat
  BY WholeFacts
<1>4. Guards(a, Nothing, <<>>, -1) /\ SplitPeriods(a, Nothing, -1, tf)
  BY <1>3 DEF Guards, SplitPeriods
<1> QED BY <1>1, <1>2, <1>4, NothingIsBar DEF OneTf

(* A bar leaves the period or the session of the open one. *)
LEMMA Closing ==
  ASSUME NEW tf \in Tfs, NEW a, NEW o, NEW e, OneTf(a, Nothing, o, e, tf),
         NEW t \in Times, t > a.last, a # Nothing,
         IsSessionBreak(a.last, t) \/ a.period # Floor(t, tf)
  PROVE  OneTf(NewAccumulator(t, tf), a, o, e, tf)
<1> DEFINE n == NewAccumulator(t, tf)
<1>1. n \in Bar /\ Whole(n, tf) /\ n.minutes = {t} /\ n.last = t /\ n.period = Floor(t, tf)
  BY NewWhole DEF NewAccumulator
<1>2. a \in Bar /\ o \in Seq(Bar) /\ e \in Int /\ Whole(a, tf)
  BY DEF OneTf, AllWhole
<1>3. /\ a.last \in Nat /\ a.period \in Nat /\ a.period = Floor(a.last, tf)
      /\ a.last \in a.minutes /\ a.minutes \subseteq Nat
  BY <1>2, WholeFacts
<1>4. t \in Nat /\ Breaks \subseteq Nat
  BY AggregatorAssumption
<1>5. /\ Floor(t, tf) \in Nat /\ t < Floor(t, tf) + Minutes[tf]
      /\ a.period <= Floor(t, tf) /\ a.period <= a.last
  BY <1>3, <1>4, FloorBounds, FloorMono
<1>6. n # Nothing
  BY <1>1, WholeFacts
<1>7. Minutes[tf] \in Nat
  BY AggregatorAssumption
<1> HIDE DEF n
<1>8. AllWhole(n, a, o, tf)
  BY <1>1, <1>2 DEF OneTf, AllWhole
<1>9. Ordered(n, a, o)
  <2>1. \A k \in DOMAIN o : o[k].last < a.last
    BY <1>3 DEF OneTf, Ordered
  <2>2. \A k \in DOMAIN o : o[k].last \in Int
    BY <1>2, SeqOfBars
  <2>3. \A k \in DOMAIN o : o[k].last < t
    BY <1>3, <1>4, <2>1, <2>2
  <2> QED BY <1>1, <1>4, <1>6, <2>3 DEF OneTf, Ordered
<1>10. Guards(n, a, o, e)
  BY <1>1, <1>2, <1>3, <1>5, <1>6 DEF OneTf, Guards
<1>11. SplitPeriods(n, a, e, tf)
  <2>1. e <= a.period
    BY DEF OneTf, Guards
  <2>2. e = a.period => Split(a.period, tf)
    BY DEF OneTf, SplitPeriods
  <2>3. n # Nothing /\ e = n.period => Split(n.period, tf)
    BY <1>1, <1>2, <1>3, <1>5, <2>1, <2>2
  <2>4. a.period = n.period => Split(a.period, tf)
    BY <1>1, <1>3, <1>4, <1>5, <1>7 DEF Split, IsSessionBreak
  <2> QED BY <2>2, <2>3, <2>4 DEF SplitPeriods
<1> QED BY <1>1, <1>2, <1>8, <1>9, <1>10, <1>11 DEF OneTf, n

(* The open bar is replaced by a whole bar of its period that reaches further. *)
LEMMA Growing ==
  ASSUME NEW tf \in Tfs, NEW a, NEW o, NEW e, OneTf(a, Nothing, o, e, tf), a # Nothing,
         NEW n \in Bar, Whole(n, tf), n.period = a.period,
         n.minutes \subseteq a.minutes \cup {n.last}, n.last > a.last
  PROVE  OneTf(n, Nothing, o, e, tf)
<1>1. a \in Bar /\ o \in Seq(Bar) /\ e \in Int /\ Whole(a, tf)
  BY DEF OneTf, AllWhole
<1>2. a.last \in Nat /\ a.period \in Nat /\ a.last \in a.minutes /\ n.last \in Nat
  BY <1>1, WholeFacts
<1>3. n # Nothing
  BY WholeFacts
<1>4. AllWhole(n, Nothing, o, tf)
  BY DEF OneTf, AllWhole
<1>5. Ordered(n, Nothing, o)
  <2>1. \A k \in DOMAIN o : o[k].last < a.last /\ \A m \in a.minutes : o[k].last < m
    BY <1>2 DEF OneTf, Ordered
  <2>2. \A k \in DOMAIN o : o[k].last \in Int
    BY <1>1, SeqOfBars
  <2>3. \A k \in DOMAIN o : o[k].last < n.last
    BY <1>2, <2>1, <2>2
  <2> QED BY <1>3, <2>1, <2>3, NothingIsBar DEF OneTf, Ordered
<1>6. Guards(n, Nothing, o, e)
  BY <1>3 DEF OneTf, Guards
<1>7. SplitPeriods(n, Nothing, e, tf)
  BY DEF OneTf, SplitPeriods
<1> QED BY <1>1, <1>4, <1>5, <1>6, <1>7, NothingIsBar DEF OneTf

(* The closed bar in hand is given up. *)
LEMMA Dropping ==
  ASSUME NEW tf \in Tfs, NEW a, NEW c, NEW o, NEW e, OneTf(a, c, o, e, tf)
  PROVE  OneTf(a, Nothing, o, e, tf)
BY NothingIsBar DEF OneTf, AllWhole, Ordered, Guards, SplitPeriods

(* It is published, or given up after the guard noted its period. *)
LEMMA Publishing ==
  ASSUME NEW tf \in Tfs, NEW a, NEW c, NEW o, NEW e, OneTf(a, c, o, e, tf),
         c # Nothing, e # c.period
  PROVE  /\ OneTf(a, Nothing, Append(o, c), c.period, tf)
         /\ OneTf(a, Nothing, o, c.period, tf)
<1>1. /\ a \in Bar /\ c \in Bar /\ o \in Seq(Bar) /\ e \in Int
      /\ Whole(a, tf) /\ Whole(c, tf) /\ a # Nothing
  BY DEF OneTf, AllWhole, Ordered
<1>2. /\ a.last \in Nat /\ a.period \in Nat /\ c.last \in Nat /\ c.period \in Nat
      /\ a.period = Floor(a.last, tf) /\ c.period = Floor(c.last, tf)
      /\ a.last \in a.minutes /\ c.last \in c.minutes
  BY <1>1, WholeFacts
<1>3. c.last < a.last
  BY <1>2 DEF OneTf, Ordered
<1>4. c.period <= a.period
  BY <1>2, <1>3, FloorMono
<1>5. e < c.period
  BY <1>1, <1>2 DEF OneTf, Guards
<1>6. \A k \in DOMAIN o : o[k].period \in Int /\ o[k].last \in Int
  BY <1>1, SeqOfBars
<1>7. \A k \in DOMAIN o : o[k].period < c.period
  BY <1>1, <1>2, <1>5, <1>6 DEF OneTf, Guards
<1>8. SplitPeriods(a, Nothing, c.period, tf)
  BY DEF OneTf, SplitPeriods
<1>9. OneTf(a, Nothing, o, c.period, tf)
  <2>1. Guards(a, Nothing, o, c.period)
    BY <1>1, <1>2, <1>4, <1>6, <1>7 DEF OneTf, Guards
  <2>2. AllWhole(a, Nothing, o, tf) /\ Ordered(a, Nothing, o)
    BY NothingIsBar DEF OneTf, AllWhole, Ordered
  <2> QED BY <1>1, <1>2, <1>8, <2>1, <2>2, NothingIsBar DEF OneTf
<1>10. OneTf(a, Nothing, Append(o, c), c.period, tf)
  <2> DEFINE p == Append(o, c)
  <2>1. /\ p \in Seq(Bar) /\ DOMAIN p = 1..(Len(o) + 1) /\ DOMAIN o = 1..Len(o)
        /\ Len(o) \in Nat /\ p[Len(o) + 1] = c /\ \A k \in DOMAIN o : p[k] = o[k]
    BY <1>1
  <2>2. \A k \in DOMAIN p :
          (k \in DOMAIN o /\ p[k] = o[k]) \/ (k = Len(o) + 1 /\ p[k] = c)
    <3> HIDE DEF p
    <3> QED BY <2>1
  <2> HIDE DEF p
  <2>3. AllWhole(a, Nothing, p, tf)
    BY <1>1, <2>2 DEF OneTf, AllWhole
  <2>4. Ordered(a, Nothing, p)
    <3>1. \A k \in DOMAIN p : \A n \in a.minutes : p[k].last < n
      BY <2>2 DEF OneTf, Ordered
    <3>2. ASSUME NEW k \in DOMAIN p, NEW l \in DOMAIN p, k < l
          PROVE  \A n \in p[l].minutes : p[k].last < n
      <4>1. k \in DOMAIN o /\ p[k] = o[k]
        BY <2>1, <2>2, <3>2
      <4>2. CASE p[l] = c
        BY <4>1, <4>2 DEF OneTf, Ordered
      <4>3. CASE l \in DOMAIN o /\ p[l] = o[l]
        BY <4>1, <4>3, <3>2 DEF OneTf, Ordered
      <4> QED BY <2>2, <4>2, <4>3
    <3> QED BY <1>1, <3>1, <3>2, NothingIsBar DEF Ordered
  <2>5. Guards(a, Nothing, p, c.period)
    <3>1. \A k \in DOMAIN p : p[k].period <= c.period
      BY <1>2, <1>6, <1>7, <2>2
    <3>2. ASSUME NEW k \in DOMAIN p, NEW l \in DOMAIN p, k # l
          PROVE  p[k].period # p[l].period
      <4>1. CASE k \in DOMAIN o /\ l \in DOMAIN o
        BY <2>1, <3>2, <4>1 DEF OneTf, Guards
      <4>2. CASE k \notin DOMAIN o \/ l \notin DOMAIN o
        BY <1>2, <1>6, <1>7, <2>2, <3>2, <4>2
      <4> QED BY <4>1, <4>2
    <3> QED BY <1>1, <1>2, <1>4, <3>1, <3>2 DEF Guards
  <2> QED BY <1>1, <1>2, <1>8, <2>1, <2>3, <2>4, <2>5, NothingIsBar DEF OneTf, p
<1> QED BY <1>9, <1>10

-----------------------------------------------------------------------------
(* The invariant is inductive.                                              *)

LEMMA InitInd == Init => IndInv
<1> SUFFICES ASSUME Init PROVE IndInv
  OBVIOUS
<1>1. /\ acc = NoBars /\ completed = NoBars /\ NoBars \in [Tfs -> Bar]
      /\ out = [tf \in Tfs |-> <<>>] /\ lastEmitted = [tf \in Tfs |-> -1]
  BY NothingIsBar DEF Init, NoState, NoBars
<1>2. Functions4
  BY <1>1 DEF Functions4
<1>3. Controls
  <2>1. sane = [tf \in Tfs |-> TRUE] /\ [tf \in Tfs |-> TRUE] \in [Tfs -> BOOLEAN]
    BY DEF Init, NoState
  <2>2. restart \in BOOLEAN /\ sane \in [Tfs -> BOOLEAN]
    BY <2>1 DEF Init
  <2>3. 0 \in 0..MaxBars /\ 0 \in 0..MaxFailures /\ 0 \in 0..MaxCrashes
    BY AggregatorAssumption
  <2> QED BY <2>2, <2>3 DEF Init, Controls
<1>4. Phases
  BY <1>1 DEF Init, Phases
<1>5. Checkpoints
  BY DEF Init, Checkpoints
<1>6. HeldBack
  BY DEF Init, HeldBack
<1>7. \A tf \in Tfs : OneTf(acc[tf], completed[tf], out[tf], lastEmitted[tf], tf)
  BY <1>1, Begins, NothingIsBar DEF NoBars
<1> QED BY <1>2, <1>3, <1>4, <1>5, <1>6, <1>7 DEF IndInv

(* A one-minute bar keeps one timeframe in order. *)
LEMMA BarStep ==
  ASSUME IndInv, NEW t \in Times, NEW tf \in Tfs, completed[tf] = Nothing
  PROVE  OneTf(Updated(t, tf), IF Closes(t, tf) THEN acc[tf] ELSE Nothing,
               out[tf], lastEmitted[tf], tf)
<1> DEFINE a == acc[tf]  o == out[tf]  e == lastEmitted[tf]
<1>1. OneTf(a, Nothing, o, e, tf)
  BY DEF IndInv
<1>2. a \in Bar /\ a.last \in Int /\ t \in Nat /\ (a # Nothing => Whole(a, tf))
  BY <1>1, AggregatorAssumption DEF OneTf, AllWhole, Bar
<1>3. CASE OutOfOrder(t, tf)
  BY <1>1, <1>3 DEF Closes, Updated
<1>4. CASE ~OutOfOrder(t, tf)
  <2>1. t > a.last
    BY <1>2, <1>4 DEF OutOfOrder
  <2>2. CASE a = Nothing
    <3>1. o = <<>> /\ e = -1
      BY <1>1, <1>2, <2>2 DEF OneTf, Ordered, Guards
    <3>2. OneTf(NewAccumulator(t, tf), Nothing, o, e, tf)
      BY <3>1, Begins, NewWhole
    <3> QED BY <1>4, <2>2, <3>2 DEF Updated, Starts, Closes
  <2>3. CASE a # Nothing /\ Closes(t, tf)
    <3>1. IsSessionBreak(a.last, t) \/ a.period # Floor(t, tf)
      BY <2>3 DEF Closes
    <3>2. OneTf(NewAccumulator(t, tf), a, o, e, tf)
      BY <1>1, <2>1, <2>3, <3>1, Closing
    <3> QED BY <1>4, <2>3, <3>2 DEF Updated, Starts
  <2>4. CASE a # Nothing /\ ~Closes(t, tf)
    <3>1. a.period = Floor(t, tf) /\ ~IsSessionBreak(a.last, t)
      BY <1>4, <2>4 DEF Closes
    <3>2. CASE sane[tf] # TRUE
      <4> DEFINE n == NewAccumulator(t, tf)
      <4>1. /\ n \in Bar /\ Whole(n, tf)
            /\ n.period = a.period /\ n.last = t /\ n.minutes = {t}
        BY <3>1, NewWhole DEF NewAccumulator
      <4>2. OneTf(n, Nothing, o, e, tf)
        <5> HIDE DEF n
        <5> QED BY <1>1, <2>1, <2>4, <4>1, Growing
      <4>3. ~sane[tf]
        BY <3>2 DEF IndInv, Controls
      <4> QED BY <1>4, <2>4, <4>2, <4>3 DEF Updated, Starts
    <3>3. CASE sane[tf] = TRUE
      <4> DEFINE n == Extended(a, t)
      <4>1. /\ n \in Bar /\ Whole(n, tf) /\ n.last = t
            /\ n.minutes = a.minutes \cup {t} /\ n.period = a.period
        BY <1>2, <2>1, <2>4, <3>1, ExtendedWhole
      <4>2. OneTf(n, Nothing, o, e, tf)
        <5> HIDE DEF n
        <5> QED BY <1>1, <2>1, <2>4, <4>1, Growing
      <4>3. Updated(t, tf) = n
        BY <1>4, <2>4, <3>3 DEF Updated, Starts
      <4> QED BY <2>4, <4>2, <4>3
    <3> QED BY <3>2, <3>3
  <2> QED BY <2>2, <2>3, <2>4
<1> QED BY <1>3, <1>4

LEMMA ProcessBarInd ==
  ASSUME IndInv, NEW t \in Times, NEW ok \in BOOLEAN, ProcessBar(t, ok)
  PROVE  IndInv'
<1>1. completed = NoBars
  BY DEF IndInv, Phases, ProcessBar
<1>2. \A tf \in Tfs : OneTf(Updated(t, tf), IF Closes(t, tf) THEN acc[tf] ELSE Nothing,
                            out[tf], lastEmitted[tf], tf)
  BY <1>1, BarStep DEF NoBars
<1>3. \A tf \in Tfs : /\ Updated(t, tf) \in Bar
                      /\ (IF Closes(t, tf) THEN acc[tf] ELSE Nothing) \in Bar
  BY <1>2 DEF OneTf
<1>4. Functions4'
  BY <1>3 DEF ProcessBar, history, IndInv, Functions4
<1>5. Controls'
  <2>1. sane' \in [Tfs -> BOOLEAN]
    <3>1. \A tf \in Tfs :
            (IF OutOfOrder(t, tf) THEN sane[tf] ELSE Starts(t, tf) => ok) \in BOOLEAN
      BY Zenon DEF IndInv, Controls
    <3> QED BY <3>1 DEF ProcessBar
  <2> QED BY <2>1, AggregatorAssumption DEF IndInv, Controls, ProcessBar
<1>6. Phases'
  BY DEF ProcessBar, Phases
<1>7. Checkpoints' /\ HeldBack'
  BY DEF ProcessBar, history, IndInv, Checkpoints, HeldBack
<1>8. \A tf \in Tfs : OneTf(acc[tf], completed[tf], out[tf], lastEmitted[tf], tf)'
  BY <1>2 DEF ProcessBar, history
<1> QED BY <1>4, <1>5, <1>6, <1>7, <1>8 DEF IndInv

LEMMA EmitSuppressedInd ==
  ASSUME IndInv, NEW tf \in Tfs, EmitSuppressed(tf)
  PROVE  IndInv'
<1>1. completed' = [completed EXCEPT ![tf] = Nothing]
  BY DEF EmitSuppressed
<1>2. Functions4'
  BY <1>1, NothingIsBar DEF EmitSuppressed, state, IndInv, Functions4
<1>3. Controls' /\ Phases' /\ Checkpoints'
  BY DEF EmitSuppressed, Comes, state, bounds, IndInv, Controls, Phases, Checkpoints
<1>4. HeldBack'
  <2>1. completed[tf] # Nothing /\ lastEmitted[tf] = completed[tf].period
    BY DEF EmitSuppressed, Comes, Guarded
  <2>2. Split(completed[tf].period, tf)
    BY <2>1 DEF IndInv, OneTf, SplitPeriods
  <2> QED BY <2>2 DEF EmitSuppressed, IndInv, HeldBack
<1>5. ASSUME NEW x \in Tfs
      PROVE  OneTf(acc[x], completed[x], out[x], lastEmitted[x], x)'
  <2>1. OneTf(acc[x], completed[x], out[x], lastEmitted[x], x)
    BY DEF IndInv
  <2>2. OneTf(acc[x], Nothing, out[x], lastEmitted[x], x)
    BY <2>1, Dropping
  <2>3. completed'[x] = completed[x] \/ completed'[x] = Nothing
    BY <1>1 DEF IndInv, Functions4
  <2> QED BY <2>1, <2>2, <2>3 DEF EmitSuppressed, state
<1> QED BY <1>2, <1>3, <1>4, <1>5 DEF IndInv

(* What a publish, successful or not, does to the bars and to the guard. *)
LEMMA EmitStep ==
  ASSUME IndInv, NEW tf \in Tfs, Comes(tf), ~Guarded(tf),
         lastEmitted' = [lastEmitted EXCEPT ![tf] = completed[tf].period],
         out' = [out EXCEPT ![tf] = Append(@, completed[tf])] \/ out' = out,
         acc' = acc, completed'[tf] = Nothing,
         completed' \in [Tfs -> Bar],
         \A x \in Tfs : completed'[x] = completed[x] \/ completed'[x] = Nothing
  PROVE  /\ Functions4'
         /\ \A x \in Tfs : OneTf(acc[x], completed[x], out[x], lastEmitted[x], x)'
<1>1. Functions4
  BY DEF IndInv
<1>2. OneTf(acc[tf], completed[tf], out[tf], lastEmitted[tf], tf)
  BY DEF IndInv
<1>3. completed[tf] # Nothing /\ lastEmitted[tf] # completed[tf].period
  BY DEF Comes, Guarded
<1>4. /\ OneTf(acc[tf], Nothing, Append(out[tf], completed[tf]), completed[tf].period, tf)
      /\ OneTf(acc[tf], Nothing, out[tf], completed[tf].period, tf)
  BY <1>2, <1>3, Publishing
<1>5. Append(out[tf], completed[tf]) \in Seq(Bar) /\ completed[tf].period \in Int
  BY <1>4 DEF OneTf
<1>6. Functions4'
  BY <1>1, <1>5 DEF Functions4
<1>7. ASSUME NEW x \in Tfs
      PROVE  OneTf(acc[x], completed[x], out[x], lastEmitted[x], x)'
  <2>1. CASE x = tf
    <3>1. lastEmitted'[x] = completed[tf].period
      BY <1>1, <2>1 DEF Functions4
    <3>2. out'[x] = Append(out[tf], completed[tf]) \/ out'[x] = out[tf]
      BY <1>1, <2>1 DEF Functions4
    <3> QED BY <1>4, <2>1, <3>1, <3>2
  <2>2. CASE x # tf
    <3>1. lastEmitted'[x] = lastEmitted[x] /\ out'[x] = out[x]
      BY <1>1, <2>2 DEF Functions4
    <3>2. OneTf(acc[x], completed[x], out[x], lastEmitted[x], x)
      BY DEF IndInv
    <3>3. OneTf(acc[x], Nothing, out[x], lastEmitted[x], x)
      BY <3>2, Dropping
    <3> QED BY <3>1, <3>2, <3>3
  <2> QED BY <2>1, <2>2
<1> QED BY <1>6, <1>7

LEMMA EmitOkInd ==
  ASSUME IndInv, NEW tf \in Tfs, EmitOk(tf)
  PROVE  IndInv'
<1>1. completed' \in [Tfs -> Bar] /\ completed'[tf] = Nothing
  BY NothingIsBar DEF EmitOk, IndInv, Functions4
<1>2. \A x \in Tfs : completed'[x] = completed[x] \/ completed'[x] = Nothing
  BY DEF EmitOk, IndInv, Functions4
<1>3. /\ Functions4'
      /\ \A x \in Tfs : OneTf(acc[x], completed[x], out[x], lastEmitted[x], x)'
  BY <1>1, <1>2, EmitStep DEF EmitOk, Sent, state
<1>4. Controls' /\ Phases' /\ Checkpoints' /\ HeldBack'
  BY DEF EmitOk, Comes, state, bounds, IndInv, Controls, Phases, Checkpoints, HeldBack
<1> QED BY <1>3, <1>4 DEF IndInv

LEMMA EmitFailsInd ==
  ASSUME IndInv, NEW tf \in Tfs, EmitFails(tf)
  PROVE  IndInv'
<1>1. completed' \in [Tfs -> Bar] /\ completed'[tf] = Nothing
  BY NothingIsBar DEF EmitFails, NoBars
<1>2. \A x \in Tfs : completed'[x] = completed[x] \/ completed'[x] = Nothing
  BY DEF EmitFails, NoBars
<1>3. /\ Functions4'
      /\ \A x \in Tfs : OneTf(acc[x], completed[x], out[x], lastEmitted[x], x)'
  BY <1>1, <1>2, EmitStep DEF EmitFails, Sent, state
<1>4. Controls'
  BY AggregatorAssumption DEF EmitFails, state, IndInv, Controls
<1>5. Phases' /\ Checkpoints' /\ HeldBack'
  BY DEF EmitFails, NoBars, IndInv, Phases, Checkpoints, HeldBack
<1> QED BY <1>3, <1>4, <1>5 DEF IndInv

LEMMA CheckpointInd ==
  ASSUME IndInv, CheckpointOk \/ CheckpointFails
  PROVE  IndInv'
<1>1. UNCHANGED <<acc, sane, completed, lastEmitted, restart, out, suppressed, bars, crashes>>
  BY DEF CheckpointOk, CheckpointFails, state, history, bounds
<1>2. loop' = "idle" /\ completed = NoBars /\ ckpts' \in {ckpts, Checkpoint}
  BY DEF CheckpointOk, CheckpointFails
<1>3. failures' \in 0..MaxFailures
  BY AggregatorAssumption
     DEF CheckpointOk, CheckpointFails, bounds, IndInv, Controls
<1>4. Functions4' /\ HeldBack' /\ Phases'
  BY <1>1, <1>2 DEF IndInv, Functions4, HeldBack, Phases
<1>5. Controls'
  BY <1>1, <1>2, <1>3 DEF IndInv, Controls
<1>6. Checkpoints'
  <2>1. CASE ckpts' = ckpts
    BY <2>1 DEF IndInv, Checkpoints
  <2>2. CASE ckpts' = Checkpoint
    <3> DEFINE c == [acc |-> acc, sane |-> sane]
               CSet == [acc : [Tfs -> Bar], sane : [Tfs -> BOOLEAN]]
    <3>1. c \in CSet /\ c.acc = acc
      BY DEF IndInv, Functions4, Controls
    <3>2. \A tf \in Tfs : acc[tf] = Nothing \/ Whole(acc[tf], tf)
      BY DEF IndInv, OneTf, AllWhole
    <3>3. ckpts \in Seq(CSet) /\ ckpts' = Append(ckpts, c)
      BY <2>2 DEF IndInv, Checkpoints, Checkpoint
    <3> HIDE DEF c, CSet
    <3>4. /\ ckpts' \in Seq(CSet) /\ DOMAIN ckpts' = 1..(Len(ckpts) + 1)
          /\ DOMAIN ckpts = 1..Len(ckpts) /\ Len(ckpts) \in Nat
          /\ ckpts'[Len(ckpts) + 1] = c
          /\ \A k \in DOMAIN ckpts : ckpts'[k] = ckpts[k]
      BY <3>1, <3>3
    <3>5. ASSUME NEW k \in DOMAIN ckpts', NEW tf \in Tfs
          PROVE  ckpts'[k].acc[tf] = Nothing \/ Whole(ckpts'[k].acc[tf], tf)
      <4>1. CASE k \in DOMAIN ckpts
        BY <3>4, <4>1 DEF IndInv, Checkpoints
      <4>2. CASE k = Len(ckpts) + 1
        BY <3>1, <3>2, <3>4, <4>2
      <4> QED BY <3>4, <4>1, <4>2
    <3> QED BY <3>4, <3>5 DEF Checkpoints, CSet
  <2> QED BY <1>2, <2>1, <2>2
<1>7. \A tf \in Tfs : OneTf(acc[tf], completed[tf], out[tf], lastEmitted[tf], tf)'
  BY <1>1 DEF IndInv
<1> QED BY <1>4, <1>5, <1>6, <1>7 DEF IndInv

LEMMA HealthInd ==
  ASSUME IndInv, HealthCheck \/ ConsumerRestart
  PROVE  IndInv'
<1>1. /\ UNCHANGED <<acc, sane, completed, lastEmitted, loop, ckpts, out, suppressed>>
      /\ UNCHANGED <<failures, crashes>>
  BY DEF HealthCheck, ConsumerRestart, state, history, bounds
<1>2. restart' \in BOOLEAN /\ bars' \in 0..MaxBars
  <2>1. restart' \in BOOLEAN
    BY DEF HealthCheck, ConsumerRestart
  <2>2. bars' = bars \/ (bars < MaxBars /\ bars' = bars + 1)
    BY DEF HealthCheck, ConsumerRestart, bounds
  <2>3. bars \in 0..MaxBars
    BY DEF IndInv, Controls
  <2> QED BY <2>1, <2>2, <2>3, AggregatorAssumption
<1>3. Functions4' /\ Controls' /\ Phases' /\ Checkpoints' /\ HeldBack'
  BY <1>1, <1>2 DEF IndInv, Functions4, Controls, Phases, Checkpoints, HeldBack
<1>4. \A tf \in Tfs : OneTf(acc[tf], completed[tf], out[tf], lastEmitted[tf], tf)'
  BY <1>1 DEF IndInv
<1> QED BY <1>3, <1>4 DEF IndInv

LEMMA CrashInd ==
  ASSUME IndInv, Crash
  PROVE  IndInv'
<1>1. /\ acc' = NoBars /\ completed' = NoBars /\ NoBars \in [Tfs -> Bar]
      /\ out' = [tf \in Tfs |-> <<>>] /\ lastEmitted' = [tf \in Tfs |-> -1]
  BY NothingIsBar DEF Crash, NoState, NoBars
<1>2. Functions4'
  BY <1>1 DEF Functions4
<1>3. Controls'
  <2>1. sane' = [tf \in Tfs |-> TRUE] /\ [tf \in Tfs |-> TRUE] \in [Tfs -> BOOLEAN]
    BY DEF Crash, NoState
  <2>2. restart' \in BOOLEAN /\ sane' \in [Tfs -> BOOLEAN]
    BY <2>1 DEF Crash
  <2>3. crashes' \in 0..MaxCrashes
    BY AggregatorAssumption DEF Crash, IndInv, Controls
  <2> QED BY <2>2, <2>3 DEF Crash, IndInv, Controls
<1>4. Phases'
  BY <1>1 DEF Phases
<1>5. Checkpoints' /\ HeldBack'
  BY DEF Crash, IndInv, Checkpoints, HeldBack
<1>6. \A tf \in Tfs : OneTf(acc[tf], completed[tf], out[tf], lastEmitted[tf], tf)'
  BY <1>1, Begins, NothingIsBar DEF NoBars
<1> QED BY <1>2, <1>3, <1>4, <1>5, <1>6 DEF IndInv

LEMMA RestoreInd ==
  ASSUME IndInv, NEW m \in 0..Len(ckpts), NEW n \in 0..m, Restore(n, m)
  PROVE  /\ IndInv'
         /\ \A tf \in Tfs : acc'[tf] = Nothing \/ Whole(acc'[tf], tf)
<1> DEFINE CSet == [acc : [Tfs -> Bar], sane : [Tfs -> BOOLEAN]]
<1>1. /\ ckpts \in Seq(CSet) /\ Len(ckpts) \in Nat /\ DOMAIN ckpts = 1..Len(ckpts)
      /\ \A k \in DOMAIN ckpts : \A tf \in Tfs :
           ckpts[k].acc[tf] = Nothing \/ Whole(ckpts[k].acc[tf], tf)
  BY DEF IndInv, Checkpoints
<1>2. /\ acc = NoBars /\ completed = NoBars /\ out = [tf \in Tfs |-> <<>>]
      /\ lastEmitted = [tf \in Tfs |-> -1]
  BY DEF IndInv, Phases, Restore
<1>3. n # 0 => n \in DOMAIN ckpts
  BY <1>1
<1>4. /\ acc' \in [Tfs -> Bar] /\ sane' \in [Tfs -> BOOLEAN]
      /\ \A tf \in Tfs : acc'[tf] = Nothing \/ Whole(acc'[tf], tf)
  <2>1. CASE n = 0
    BY <1>2, <2>1 DEF Restore, state, NoBars, IndInv, Functions4, Controls
  <2>2. CASE n # 0
    <3>1. ckpts[n] \in CSet
      <4> HIDE DEF CSet
      <4> QED BY <1>1, <1>3, <2>2
    <3>2. acc' = ckpts[n].acc /\ sane' = ckpts[n].sane
      BY <2>2 DEF Restore
    <3> QED BY <1>1, <1>3, <2>2, <3>1, <3>2
  <2> QED BY <2>1, <2>2
<1>5. Functions4' /\ Phases' /\ HeldBack'
  BY <1>2, <1>4 DEF Restore, history, IndInv, Functions4, Phases, HeldBack
<1>6. Controls'
  BY <1>4 DEF Restore, history, bounds, IndInv, Controls
<1>7. Checkpoints'
  <2> HIDE DEF CSet
  <2>1. ckpts' = SubSeq(ckpts, m + 1, Len(ckpts))
    BY DEF Restore
  <2>2. /\ ckpts' \in Seq(CSet)
        /\ \A k \in DOMAIN ckpts' : k + m \in DOMAIN ckpts /\ ckpts'[k] = ckpts[k + m]
    BY <1>1, <2>1
  <2> QED BY <1>1, <2>2 DEF Checkpoints, CSet
<1>8. \A tf \in Tfs : OneTf(acc[tf], completed[tf], out[tf], lastEmitted[tf], tf)'
  <2> SUFFICES ASSUME NEW tf \in Tfs
               PROVE  OneTf(acc'[tf], completed'[tf], out'[tf], lastEmitted'[tf], tf)
    OBVIOUS
  <2>1. completed'[tf] = Nothing /\ out'[tf] = <<>> /\ lastEmitted'[tf] = -1
    BY <1>2 DEF Restore, history, NoBars
  <2> QED BY <1>4, <2>1, Begins
<1> QED BY <1>4, <1>5, <1>6, <1>7, <1>8 DEF IndInv

LEMMA NextInd == IndInv /\ [Next]_vars => IndInv'
<1> SUFFICES ASSUME IndInv, [Next]_vars PROVE IndInv'
  OBVIOUS
<1>1. CASE \E t \in Times, ok \in BOOLEAN : ProcessBar(t, ok)
  BY <1>1, ProcessBarInd
<1>2. CASE \E tf \in Tfs : EmitSuppressed(tf) \/ EmitOk(tf) \/ EmitFails(tf)
  BY <1>2, EmitSuppressedInd, EmitOkInd, EmitFailsInd
<1>3. CASE CheckpointOk \/ CheckpointFails
  BY <1>3, CheckpointInd
<1>4. CASE HealthCheck \/ ConsumerRestart
  BY <1>4, HealthInd
<1>5. CASE Crash
  BY <1>5, CrashInd
<1>6. CASE \E m \in 0..Len(ckpts) : \E n \in 0..m : Restore(n, m)
  BY <1>6, RestoreInd
<1>7. CASE UNCHANGED vars
  <2>1. /\ UNCHANGED <<acc, sane, completed, lastEmitted, loop, restart, ckpts>>
        /\ UNCHANGED <<out, suppressed, bars, failures, crashes>>
    BY <1>7 DEF vars, state, history, bounds
  <2>2. Functions4' /\ Controls' /\ Phases' /\ Checkpoints' /\ HeldBack'
    BY <2>1 DEF IndInv, Functions4, Controls, Phases, Checkpoints, HeldBack
  <2>3. \A tf \in Tfs : OneTf(acc[tf], completed[tf], out[tf], lastEmitted[tf], tf)'
    BY <2>1 DEF IndInv
  <2> QED BY <2>2, <2>3 DEF IndInv
<1> QED BY <1>1, <1>2, <1>3, <1>4, <1>5, <1>6, <1>7 DEF Next

(* Every reachable state of the aggregator satisfies the inductive invariant. *)
THEOREM AggregatorInvariant == Spec => []IndInv
BY InitInd, NextInd, PTL DEF Spec

-----------------------------------------------------------------------------
(* The properties follow from the invariant.                                *)

LEMMA WholeIsHtf ==
  ASSUME NEW tf \in Tfs, NEW b \in Bar, Whole(b, tf)
  PROVE  b \in HtfBars(tf)
<1>1. /\ b.last \in Times /\ b.period = Floor(b.last, tf) /\ b.last \in b.minutes
  BY WholeFacts
<1>2. b.minutes \subseteq Times /\ IsFiniteSet(b.minutes) /\ b.volume = Cardinality(b.minutes)
  BY WholeDef
<1>3. b.volume \in Nat \ {0}
  BY <1>1, <1>2, FS_CardinalityType, FS_EmptySet
<1> QED BY <1>1, <1>2, <1>3 DEF Bar, HtfBars

LEMMA SeqElements ==
  ASSUME NEW S, NEW T, NEW o \in Seq(S), \A k \in DOMAIN o : o[k] \in T
  PROVE  o \in Seq(T)
OBVIOUS

(* Accumulators, bars in hand, published bars and checkpoints are bars of      *)
(* their timeframe, and no closed bar waits between two messages               *)
(* (bar_aggregator.py _run).                                                   *)
THEOREM AggregatorTypeCorrect == Spec => []TypeOK
<1>1. IndInv => TypeOK
  <2> SUFFICES ASSUME IndInv PROVE TypeOK
    OBVIOUS
  <2>1. ASSUME NEW tf \in Tfs
        PROVE  /\ acc[tf] \in HtfBars(tf) \cup {Nothing}
               /\ completed[tf] \in HtfBars(tf) \cup {Nothing}
               /\ out[tf] \in Seq(HtfBars(tf))
    <3>1. OneTf(acc[tf], completed[tf], out[tf], lastEmitted[tf], tf)
      BY DEF IndInv
    <3>2. \A k \in DOMAIN out[tf] : out[tf][k] \in HtfBars(tf)
      BY <3>1, SeqOfBars, WholeIsHtf DEF OneTf, AllWhole
    <3>3. out[tf] \in Seq(HtfBars(tf))
      BY <3>1, <3>2, SeqElements DEF OneTf
    <3> QED BY <3>1, <3>3, WholeIsHtf DEF OneTf, AllWhole
  <2>2. lastEmitted \in [Tfs -> {-1} \cup Nat]
    BY DEF IndInv, Functions4, OneTf, Guards
  <2>3. ASSUME NEW k \in DOMAIN ckpts
        PROVE  /\ \A tf \in Tfs : ckpts[k].acc[tf] \in HtfBars(tf) \cup {Nothing}
               /\ ckpts[k].sane \in [Tfs -> BOOLEAN]
    <3> DEFINE CSet == [acc : [Tfs -> Bar], sane : [Tfs -> BOOLEAN]]
    <3>1. ckpts[k] \in CSet
      <4>1. ckpts \in Seq(CSet)
        BY DEF IndInv, Checkpoints
      <4> HIDE DEF CSet
      <4> QED BY <4>1
    <3>2. \A tf \in Tfs : ckpts[k].acc[tf] = Nothing \/ Whole(ckpts[k].acc[tf], tf)
      BY DEF IndInv, Checkpoints
    <3>3. \A tf \in Tfs : ckpts[k].acc[tf] \in Bar
      BY <3>1
    <3> QED BY <3>1, <3>2, <3>3, WholeIsHtf
  <2> QED BY <2>1, <2>2, <2>3 DEF IndInv, Functions4, Controls, Phases, TypeOK
<1> QED BY <1>1, AggregatorInvariant, PTL

(* The closed bar of a timeframe as HtfStream sees it. *)
Closed == [tf \in Tfs |-> IF completed[tf] = Nothing THEN <<>> ELSE <<completed[tf]>>]

(* The bars of a run are the published ones and then the one in hand. *)
LEMMA CutFacts ==
  ASSUME IndInv, NEW tf \in Tfs
  PROVE  \A k \in DOMAIN Stream!Cut(tf) :
           \/ (k \in DOMAIN out[tf] /\ Stream!Cut(tf)[k] = out[tf][k])
           \/ /\ completed[tf] # Nothing /\ k = Len(out[tf]) + 1
              /\ Stream!Cut(tf)[k] = completed[tf]
<1>1. out[tf] \in Seq(Bar) /\ completed[tf] \in Bar
  BY DEF IndInv, OneTf
<1>2. Stream!Cut(tf) = out[tf] \o Closed[tf]
  BY DEF Stream!Cut, Closed
<1>3. Closed[tf] = IF completed[tf] = Nothing THEN <<>> ELSE <<completed[tf]>>
  BY DEF Closed
<1>4. CASE completed[tf] = Nothing
  <2>1. Stream!Cut(tf) = out[tf] \o <<>>
    BY <1>2, <1>3, <1>4
  <2>2. Stream!Cut(tf) = out[tf]
    BY <1>1, <2>1
  <2> QED BY <2>2
<1>5. CASE completed[tf] # Nothing
  <2>1. Stream!Cut(tf) = out[tf] \o <<completed[tf]>>
    BY <1>2, <1>3, <1>5
  <2> DEFINE o == out[tf]  c == completed[tf]  p == o \o <<c>>
  <2>2. /\ DOMAIN p = 1..(Len(o) + 1) /\ DOMAIN o = 1..Len(o) /\ Len(o) \in Nat
        /\ p[Len(o) + 1] = c /\ \A k \in DOMAIN o : p[k] = o[k]
    BY <1>1
  <2>3. \A k \in DOMAIN p : k \in DOMAIN o \/ k = Len(o) + 1
    <3> HIDE DEF p
    <3> QED BY <2>2
  <2> HIDE DEF o, c, p
  <2>4. \A k \in DOMAIN p :
          (k \in DOMAIN o /\ p[k] = o[k]) \/ (k = Len(o) + 1 /\ p[k] = c)
    BY <2>2, <2>3
  <2> QED BY <1>5, <2>1, <2>4 DEF o, c, p
<1> QED BY <1>4, <1>5

(* Every accumulator, closed bar and published bar holds minutes of one period *)
(* and one session, each counted once (BarAccumulator.update).                 *)
THEOREM AggregatesWholeBars == Spec => []BarsAreWhole
<1>1. IndInv => BarsAreWhole
  <2> SUFFICES ASSUME IndInv, NEW tf \in Tfs
               PROVE  /\ acc[tf] = Nothing \/ Stream!Whole(acc[tf], tf)
                      /\ \A k \in DOMAIN Stream!Cut(tf) : Stream!Whole(Stream!Cut(tf)[k], tf)
    BY DEF BarsAreWhole, Stream!BarsAreWhole, Stream!Nothing, Nothing
  <2>1. AllWhole(acc[tf], completed[tf], out[tf], tf)
    BY DEF IndInv, OneTf
  <2> QED BY <2>1, CutFacts DEF AllWhole, Whole
<1> QED BY <1>1, AggregatorInvariant, PTL

(* A run of the service counts a minute in at most one bar of a timeframe,     *)
(* whatever late, repeated or restored bars come (BarAccumulator.update's      *)
(* out-of-order test).                                                         *)
THEOREM MinutesCountedOnce == Spec => []BarsInOrder
<1>1. IndInv => BarsInOrder
  <2> SUFFICES ASSUME IndInv, NEW tf \in Tfs
               PROVE  /\ \A k, l \in DOMAIN Stream!Cut(tf) : k < l =>
                           \A m \in Stream!Cut(tf)[k].minutes, n \in Stream!Cut(tf)[l].minutes :
                             m < n
                      /\ \A k \in DOMAIN Stream!Cut(tf) :
                           \A m \in Stream!Cut(tf)[k].minutes, n \in acc[tf].minutes : m < n
    BY DEF BarsInOrder, Stream!BarsInOrder
  <2> DEFINE c == Stream!Cut(tf)
  <2>1. OneTf(acc[tf], completed[tf], out[tf], lastEmitted[tf], tf)
    BY DEF IndInv
  <2>2. out[tf] \in Seq(Bar) /\ Len(out[tf]) \in Nat /\ DOMAIN out[tf] = 1..Len(out[tf])
    BY <2>1 DEF OneTf
  <2>3. \A k \in DOMAIN c :
          (k \in DOMAIN out[tf] /\ c[k] = out[tf][k])
            \/ (completed[tf] # Nothing /\ k = Len(out[tf]) + 1 /\ c[k] = completed[tf])
    BY CutFacts
  <2> HIDE DEF c
  <2>4. \A k \in DOMAIN c : c[k] \in Bar /\ Whole(c[k], tf)
    BY <2>1, <2>3, SeqOfBars DEF OneTf, AllWhole
  <2>5. \A k \in DOMAIN c : \A m \in c[k].minutes :
          m \in Nat /\ c[k].last \in Nat /\ m <= c[k].last
    BY <2>4, WholeFacts
  <2>6. acc[tf].minutes \subseteq Int
    BY <2>1 DEF OneTf, Bar
  <2>7. \A k \in DOMAIN c : \A n \in acc[tf].minutes : c[k].last < n
    BY <2>1, <2>3 DEF OneTf, Ordered
  <2>8. ASSUME NEW k \in DOMAIN c, NEW l \in DOMAIN c, k < l
        PROVE  \A n \in c[l].minutes : c[k].last < n
    <3>1. k \in DOMAIN out[tf] /\ c[k] = out[tf][k]
      BY <2>2, <2>3, <2>8
    <3>2. CASE l \in DOMAIN out[tf] /\ c[l] = out[tf][l]
      BY <2>1, <2>8, <3>1, <3>2 DEF OneTf, Ordered
    <3>3. CASE c[l] = completed[tf]
      BY <2>1, <3>1, <3>3 DEF OneTf, Ordered
    <3> QED BY <2>3, <3>2, <3>3
  <2>9. ASSUME NEW k \in DOMAIN c, NEW l \in DOMAIN c, k < l,
               NEW m \in c[k].minutes, NEW n \in c[l].minutes
        PROVE  m < n
    <3>1. c[k].last < n
      BY <2>8, <2>9
    <3> QED BY <2>5, <3>1
  <2>10. \A k \in DOMAIN c : \A m \in c[k].minutes, n \in acc[tf].minutes : m < n
    BY <2>5, <2>6, <2>7
  <2> QED BY <2>9, <2>10 DEF c
<1> QED BY <1>1, AggregatorInvariant, PTL

(* A run publishes at most one bar per timeframe and period (the emit-once     *)
(* guard _last_emitted), though publishes fail with an unknown outcome.        *)
THEOREM EmitOnce == Spec => []OneBarPerPeriod
<1>1. IndInv => OneBarPerPeriod
  BY DEF IndInv, OneTf, Guards, OneBarPerPeriod, Stream!OneBarPerPeriod
<1> QED BY <1>1, AggregatorInvariant, PTL

(* The guard holds back a bar only where a session boundary lies inside its    *)
(* period, for every calendar and every order of failures and restarts.        *)
THEOREM HeldBackOnlyAtBreak == Spec => []SuppressedOnlyAtBreak
<1>1. IndInv => SuppressedOnlyAtBreak
  BY DEF IndInv, HeldBack, Split, SuppressedOnlyAtBreak
<1> QED BY <1>1, AggregatorInvariant, PTL

-----------------------------------------------------------------------------
(* Refinement.                                                              *)

StreamUnchanged(tf) ==
  acc'[tf] = acc[tf] /\ completed'[tf] = completed[tf] /\ out'[tf] = out[tf]

LEMMA ClosedFacts ==
  ASSUME NEW tf \in Tfs
  PROVE  /\ completed[tf] = Nothing => Closed[tf] = <<>>
         /\ completed[tf] # Nothing => Closed[tf] = <<completed[tf]>>
         /\ completed'[tf] = Nothing => Closed'[tf] = <<>>
         /\ completed'[tf] # Nothing => Closed'[tf] = <<completed'[tf]>>
BY DEF Closed

LEMMA StepStays ==
  ASSUME NEW tf \in Tfs, StreamUnchanged(tf)
  PROVE  Stream!Step(tf)
<1>1. Closed'[tf] = Closed[tf]
  BY ClosedFacts DEF StreamUnchanged
<1> QED BY <1>1 DEF Stream!Step, Stream!Stays, StreamUnchanged, Closed

LEMMA StepDrop ==
  ASSUME NEW tf \in Tfs, completed[tf] # Nothing, completed'[tf] = Nothing,
         acc'[tf] = acc[tf], out'[tf] = out[tf]
  PROVE  Stream!Step(tf)
<1>1. Closed[tf] = <<completed[tf]>> /\ Closed'[tf] = <<>>
  BY ClosedFacts
<1>2. Closed[tf] # <<>> /\ Closed'[tf] = Tail(Closed[tf])
  BY <1>1
<1> QED BY <1>2 DEF Stream!Step, Stream!Drop, Closed

LEMMA StepPublish ==
  ASSUME NEW tf \in Tfs, completed[tf] # Nothing, completed'[tf] = Nothing,
         acc'[tf] = acc[tf], out'[tf] = Append(out[tf], completed[tf]),
         \A k \in DOMAIN out[tf] : out[tf][k].period # completed[tf].period
  PROVE  Stream!Step(tf)
<1>1. Closed[tf] = <<completed[tf]>> /\ Closed'[tf] = <<>>
  BY ClosedFacts
<1>2. /\ Closed[tf] # <<>> /\ Closed'[tf] = Tail(Closed[tf])
      /\ Head(Closed[tf]) = completed[tf]
  BY <1>1
<1>3. Stream!Publish(tf)
  BY <1>2 DEF Stream!Publish, Closed
<1> QED BY <1>3 DEF Stream!Step

LEMMA StepRecover ==
  ASSUME NEW tf \in Tfs, acc'[tf] = Nothing \/ Whole(acc'[tf], tf),
         completed'[tf] = Nothing, out'[tf] = <<>>
  PROVE  Stream!Step(tf)
<1>1. Closed'[tf] = <<>>
  BY ClosedFacts
<1>2. Stream!Recover(tf)
  BY <1>1 DEF Stream!Recover, Whole, Closed, Stream!Nothing, Nothing
<1> QED BY <1>2 DEF Stream!Step

(* A one-minute bar merges, turns or resets, or is late and changes nothing. *)
LEMMA StepBar ==
  ASSUME IndInv, NEW t \in Times, NEW tf \in Tfs, completed[tf] = Nothing,
         acc'[tf] = Updated(t, tf),
         completed'[tf] = IF Closes(t, tf) THEN acc[tf] ELSE Nothing,
         out'[tf] = out[tf]
  PROVE  Stream!Step(tf)
<1>1. acc[tf] \in Bar /\ acc[tf].last \in Int /\ t \in Nat
  BY AggregatorAssumption DEF IndInv, OneTf, Bar
<1>2. Closed[tf] = <<>>
  BY ClosedFacts
<1>3. CASE OutOfOrder(t, tf)
  <2>1. StreamUnchanged(tf)
    BY <1>3 DEF Closes, Updated, StreamUnchanged
  <2> QED BY <2>1, StepStays
<1>4. CASE ~OutOfOrder(t, tf)
  <2>1. t > acc[tf].last
    BY <1>1, <1>4 DEF OutOfOrder
  <2>2. /\ Stream!Nothing = Nothing
        /\ Stream!NewBar(t, tf) = NewAccumulator(t, tf)
        /\ Stream!Merged(acc[tf], t) = Extended(acc[tf], t)
        /\ Stream!Belongs(acc[tf], t, tf) <=>
             Floor(t, tf) = acc[tf].period /\ ~IsSessionBreak(acc[tf].last, t)
    BY DEF Stream!Nothing, Nothing, Stream!NewBar, NewAccumulator, Stream!Merged, Extended,
           Stream!Belongs, Stream!Floor, Floor, Stream!IsSessionBreak, IsSessionBreak
  <2>3. CASE acc[tf] = Nothing
    <3>1. acc'[tf] = NewAccumulator(t, tf) /\ completed'[tf] = Nothing
      BY <1>4, <2>3 DEF Updated, Starts, Closes
    <3>2. Closed'[tf] = <<>>
      BY <3>1, ClosedFacts
    <3>3. Stream!Turn(tf, t)
      BY <1>2, <2>1, <2>2, <2>3, <3>1, <3>2 DEF Stream!Turn, Closed
    <3> QED BY <3>3 DEF Stream!Step
  <2>4. CASE acc[tf] # Nothing /\ Closes(t, tf)
    <3>1. acc'[tf] = NewAccumulator(t, tf) /\ completed'[tf] = acc[tf]
      BY <1>4, <2>4 DEF Updated, Starts
    <3>2. Closed'[tf] = Append(Closed[tf], acc[tf])
      BY <1>2, <2>4, <3>1, ClosedFacts
    <3>3. ~Stream!Belongs(acc[tf], t, tf)
      BY <2>2, <2>4 DEF Closes
    <3>4. Stream!Turn(tf, t)
      BY <2>1, <2>2, <2>4, <3>1, <3>2, <3>3 DEF Stream!Turn, Closed
    <3> QED BY <3>4 DEF Stream!Step
  <2>5. CASE acc[tf] # Nothing /\ ~Closes(t, tf)
    <3>1. completed'[tf] = Nothing /\ Closed'[tf] = Closed[tf]
      BY <1>2, <2>5, ClosedFacts
    <3>2. Stream!Belongs(acc[tf], t, tf)
      BY <1>4, <2>2, <2>5 DEF Closes
    <3>3. CASE Starts(t, tf)
      <4>1. acc'[tf] = NewAccumulator(t, tf)
        BY <1>4, <3>3 DEF Updated
      <4>2. Stream!Reset(tf, t)
        BY <2>1, <2>2, <2>5, <3>1, <4>1 DEF Stream!Reset, Closed
      <4> QED BY <4>2 DEF Stream!Step
    <3>4. CASE ~Starts(t, tf)
      <4>1. acc'[tf] = Extended(acc[tf], t)
        BY <1>4, <3>4 DEF Updated
      <4>2. Stream!Merge(tf, t)
        BY <2>1, <2>2, <2>5, <3>1, <3>2, <4>1 DEF Stream!Merge, Closed
      <4> QED BY <4>2 DEF Stream!Step
    <3> QED BY <3>3, <3>4
  <2> QED BY <2>3, <2>4, <2>5
<1> QED BY <1>3, <1>4

(* Every step of the aggregator is a step of each timeframe of the stream. *)
LEMMA EveryTfSteps ==
  ASSUME IndInv, Next, NEW x \in Tfs
  PROVE  Stream!Step(x)
<1>0. Functions4
  BY DEF IndInv
<1>1. ASSUME NEW t \in Times, NEW ok \in BOOLEAN, ProcessBar(t, ok)
      PROVE  Stream!Step(x)
  <2>1. completed[x] = Nothing
    BY <1>1 DEF ProcessBar, IndInv, Phases, NoBars
  <2>2. /\ acc'[x] = Updated(t, x) /\ out'[x] = out[x]
        /\ completed'[x] = IF Closes(t, x) THEN acc[x] ELSE Nothing
    BY <1>1 DEF ProcessBar, history
  <2> QED BY <2>1, <2>2, StepBar
<1>2. ASSUME NEW tf \in Tfs, EmitSuppressed(tf)
      PROVE  Stream!Step(x)
  <2>1. acc' = acc /\ out' = out /\ completed' = [completed EXCEPT ![tf] = Nothing]
    BY <1>2 DEF EmitSuppressed, state
  <2>2. CASE x = tf
    <3>1. completed[x] # Nothing /\ completed'[x] = Nothing
      BY <1>0, <1>2, <2>1, <2>2 DEF EmitSuppressed, Comes, Functions4
    <3> QED BY <2>1, <3>1, StepDrop
  <2>3. CASE x # tf
    BY <1>0, <2>1, <2>3, StepStays DEF StreamUnchanged, Functions4
  <2> QED BY <2>2, <2>3
<1>3. ASSUME NEW tf \in Tfs, EmitOk(tf) \/ EmitFails(tf)
      PROVE  Stream!Step(x)
  <2>1. /\ completed[tf] # Nothing /\ completed[tf].period # lastEmitted[tf]
        /\ acc' = acc /\ (Sent(tf) \/ out' = out)
    BY <1>3 DEF EmitOk, EmitFails, Comes, Guarded, state
  <2>2. CASE x = tf
    <3>1. completed[x] # Nothing /\ completed'[x] = Nothing /\ acc' = acc
      BY <1>0, <1>3, <2>1, <2>2 DEF EmitOk, EmitFails, NoBars, Functions4, state
    <3>2. \A k \in DOMAIN out[x] : out[x][k].period # completed[x].period
      <4>1. OneTf(acc[x], completed[x], out[x], lastEmitted[x], x)
        BY DEF IndInv
      <4>2. lastEmitted[x] < completed[x].period
        BY <2>1, <2>2, <4>1 DEF OneTf, Guards, Bar
      <4>3. completed[x].period \in Int /\ lastEmitted[x] \in Int
        BY <4>1 DEF OneTf, Bar
      <4>4. \A k \in DOMAIN out[x] : out[x][k].period \in Int
        BY <4>1, SeqOfBars DEF OneTf
      <4> QED BY <4>1, <4>2, <4>3, <4>4 DEF OneTf, Guards
    <3>3. out'[x] = Append(out[x], completed[x]) \/ out'[x] = out[x]
      BY <1>0, <1>3, <2>2 DEF EmitOk, EmitFails, Sent, Functions4
    <3> QED BY <3>1, <3>2, <3>3, StepPublish, StepDrop
  <2>3. CASE x # tf
    <3>1. acc'[x] = acc[x] /\ out'[x] = out[x]
      BY <1>0, <1>3, <2>3 DEF EmitOk, EmitFails, Sent, Functions4, state
    <3>2. completed'[x] = completed[x] \/ completed'[x] = Nothing
      BY <1>0, <1>3, <2>3 DEF EmitOk, EmitFails, NoBars, Functions4
    <3>3. CASE completed'[x] = completed[x]
      BY <3>1, <3>3, StepStays DEF StreamUnchanged
    <3>4. CASE completed'[x] # completed[x]
      BY <3>1, <3>2, <3>4, StepDrop
    <3> QED BY <3>3, <3>4
  <2> QED BY <2>2, <2>3
<1>4. ASSUME CheckpointOk \/ CheckpointFails \/ HealthCheck \/ ConsumerRestart
      PROVE  Stream!Step(x)
  <2>1. acc' = acc /\ completed' = completed /\ out' = out
    BY <1>4 DEF CheckpointOk, CheckpointFails, HealthCheck, ConsumerRestart, state, history
  <2> QED BY <2>1, StepStays DEF StreamUnchanged
<1>5. ASSUME Crash
      PROVE  Stream!Step(x)
  <2>1. acc'[x] = Nothing /\ completed'[x] = Nothing /\ out'[x] = <<>>
    BY <1>5 DEF Crash, NoState, NoBars
  <2> QED BY <2>1, StepRecover
<1>6. ASSUME NEW m \in 0..Len(ckpts), NEW n \in 0..m, Restore(n, m)
      PROVE  Stream!Step(x)
  <2>1. acc'[x] = Nothing \/ Whole(acc'[x], x)
    BY <1>6, RestoreInd
  <2>2. completed'[x] = Nothing /\ out'[x] = <<>>
    BY <1>6 DEF Restore, history, IndInv, Phases, NoBars
  <2> QED BY <2>1, <2>2, StepRecover
<1> QED BY <1>1, <1>2, <1>3, <1>4, <1>5, <1>6 DEF Next

(* The aggregator of bar_aggregator.py implements the stream HtfStream         *)
(* describes: with the bars in hand as the closed ones, every message, publish,*)
(* checkpoint, health check, crash and restore is a step of the stream.        *)
THEOREM AggregatorImplementsStream == Spec => ImplementsStream
<1>1. Init => Stream!StreamInit
  BY DEF Init, NoState, NoBars, Stream!StreamInit, Stream!Nothing, Nothing
<1>2. IndInv /\ IndInv' /\ [Next]_vars => [Stream!StreamNext]_(Stream!streamVars)
  <2> SUFFICES ASSUME IndInv, IndInv', [Next]_vars
               PROVE  [Stream!StreamNext]_(Stream!streamVars)
    OBVIOUS
  <2>1. CASE Next
    <3>1. \A tf \in Tfs : Stream!Step(tf)
      BY <2>1, EveryTfSteps
    <3>2. DOMAIN acc' = Tfs /\ DOMAIN Closed' = Tfs /\ DOMAIN out' = Tfs
      BY DEF IndInv, Functions4, Closed
    <3> QED BY <3>1, <3>2 DEF Stream!StreamNext, Closed
  <2>2. CASE UNCHANGED vars
    BY <2>2 DEF vars, state, history, Stream!streamVars
  <2> QED BY <2>1, <2>2
<1> QED BY <1>1, <1>2, AggregatorInvariant, PTL DEF Spec, ImplementsStream, Stream!StreamSpec

-----------------------------------------------------------------------------
(* The provider merger.                                                     *)

\* What the merger's invariants rest on: they need one another's first parts.
MergerInv == MergerTypeOK /\ OnlyInSilence /\ TopicTellsRouting

LEMMA MergerStarts == MergerInit => MergerInv
<1> SUFFICES ASSUME MergerInit PROVE MergerInv
  OBVIOUS
<1>1. /\ now = 0 /\ lastTs = [p \in Providers |-> -1] /\ promoted = None
      /\ announced = None /\ missed = FALSE
      /\ routed = [provider |-> Primary, at |-> 0, primaryLast |-> -1, named |-> None,
                   missed |-> FALSE]
  BY DEF MergerInit, NoBar, NotSeen
<1>2. -1 \in -1..MaxTime /\ 0 \in 0..MaxTime
  BY MergerAssumption
<1>3. lastTs \in [Providers -> -1..MaxTime]
  BY <1>1, <1>2
<1>4. routed \in [provider : Providers, at : 0..MaxTime, primaryLast : -1..MaxTime,
                  named : Providers \cup {None}, missed : BOOLEAN]
  BY <1>1, <1>2, MergerAssumption
<1>5. MergerTypeOK
  BY <1>1, <1>2, <1>3, <1>4 DEF MergerTypeOK, NotSeen
<1> QED
  BY <1>1, <1>5 DEF MergerInv, OnlyInSilence, TopicTellsRouting

\* The clock only makes a silence longer.
LEMMA TickKeeps == MergerInv /\ Tick => MergerInv'
BY MergerAssumption
   DEF Tick, MergerInv, MergerTypeOK, OnlyInSilence, TopicTellsRouting, Silent,
       NotSeen, mergerHistory

LEMMA RestartKeeps == MergerInv /\ Restart => MergerInv'
<1> SUFFICES ASSUME MergerInv, Restart PROVE MergerInv'
  OBVIOUS
<1>1. /\ now' = now /\ lastTs' = [p \in Providers |-> -1] /\ promoted' = None
      /\ announced' = announced /\ missed' = (missed \/ promoted # None)
      /\ routed' = routed
  BY DEF Restart, NotSeen
<1>2. -1 \in -1..MaxTime /\ 0 \in 0..MaxTime
  BY MergerAssumption
<1>3. lastTs' \in [Providers -> -1..MaxTime]
  BY <1>1, <1>2
<1>4. missed' \in BOOLEAN /\ (~missed' => announced' = promoted')
  BY <1>1 DEF MergerInv, MergerTypeOK, TopicTellsRouting
<1>5. MergerTypeOK'
  BY <1>1, <1>2, <1>3, <1>4 DEF MergerInv, MergerTypeOK, NotSeen
<1> QED
  BY <1>1, <1>5 DEF MergerInv, OnlyInSilence, TopicTellsRouting

\* A primary's bar ends every promotion, so that no condition on silence is left.
LEMMA PrimaryKeeps ==
  ASSUME MergerInv, NEW ts \in 0..now, NEW sent \in BOOLEAN, PrimaryBar(ts, sent)
  PROVE  MergerInv'
<1>1. lastTs' = [lastTs EXCEPT ![Primary] = ts] /\ promoted' = None /\ now' = now
  BY DEF PrimaryBar, Seen
<1>2. lastTs' \in [Providers -> NotSeen..MaxTime] /\ lastTs'[Primary] \in NotSeen..MaxTime
  BY <1>1, MergerAssumption DEF MergerInv, MergerTypeOK, NotSeen
<1>3. routed' = routed \/ routed' = [provider |-> Primary, at |-> now,
                                     primaryLast |-> lastTs'[Primary],
                                     named |-> announced', missed |-> missed']
  BY DEF PrimaryBar, Route
<1>4. announced' \in Providers \cup {None} /\ missed' \in BOOLEAN
      /\ (~missed' => announced' = promoted')
  BY <1>1, MergerAssumption DEF PrimaryBar, Announce, MergerInv, MergerTypeOK, TopicTellsRouting
<1>5. MergerTypeOK'
  BY <1>1, <1>2, <1>3, <1>4, MergerAssumption DEF MergerInv, MergerTypeOK
<1>6. OnlyInSilence'
  BY <1>1, <1>3 DEF MergerInv, OnlyInSilence
<1>7. ~routed'.missed =>
        routed'.named = IF routed'.provider = Primary THEN None ELSE routed'.provider
  <2>1. CASE routed' = routed
    BY <2>1 DEF MergerInv, TopicTellsRouting
  <2>2. CASE routed' = [provider |-> Primary, at |-> now, primaryLast |-> lastTs'[Primary],
                        named |-> announced', missed |-> missed']
    <3>1. /\ routed'.provider = Primary /\ routed'.named = announced'
          /\ routed'.missed = missed'
      BY <2>2
    <3> QED BY <1>1, <1>4, <3>1
  <2> QED BY <1>3, <2>1, <2>2
<1> QED
  BY <1>1, <1>4, <1>5, <1>6, <1>7 DEF MergerInv, TopicTellsRouting

\* A bar of another provider leaves the primary's last timestamp alone.
LEMMA OthersLeavePrimary ==
  ASSUME MergerTypeOK, NEW p \in Providers, p # Primary, NEW ts \in 0..now, Seen(p, ts)
  PROVE  lastTs'[Primary] = lastTs[Primary] /\ lastTs' \in [Providers -> NotSeen..MaxTime]
BY MergerAssumption DEF MergerTypeOK, Seen, NotSeen

LEMMA PromotedKeeps ==
  ASSUME MergerInv, NEW p \in Providers, NEW ts \in 0..now, PromotedBar(p, ts)
  PROVE  MergerInv'
<1>1. p # Primary /\ Seen(p, ts) /\ promoted = p /\ promoted' = promoted /\ now' = now
      /\ announced' = announced /\ missed' = missed
  BY DEF PromotedBar
<1>2. lastTs'[Primary] = lastTs[Primary] /\ lastTs' \in [Providers -> NotSeen..MaxTime]
  BY <1>1, OthersLeavePrimary DEF MergerInv
<1>3. Silent
  BY <1>1, MergerAssumption DEF MergerInv, OnlyInSilence
<1>4. routed' = routed \/ routed' = [provider |-> p, at |-> now,
                                     primaryLast |-> lastTs[Primary],
                                     named |-> announced', missed |-> missed']
  BY <1>2 DEF PromotedBar, Route
<1>5. lastTs[Primary] \in NotSeen..MaxTime
  BY MergerAssumption DEF MergerInv, MergerTypeOK
<1>6. MergerTypeOK'
  BY <1>1, <1>2, <1>4, <1>5 DEF MergerInv, MergerTypeOK
<1>7. OnlyInSilence'
  BY <1>1, <1>2, <1>3, <1>4 DEF MergerInv, OnlyInSilence, Silent
<1>8. ~missed' => announced' = promoted'
  BY <1>1 DEF MergerInv, TopicTellsRouting
<1>9. ~routed'.missed =>
        routed'.named = IF routed'.provider = Primary THEN None ELSE routed'.provider
  <2>1. CASE routed' = routed
    BY <2>1 DEF MergerInv, TopicTellsRouting
  <2>2. CASE routed' = [provider |-> p, at |-> now, primaryLast |-> lastTs[Primary],
                        named |-> announced', missed |-> missed']
    <3>1. /\ routed'.provider = p /\ routed'.named = announced'
          /\ routed'.missed = missed'
      BY <2>2
    <3> QED BY <1>1, <1>8, <3>1
  <2> QED BY <1>4, <2>1, <2>2
<1> QED
  BY <1>6, <1>7, <1>8, <1>9 DEF MergerInv, TopicTellsRouting

LEMMA FailoverKeeps ==
  ASSUME MergerInv, NEW p \in Providers, NEW ts \in 0..now, NEW sent \in BOOLEAN,
         FailoverBar(p, ts, sent)
  PROVE  MergerInv'
<1>1. p # Primary /\ Seen(p, ts) /\ promoted' = p /\ now' = now
      /\ routed' = routed /\ Silent
  BY DEF FailoverBar
<1>2. lastTs'[Primary] = lastTs[Primary] /\ lastTs' \in [Providers -> NotSeen..MaxTime]
  BY <1>1, OthersLeavePrimary DEF MergerInv
<1>3. announced' \in Providers \cup {None} /\ missed' \in BOOLEAN
      /\ (~missed' => announced' = promoted')
  BY <1>1 DEF FailoverBar, Announce, MergerInv, MergerTypeOK
<1>4. MergerTypeOK'
  BY <1>1, <1>2, <1>3 DEF MergerInv, MergerTypeOK
<1>5. OnlyInSilence'
  BY <1>1, <1>2 DEF MergerInv, OnlyInSilence, Silent
<1> QED
  BY <1>1, <1>3, <1>4, <1>5 DEF MergerInv, TopicTellsRouting

LEMMA SecondaryKeeps ==
  ASSUME MergerInv, NEW p \in Providers, NEW ts \in 0..now, SecondaryBar(p, ts)
  PROVE  MergerInv'
<1>1. p # Primary /\ Seen(p, ts) /\ promoted' = promoted /\ now' = now
      /\ routed' = routed /\ announced' = announced /\ missed' = missed
  BY DEF SecondaryBar, mergerHistory
<1>2. lastTs'[Primary] = lastTs[Primary] /\ lastTs' \in [Providers -> NotSeen..MaxTime]
  BY <1>1, OthersLeavePrimary DEF MergerInv
<1>3. MergerTypeOK'
  BY <1>1, <1>2 DEF MergerInv, MergerTypeOK
<1>4. OnlyInSilence'
  BY <1>1, <1>2 DEF MergerInv, OnlyInSilence, Silent
<1> QED
  BY <1>1, <1>3, <1>4 DEF MergerInv, TopicTellsRouting

(* The merger's types, that secondaries are routed only in a silence of the    *)
(* primary, and that the quality topic tells the routing: for any providers,   *)
(* threshold and length of time.                                               *)
THEOREM MergerInvariant == MergerSpec => []MergerInv
<1>1. MergerInv /\ [MergerNext]_mergerVars => MergerInv'
  <2> SUFFICES ASSUME MergerInv, [MergerNext]_mergerVars PROVE MergerInv'
    OBVIOUS
  <2>1. CASE MergerNext
    BY <2>1, TickKeeps, RestartKeeps, PrimaryKeeps, PromotedKeeps, FailoverKeeps,
       SecondaryKeeps DEF MergerNext
  <2>2. CASE UNCHANGED mergerVars
    BY <2>2 DEF mergerVars, mergerHistory, MergerInv, MergerTypeOK, OnlyInSilence, TopicTellsRouting, Silent
  <2> QED
    BY <2>1, <2>2
<1> QED
  BY <1>1, MergerStarts, PTL DEF MergerSpec

(* Every variable keeps its type.                                              *)
THEOREM MergerTypeCorrect == MergerSpec => []MergerTypeOK
BY MergerInvariant, PTL DEF MergerInv

(* A secondary is promoted, and its bars reach market.bars, only while the     *)
(* primary's last handled bar is at least the threshold old.                   *)
THEOREM SecondariesOnlyInSilence == MergerSpec => []OnlyInSilence
BY MergerInvariant, PTL DEF MergerInv

(* The last routing event on the quality topic names the promoted provider,    *)
(* and a bar on market.bars is of the provider named then, but for a lost      *)
(* event and a restart in a failover, and only until the next event.           *)
THEOREM QualityTopicIsTrue == MergerSpec => []TopicTellsRouting
BY MergerInvariant, PTL DEF MergerInv
=============================================================================
