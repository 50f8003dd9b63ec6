---------------------------- MODULE MCRawIngress ----------------------------
(***************************************************************************)
(* Instances of RawIngress: an IBKR series and two Alpaca series (sip_rth, *)
(* which is regular-hours only, and iex_rth, which is never selected).     *)
(***************************************************************************)
EXTENDS RawIngress, TLC

CONSTANTS ibkr, sip, iex, x, y, p1, p2, IBKR, ALPACA, MaxOffered, MaxSeries

MCVendorOf == [s \in Series |-> IF s = ibkr THEN IBKR ELSE ALPACA]
MCKindOrder == [s \in Series |-> IF s = iex THEN 2 ELSE 1]
MCSeriesOrder ==
  [s \in Series |-> CASE s = ibkr -> 1 [] s = sip -> 2 [] OTHER -> 3]

\* Chunks of at most MaxOffered bars of at most MaxSeries series.
MCChunks ==
  {c \in ChunkType :
     /\ Cardinality(SeriesOf(c)) \in 1..MaxSeries
     /\ Cardinality({p \in Series \X Slots : c[p[1]][p[2]] # NoVal})
          <= MaxOffered}

\* Those of them in which only IBKR serves a bar without a volume, at slot 1,
\* iex_rth serves slot 1 alone, and sip_rth serves it with every answer.
MCSelectionChunks ==
  {c \in MCChunks :
     /\ \A s \in Series, t \in Slots :
          c[s][t] \in NullVolume => s = ibkr /\ t = 1
     /\ c[iex][2] = NoVal
     /\ c[sip][2] # NoVal => c[sip][1] # NoVal}

\* The processes are interchangeable.
Symmetry == Permutations(Procs)

\* IBKR first with Alpaca behind it, the reverse, and Alpaca alone.
AllRankings == {<<IBKR, ALPACA>>, <<ALPACA, IBKR>>, <<ALPACA>>}

OneRanking == {<<ALPACA, IBKR>>}

NoLegacy == {[s \in Series |-> NoRows]}

\* No backfilled rows, or one backfilled IBKR bar.
OneLegacyRow ==
  NoLegacy \cup
  {[s \in Series |-> [t \in Slots |->
      IF s = ibkr /\ t = u THEN [val |-> x, served |-> 0] ELSE NoRow]] :
     u \in Slots}
=============================================================================
