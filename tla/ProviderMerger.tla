--------------------------- MODULE ProviderMerger ---------------------------
(***************************************************************************)
(* The provider merger, services/provider_merger.py, for one symbol: it    *)
(* reads the raw bars of every provider, routes those of the authoritative *)
(* one to market.bars, promotes a secondary while the authoritative one is *)
(* silent, and reports routing changes on the quality topic.               *)
(*                                                                         *)
(* A bar is handled to its end before the next one, so a handler is one    *)
(* step; its publishes may fail, which ends the handler but keeps what it  *)
(* has already changed.  Which provider's bar is handled next, and how old *)
(* it is, is open: raw topics lag, and a consumer group that resumes reads *)
(* old bars first.  Time is counted in bar intervals.                      *)
(***************************************************************************)
EXTENDS Integers

CONSTANTS
  Providers,    \* provider_raw_topics
  Primary,      \* provider_routing_config of the symbol's asset class
  None,         \* no provider
  Threshold,    \* provider_silence_bars_threshold
  MaxTime       \* bound: the clock

ASSUME MergerAssumption ==
  /\ Primary \in Providers /\ None \notin Providers
  /\ Threshold \in Nat \ {0} /\ MaxTime \in Nat

VARIABLES
  now,          \* the wall clock
  lastTs,       \* _last_bar_ts of the symbol, -1 for a provider not seen
  promoted,     \* _promoted of the symbol
  announced,    \* history: the promoted provider according to the quality topic
  missed,       \* history: the last change of the promotion has no event: its
                \*   publish raised, or a restart made it
  routed        \* history: the last bar sent to market.bars

mergerHistory == <<announced, missed, routed>>
mergerVars == <<now, lastTs, promoted, mergerHistory>>

NotSeen == -1

\* A bar on market.bars: whose, when it was sent, the primary's last bar, and
\* what the quality topic said then.
NoBar == [provider |-> Primary, at |-> 0, primaryLast |-> NotSeen,
          named |-> None, missed |-> FALSE]

MergerInit ==
  /\ now = 0
  /\ lastTs = [p \in Providers |-> NotSeen]
  /\ promoted = None
  /\ announced = None /\ missed = FALSE
  /\ routed = NoBar

-----------------------------------------------------------------------------
Seen(p, ts) == lastTs' = [lastTs EXCEPT ![p] = ts]

\* _publish_quality_event of a failover or a recovery: it may fail, and the
\* broker may have the event all the same.
Announce(p, sent) ==
  /\ announced' \in IF sent THEN {p} ELSE {announced, p}
  /\ missed' = ~sent

\* _route_bar: what the topic shows if the publish succeeds, or fails although
\* the broker has the bar.
Route(p) == routed' = [provider |-> p, at |-> now, primaryLast |-> lastTs'[Primary],
                       named |-> announced', missed |-> missed']

\* Mutant of PrimaryBar: the promotion stays.
PrimaryBar_StaysPromoted(ts, sent) ==
  /\ Seen(Primary, ts)
  /\ IF promoted = None THEN UNCHANGED <<announced, missed>> ELSE Announce(None, sent)
  /\ Route(Primary) \/ UNCHANGED routed
  /\ UNCHANGED <<now, promoted>>

\* _handle_bar of a primary's bar.  A promotion ends first; when its recovery
\* event fails the bar is not routed.
PrimaryBar(ts, sent) ==
  /\ Seen(Primary, ts)
  /\ promoted' = None
  /\ IF promoted = None THEN UNCHANGED <<announced, missed>> ELSE Announce(None, sent)
  /\ \/ (promoted = None \/ sent) /\ Route(Primary)
     \/ UNCHANGED routed
  /\ UNCHANGED now

\* _handle_bar of the promoted provider's bar.
PromotedBar(p, ts) ==
  /\ p # Primary /\ p = promoted
  /\ Seen(p, ts)
  /\ UNCHANGED <<now, promoted, announced, missed>>
  /\ Route(p) \/ UNCHANGED routed

\* The primary was seen and its last handled bar is old.
Silent == lastTs[Primary] # NotSeen /\ now - lastTs[Primary] >= Threshold

\* Mutant of FailoverBar: a promotion that replaces another is not announced.
FailoverBar_FirstOnly(p, ts, sent) ==
  /\ p # Primary /\ p # promoted /\ Silent
  /\ Seen(p, ts)
  /\ promoted' = p
  /\ IF promoted = None THEN Announce(p, sent) ELSE UNCHANGED <<announced, missed>>
  /\ UNCHANGED <<now, routed>>

\* Mutant of FailoverBar: the promotion is recorded behind the publish of the
\* event, so a publish that raises leaves it out.
FailoverBar_AfterEvent(p, ts, sent) ==
  /\ p # Primary /\ p # promoted /\ Silent
  /\ Seen(p, ts)
  /\ promoted' = IF sent THEN p ELSE promoted
  /\ Announce(p, sent)
  /\ UNCHANGED <<now, routed>>

\* Another provider's bar, in a time of silence: it is dropped, its provider is
\* promoted and the failover announced.
FailoverBar(p, ts, sent) ==
  /\ p # Primary /\ p # promoted /\ Silent
  /\ Seen(p, ts)
  /\ promoted' = p
  /\ Announce(p, sent)
  /\ UNCHANGED <<now, routed>>

\* Another provider's bar, otherwise: it is dropped.
SecondaryBar(p, ts) ==
  /\ p # Primary /\ p # promoted /\ ~Silent
  /\ Seen(p, ts)
  /\ UNCHANGED <<now, promoted, mergerHistory>>

Tick ==
  /\ now < MaxTime
  /\ now' = now + 1
  /\ UNCHANGED <<lastTs, promoted, mergerHistory>>

\* A restart begins with empty dictionaries; the topics' readers keep what they
\* have read.  It ends a promotion without an event.
Restart ==
  /\ lastTs' = [p \in Providers |-> NotSeen]
  /\ promoted' = None
  /\ missed' = (missed \/ promoted # None)
  /\ UNCHANGED <<now, announced, routed>>

MergerNext ==
  \/ Tick \/ Restart
  \/ \E ts \in 0..now, sent \in BOOLEAN :
       \/ PrimaryBar(ts, sent)
       \/ \E p \in Providers :
            PromotedBar(p, ts) \/ FailoverBar(p, ts, sent) \/ SecondaryBar(p, ts)

MergerSpec == MergerInit /\ [][MergerNext]_mergerVars

\* A broker to which the promoted provider's bars are sent again and again takes
\* one of them again and again.  Nothing is assumed of the order in which bars
\* come, of routing events or of restarts.
FairMergerSpec ==
  /\ MergerSpec
  /\ \A p \in Providers :
       []<><<\E ts \in 0..now : PromotedBar(p, ts)>>_mergerVars =>
       []<><<\E ts \in 0..now : PromotedBar(p, ts) /\ Route(p)>>_mergerVars

-----------------------------------------------------------------------------
MergerTypeOK ==
  /\ now \in 0..MaxTime
  /\ lastTs \in [Providers -> NotSeen..MaxTime]
  /\ promoted \in Providers \cup {None}
  /\ announced \in Providers \cup {None} /\ missed \in BOOLEAN
  /\ routed \in [provider : Providers, at : 0..MaxTime, primaryLast : NotSeen..MaxTime,
                 named : Providers \cup {None}, missed : BOOLEAN]

(* Silence and promotion: while a provider is promoted, and at every bar of a  *)
(* secondary that reaches market.bars, the primary has been seen and its last  *)
(* handled bar is at least the threshold old: the promotion was decided on an  *)
(* earlier bar, and a primary's bar in between would have ended it (l. 193).   *)
OnlyInSilence ==
  /\ promoted # None => promoted # Primary /\ Silent
  /\ routed.provider # Primary =>
       routed.primaryLast # NotSeen /\ routed.at - routed.primaryLast >= Threshold

(* A reader of both topics knows the routing: the last routing event names the *)
(* provider that is promoted, also when one promotion replaces another, and a  *)
(* bar on market.bars is of the provider named when it was sent.  There are    *)
(* two exceptions, both until the next routing event is published: a publish   *)
(* of an event raised (nothing repeats it), or the service restarted during a  *)
(* failover.  Such a restart forgets the promotion, so that the "recovery      *)
(* event published when primary resumes" (l. 8, 193) never comes and the       *)
(* topic goes on naming the secondary.                                         *)
TopicTellsRouting ==
  /\ ~missed => announced = promoted
  /\ ~routed.missed =>
       routed.named = IF routed.provider = Primary THEN None ELSE routed.provider

\* A bar of a secondary is handled.
Heard(p) ==
  \E ts \in 0..now :
    \/ PromotedBar(p, ts) \/ SecondaryBar(p, ts)
    \/ \E sent \in BOOLEAN : FailoverBar(p, ts, sent)

(* An outage of the primary ends for the readers of market.bars: when the      *)
(* primary stays silent and one secondary alone goes on sending, its bars are  *)
(* routed in the end and no other's, whatever routing events and bars failed   *)
(* to be published and whoever was promoted before.  The secondary has to be   *)
(* alone: bars of two secondaries in turn take the promotion from each other   *)
(* (l. 280), and then nothing need be routed at all.                           *)
OutageEnds ==
  \A p \in Providers \ {Primary} :
    /\ <>[]Silent
    /\ <>[][Heard(p) \/ Tick]_mergerVars
    /\ []<><<Heard(p)>>_mergerVars
    => <>[](routed.provider = p)
=============================================================================
