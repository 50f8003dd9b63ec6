------------------------------ MODULE BarStore ------------------------------
(***************************************************************************)
(* What the bar tables promise: every vendor answer is applied to          *)
(* ohlcv_raw, ohlcv_revision and market_data_ohlcv in one indivisible      *)
(* step.  RawIngress, where answers are applied by concurrent transactions *)
(* under advisory locks, implements this specification.                    *)
(*                                                                         *)
(* The operators of the first half are the ingress contract itself         *)
(* (services/ohlcv_raw_writer.py, src/intelligence/bars/write_contract.py).*)
(***************************************************************************)
EXTENDS BarSelection

CONSTANTS
  Chunks,    \* the answers a vendor request may bring, see ChunkType
  NoVal,     \* a slot a chunk offers no bar for
  Rankings,  \* the rankings a policy row may give the session
  MaxTime,   \* bound: the latest answer time
  Legacy     \* the rows the one-time backfill left, with no served_at

\* A chunk: per series and slot, the value offered.
ChunkType == [Series -> [Slots -> Vals \cup {NoVal}]]

Times == 1..MaxTime

\* An offer that reached the tables; the history variable served holds them.
Offer == [series : Series, slot : Slots, val : Vals, at : Nat]

Revision == [series : Series, slot : Slots, val : Vals,
             origin : {"raw", "superseded"}]

RawType == [Series -> [Slots -> Row \cup {NoRow}]]

ASSUME StoreAssumption ==
  /\ Chunks \subseteq ChunkType
  /\ NoVal \notin Vals
  /\ Rankings \subseteq Ranking
  /\ NoRow \notin Rankings
  /\ MaxTime \in Nat
  /\ Legacy \subseteq RawType
  /\ \A l \in Legacy : \A s \in Series, t \in Slots :
       l[s][t] # NoRow => l[s][t].served = 0

-----------------------------------------------------------------------------
\* classify, then the split of the changed rows by serve time: what one
\* series' offer, answered at `at`, finds in the stored rows.
Classify(stored, offer, at) ==
  LET offered == {t \in Slots : offer[t] # NoVal}
      changed == {t \in offered : stored[t] # NoRow /\ stored[t].val # offer[t]}
  IN  [new        |-> {t \in offered : stored[t] = NoRow},
       unchanged  |-> {t \in offered :
                         stored[t] # NoRow /\ stored[t].val = offer[t]},
       replaced   |-> {t \in changed : stored[t].served <= at},
       superseded |-> {t \in changed : stored[t].served > at}]

\* The rows write_raw inserts or upserts for one series.
RowsWritten(stored, offer, at) ==
  LET found == Classify(stored, offer, at)
  IN  [t \in Slots |-> IF t \in found.new \cup found.replaced
                       THEN [val |-> offer[t], served |-> at] ELSE NoRow]

\* The ohlcv_revision rows write_raw logs for one series: the old value of a
\* replaced row, the offered value of a superseded one.
RevisionsLogged(s, stored, offer, at) ==
  LET found == Classify(stored, offer, at)
  IN  {[series |-> s, slot |-> t, val |-> stored[t].val, origin |-> "raw"] :
         t \in found.replaced}
      \cup
      {[series |-> s, slot |-> t, val |-> offer[t], origin |-> "superseded"] :
         t \in found.superseded}

\* Mutant of Upsert: the update drops served_at.
Upsert_NoServedAt(stored, rows) ==
  [t \in Slots |->
     IF rows[t] = NoRow THEN stored[t]
     ELSE IF stored[t] = NoRow THEN rows[t]
     ELSE [rows[t] EXCEPT !.served = 0]]

\* INSERT ... ON CONFLICT DO UPDATE with the serve-time guard.
Upsert(stored, rows) ==
  [t \in Slots |->
     IF /\ rows[t] # NoRow
        /\ stored[t] # NoRow => stored[t].served <= rows[t].served
     THEN rows[t] ELSE stored[t]]

NoRows == [t \in Slots |-> NoRow]

\* ohlcv_raw with the rows one transaction writes.
Merge(raw, rows) == [s \in Series |-> Upsert(raw[s], rows[s])]

OffersOf(chunk, at) ==
  {o \in [series : Series, slot : Slots, val : Vals, at : {at}] :
     chunk[o.series][o.slot] = o.val}

\* The series a chunk offers bars for.
SeriesOf(chunk) == {s \in Series : \E t \in Slots : chunk[s][t] # NoVal}

-----------------------------------------------------------------------------
VARIABLES
  raw,        \* ohlcv_raw
  revision,   \* ohlcv_revision, as a set
  canonical,  \* market_data_ohlcv
  choice,     \* bar_session_choice
  policy,     \* the ranking bar_source_policy gives the session
  basis,      \* history: the ranking canonical was last selected by
  served      \* history: every offer applied

tables == <<raw, revision, canonical, choice, policy, basis, served>>

Init ==
  /\ raw \in Legacy
  /\ revision = {}
  /\ policy \in Rankings
  /\ basis = policy
  /\ canonical = SelectAndWrite(NoRows, raw, policy)
  /\ choice = RecordSessionChoice(NoRow, raw, policy)
  /\ served = {o \in [series : Series, slot : Slots, val : Vals, at : {0}] :
                 raw[o.series][o.slot] = [val |-> o.val, served |-> 0]}

\* The whole session is selected from the raw rows by ranking r.
Select(raw_, r) ==
  /\ canonical' = SelectAndWrite(canonical, raw_, r)
  /\ choice' = RecordSessionChoice(choice, raw_, r)
  /\ basis' = r

\* apply_raw_contract: one chunk, answered at `at`, selected by ranking r.
\* r is the policy in force when the selection lock was taken.
ServeChunk(chunk, at, r) ==
  /\ raw' = [s \in Series |->
               Upsert(raw[s], RowsWritten(raw[s], chunk[s], at))]
  /\ revision' = revision \cup
       UNION {RevisionsLogged(s, raw[s], chunk[s], at) : s \in SeriesOf(chunk)}
  /\ served' = served \cup OffersOf(chunk, at)
  /\ Select(raw', r)
  /\ UNCHANGED policy

\* write_and_reselect and reselect_series: a ranking is (re)applied to the
\* session together with the policy row that states it.
Reselect(r) ==
  /\ policy' \in {policy, r}
  /\ Select(raw, r)
  /\ UNCHANGED <<raw, revision, served>>

\* A policy row written without a selection (--plan, or --add from today).
SetPolicy(r) ==
  /\ policy' = r
  /\ UNCHANGED <<raw, revision, canonical, choice, basis, served>>

Next ==
  \/ \E c \in Chunks, at \in Times, r \in Rankings : ServeChunk(c, at, r)
  \/ \E r \in Rankings : Reselect(r)
  \/ \E r \in Rankings : SetPolicy(r)

Spec == Init /\ [][Next]_tables

-----------------------------------------------------------------------------
(* Properties of the tables                                                *)

\* Type invariant of the bar tables.
StoreTypeOK ==
  /\ raw \in RawType
  /\ revision \subseteq Revision
  /\ canonical \in [Slots -> CanonicalRow \cup {NoRow}]
  /\ policy \in Rankings
  /\ basis \in Rankings
  /\ served \subseteq Offer

\* Nothing served is lost (ohlcv_raw_writer, "so nothing served is lost"):
\* whatever order concurrent writers, replays of old answers and rollbacks
\* come in, every value a vendor ever served at a slot is still its stored
\* value or is in ohlcv_revision.
NothingServedIsLost ==
  \A o \in served :
    \/ /\ raw[o.series][o.slot] # NoRow
       /\ raw[o.series][o.slot].val = o.val
    \/ \E v \in revision :
         v.series = o.series /\ v.slot = o.slot /\ v.val = o.val

\* One step of ServeTimeNeverGoesBack.
ServeTimeForward ==
  \A s \in Series, t \in Slots :
    raw[s][t] # NoRow =>
      raw'[s][t] # NoRow /\ raw'[s][t].served >= raw[s][t].served

\* An older answer is never put over a newer one (the serve-time guard): the
\* answer time of a stored row only moves forward, and rows never vanish.
ServeTimeNeverGoesBack == [][ServeTimeForward]_raw

\* Canonical and the session choice are always what selecting the committed
\* raw rows gives, by the ranking of the last selection: no interleaving of
\* writers of different vendors, of policy changes and of rollbacks leaves a
\* row that running the selection again would change (what the gate's
\* run_idempotence looks for).
SelectionIsSettled ==
  /\ canonical = SelectAndWrite(canonical, raw, basis)
  /\ choice = RecordSessionChoice(choice, raw, basis)

\* The selection skips a slot whose winner has no volume, and leaves what
\* canonical holds there.
Skipped(t) ==
  t \in WinnerSlots(raw, basis) /\ Winner(raw, basis, t).val \in NullVolume

\* "a vendor switch is written across the session, never half of it"
\* (bar_selection): the canonical rows of a session have one vendor.  The one
\* exception the code makes is a winner without a volume: select_and_write
\* skips it, so its slot may keep the bar of the vendor the session left.
SessionFromOneVendor ==
  \A t, u \in {w \in Slots : canonical[w] # NoRow /\ ~Skipped(w)} :
    VendorOf[canonical[t].series] = VendorOf[canonical[u].series]
=============================================================================
