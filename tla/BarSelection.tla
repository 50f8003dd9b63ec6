---------------------------- MODULE BarSelection ----------------------------
(***************************************************************************)
(* Canonical bar selection as a function of the raw rows and the ranking   *)
(* (src/intelligence/bars/selection.py, services/bar_selection.py), for    *)
(* one (symbol, timeframe, session date).                                  *)
(*                                                                         *)
(* A series is one (vendor, kind) pair.  raw[s][t] is the row series s     *)
(* holds at slot t, or NoRow.  A bar's prices and volume are one abstract  *)
(* value; the values in NullVolume are bars served without a volume.       *)
(***************************************************************************)
EXTENDS Integers, FiniteSets, Sequences

CONSTANTS
  Series,         \* the (vendor, kind) pairs of ohlcv_raw
  Vendors,        \* the CVR bar_vendor codes
  VendorOf,       \* the vendor of each series
  KindOrder,      \* per series, the place of its (sort_order, kind)
  NeverSelected,  \* series of kind smart_adjusted or iex_rth
  SessionBound,   \* series of kind sip_rth or iex_rth
  Slots,          \* the bar stamps of the session, extended hours included
  HasGrid,        \* whether the timeframe has a regular-hours grid (5m has)
  Grid,           \* the calendar's regular-hours stamps of the session
  Vals,           \* bar values
  NullVolume,     \* the values without a volume
  NoRow           \* the absence of a row

ASSUME SelectionAssumption ==
  /\ VendorOf \in [Series -> Vendors]
  /\ KindOrder \in [Series -> Nat]
  /\ \A s, u \in Series :
       s # u /\ VendorOf[s] = VendorOf[u] => KindOrder[s] # KindOrder[u]
  /\ NeverSelected \subseteq Series
  /\ SessionBound \subseteq Series
  /\ HasGrid \in BOOLEAN
  /\ Grid \subseteq Slots
  /\ IsFiniteSet(Slots)
  /\ NullVolume \subseteq Vals
  /\ NoRow \notin [val : Vals, served : Nat]
  /\ NoRow \notin [series : Series, val : Vals]

\* A row of ohlcv_raw.  served is served_at, the vendor's answer time; 0 is
\* the NULL of the backfilled rows, older than every answer.
Row == [val : Vals, served : Nat]

\* A row of market_data_ohlcv: the winning raw row's identity and value.
CanonicalRow == [series : Series, val : Vals]

\* A policy row's vendors in selection order: the primary, then the fallback.
Ranking == {r \in UNION {[1..n -> Vendors] : n \in 1..2} :
              \A i, j \in DOMAIN r : r[i] = r[j] => i = j}

-----------------------------------------------------------------------------
\* partition_session: a regular-hours kind is a candidate only on the grid.
OnGrid(s, t) == ~ (HasGrid /\ s \in SessionBound /\ t \notin Grid)

\* The candidates of a slot.
Candidates(raw, t) == {s \in Series : raw[s][t] # NoRow /\ OnGrid(s, t)}

\* The slots of the session with a candidate.
HeldSlots(raw) == {t \in Slots : Candidates(raw, t) # {}}

\* select_slot for one vendor: what it may be chosen from ...
Eligible(raw, v, t) ==
  {s \in Candidates(raw, t) : VendorOf[s] = v /\ s \notin NeverSelected}

\* ... and its best candidate, the kind with the lowest sort order.
Best(raw, v, t) ==
  CHOOSE s \in Eligible(raw, v, t) :
    \A u \in Eligible(raw, v, t) : KindOrder[s] <= KindOrder[u]

\* by_vendor of select_slots: the slots at which a vendor has a candidate.
SlotsOf(raw, v) == {t \in Slots : Eligible(raw, v, t) # {}}

\* The session's slots: those any ranked vendor holds.
SessionSlots(raw, r) == UNION {SlotsOf(raw, r[i]) : i \in DOMAIN r}

\* The slots completeness is judged on: the calendar's, where it has a grid.
Judged(raw, r) ==
  IF HasGrid THEN SessionSlots(raw, r) \cap Grid ELSE SessionSlots(raw, r)

\* The places of the ranking whose vendor holds every judged slot.
CompletePlaces(raw, r) ==
  {i \in DOMAIN r : Judged(raw, r) \subseteq SlotsOf(raw, r[i])}

\* The places whose vendor holds the most judged slots.
FullestPlaces(raw, r) ==
  LET held(i) == Cardinality(Judged(raw, r) \cap SlotsOf(raw, r[i]))
  IN  {i \in DOMAIN r : \A j \in DOMAIN r : held(i) >= held(j)}

\* The vendor the session is taken from: the first complete one, else the
\* first of those that hold the most.
Chosen(raw, r) ==
  LET places == IF CompletePlaces(raw, r) # {} THEN CompletePlaces(raw, r)
                ELSE FullestPlaces(raw, r)
  IN  r[CHOOSE i \in places : \A j \in places : i <= j]

\* SelectionOutcome: the slots with a winner, and the slots whose canonical
\* row is retracted (left out by the session rule, or held but selectable by
\* no ranked vendor).
WinnerSlots(raw, r) ==
  IF SessionSlots(raw, r) = {} THEN {} ELSE SlotsOf(raw, Chosen(raw, r))

RetractedSlots(raw, r) ==
  (SessionSlots(raw, r) \cup HeldSlots(raw)) \ WinnerSlots(raw, r)

Winner(raw, r, t) ==
  LET s == Best(raw, Chosen(raw, r), t)
  IN  [series |-> s, val |-> raw[s][t].val]

-----------------------------------------------------------------------------
\* Mutant of SelectAndWrite: slots left out by the session rule keep the
\* other vendor's bar.
SelectAndWrite_NoRetraction(canonical, raw, r) ==
  [t \in Slots |-> IF t \in WinnerSlots(raw, r) THEN Winner(raw, r, t)
                   ELSE canonical[t]]

\* select_and_write: the canonical rows after selecting the whole session.
\* A winner without a volume is skipped: its slot keeps the row it has.
SelectAndWrite(canonical, raw, r) ==
  [t \in Slots |->
     IF t \in WinnerSlots(raw, r)
       THEN IF Winner(raw, r, t).val \in NullVolume
              THEN canonical[t] ELSE Winner(raw, r, t)
     ELSE IF t \in RetractedSlots(raw, r) THEN NoRow
     ELSE canonical[t]]

\* SessionChoice: how the session was taken.
SessionChoice(raw, r) ==
  [vendor   |-> Chosen(raw, r),
   ranking  |-> r,
   complete |-> CompletePlaces(raw, r) # {},
   dropped  |-> SessionSlots(raw, r) \ SlotsOf(raw, Chosen(raw, r)),
   partial  |-> HasGrid /\ ~ (Grid \subseteq SlotsOf(raw, Chosen(raw, r)))]

\* record_session_choices: the session's bar_session_choice row is upserted
\* when the session was not taken plainly, deleted when it was, and left
\* alone when the session has no candidate.
RecordSessionChoice(old, raw, r) ==
  LET c == SessionChoice(raw, r)
  IN  IF HeldSlots(raw) = {} THEN old
      ELSE IF SessionSlots(raw, r) = {} THEN NoRow
      ELSE IF c.vendor # r[1] \/ ~ c.complete \/ c.partial THEN c
      ELSE NoRow
=============================================================================
