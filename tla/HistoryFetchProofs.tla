------------------------- MODULE HistoryFetchProofs -------------------------
(***************************************************************************)
(* For every number of slots, vendor, chunk size, buffer limit and number  *)
(* of runs and faults: the fetcher keeps its types, its coverage row       *)
(* states exactly the stored bars, no answer hides a bar that did not      *)
(* land, and a request is recorded once.                                   *)
(***************************************************************************)
EXTENDS HistoryFetch, FiniteSetTheorems, WellFoundedInduction, TLAPS

-----------------------------------------------------------------------------
(* Bounds of sets of slots                                                 *)

\* A set of naturals has a least element, and Min is it.
LEMMA MinNat ==
  ASSUME NEW S, S \subseteq Nat, S # {}
  PROVE  Min(S) \in S /\ \A x \in S : Min(S) <= x
<1>1. PICK n \in S : \A k \in S : ~ (<<k, n>> \in OpToRel(<, Nat))
  BY NatLessThanWellFounded, WFMin
<1>2. \A k \in S : n <= k
  <2> SUFFICES ASSUME NEW k \in S PROVE n <= k
    OBVIOUS
  <2>1. k \in Nat /\ n \in Nat
    OBVIOUS
  <2>2. ~ (k < n)
    BY <1>1, <2>1 DEF OpToRel
  <2> QED BY <2>1, <2>2
<1> QED BY <1>2 DEF Min

\* A bounded set of naturals has a greatest element, and Max is it.
LEMMA MaxNat ==
  ASSUME NEW b \in Nat, NEW S, S \subseteq 0..b, S # {}
  PROVE  Max(S) \in S /\ \A x \in S : x <= Max(S)
<1> DEFINE T == {b - x : x \in S}
<1>1. T \subseteq Nat /\ T # {}
  <2>1. \A x \in S : b - x \in Nat
    <3> SUFFICES ASSUME NEW x \in S PROVE b - x \in Nat
      OBVIOUS
    <3>1. x \in 0..b
      OBVIOUS
    <3> QED BY <3>1
  <2>2. PICK x \in S : TRUE
    OBVIOUS
  <2>3. b - x \in T
    BY <2>2
  <2> QED BY <2>1, <2>3
<1>2. Min(T) \in T /\ \A y \in T : Min(T) <= y
  <2> HIDE DEF T
  <2> QED BY <1>1, MinNat
<1>3. PICK m \in S : Min(T) = b - m
  BY <1>2
<1>4. \A x \in S : m >= x
  <2> SUFFICES ASSUME NEW x \in S PROVE m >= x
    OBVIOUS
  <2>1. b - m <= b - x
    BY <1>2, <1>3
  <2> QED BY <2>1
<1>5. Max(S) \in S /\ \A x \in S : Max(S) >= x
  BY <1>4 DEF Max
<1> QED BY <1>5

\* Bounds are unique, so a bound in hand is the bound.
LEMMA MinIs ==
  ASSUME NEW S, S \subseteq Int, NEW m \in S, \A x \in S : m <= x
  PROVE  Min(S) = m
<1>1. Min(S) \in S /\ \A x \in S : Min(S) <= x
  BY DEF Min
<1>2. Min(S) <= m /\ m <= Min(S) /\ m \in Int /\ Min(S) \in Int
  BY <1>1
<1> QED BY <1>2

LEMMA MaxIs ==
  ASSUME NEW S, S \subseteq Int, NEW m \in S, \A x \in S : x <= m
  PROVE  Max(S) = m
<1>1. \A x \in S : m >= x
  OBVIOUS
<1>2. Max(S) \in S /\ \A x \in S : Max(S) >= x
  BY <1>1 DEF Max
<1>3. Max(S) <= m /\ m <= Max(S) /\ m \in Int /\ Max(S) \in Int
  BY <1>2
<1> QED BY <1>3

LEMMA SlotBounds ==
  ASSUME NEW S, S \subseteq Slots, S # {}
  PROVE  /\ Min(S) \in S /\ \A x \in S : Min(S) <= x
         /\ Max(S) \in S /\ \A x \in S : x <= Max(S)
         /\ Min(S) \in Slots /\ Max(S) \in Slots
<1>1. S \subseteq Nat /\ S \subseteq 0..NSlots
  BY FetchAssumption DEF Slots
<1> QED BY <1>1, MinNat, MaxNat, FetchAssumption

LEMMA SlotsFinite ==
  ASSUME NEW S, S \subseteq Slots
  PROVE  IsFiniteSet(S) /\ Cardinality(S) \in Nat
<1>1. 1 \in Int /\ NSlots \in Int
  BY FetchAssumption
<1>2. IsFiniteSet(Slots)
  BY <1>1, FS_Interval DEF Slots
<1>3. IsFiniteSet(S)
  BY <1>2, FS_Subset
<1> QED BY <1>3, FS_CardinalityType

LEMMA AggregateType ==
  ASSUME NEW rows, rows \subseteq Slots
  PROVE  Aggregate(rows) \in CoverType
<1>1. CASE rows = {}
  BY <1>1 DEF Aggregate, CoverType
<1>2. CASE rows # {}
  <2>1. Min(rows) \in Slots /\ Max(rows) \in Slots /\ Cardinality(rows) \in Nat
    BY <1>2, SlotBounds, SlotsFinite
  <2>2. Slots \subseteq Nat
    BY FetchAssumption DEF Slots
  <2> QED BY <1>2, <2>1, <2>2 DEF Aggregate, CoverType
<1> QED BY <1>1, <1>2

-----------------------------------------------------------------------------
(* The coverage row                                                        *)

\* upsert_coverage keeps the row the aggregate of the stored slots, whether
\* the chunk brought new slots or only repeated stored ones.
LEMMA WidenedIsAggregate ==
  ASSUME NEW old, old \subseteq Slots, NEW rows, rows \subseteq Slots, rows # {}
  PROVE  Widened(Aggregate(old), rows, rows \ old) = Aggregate(old \cup rows)
<1> DEFINE new == rows \ old
           all == old \cup rows
           slots == IF new = {} THEN rows ELSE new
           c == Aggregate(old)
           below == slots \cup (IF c.first = 0 THEN {} ELSE {c.first})
           above == slots \cup {c.last}
<1>1. all \subseteq Slots /\ all # {} /\ slots \subseteq Slots /\ slots # {}
      /\ new \subseteq Slots
  OBVIOUS
<1>2. Slots \subseteq Int /\ 0 \notin Slots /\ \A t \in Slots : 0 <= t
  BY FetchAssumption DEF Slots
<1>3. Widened(c, rows, new) =
        [n |-> c.n + Cardinality(new), first |-> Min(below), last |-> Max(above)]
  BY DEF Widened, Bounded
<1>4. Aggregate(all) = [n |-> Cardinality(all), first |-> Min(all), last |-> Max(all)]
  BY <1>1 DEF Aggregate
<1>5. c.n + Cardinality(new) = Cardinality(all)
  <2>1. c.n = Cardinality(old)
    BY FS_EmptySet DEF Aggregate
  <2>2. all = old \cup new /\ old \cap new = {}
    OBVIOUS
  <2>3. IsFiniteSet(old) /\ IsFiniteSet(new) /\ Cardinality(old) \in Nat
        /\ Cardinality(new) \in Nat
    BY <1>1, SlotsFinite
  <2>4. Cardinality(old \cup new) =
          Cardinality(old) + Cardinality(new) - Cardinality(old \cap new)
    <3> HIDE DEF new
    <3> QED BY <2>3, FS_Union
  <2>5. Cardinality(old \cap new) = 0
    BY <2>2, FS_EmptySet
  <2> HIDE DEF new, all, c
  <2> QED BY <2>1, <2>2, <2>3, <2>4, <2>5
<1>6. CASE old = {}
  <2>1. c.first = 0 /\ c.last = 0 /\ slots = all /\ below = all /\ above = all \cup {0}
    BY <1>6 DEF Aggregate
  <2>2. Max(all) \in all /\ \A t \in all : t <= Max(all)
    BY <1>1, SlotBounds
  <2>3. \A t \in above : t <= Max(all)
    <3> HIDE DEF all, above
    <3> QED BY <1>1, <1>2, <2>1, <2>2
  <2>4. Max(above) = Max(all)
    <3>1. above \subseteq Int /\ Max(all) \in above
      <4> HIDE DEF all, above
      <4> QED BY <1>1, <1>2, <2>1, <2>2
    <3> HIDE DEF above, all
    <3> QED BY <2>3, <3>1, MaxIs
  <2> QED BY <1>3, <1>4, <1>5, <2>1, <2>4
<1>7. CASE old # {}
  <2>1. c.first = Min(old) /\ c.last = Max(old)
    BY <1>7 DEF Aggregate
  <2>2. /\ Min(old) \in old /\ \A x \in old : Min(old) <= x
        /\ Max(old) \in old /\ \A x \in old : x <= Max(old)
        /\ Min(old) \in Slots /\ Max(old) \in Slots
    BY <1>7, SlotBounds
  <2>3. below = slots \cup {Min(old)} /\ above = slots \cup {Max(old)}
    BY <1>2, <2>1, <2>2
  <2>4. below \subseteq all /\ above \subseteq all /\ below # {} /\ above # {}
    BY <2>2, <2>3
  <2>5. \A x \in all : x \in old \/ x \in slots
    OBVIOUS
  <2>6. /\ Min(below) \in below /\ \A x \in below : Min(below) <= x
        /\ Max(above) \in above /\ \A x \in above : x <= Max(above)
        /\ Min(below) \in Slots /\ Max(above) \in Slots
    <3>1. below \subseteq Slots /\ above \subseteq Slots
      BY <1>1, <2>4
    <3> HIDE DEF below, above
    <3> QED BY <2>4, <3>1, SlotBounds
  <2>7. Min(all) = Min(below)
    <3>1. \A x \in all : Min(below) <= x
      <4> SUFFICES ASSUME NEW x \in all PROVE Min(below) <= x
        OBVIOUS
      <4>1. Min(below) <= Min(old) /\ (x \in slots => Min(below) <= x)
        <5> HIDE DEF below, slots
        <5> QED BY <2>3, <2>6
      <4>2. x \in old => Min(old) <= x
        BY <2>2
      <4>3. x \in Int /\ Min(below) \in Int /\ Min(old) \in Int
        BY <1>1, <1>2, <2>2, <2>6
      <4> HIDE DEF below, slots, all
      <4> QED BY <2>5, <4>1, <4>2, <4>3
    <3>2. Min(below) \in all /\ all \subseteq Int
      BY <1>1, <1>2, <2>4, <2>6
    <3> HIDE DEF below, all
    <3> QED BY <3>1, <3>2, MinIs
  <2>8. Max(all) = Max(above)
    <3>1. \A x \in all : x <= Max(above)
      <4> SUFFICES ASSUME NEW x \in all PROVE x <= Max(above)
        OBVIOUS
      <4>1. Max(old) <= Max(above) /\ (x \in slots => x <= Max(above))
        <5> HIDE DEF above, slots
        <5> QED BY <2>3, <2>6
      <4>2. x \in old => x <= Max(old)
        BY <2>2
      <4>3. x \in Int /\ Max(above) \in Int /\ Max(old) \in Int
        BY <1>1, <1>2, <2>2, <2>6
      <4> HIDE DEF above, slots, all
      <4> QED BY <2>5, <4>1, <4>2, <4>3
    <3>2. Max(above) \in all /\ all \subseteq Int
      BY <1>1, <1>2, <2>4, <2>6
    <3> HIDE DEF above, all
    <3> QED BY <3>1, <3>2, MaxIs
  <2> HIDE DEF new, all, slots, c, below, above
  <2> QED BY <1>3, <1>4, <1>5, <2>7, <2>8 DEF new, all, c
<1> QED BY <1>6, <1>7

-----------------------------------------------------------------------------
(* The walk                                                                *)

LEMMA WindowBounds ==
  ASSUME TypeOK, item.todo # {}
  PROVE  /\ Window \subseteq item.todo /\ Window # {} /\ Window \subseteq Slots
         /\ Max(Window) \in Slots /\ RowStart \in Slots /\ RowStart <= Max(Window)
<1>1. item.todo \subseteq Slots
  BY DEF TypeOK, Items
<1>2. Min(item.todo) \in item.todo /\ Min(item.todo) \in Slots
  BY <1>1, SlotBounds
<1>3. Min(item.todo) .. Min(item.todo) \subseteq item.todo
  BY <1>2, FetchAssumption DEF Slots
<1>4. Window \subseteq item.todo /\ Window # {}
  BY <1>2, <1>3 DEF Window
<1> DEFINE lo == Min(Window)
           hi == Max(Window)
           edge == hi - MaxChunk + 2
<1>5. lo \in Slots /\ hi \in Slots /\ lo <= hi
  BY <1>1, <1>4, SlotBounds
<1>6. edge \in Int /\ edge <= hi /\ lo \in Int
  BY <1>5, FetchAssumption DEF Slots
<1>7. RowStart = IF edge <= lo THEN lo ELSE edge
  <2>1. RowStart = Max({edge, lo})
    BY DEF RowStart
  <2>2. CASE edge <= lo
    <3>1. \A x \in {edge, lo} : x <= lo
      BY <1>6, <2>2
    <3> HIDE DEF edge, lo
    <3> QED BY <1>6, <2>1, <2>2, <3>1, MaxIs
  <2>3. CASE ~(edge <= lo)
    <3>1. \A x \in {edge, lo} : x <= edge
      BY <1>6, <2>3
    <3> HIDE DEF edge, lo
    <3> QED BY <1>6, <2>1, <2>3, <3>1, MaxIs
  <2> QED BY <2>2, <2>3
<1>8. RowStart \in Slots /\ RowStart <= hi
  <2> HIDE DEF edge, lo, hi
  <2> QED BY <1>5, <1>6, <1>7, FetchAssumption DEF Slots
<1> QED BY <1>1, <1>4, <1>5, <1>8

\* A request row is typed and asks for no slot that its answer leaves out.
LEMMA RowFacts ==
  ASSUME TypeOK, item.todo # {}, NEW o \in Outcomes
  PROVE  /\ Row(o) \in Requests
         /\ Row(o).id = asked + 1 /\ Row(o).outcome = o /\ Row(o).partial = {}
         /\ Holds \cap (Row(o).lo .. Row(o).hi) \subseteq Served
<1>1. Max(Window) \in Slots /\ RowStart \in Slots
  BY WindowBounds
<1>2. asked + 1 \in Nat
  BY DEF TypeOK
<1>3. Row(o) = [id |-> asked + 1, lo |-> RowStart, hi |-> Max(Window), outcome |-> o,
                partial |-> {}]
  BY DEF Row
<1>4. Row(o) \in Requests
  BY <1>1, <1>2, <1>3 DEF Requests
<1>5. RowStart .. Max(Window) \subseteq RowStart - 1 .. Max(Window)
  BY <1>1, FetchAssumption DEF Slots
<1> QED BY <1>3, <1>4, <1>5 DEF Served

LEMMA PlanTyped ==
  ASSUME TypeOK, NEW full \in BOOLEAN
  PROVE  Plan(full) \subseteq Expected /\ Plan(full) \subseteq Slots
<1>1. now \in Nat /\ now <= NSlots /\ NSlots \in Nat
  BY FetchAssumption DEF TypeOK, Slots
<1>2. Expected \subseteq Slots
  BY <1>1 DEF Expected, Slots
<1>3. \A t \in Windows(Gaps) : t \in Expected
  <2> SUFFICES ASSUME NEW t \in Windows(Gaps) PROVE t \in Expected
    OBVIOUS
  <2>1. PICK b \in Gaps : t <= b /\ t \in Slots
    BY DEF Windows
  <2>2. b \in 1..now
    BY DEF Gaps, Expected
  <2> QED BY <1>1, <2>1, <2>2 DEF Expected, Slots
<1> QED BY <1>2, <1>3 DEF Plan

\* An item left with fewer slots is an item.
LEMMA ItemTyped ==
  ASSUME TypeOK
  PROVE  /\ WindowFails \in Items /\ WindowFails.todo \subseteq item.todo
         /\ ChunkDone \in Items /\ ChunkDone.todo \subseteq item.todo
         /\ ChunkDone = [item EXCEPT !.todo = @ \ Chunk]
         /\ NoItem \in Items /\ NoItem.todo = {}
BY DEF TypeOK, Items, WindowFails, ChunkDone, NoItem

-----------------------------------------------------------------------------
(* The request rows                                                        *)

\* The rows of the ledger l and the buffer b: given out up to n, one row per
\* id, and in both only if a commit was not seen.
Recorded(l, b, n, u) ==
  /\ \A r \in l \cup b : r.id <= n
  /\ \A q \in l \cup b : \A r \in l \cup b : q.id = r.id => q = r
  /\ Ids(b) \cap Ids(l) # {} => u

\* What a flush of the rows b may leave behind.
WellFlushed(s, b, l, n) ==
  /\ Recorded(s.ledger, s.buffer, n, s.unknown)
  /\ s.buffer \subseteq b /\ s.ledger \subseteq l \cup b
  /\ s.unknown \in BOOLEAN /\ s.raised \in BOOLEAN
  /\ ~s.raised => s.buffer = {}

\* However a flush ends, no row is invented, none is left in the buffer unless
\* it raised, and the ids stay in order.
LEMMA FlushKeepsIds ==
  ASSUME NEW b, NEW l, NEW u \in BOOLEAN, NEW n, Recorded(l, b, n, u),
         NEW s \in FlushResults(Sink(b, l, u, FALSE))
  PROVE  WellFlushed(s, b, l, n)
<1> SUFFICES /\ Recorded(s.ledger, s.buffer, n, s.unknown)
             /\ s.buffer \subseteq b /\ s.ledger \subseteq l \cup b
             /\ s.unknown \in BOOLEAN /\ s.raised \in BOOLEAN
             /\ ~s.raised => s.buffer = {}
  BY DEF WellFlushed
<1> DEFINE old == Sink(b, l, u, FALSE)
           fresh == FreshRows(old)
<1>1. old.buffer = b /\ old.ledger = l /\ old.unknown = u
  BY DEF Sink
<1> HIDE DEF old
<1>2. fresh \subseteq b
  BY <1>1 DEF FreshRows
<1> HIDE DEF fresh
<1>3. CASE s = Flushed(old)
  <2>1. s = Sink({}, l \cup fresh, FALSE, FALSE)
    BY <1>1, <1>3 DEF Flushed, fresh
  <2>2. s.buffer = {} /\ s.ledger = l \cup fresh /\ s.unknown = FALSE /\ s.raised = FALSE
    BY <2>1 DEF Sink
  <2> QED BY <1>2, <2>2 DEF Recorded, Ids
<1>4. CASE s \in FlushFails(old)
  <2>1. PICK c \in {b, fresh} : s = Sink(c, l, u, TRUE)
    BY <1>1, <1>4 DEF FlushFails, fresh
  <2>2. s.buffer = c /\ s.ledger = l /\ s.unknown = u /\ s.raised = TRUE
    BY <2>1 DEF Sink
  <2>3. c \subseteq b
    BY <1>2, <2>1
  <2>4. Ids(c) \subseteq Ids(b)
    BY <2>3 DEF Ids
  <2> QED BY <2>2, <2>3, <2>4 DEF Recorded
<1>5. CASE s \in FlushLost(old)
  <2>1. PICK w \in {l, l \cup fresh} : s = Sink(fresh, w, TRUE, TRUE)
    BY <1>1, <1>5 DEF FlushLost, fresh
  <2>2. s.buffer = fresh /\ s.ledger = w /\ s.unknown = TRUE /\ s.raised = TRUE
    BY <2>1 DEF Sink
  <2>3. w \subseteq l \cup b /\ w \cup fresh \subseteq l \cup b
    BY <1>2, <2>1
  <2>4. Recorded(w, fresh, n, TRUE)
    BY <2>3 DEF Recorded
  <2> QED BY <1>2, <2>2, <2>3, <2>4
<1>6. s = Flushed(old) \/ s \in FlushFails(old) \/ s \in FlushLost(old)
  BY DEF FlushResults, old
<1> QED BY <1>3, <1>4, <1>5, <1>6

\* The next request's row is a row of its own.
LEMMA NewRowKeepsIds ==
  ASSUME NEW b, NEW l, NEW u \in BOOLEAN, NEW n \in Nat, Recorded(l, b, n, u),
         l \subseteq Requests, b \subseteq Requests,
         NEW r \in Requests, r.id = n + 1
  PROVE  /\ Recorded(l, b \cup {r}, n + 1, u)
         /\ r.id \notin Ids(l) /\ r.id \notin Ids(b)
<1>1. \A q \in l \cup b : q.id \in Nat /\ q.id <= n
  BY DEF Recorded, Requests
<1>2. \A q \in l \cup b : q.id # n + 1 /\ q.id <= n + 1
  BY <1>1
<1>3. r.id \notin Ids(l) /\ r.id \notin Ids(b)
  BY <1>2 DEF Ids
<1>4. Ids(b \cup {r}) = Ids(b) \cup {r.id}
  BY DEF Ids
<1>5. Ids(b \cup {r}) \cap Ids(l) = Ids(b) \cap Ids(l)
  BY <1>3, <1>4
<1>6. \A q \in l \cup (b \cup {r}) : q.id <= n + 1
  BY <1>2
<1>7. \A p \in l \cup (b \cup {r}) : \A q \in l \cup (b \cup {r}) : p.id = q.id => p = q
  BY <1>2 DEF Recorded
<1> QED BY <1>3, <1>5, <1>6, <1>7 DEF Recorded

\* note_partial changes one row and no id.
LEMMA NotedFacts ==
  ASSUME TypeOK
  PROVE  /\ Noted \subseteq Requests /\ Ids(Noted) = Ids(buffer)
         /\ \A r \in Noted : \E q \in buffer :
              /\ r.id = q.id /\ r.lo = q.lo /\ r.hi = q.hi /\ r.outcome = q.outcome
              /\ r = IF q.id = item.req THEN [q EXCEPT !.partial = item.partial] ELSE q
         /\ \A r \in Noted : r.id = item.req => r.partial = item.partial
<1>1. buffer \subseteq Requests /\ item.partial \subseteq Slots
  BY DEF TypeOK, Items
<1>2. \A q \in buffer :
        LET r == IF q.id = item.req THEN [q EXCEPT !.partial = item.partial] ELSE q
        IN  /\ r \in Requests /\ r.id = q.id /\ r.lo = q.lo /\ r.hi = q.hi
            /\ r.outcome = q.outcome
            /\ q.id = item.req => r.partial = item.partial
  BY <1>1 DEF Requests
<1>3. \A r \in Noted : \E q \in buffer :
        r = IF q.id = item.req THEN [q EXCEPT !.partial = item.partial] ELSE q
  BY DEF Noted
<1>4. \A q \in buffer :
        (IF q.id = item.req THEN [q EXCEPT !.partial = item.partial] ELSE q) \in Noted
  BY DEF Noted
<1>5. Ids(Noted) \subseteq Ids(buffer)
  BY <1>2, <1>3 DEF Ids
<1>6. Ids(buffer) \subseteq Ids(Noted)
  BY <1>2, <1>4 DEF Ids
<1>7. \A r \in Noted : r \in Requests
  BY <1>2, <1>3
<1>8. ASSUME NEW r \in Noted
      PROVE  \E q \in buffer :
               /\ r.id = q.id /\ r.lo = q.lo /\ r.hi = q.hi /\ r.outcome = q.outcome
               /\ r = IF q.id = item.req THEN [q EXCEPT !.partial = item.partial] ELSE q
               /\ r.id = item.req => r.partial = item.partial
  <2>1. PICK q \in buffer :
          r = IF q.id = item.req THEN [q EXCEPT !.partial = item.partial] ELSE q
    BY <1>3
  <2>2. /\ r.id = q.id /\ r.lo = q.lo /\ r.hi = q.hi /\ r.outcome = q.outcome
        /\ q.id = item.req => r.partial = item.partial
    BY <1>2, <2>1
  <2> QED BY <2>1, <2>2
<1> QED BY <1>5, <1>6, <1>7, <1>8

-----------------------------------------------------------------------------
(* The inductive invariant                                                 *)

\* What the rebuild read is still what is stored when it writes.
CoverInv == CoverageIsExact /\ (lock = "rebuild" => snap = Aggregate(raw))

\* The row hides no bar: nothing was held where it says so, and what was held
\* is stored or noted as partial, unless the row met a full buffer.
Honest(r, stored, ids) ==
  LET held == Holds \cap (r.lo .. r.hi)
  IN  /\ r.outcome = "no_data" => held = {}
      /\ r.outcome = "bars" => r.id \in ids \/ held \subseteq stored \cup r.partial

\* The row's bars are with the persister.
Awaited(r) == pc = "answered" /\ r.id = item.req

\* Every written row is honest, and so is every buffered one but the one whose
\* bars are being persisted; that one is taken off the buffer with them.
HonestInv ==
  /\ \A r \in ledger : Honest(r, raw, early)
  /\ \A r \in buffer : Honest(r, raw, early) \/ Awaited(r)
  /\ \A r \in buffer : Awaited(r) =>
       r.outcome = "bars" /\ Holds \cap (r.lo .. r.hi) \subseteq item.bars
  /\ pc = "answered" => item.req \in item.rids

IdInv ==
  /\ Recorded(ledger, buffer, asked, unknown)
  /\ pc = "answered" /\ item.req \in Ids(buffer) => item.req \notin Ids(ledger)

FetchInv == TypeOK /\ CoverInv /\ HonestInv /\ IdInv

\* More stored bars and more early rows leave a row honest.
LEMMA HonestGrows ==
  ASSUME NEW r, NEW s, NEW t, NEW i, NEW j, s \subseteq t, i \subseteq j, Honest(r, s, i)
  PROVE  Honest(r, t, j)
BY DEF Honest

LEMMA InitInv == Init => FetchInv
<1> SUFFICES ASSUME Init PROVE FetchInv
  OBVIOUS
<1>1. Aggregate({}) \in CoverType
  BY AggregateType
<1>2. NoItem \in Items /\ NoItem.todo = {}
  BY DEF NoItem, Items
<1>3. TypeOK
  <2>1. unknown \in BOOLEAN
    BY DEF Init
  <2> QED BY <1>1, <1>2, <2>1 DEF Init, TypeOK
<1> QED BY <1>3 DEF Init, FetchInv, CoverInv, CoverageIsExact, HonestInv, IdInv, Recorded,
                    Ids, Awaited

\* Steps outside the persister that write no row.
LEMMA Quiet ==
  ASSUME FetchInv, TypeOK', UNCHANGED <<raw, cover, ledger, early, asked>>,
         buffer' \subseteq buffer, buffer' = {} \/ unknown' = unknown,
         pc' # "answered",
         buffer' = {} \/ pc # "answered" \/ item.req \notin Ids(buffer),
         lock' = "rebuild" => lock = "rebuild" /\ snap' = snap
  PROVE  FetchInv'
<1>1. CoverInv'
  BY DEF FetchInv, CoverInv, CoverageIsExact
<1>2. \A r \in buffer' : ~Awaited(r)
  BY DEF Awaited, Ids
<1>3. HonestInv'
  <2>1. \A r \in buffer' : Honest(r, raw, early)
    BY <1>2 DEF FetchInv, HonestInv
  <2>2. \A r \in ledger : Honest(r, raw, early)
    BY DEF FetchInv, HonestInv
  <2> QED BY <2>1, <2>2 DEF HonestInv, Awaited
<1>4. Recorded(ledger', buffer', asked', unknown')
  <2>1. Recorded(ledger, buffer, asked, unknown)
    BY DEF FetchInv, IdInv
  <2>2. Ids(buffer') \subseteq Ids(buffer) /\ (buffer' = {} => Ids(buffer') = {})
    BY DEF Ids
  <2> QED BY <2>1, <2>2 DEF Recorded
<1>5. IdInv'
  BY <1>4 DEF IdInv
<1> QED BY <1>1, <1>3, <1>5 DEF FetchInv

LEMMA TickKeeps == FetchInv /\ Tick => FetchInv'
<1> SUFFICES ASSUME FetchInv, Tick PROVE FetchInv'
  OBVIOUS
<1>1. TypeOK'
  <2>1. now' \in Slots /\ Expected \subseteq Expected'
    BY FetchAssumption DEF FetchInv, Tick, TypeOK, Slots, Expected
  <2> QED BY <2>1 DEF FetchInv, Tick, TypeOK, db, counters
<1> QED BY <1>1, Quiet DEF Tick, db, counters

LEMMA StartRunKeeps == FetchInv /\ StartRun => FetchInv'
<1> SUFFICES ASSUME FetchInv, StartRun PROVE FetchInv'
  OBVIOUS
<1>1. unknown' \in BOOLEAN
  BY DEF StartRun
<1>2. TypeOK'
  BY <1>1 DEF FetchInv, StartRun, TypeOK, db, Expected
<1> QED BY <1>2, Quiet DEF StartRun, db

LEMMA NewItemTyped ==
  ASSUME NEW t \in SUBSET Slots, NEW f \in BOOLEAN, NEW n \in Nat
  PROVE  /\ [NoItem EXCEPT !.todo = t, !.full = f, !.attempt = n] \in Items
         /\ [NoItem EXCEPT !.todo = t, !.full = f, !.attempt = n].todo = t
BY DEF NoItem, Items

LEMMA TakeItemKeeps == ASSUME FetchInv, NEW full \in BOOLEAN, TakeItem(full) PROVE FetchInv'
<1>1. Plan(full) \subseteq Expected /\ Plan(full) \subseteq Slots
  BY PlanTyped DEF FetchInv
<1>2. item' \in Items /\ item'.todo = Plan(full)
  <2>1. item' = [NoItem EXCEPT !.todo = Plan(full), !.full = full, !.attempt = 1]
    BY DEF TakeItem
  <2>2. 1 \in Nat
    OBVIOUS
  <2> QED BY <1>1, <2>1, <2>2, NewItemTyped
<1>3. TypeOK'
  BY <1>1, <1>2 DEF FetchInv, TakeItem, TypeOK, db, counters, Expected
<1> QED BY <1>3, Quiet DEF TakeItem, db, counters

LEMMA ReplanKeeps == FetchInv /\ Replan => FetchInv'
<1> SUFFICES ASSUME FetchInv, Replan PROVE FetchInv'
  OBVIOUS
<1>1. item.full \in BOOLEAN /\ item.attempt \in Nat
  BY DEF FetchInv, TypeOK, Items
<1>2. Plan(item.full) \subseteq Expected /\ Plan(item.full) \subseteq Slots
  BY <1>1, PlanTyped DEF FetchInv
<1>3. item' \in Items /\ item'.todo = Plan(item.full)
  <2>1. item.attempt + 1 \in Nat
    BY <1>1
  <2> QED BY <1>1, <1>2, <2>1, NewItemTyped DEF Replan
<1>4. TypeOK'
  BY <1>2, <1>3 DEF FetchInv, Replan, TypeOK, db, counters, Expected
<1> QED BY <1>4, Quiet DEF Replan, db, counters

LEMMA DeferItemKeeps == FetchInv /\ DeferItem => FetchInv'
<1> SUFFICES ASSUME FetchInv, DeferItem PROVE FetchInv'
  OBVIOUS
<1>1. TypeOK'
  BY DEF FetchInv, DeferItem, TypeOK, db, counters, Expected
<1> QED BY <1>1, Quiet DEF DeferItem, db, counters

LEMMA QualifyFailsKeeps == FetchInv /\ QualifyFails => FetchInv'
<1> SUFFICES ASSUME FetchInv, QualifyFails PROVE FetchInv'
  OBVIOUS
<1>1. item' \in Items /\ item'.todo = {}
  BY DEF QualifyFails, NoItem, Items
<1>2. TypeOK'
  BY <1>1 DEF FetchInv, QualifyFails, Fault, TypeOK, db, Expected
<1> QED BY <1>2, Quiet DEF QualifyFails, db

LEMMA NoteFailsKeeps == FetchInv /\ NoteFails => FetchInv'
<1> SUFFICES ASSUME FetchInv, NoteFails PROVE FetchInv'
  OBVIOUS
<1>1. item' \in Items /\ item'.todo \subseteq item.todo
  BY ItemTyped DEF FetchInv, NoteFails
<1>2. TypeOK'
  BY <1>1 DEF FetchInv, NoteFails, TypeOK, db, counters, Expected
<1> QED BY <1>2, Quiet DEF NoteFails, db, counters

LEMMA IntakeStallKeeps == FetchInv /\ IntakeStall => FetchInv'
<1> SUFFICES ASSUME FetchInv, IntakeStall PROVE FetchInv'
  OBVIOUS
<1>1. TypeOK'
  BY DEF FetchInv, IntakeStall, Fault, TypeOK, db, Expected
<1> QED BY <1>1, Quiet DEF IntakeStall, db

LEMMA RecordKeeps == FetchInv /\ (RecordOutcome \/ RecordFails) => FetchInv'
<1> SUFFICES ASSUME FetchInv, RecordOutcome \/ RecordFails PROVE FetchInv'
  OBVIOUS
<1>1. CASE RecordOutcome
  <2>1. fails' \in Nat
    BY <1>1 DEF FetchInv, TypeOK, RecordOutcome
  <2>2. TypeOK'
    BY <1>1, <2>1 DEF FetchInv, RecordOutcome, TypeOK, counters, Expected
  <2> QED BY <1>1, <2>2, Quiet DEF RecordOutcome, counters
<1>2. CASE RecordFails
  <2>1. TypeOK'
    BY <1>2 DEF FetchInv, RecordFails, Fault, TypeOK, db, Expected
  <2> QED BY <1>2, <2>1, Quiet DEF RecordFails, db
<1> QED BY <1>1, <1>2

LEMMA DieKeeps == FetchInv /\ DieWithBuffer => FetchInv'
<1> SUFFICES ASSUME FetchInv, DieWithBuffer PROVE FetchInv'
  OBVIOUS
<1>1. item' \in Items /\ item'.todo = {}
  BY ItemTyped DEF FetchInv, DieWithBuffer, EndRun
<1>2. unknown' \in BOOLEAN
  BY DEF DieWithBuffer
<1>3. TypeOK'
  BY <1>1, <1>2 DEF FetchInv, DieWithBuffer, EndRun, Fault, TypeOK, db, Expected
<1> QED BY <1>3, Quiet DEF DieWithBuffer, EndRun, db

-----------------------------------------------------------------------------
(* The rebuild, and the counter of failures                                *)

\* Steps that leave the fetcher and its rows alone.
LEMMA Aside ==
  ASSUME FetchInv, TypeOK', CoverInv',
         UNCHANGED <<raw, ledger, buffer, unknown, pc, item, early, asked>>
  PROVE  FetchInv'
BY DEF FetchInv, HonestInv, IdInv, Awaited

LEMMA RebuildReadsKeeps == FetchInv /\ RebuildReads => FetchInv'
<1> SUFFICES ASSUME FetchInv, RebuildReads PROVE FetchInv'
  OBVIOUS
<1>1. snap' \in CoverType
  BY AggregateType DEF FetchInv, TypeOK, RebuildReads
<1>2. TypeOK'
  BY <1>1 DEF FetchInv, RebuildReads, MayRebuild, TypeOK, db, Expected
<1>3. CoverInv'
  BY DEF FetchInv, CoverInv, CoverageIsExact, RebuildReads, db
<1> QED BY <1>2, <1>3, Aside DEF RebuildReads, db

\* The lock keeps what the rebuild read true until it is written.
LEMMA RebuildWritesKeeps ==
  ASSUME FetchInv, NEW commits \in BOOLEAN, RebuildWrites(commits) PROVE FetchInv'
<1>1. cover' = Aggregate(raw) /\ raw' = raw /\ lock' = "free" /\ snap' = snap
  BY DEF FetchInv, CoverInv, CoverageIsExact, RebuildWrites
<1>2. cover' \in CoverType
  BY <1>1, AggregateType DEF FetchInv, TypeOK
<1>3. TypeOK'
  BY <1>2 DEF FetchInv, RebuildWrites, TypeOK, counters, Expected
<1>4. CoverInv'
  BY <1>1 DEF CoverInv, CoverageIsExact
<1> QED BY <1>3, <1>4, Aside DEF RebuildWrites, counters

LEMMA ResetFailuresKeeps == FetchInv /\ ResetFailures => FetchInv'
<1> SUFFICES ASSUME FetchInv, ResetFailures PROVE FetchInv'
  OBVIOUS
<1>1. TypeOK'
  BY DEF FetchInv, ResetFailures, TypeOK, counters, Expected
<1>2. CoverInv'
  BY DEF FetchInv, CoverInv, CoverageIsExact, ResetFailures
<1> QED BY <1>1, <1>2, Aside DEF ResetFailures, counters

LEMMA StutterKeeps == FetchInv /\ UNCHANGED vars => FetchInv'
<1> SUFFICES ASSUME FetchInv, UNCHANGED vars PROVE FetchInv'
  OBVIOUS
<1>1. TypeOK'
  BY DEF FetchInv, vars, TypeOK, db, counters, Expected
<1>2. CoverInv'
  BY DEF FetchInv, CoverInv, CoverageIsExact, vars, db
<1> QED BY <1>1, <1>2, Aside DEF vars, db

-----------------------------------------------------------------------------
(* Steps that write request rows                                           *)

\* The rows b, all honest, are buffered or flushed.
LEMMA SinkStep ==
  ASSUME FetchInv, TypeOK', pc' # "answered", UNCHANGED <<raw, cover>>,
         early \subseteq early',
         NEW b, \A r \in b : Honest(r, raw, early'),
         ledger' \subseteq ledger \cup b, buffer' \subseteq b,
         Recorded(ledger', buffer', asked', unknown'),
         lock' # "rebuild"
  PROVE  FetchInv'
<1>1. CoverInv'
  BY DEF FetchInv, CoverInv, CoverageIsExact
<1>2. \A r \in ledger : Honest(r, raw, early')
  BY HonestGrows DEF FetchInv, HonestInv
<1>3. HonestInv'
  BY <1>2 DEF HonestInv, Awaited
<1>4. IdInv'
  BY DEF IdInv
<1> QED BY <1>1, <1>3, <1>4 DEF FetchInv

\* Outside the persister every buffered row is honest.
LEMMA BufferHonest ==
  ASSUME FetchInv, pc # "answered", NEW ids, early \subseteq ids
  PROVE  \A r \in buffer : Honest(r, raw, ids)
BY HonestGrows DEF FetchInv, HonestInv, Awaited

\* Flushing the buffer as it is.
LEMMA PlainFlush ==
  ASSUME FetchInv, NEW s \in FlushResults(Sink(buffer, ledger, unknown, FALSE))
  PROVE  /\ Recorded(s.ledger, s.buffer, asked, s.unknown)
         /\ s.buffer \subseteq buffer /\ s.ledger \subseteq ledger \cup buffer
         /\ s.unknown \in BOOLEAN /\ s.raised \in BOOLEAN
<1>1. Recorded(ledger, buffer, asked, unknown) /\ unknown \in BOOLEAN
  BY DEF FetchInv, IdInv, TypeOK
<1>2. WellFlushed(s, buffer, ledger, asked)
  BY <1>1, FlushKeepsIds
<1> QED BY <1>2 DEF WellFlushed

LEMMA ItemFlushKeeps == FetchInv /\ ItemFlush => FetchInv'
<1> SUFFICES ASSUME FetchInv, ItemFlush PROVE FetchInv'
  OBVIOUS
<1>1. PICK s \in FlushResults(Sink(buffer, ledger, unknown, FALSE)) :
        UseSink(s) /\ Fault(s.raised) /\ item' = [item EXCEPT !.bad = @ \/ s.raised]
  BY DEF ItemFlush
<1>2. /\ Recorded(s.ledger, s.buffer, asked, s.unknown)
      /\ s.buffer \subseteq buffer /\ s.ledger \subseteq ledger \cup buffer
      /\ s.unknown \in BOOLEAN /\ s.raised \in BOOLEAN
  BY PlainFlush
<1>3. buffer' = s.buffer /\ ledger' = s.ledger /\ unknown' = s.unknown
  BY <1>1 DEF UseSink
<1>4. item' \in Items /\ item'.todo = item.todo
  BY <1>1, <1>2 DEF FetchInv, TypeOK, Items
<1>5. faults' \in Nat
  BY <1>1 DEF FetchInv, TypeOK, Fault
<1>6. TypeOK'
  BY <1>2, <1>3, <1>4, <1>5 DEF FetchInv, TypeOK, ItemFlush, Expected
<1>7. \A r \in buffer : Honest(r, raw, early)
  BY BufferHonest DEF ItemFlush
<1>8. lock' # "rebuild" /\ pc' # "answered" /\ UNCHANGED <<raw, cover, early, asked>>
  BY DEF ItemFlush, FetchInv, TypeOK
<1> QED BY <1>2, <1>3, <1>6, <1>7, <1>8, SinkStep

LEMMA StallKeeps ==
  ASSUME FetchInv, NEW reconnected \in BOOLEAN, Stall(reconnected) PROVE FetchInv'
<1>1. PICK s \in FlushResults(Sink(buffer, ledger, unknown, FALSE)) :
        /\ UseSink(s)
        /\ \/ pc' = "replan" /\ item' = [item EXCEPT !.todo = {}]
           \/ /\ pc' \in {"record", "teardown"}
              /\ item' = [NoItem EXCEPT !.bad = TRUE]
  BY DEF Stall
<1>2. /\ Recorded(s.ledger, s.buffer, asked, s.unknown)
      /\ s.buffer \subseteq buffer /\ s.ledger \subseteq ledger \cup buffer
      /\ s.unknown \in BOOLEAN /\ s.raised \in BOOLEAN
  BY PlainFlush
<1>3. buffer' = s.buffer /\ ledger' = s.ledger /\ unknown' = s.unknown
  BY <1>1 DEF UseSink
<1>4. item' \in Items /\ item'.todo = {}
  <2>1. CASE item' = [item EXCEPT !.todo = {}]
    BY <2>1 DEF FetchInv, TypeOK, Items
  <2>2. CASE item' = [NoItem EXCEPT !.bad = TRUE]
    BY <2>2 DEF Items, NoItem
  <2> QED BY <1>1, <2>1, <2>2
<1>5. TypeOK'
  BY <1>1, <1>2, <1>3, <1>4 DEF FetchInv, TypeOK, Stall, Fault, Expected
<1>6. \A r \in buffer : Honest(r, raw, early)
  BY BufferHonest DEF Stall
<1>7. lock' # "rebuild" /\ pc' # "answered" /\ UNCHANGED <<raw, cover, early, asked>>
  BY <1>1 DEF Stall, FetchInv, TypeOK
<1> QED BY <1>2, <1>3, <1>5, <1>6, <1>7, SinkStep

LEMMA TeardownKeeps == FetchInv /\ Teardown => FetchInv'
<1> SUFFICES ASSUME FetchInv, Teardown PROVE FetchInv'
  OBVIOUS
<1>1. PICK s \in FlushResults(Sink(buffer, ledger, unknown, FALSE)) :
        ledger' = s.ledger /\ Fault(s.raised)
  BY DEF Teardown
<1>2. /\ Recorded(s.ledger, s.buffer, asked, s.unknown)
      /\ s.ledger \subseteq ledger \cup buffer
  BY PlainFlush
<1>3. item' \in Items /\ item'.todo = {}
  BY ItemTyped DEF FetchInv, Teardown, EndRun
<1>4. unknown' \in BOOLEAN /\ buffer' = {}
  BY DEF Teardown
<1>5. faults' \in Nat
  BY <1>1 DEF FetchInv, TypeOK, Fault
<1>6. TypeOK'
  <2>1. /\ lock' = "free" /\ pc' = "off"
        /\ UNCHANGED <<now, raw, cover, fails, snap, early, runs, rebuilds, asked>>
    BY DEF Teardown, EndRun
  <2>2. ledger' \subseteq Requests
    BY <1>1, <1>2 DEF FetchInv, TypeOK
  <2>3. item'.todo \subseteq Expected'
    BY <1>3
  <2> QED BY <1>3, <1>4, <1>5, <2>1, <2>2, <2>3 DEF FetchInv, TypeOK
<1>7. Recorded(ledger', buffer', asked', unknown')
  BY <1>1, <1>2, <1>4 DEF Recorded, Ids, Teardown
<1>8. \A r \in buffer : Honest(r, raw, early)
  BY BufferHonest DEF Teardown
<1> QED BY <1>1, <1>2, <1>4, <1>6, <1>7, <1>8, SinkStep DEF Teardown, EndRun

\* on_request: the row is flushed with the buffer, or waits in it.
LEMMA RequestKeeps ==
  ASSUME FetchInv, NEW r \in Requests, r.id = asked + 1, NEW s \in OnRequest(r)
  PROVE  /\ Recorded(s.ledger, s.buffer, asked + 1, s.unknown)
         /\ s.buffer \subseteq buffer \cup {r}
         /\ s.ledger \subseteq ledger \cup (buffer \cup {r})
         /\ s.unknown \in BOOLEAN /\ s.raised \in BOOLEAN
         /\ s.raised => Overflows(r)
         /\ ~s.raised => \/ Overflows(r) /\ s.buffer = {}
                         \/ /\ ~Overflows(r) /\ s.ledger = ledger
                            /\ s.buffer = buffer \cup {r}
<1>1. Recorded(ledger, buffer, asked, unknown) /\ unknown \in BOOLEAN /\ asked \in Nat
      /\ ledger \subseteq Requests /\ buffer \subseteq Requests
  BY DEF FetchInv, IdInv, TypeOK
<1>2. Recorded(ledger, buffer \cup {r}, asked + 1, unknown)
  BY <1>1, NewRowKeepsIds
<1>3. CASE Overflows(r)
  <2>1. s \in FlushResults(Sink(buffer \cup {r}, ledger, unknown, FALSE))
    BY <1>3 DEF OnRequest
  <2>2. WellFlushed(s, buffer \cup {r}, ledger, asked + 1)
    BY <1>1, <1>2, <2>1, FlushKeepsIds
  <2> QED BY <1>3, <2>2 DEF WellFlushed
<1>4. CASE ~Overflows(r)
  <2>1. s = Sink(buffer \cup {r}, ledger, unknown, FALSE)
    BY <1>4 DEF OnRequest
  <2>2. s.buffer = buffer \cup {r} /\ s.ledger = ledger /\ s.unknown = unknown
        /\ s.raised = FALSE
    BY <2>1 DEF Sink
  <2> QED BY <1>1, <1>2, <1>4, <2>2
<1> QED BY <1>3, <1>4

LEMMA AnswerBarsKeeps == FetchInv /\ AnswerBars => FetchInv'
<1> SUFFICES ASSUME FetchInv, AnswerBars PROVE FetchInv'
  OBVIOUS
<1> DEFINE row == Row("bars")
<1>1. TypeOK /\ pc = "walk" /\ item.todo # {} /\ asked' = asked + 1 /\ lock = "fetch"
  BY DEF FetchInv, AnswerBars, TypeOK
<1>2. /\ row \in Requests /\ row.id = asked + 1 /\ row.outcome = "bars"
      /\ Holds \cap (row.lo .. row.hi) \subseteq Served
  BY <1>1, RowFacts DEF Outcomes
<1> HIDE DEF row
<1>3. PICK s \in OnRequest(row) : \E part \in SUBSET (Served \cap {now}) :
        /\ UseSink(s) /\ NoteEarly(row) /\ Fault(s.raised)
        /\ IF s.raised
           THEN part = {} /\ item' = WindowFails /\ pc' = pc
           ELSE /\ item' = [item EXCEPT !.rids = @ \cup {asked + 1}, !.req = asked + 1,
                                        !.bars = Served, !.partial = part]
                /\ pc' = "answered"
  BY DEF AnswerBars, row
<1>4. PICK part \in SUBSET (Served \cap {now}) :
        IF s.raised
        THEN part = {} /\ item' = WindowFails /\ pc' = pc
        ELSE /\ item' = [item EXCEPT !.rids = @ \cup {asked + 1}, !.req = asked + 1,
                                     !.bars = Served, !.partial = part]
             /\ pc' = "answered"
  BY <1>3
<1>5. /\ Recorded(s.ledger, s.buffer, asked + 1, s.unknown)
      /\ s.buffer \subseteq buffer \cup {row}
      /\ s.ledger \subseteq ledger \cup (buffer \cup {row})
      /\ s.unknown \in BOOLEAN /\ s.raised \in BOOLEAN
      /\ s.raised => Overflows(row)
      /\ ~s.raised => \/ Overflows(row) /\ s.buffer = {}
                      \/ /\ ~Overflows(row) /\ s.ledger = ledger
                         /\ s.buffer = buffer \cup {row}
  BY <1>2, RequestKeeps
<1>6. buffer' = s.buffer /\ ledger' = s.ledger /\ unknown' = s.unknown
  BY <1>3 DEF UseSink
<1>7. early' = early \cup (IF Overflows(row) THEN {asked + 1} ELSE {})
  BY <1>2, <1>3 DEF NoteEarly
<1>8. Served \subseteq Slots
  BY FetchAssumption DEF Served
<1>9. /\ item' \in Items /\ item'.todo \subseteq item.todo
      /\ ~s.raised => /\ item'.req = asked + 1 /\ item'.bars = Served
                      /\ asked + 1 \in item'.rids
  <2>1. item \in Items /\ asked + 1 \in Nat
    BY <1>1 DEF TypeOK
  <2>2. CASE s.raised
    BY <1>1, <1>4, <2>2, ItemTyped
  <2>3. CASE ~s.raised
    <3>1. item' = [item EXCEPT !.rids = @ \cup {asked + 1}, !.req = asked + 1,
                               !.bars = Served, !.partial = part]
      BY <1>4, <2>3
    <3>2. part \subseteq Slots
      BY <1>8
    <3> HIDE DEF row
    <3> QED BY <1>8, <2>1, <3>1, <3>2 DEF Items
  <2> QED BY <2>2, <2>3
<1>10. TypeOK'
  <2>1. faults' \in Nat
    BY <1>1, <1>3 DEF TypeOK, Fault
  <2>2. early' \subseteq 1..asked'
    <3>1. asked \in Nat /\ early \subseteq 1..asked
      BY <1>1 DEF TypeOK
    <3>2. 1..asked \subseteq 1..(asked + 1) /\ asked + 1 \in 1..(asked + 1)
      BY <3>1
    <3> QED BY <1>1, <1>7, <3>1, <3>2
  <2>3. pc' \in {"walk", "answered"}
    BY <1>1, <1>4
  <2>4. UNCHANGED <<now, raw, cover, fails, lock, snap, runs, rebuilds>>
    BY DEF AnswerBars
  <2>5. ledger' \subseteq Requests /\ buffer' \subseteq Requests /\ unknown' \in BOOLEAN
    BY <1>1, <1>2, <1>5, <1>6 DEF TypeOK
  <2>6. item'.todo \subseteq Expected' /\ asked' \in Nat
    BY <1>1, <1>9, <2>4 DEF TypeOK, Expected
  <2> QED BY <1>1, <1>9, <2>1, <2>2, <2>3, <2>4, <2>5, <2>6 DEF TypeOK
<1>11. UNCHANGED <<raw, cover, lock>> /\ early \subseteq early'
  BY <1>7 DEF AnswerBars
<1>12. \A r \in buffer : Honest(r, raw, early')
  BY <1>1, <1>11, BufferHonest
<1>13. Overflows(row) => Honest(row, raw, early')
  BY <1>2, <1>7 DEF Honest
<1>14. Recorded(ledger', buffer', asked', unknown')
  BY <1>1, <1>5, <1>6
<1>15. CASE s.raised
  <2>1. \A r \in buffer \cup {row} : Honest(r, raw, early')
    BY <1>5, <1>12, <1>13, <1>15
  <2>2. pc' # "answered" /\ lock' # "rebuild"
    BY <1>1, <1>4, <1>11, <1>15
  <2> QED BY <1>5, <1>6, <1>10, <1>11, <1>14, <2>1, <2>2, SinkStep
<1>16. CASE ~s.raised
  <2>1. \A r \in ledger : Honest(r, raw, early')
    BY <1>11, HonestGrows DEF FetchInv, HonestInv
  <2>2. \A r \in ledger' : Honest(r, raw', early')
    BY <1>5, <1>6, <1>11, <1>12, <1>13, <1>16, <2>1
  <2>3. pc' = "answered" /\ item'.req = asked + 1 /\ item'.req \in item'.rids
        /\ item'.bars = Served
    BY <1>4, <1>9, <1>16
  <2>4. \A r \in buffer' : r = row \/ r \in buffer
    BY <1>5, <1>6
  <2>5. \A r \in buffer : r.id # asked + 1
    <3>1. \A r \in buffer : r.id \in Nat /\ r.id <= asked
      BY <1>1 DEF FetchInv, IdInv, Recorded, TypeOK, Requests
    <3> QED BY <1>1, <3>1 DEF TypeOK
  <2>6. \A r \in buffer' : Honest(r, raw', early') \/ Awaited(r)'
    BY <1>2, <1>11, <1>12, <2>3, <2>4 DEF Awaited
  <2>7. \A r \in buffer' : Awaited(r)' =>
          r.outcome = "bars" /\ Holds \cap (r.lo .. r.hi) \subseteq item'.bars
    BY <1>2, <2>3, <2>4, <2>5 DEF Awaited
  <2>8. HonestInv'
    BY <2>2, <2>3, <2>6, <2>7 DEF HonestInv
  <2>9. asked + 1 \in Ids(buffer') => asked + 1 \notin Ids(ledger')
    <3>1. \A r \in ledger : r.id # asked + 1
      <4>1. \A r \in ledger : r.id \in Nat /\ r.id <= asked
        BY <1>1 DEF FetchInv, IdInv, Recorded, TypeOK, Requests
      <4> QED BY <1>1, <4>1 DEF TypeOK
    <3> QED BY <1>5, <1>6, <1>16, <3>1 DEF Ids
  <2>10. IdInv'
    BY <1>14, <2>3, <2>9 DEF IdInv
  <2>11. CoverInv'
    BY <1>1, <1>11 DEF FetchInv, CoverInv, CoverageIsExact
  <2> QED BY <1>10, <2>8, <2>10, <2>11 DEF FetchInv
<1> QED BY <1>5, <1>15, <1>16

LEMMA AnswerNoneKeeps ==
  ASSUME FetchInv, NEW o \in {"no_data", "failed"}, AnswerNone(o) PROVE FetchInv'
<1> DEFINE row == Row(o)
<1>1. TypeOK /\ pc = "walk" /\ item.todo # {} /\ asked' = asked + 1 /\ lock = "fetch"
      /\ (o = "no_data" => Served = {})
  BY DEF FetchInv, AnswerNone, TypeOK
<1>2. /\ row \in Requests /\ row.id = asked + 1 /\ row.outcome = o
      /\ Holds \cap (row.lo .. row.hi) \subseteq Served
  BY <1>1, RowFacts DEF Outcomes
<1>3. Honest(row, raw, early')
  BY <1>1, <1>2 DEF Honest
<1> HIDE DEF row
<1>4. PICK s \in OnRequest(row) :
        /\ UseSink(s) /\ NoteEarly(row) /\ Fault(s.raised \/ o = "failed")
        /\ item' = IF s.raised THEN WindowFails
                   ELSE [ChunkDone EXCEPT !.rids = @ \cup {asked + 1},
                                          !.bad = @ \/ o = "failed"]
  BY DEF AnswerNone, row
<1>5. /\ Recorded(s.ledger, s.buffer, asked + 1, s.unknown)
      /\ s.buffer \subseteq buffer \cup {row}
      /\ s.ledger \subseteq ledger \cup (buffer \cup {row})
      /\ s.unknown \in BOOLEAN /\ s.raised \in BOOLEAN
  BY <1>2, RequestKeeps
<1>6. buffer' = s.buffer /\ ledger' = s.ledger /\ unknown' = s.unknown
  BY <1>4 DEF UseSink
<1>7. early' = early \cup (IF Overflows(row) THEN {asked + 1} ELSE {})
  BY <1>2, <1>4 DEF NoteEarly
<1>8. item' \in Items /\ item'.todo \subseteq item.todo
  <2>1. asked + 1 \in Nat /\ ChunkDone \in Items /\ ChunkDone.todo \subseteq item.todo
    BY <1>1, ItemTyped DEF TypeOK
  <2>2. CASE s.raised
    BY <1>1, <1>4, <2>2, ItemTyped
  <2>3. CASE ~s.raised
    <3>1. item' = [ChunkDone EXCEPT !.rids = @ \cup {asked + 1}, !.bad = @ \/ o = "failed"]
      BY <1>4, <2>3
    <3> QED BY <2>1, <3>1 DEF Items
  <2> QED BY <2>2, <2>3
<1>9. UNCHANGED <<now, raw, cover, fails, lock, pc, snap, runs, rebuilds>>
      /\ early \subseteq early'
  BY <1>7 DEF AnswerNone
<1>10. TypeOK'
  <2>1. faults' \in Nat
    BY <1>1, <1>4 DEF TypeOK, Fault
  <2>2. early' \subseteq 1..asked'
    <3>1. asked \in Nat /\ early \subseteq 1..asked
      BY <1>1 DEF TypeOK
    <3>2. 1..asked \subseteq 1..(asked + 1) /\ asked + 1 \in 1..(asked + 1)
      BY <3>1
    <3> QED BY <1>1, <1>7, <3>1, <3>2
  <2>3. ledger' \subseteq Requests /\ buffer' \subseteq Requests /\ unknown' \in BOOLEAN
    BY <1>1, <1>2, <1>5, <1>6 DEF TypeOK
  <2>4. item'.todo \subseteq Expected' /\ asked' \in Nat
    BY <1>1, <1>8, <1>9 DEF TypeOK, Expected
  <2> QED BY <1>1, <1>8, <1>9, <2>1, <2>2, <2>3, <2>4 DEF TypeOK
<1>11. \A r \in buffer \cup {row} : Honest(r, raw, early')
  BY <1>1, <1>3, <1>9, BufferHonest DEF row
<1>12. Recorded(ledger', buffer', asked', unknown')
  BY <1>1, <1>5, <1>6
<1>13. pc' # "answered" /\ lock' # "rebuild" /\ UNCHANGED <<raw, cover>>
  BY <1>1, <1>9
<1> QED BY <1>5, <1>6, <1>9, <1>10, <1>11, <1>12, <1>13, SinkStep

LEMMA SessionLostKeeps == FetchInv /\ SessionLost => FetchInv'
<1> SUFFICES ASSUME FetchInv, SessionLost PROVE FetchInv'
  OBVIOUS
<1> DEFINE row == Row("failed")
           b == buffer \cup {row}
<1>1. TypeOK /\ pc = "walk" /\ item.todo # {} /\ asked' = asked + 1 /\ lock = "fetch"
      /\ unknown \in BOOLEAN /\ asked \in Nat
      /\ ledger \subseteq Requests /\ buffer \subseteq Requests
  BY DEF FetchInv, SessionLost, TypeOK
<1>2. row \in Requests /\ row.id = asked + 1 /\ row.outcome = "failed"
  BY <1>1, RowFacts DEF Outcomes
<1>3. Honest(row, raw, early)
  BY <1>2 DEF Honest
<1>4. PICK s \in FlushResults(Sink(b, ledger, unknown, FALSE)) : UseSink(s)
  BY DEF SessionLost
<1> HIDE DEF row
<1>5. Recorded(ledger, b, asked + 1, unknown)
  BY <1>1, <1>2, NewRowKeepsIds DEF FetchInv, IdInv
<1>6. \A r \in b : Honest(r, raw, early)
  BY <1>1, <1>3, BufferHonest
<1>7. b \subseteq Requests
  BY <1>1, <1>2
<1> HIDE DEF b
<1>8. WellFlushed(s, b, ledger, asked + 1)
  BY <1>1, <1>4, <1>5, FlushKeepsIds
<1>9. /\ Recorded(ledger', buffer', asked', unknown') /\ unknown' \in BOOLEAN
      /\ buffer' \subseteq b /\ ledger' \subseteq ledger \cup b
  BY <1>1, <1>4, <1>8 DEF WellFlushed, UseSink
<1>10. /\ UNCHANGED <<now, raw, cover, fails, lock, item, snap, early, runs, rebuilds>>
       /\ pc' = "teardown" /\ faults' = faults + 1
  BY DEF SessionLost, Fault
<1>11. TypeOK'
  <2>1. early' \subseteq 1..asked' /\ asked' \in Nat
    BY <1>1, <1>10 DEF TypeOK
  <2>2. item' \in Items /\ item'.todo \subseteq Expected'
    BY <1>1, <1>10 DEF TypeOK, Expected
  <2> QED BY <1>1, <1>7, <1>9, <1>10, <2>1, <2>2 DEF TypeOK
<1>12. pc' # "answered" /\ lock' # "rebuild" /\ UNCHANGED <<raw, cover, early>>
  BY <1>1, <1>10
<1> QED BY <1>6, <1>9, <1>11, <1>12, SinkStep

-----------------------------------------------------------------------------
(* The persister                                                           *)

\* Noting the partial bars leaves the ids alone; the awaited row then carries
\* what the persister will not store.
LEMMA NotedKeeps ==
  ASSUME FetchInv, pc = "answered"
  PROVE  /\ Recorded(ledger, Noted, asked, unknown)
         /\ \A r \in Noted : r.id # item.req => Honest(r, raw, early)
         /\ \A r \in Noted : r.id = item.req =>
              /\ r.outcome = "bars" /\ r.partial = item.partial
              /\ Holds \cap (r.lo .. r.hi) \subseteq item.bars
<1>1. TypeOK
  BY DEF FetchInv
<1>2. /\ Ids(Noted) = Ids(buffer)
      /\ \A r \in Noted : r.id = item.req => r.partial = item.partial
      /\ \A r \in Noted : \E q \in buffer :
           /\ r.id = q.id /\ r.lo = q.lo /\ r.hi = q.hi /\ r.outcome = q.outcome
           /\ r = IF q.id = item.req THEN [q EXCEPT !.partial = item.partial] ELSE q
  BY <1>1, NotedFacts
<1>3. /\ Recorded(ledger, buffer, asked, unknown)
      /\ item.req \in Ids(buffer) => item.req \notin Ids(ledger)
  BY DEF FetchInv, IdInv
<1>4. \A r \in ledger \cup Noted : r.id <= asked
  BY <1>2, <1>3 DEF Recorded
<1>5. \A q \in ledger : \A r \in Noted : q.id = r.id => q = r
  <2> SUFFICES ASSUME NEW q \in ledger, NEW r \in Noted, q.id = r.id PROVE q = r
    OBVIOUS
  <2>1. PICK p \in buffer :
          /\ r.id = p.id
          /\ r = IF p.id = item.req THEN [p EXCEPT !.partial = item.partial] ELSE p
    BY <1>2
  <2>2. p.id # item.req
    BY <1>3, <2>1 DEF Ids
  <2> QED BY <1>3, <2>1, <2>2 DEF Recorded
<1>6. \A q \in Noted : \A r \in Noted : q.id = r.id => q = r
  <2> SUFFICES ASSUME NEW q \in Noted, NEW r \in Noted, q.id = r.id PROVE q = r
    OBVIOUS
  <2>1. PICK p \in buffer :
          /\ q.id = p.id
          /\ q = IF p.id = item.req THEN [p EXCEPT !.partial = item.partial] ELSE p
    BY <1>2
  <2>2. PICK t \in buffer :
          /\ r.id = t.id
          /\ r = IF t.id = item.req THEN [t EXCEPT !.partial = item.partial] ELSE t
    BY <1>2
  <2>3. p = t
    BY <1>3, <2>1, <2>2 DEF Recorded
  <2> QED BY <2>1, <2>2, <2>3
<1>7. Recorded(ledger, Noted, asked, unknown)
  BY <1>2, <1>3, <1>4, <1>5, <1>6 DEF Recorded
<1>8. \A r \in Noted : r.id # item.req => Honest(r, raw, early)
  <2> SUFFICES ASSUME NEW r \in Noted, r.id # item.req PROVE Honest(r, raw, early)
    OBVIOUS
  <2>1. r \in buffer
    BY <1>2
  <2> QED BY <2>1 DEF FetchInv, HonestInv, Awaited
<1>9. \A r \in Noted : r.id = item.req =>
        r.outcome = "bars" /\ Holds \cap (r.lo .. r.hi) \subseteq item.bars
  <2> SUFFICES ASSUME NEW r \in Noted, r.id = item.req
               PROVE  r.outcome = "bars" /\ Holds \cap (r.lo .. r.hi) \subseteq item.bars
    OBVIOUS
  <2>1. PICK q \in buffer : r.id = q.id /\ r.lo = q.lo /\ r.hi = q.hi
                            /\ r.outcome = q.outcome
    BY <1>2
  <2>2. q.outcome = "bars" /\ Holds \cap (q.lo .. q.hi) \subseteq item.bars
    BY <2>1 DEF FetchInv, HonestInv, Awaited
  <2> QED BY <2>1, <2>2
<1> QED BY <1>2, <1>7, <1>8, <1>9

\* Taking rows off the buffer, into the ledger or not.
LEMMA TakenKeeps ==
  ASSUME NEW b, NEW l, NEW u, NEW n, Recorded(l, b, n, u), NEW t \in SUBSET b
  PROVE  Recorded(l \cup t, b \ t, n, u) /\ Recorded(l, b \ t, n, u)
<1>1. (l \cup t) \cup (b \ t) = l \cup b
  OBVIOUS
<1>2. Ids(b \ t) \cap Ids(t) = {}
  BY DEF Recorded, Ids
<1>3. Ids(l \cup t) = Ids(l) \cup Ids(t) /\ Ids(b \ t) \subseteq Ids(b)
  BY DEF Ids
<1> QED BY <1>1, <1>2, <1>3 DEF Recorded

\* Behind the persister every row must be honest.
LEMMA Persisted ==
  ASSUME TypeOK', CoverInv', pc' # "answered",
         Recorded(ledger', buffer', asked', unknown'),
         \A r \in ledger' : Honest(r, raw', early'),
         \A r \in buffer' : Honest(r, raw', early')
  PROVE  FetchInv'
<1>1. HonestInv'
  BY DEF HonestInv, Awaited
<1>2. IdInv'
  BY DEF IdInv
<1> QED BY <1>1, <1>2 DEF FetchInv

LEMMA NothingCompleteKeeps == FetchInv /\ NothingComplete => FetchInv'
<1> SUFFICES ASSUME FetchInv, NothingComplete PROVE FetchInv'
  OBVIOUS
<1>1. TypeOK /\ pc = "answered" /\ lock = "fetch"
  BY DEF FetchInv, TypeOK, NothingComplete, MayPersist
<1>2. /\ Recorded(ledger, Noted, asked, unknown)
      /\ \A r \in Noted : r.id # item.req => Honest(r, raw, early)
      /\ \A r \in Noted : r.id = item.req =>
           /\ r.outcome = "bars" /\ r.partial = item.partial
           /\ Holds \cap (r.lo .. r.hi) \subseteq item.bars
  BY <1>1, NotedKeeps
<1>3. /\ buffer' = Noted /\ pc' = "walk" /\ item' = ChunkDone
      /\ UNCHANGED <<now, raw, cover, fails, ledger, unknown, lock, snap, early, runs,
                     rebuilds, faults, asked>>
  BY DEF NothingComplete, db, counters
<1>4. item.bars \subseteq item.partial
  BY DEF NothingComplete, Complete
<1>5. \A r \in Noted : Honest(r, raw, early)
  BY <1>2, <1>4 DEF Honest
<1>6. TypeOK'
  <2>1. item' \in Items /\ item'.todo \subseteq Expected' /\ Noted \subseteq Requests
    BY <1>1, <1>3, ItemTyped, NotedFacts DEF TypeOK, Expected
  <2> QED BY <1>1, <1>3, <2>1 DEF TypeOK
<1>7. CoverInv'
  BY <1>3 DEF FetchInv, CoverInv, CoverageIsExact
<1>8. \A r \in ledger : Honest(r, raw, early)
  BY DEF FetchInv, HonestInv
<1>9. Recorded(ledger', buffer', asked', unknown')
  BY <1>2, <1>3
<1> QED BY <1>3, <1>5, <1>6, <1>7, <1>8, <1>9, Persisted

\* The chunk's transaction commits: bars, rows and coverage together.
LEMMA CommitKeeps ==
  ASSUME FetchInv, MayPersist, Complete # {}, Commit, buffer' = Noted \ Taken,
         pc' = "walk", item' \in Items, item'.todo \subseteq item.todo,
         UNCHANGED <<now, unknown, lock, snap, early, runs, rebuilds, asked>>,
         faults' \in Nat
  PROVE  FetchInv'
<1>1. TypeOK /\ pc = "answered" /\ lock = "fetch"
  BY DEF FetchInv, TypeOK, MayPersist
<1>2. /\ Recorded(ledger, Noted, asked, unknown)
      /\ \A r \in Noted : r.id # item.req => Honest(r, raw, early)
      /\ \A r \in Noted : r.id = item.req =>
           /\ r.outcome = "bars" /\ r.partial = item.partial
           /\ Holds \cap (r.lo .. r.hi) \subseteq item.bars
  BY <1>1, NotedKeeps
<1>3. raw' = raw \cup Complete /\ ledger' = ledger \cup Taken /\ fails' = 0
      /\ cover' = Widened(cover, Complete, Complete \ raw)
  BY DEF Commit
<1>4. Complete \subseteq Slots /\ raw \subseteq Slots
  BY <1>1 DEF Complete, TypeOK, Items
<1>5. cover' = Aggregate(raw')
  <2>1. cover = Aggregate(raw)
    BY DEF FetchInv, CoverInv, CoverageIsExact
  <2> QED BY <1>3, <1>4, <2>1, WidenedIsAggregate
<1>6. Taken \subseteq Noted
  BY DEF Taken
<1>7. TypeOK'
  <2>1. cover' \in CoverType
    BY <1>3, <1>4, <1>5, AggregateType
  <2>2. Noted \subseteq Requests
    BY <1>1, NotedFacts
  <2>3. ledger' \subseteq Requests /\ buffer' \subseteq Requests /\ raw' \subseteq Slots
    BY <1>1, <1>3, <1>4, <1>6, <2>2 DEF TypeOK
  <2>4. item'.todo \subseteq Expected'
    BY <1>1 DEF TypeOK, Expected
  <2> QED BY <1>1, <1>3, <2>1, <2>3, <2>4 DEF TypeOK
<1>8. CoverInv'
  BY <1>1, <1>5 DEF CoverInv, CoverageIsExact
<1>9. Recorded(ledger', buffer', asked', unknown')
  BY <1>2, <1>3, <1>6, TakenKeeps
<1>10. \A r \in ledger : Honest(r, raw', early')
  BY <1>3, HonestGrows DEF FetchInv, HonestInv
<1>11. \A r \in Noted : Honest(r, raw', early')
  <2> SUFFICES ASSUME NEW r \in Noted PROVE Honest(r, raw', early')
    OBVIOUS
  <2>1. CASE r.id # item.req
    BY <1>2, <1>3, <2>1, HonestGrows
  <2>2. CASE r.id = item.req
    <3>1. Holds \cap (r.lo .. r.hi) \subseteq raw' \cup r.partial
      BY <1>2, <1>3, <2>2 DEF Complete
    <3> QED BY <1>2, <2>2, <3>1 DEF Honest
  <2> QED BY <2>1, <2>2
<1> QED BY <1>3, <1>6, <1>7, <1>8, <1>9, <1>10, <1>11, Persisted

LEMMA PersistOkKeeps == FetchInv /\ PersistOk => FetchInv'
<1> SUFFICES ASSUME FetchInv, PersistOk PROVE FetchInv'
  OBVIOUS
<1>1. item' \in Items /\ item'.todo \subseteq item.todo
  <2>1. ChunkDone \in Items /\ ChunkDone.todo \subseteq item.todo
    BY ItemTyped DEF FetchInv
  <2>2. item' = [ChunkDone EXCEPT !.rids = {}]
    BY DEF PersistOk
  <2> QED BY <2>1, <2>2 DEF Items
<1>2. faults' \in Nat
  BY DEF FetchInv, TypeOK, PersistOk, counters
<1> QED BY <1>1, <1>2, CommitKeeps DEF PersistOk, counters

\* The transaction fails: the awaited row is gone from the buffer with the
\* others the persister took.
LEMMA PersistFailsKeeps ==
  ASSUME FetchInv, NEW committed \in BOOLEAN, PersistFails(committed)
  PROVE  FetchInv'
<1>1. item' \in Items /\ item'.todo \subseteq item.todo
  <2>1. WindowFails \in Items /\ WindowFails.todo \subseteq item.todo
    BY ItemTyped DEF FetchInv
  <2>2. item' = [WindowFails EXCEPT !.rids = {}]
    BY DEF PersistFails
  <2> QED BY <2>1, <2>2 DEF Items
<1>2. faults' \in Nat
  BY DEF FetchInv, TypeOK, PersistFails, Fault
<1>3. CASE committed
  BY <1>1, <1>2, <1>3, CommitKeeps DEF PersistFails
<1>4. CASE ~committed
  <2>1. TypeOK /\ pc = "answered" /\ lock = "fetch"
    BY DEF FetchInv, TypeOK, MayPersist, PersistFails
  <2>2. /\ Recorded(ledger, Noted, asked, unknown)
        /\ \A r \in Noted : r.id # item.req => Honest(r, raw, early)
    BY <2>1, NotedKeeps
  <2>3. /\ buffer' = Noted \ Taken /\ pc' = "walk"
        /\ UNCHANGED <<now, raw, cover, fails, ledger, unknown, lock, snap, early, runs,
                       rebuilds, asked>>
    BY <1>4 DEF PersistFails, db
  <2>4. TypeOK'
    <3>1. buffer' \subseteq Requests
      BY <2>1, <2>3, NotedFacts
    <3>2. item'.todo \subseteq Expected'
      BY <1>1, <2>1, <2>3 DEF TypeOK, Expected
    <3> QED BY <1>1, <1>2, <2>1, <2>3, <3>1, <3>2 DEF TypeOK
  <2>5. CoverInv'
    BY <2>3 DEF FetchInv, CoverInv, CoverageIsExact
  <2>6. Recorded(ledger', buffer', asked', unknown')
    <3>1. Taken \subseteq Noted
      BY DEF Taken
    <3> QED BY <2>2, <2>3, <3>1, TakenKeeps
  <2>7. \A r \in buffer' : Honest(r, raw, early)
    <3>1. \A r \in buffer' : r \in Noted /\ r.id # item.req
      BY <2>1, <2>3 DEF FetchInv, HonestInv, Taken
    <3> QED BY <2>2, <3>1
  <2>8. \A r \in ledger : Honest(r, raw, early)
    BY DEF FetchInv, HonestInv
  <2> QED BY <2>3, <2>4, <2>5, <2>6, <2>7, <2>8, Persisted
<1> QED BY <1>3, <1>4

-----------------------------------------------------------------------------
(* The theorems                                                            *)

LEMMA StepKeeps == FetchInv /\ [Next]_vars => FetchInv'
<1> SUFFICES ASSUME FetchInv, [Next]_vars PROVE FetchInv'
  OBVIOUS
<1>1. CASE Step
  BY <1>1, TakeItemKeeps, DeferItemKeeps, QualifyFailsKeeps, AnswerBarsKeeps,
     AnswerNoneKeeps, SessionLostKeeps, NoteFailsKeeps, NothingCompleteKeeps,
     PersistOkKeeps, PersistFailsKeeps, ItemFlushKeeps, StallKeeps, ReplanKeeps,
     IntakeStallKeeps, RecordKeeps, TeardownKeeps, DieKeeps DEF Step
<1>2. CASE Next /\ ~Step
  BY <1>2, TickKeeps, StartRunKeeps, RebuildReadsKeeps, RebuildWritesKeeps,
     ResetFailuresKeeps DEF Next
<1>3. CASE UNCHANGED vars
  BY <1>3, StutterKeeps
<1> QED BY <1>1, <1>2, <1>3

\* The invariant that the others are parts of: for every vendor, chunk size,
\* buffer limit and number of runs, rebuilds and faults.
THEOREM FetchInvariant == Spec => []FetchInv
BY InitInv, StepKeeps, PTL DEF Spec

\* Every variable keeps its type, the sink is empty between runs and the lock
\* is held exactly while a run or a rebuild is under way.
THEOREM FetchTypeCorrect == Spec => []TypeOK
<1>1. FetchInv => TypeOK
  BY DEF FetchInv
<1> QED BY <1>1, FetchInvariant, PTL

\* The coverage row is the aggregate of the stored rows, whatever chunk was
\* repeated, failed behind its commit, died half-way or was rebuilt meanwhile.
THEOREM FetchCoverageExact == Spec => []CoverageIsExact
<1>1. FetchInv => CoverageIsExact
  BY DEF FetchInv, CoverInv
<1> QED BY <1>1, FetchInvariant, PTL

\* A slot the vendor holds and that is not stored is covered only by an answer
\* whose row met a full buffer.
THEOREM FetchNoSilentHole == Spec => []NoSilentHole
<1>1. FetchInv => NoSilentHole
  <2> SUFFICES ASSUME FetchInv, NEW t \in Holds \ raw, t \in Covered
               PROVE  \E r \in Evidence : t \in r.lo .. r.hi /\ r.id \in early
    BY DEF NoSilentHole
  <2>1. \A r \in Evidence : Honest(r, raw, early) /\ r.outcome \in {"no_data", "bars"}
    BY DEF Evidence, FetchInv, HonestInv
  <2>2. PICK r \in Evidence : t \in r.lo .. r.hi
    BY DEF Covered
  <2>3. CASE r.id \in early
    BY <2>2, <2>3
  <2>4. CASE r.id \notin early
    <3>1. t \in r.partial
      BY <2>1, <2>2, <2>4 DEF Honest
    <3>2. t \in Slots /\ t \notin LivePartials
      BY DEF Covered
    <3>3. PICK q \in Evidence : t \in q.lo .. q.hi /\ t \notin q.partial
      BY <3>1, <3>2 DEF LivePartials
    <3>4. q.id \in early
      BY <2>1, <3>3 DEF Honest
    <3> QED BY <3>3, <3>4
  <2> QED BY <2>3, <2>4
<1> QED BY <1>1, FetchInvariant, PTL

\* A request is recorded once, and a row in the buffer is in the ledger only
\* after a flush whose commit was not seen.
THEOREM FetchRecordedOnce == Spec => []RecordedOnce
<1>1. FetchInv => RecordedOnce
  BY DEF FetchInv, IdInv, Recorded, RecordedOnce
<1> QED BY <1>1, FetchInvariant, PTL
=============================================================================
