-------------------------- MODULE RawIngressProofs --------------------------
(***************************************************************************)
(* BarStore keeps its tables settled, and RawIngress implements BarStore,  *)
(* for any set of processes, series, slots and chunks and any number of    *)
(* transactions.                                                           *)
(*                                                                         *)
(* The inductive invariant says what a transaction's uncommitted writes    *)
(* are worth to the others: everything it has staged is still a function   *)
(* of the COMMITTED tables, because the rows it read belong to series it   *)
(* has locked and because only the holder of the selection lock commits.   *)
(***************************************************************************)
EXTENDS RawIngress, FiniteSetTheorems, WellFoundedInduction, TLAPS

-----------------------------------------------------------------------------
(* The selection                                                           *)

\* A vendor with a candidate at a slot has a best one (select_slot's min).
LEMMA BestExists ==
  ASSUME NEW tbl, NEW v, NEW t, Eligible(tbl, v, t) # {}
  PROVE  Best(tbl, v, t) \in Eligible(tbl, v, t)
<1> DEFINE E == Eligible(tbl, v, t)
           O == {KindOrder[s] : s \in E}
<1>1. E \subseteq Series
  BY DEF Eligible, Candidates
<1>2. O \subseteq Nat /\ O # {}
  BY <1>1, SelectionAssumption
<1>3. PICK n \in O : \A k \in O : ~ (<<k, n>> \in OpToRel(<, Nat))
  <2> HIDE DEF O
  <2> QED BY <1>2, NatLessThanWellFounded, WFMin
<1>4. \A k \in O : n <= k
  <2> SUFFICES ASSUME NEW k \in O PROVE n <= k
    OBVIOUS
  <2>1. k \in Nat /\ n \in Nat
    BY <1>2
  <2>2. ~ (<<k, n>> \in OpToRel(<, Nat))
    BY <1>3
  <2>3. ~ (k < n)
    BY <2>1, <2>2 DEF OpToRel
  <2> QED BY <2>1, <2>3
<1>5. PICK s \in E : KindOrder[s] = n
  OBVIOUS
<1>6. \A u \in E : KindOrder[s] <= KindOrder[u]
  BY <1>4, <1>5
<1> QED BY <1>5, <1>6 DEF Best

\* A winner is a row of the raw table: canonical never holds a value no
\* vendor served.
LEMMA WinnerIsStored ==
  ASSUME NEW tbl \in RawType, NEW r, NEW t \in WinnerSlots(tbl, r)
  PROVE  /\ Best(tbl, Chosen(tbl, r), t) \in Series
         /\ tbl[Best(tbl, Chosen(tbl, r), t)][t] \in Row
         /\ t \in HeldSlots(tbl)
         /\ VendorOf[Best(tbl, Chosen(tbl, r), t)] = Chosen(tbl, r)
         /\ Winner(tbl, r, t) \in CanonicalRow
<1> DEFINE v == Chosen(tbl, r)
<1> HIDE DEF v
<1>1. t \in SlotsOf(tbl, v)
  BY DEF WinnerSlots, v
<1>2. Eligible(tbl, v, t) # {} /\ t \in Slots
  BY <1>1 DEF SlotsOf
<1>3. Best(tbl, v, t) \in Eligible(tbl, v, t)
  BY <1>2, BestExists
<1>4. /\ Best(tbl, v, t) \in Candidates(tbl, t)
      /\ VendorOf[Best(tbl, v, t)] = v
  BY <1>3 DEF Eligible
<1>5. Best(tbl, v, t) \in Series /\ tbl[Best(tbl, v, t)][t] # NoRow
  BY <1>4 DEF Candidates
<1>6. tbl[Best(tbl, v, t)][t] \in Row
  BY <1>2, <1>5 DEF RawType
<1>7. t \in HeldSlots(tbl)
  BY <1>2, <1>4 DEF HeldSlots
<1>8. Winner(tbl, r, t) \in CanonicalRow
  BY <1>5, <1>6 DEF Winner, CanonicalRow, Row, v
<1> QED BY <1>4, <1>5, <1>6, <1>7, <1>8 DEF v

\* select_and_write keeps the canonical table well formed.
LEMMA SelectAndWriteType ==
  ASSUME NEW tbl \in RawType, NEW r,
         NEW can \in [Slots -> CanonicalRow \cup {NoRow}]
  PROVE  SelectAndWrite(can, tbl, r) \in [Slots -> CanonicalRow \cup {NoRow}]
BY WinnerIsStored DEF SelectAndWrite

\* Selecting twice is selecting once.
LEMMA SelectionIdempotent ==
  ASSUME NEW tbl, NEW r, NEW can
  PROVE  SelectAndWrite(SelectAndWrite(can, tbl, r), tbl, r)
           = SelectAndWrite(can, tbl, r)
BY DEF SelectAndWrite

\* Recording the session choice again changes nothing.
LEMMA ChoiceIdempotent ==
  ASSUME NEW tbl, NEW r, NEW old
  PROVE  RecordSessionChoice(RecordSessionChoice(old, tbl, r), tbl, r)
           = RecordSessionChoice(old, tbl, r)
BY DEF RecordSessionChoice

-----------------------------------------------------------------------------
(* One series' write                                                       *)

SeriesRows == [Slots -> Row \cup {NoRow}]
SeriesOffer == [Slots -> Vals \cup {NoVal}]

\* write_raw writes well-formed rows.
LEMMA WriteType ==
  ASSUME NEW stored \in SeriesRows, NEW offer \in SeriesOffer, NEW time \in Nat
  PROVE  /\ RowsWritten(stored, offer, time) \in SeriesRows
         /\ Upsert(stored, RowsWritten(stored, offer, time)) \in SeriesRows
<1>1. RowsWritten(stored, offer, time) \in SeriesRows
  <2> SUFFICES ASSUME NEW t \in Slots,
                      t \in Classify(stored, offer, time).new
                            \cup Classify(stored, offer, time).replaced
               PROVE  [val |-> offer[t], served |-> time] \in Row
    BY DEF RowsWritten, SeriesRows
  <2>1. offer[t] # NoVal
    BY DEF Classify
  <2> QED BY <2>1 DEF SeriesOffer, Row
<1>2. ASSUME NEW new \in SeriesRows PROVE Upsert(stored, new) \in SeriesRows
  BY <1>2 DEF Upsert, SeriesRows
<1> QED BY <1>1, <1>2

\* The revision rows write_raw logs are well formed.
LEMMA RevisionType ==
  ASSUME NEW s \in Series, NEW stored \in SeriesRows, NEW offer \in SeriesOffer,
         NEW time
  PROVE  RevisionsLogged(s, stored, offer, time) \subseteq Revision
<1>1. ASSUME NEW t \in Classify(stored, offer, time).replaced
      PROVE  t \in Slots /\ stored[t].val \in Vals
  BY <1>1 DEF Classify, SeriesRows, Row
<1>2. ASSUME NEW t \in Classify(stored, offer, time).superseded
      PROVE  t \in Slots /\ offer[t] \in Vals
  BY <1>2 DEF Classify, SeriesOffer
<1> QED BY <1>1, <1>2 DEF RevisionsLogged, Revision

\* What one series' write does at one slot: a stored row stays stored and its
\* serve time never goes back; the value it had and the value offered are
\* each stored or logged.
LEMMA WriteKeeps ==
  ASSUME NEW s, NEW stored \in SeriesRows, NEW offer \in SeriesOffer,
         NEW time \in Nat, NEW t \in Slots
  PROVE  LET new == Upsert(stored, RowsWritten(stored, offer, time))
             log == RevisionsLogged(s, stored, offer, time)
         IN  /\ stored[t] # NoRow =>
                  /\ new[t] # NoRow
                  /\ new[t].served >= stored[t].served
                  /\ \/ new[t].val = stored[t].val
                     \/ [series |-> s, slot |-> t, val |-> stored[t].val,
                         origin |-> "raw"] \in log
             /\ offer[t] # NoVal =>
                  \/ new[t] # NoRow /\ new[t].val = offer[t]
                  \/ [series |-> s, slot |-> t, val |-> offer[t],
                      origin |-> "superseded"] \in log
<1> DEFINE found == Classify(stored, offer, time)
           out == RowsWritten(stored, offer, time)
           new == Upsert(stored, out)
           log == RevisionsLogged(s, stored, offer, time)
           row == [val |-> offer[t], served |-> time]
<1>1. CASE offer[t] = NoVal
  <2>1. t \notin found.new \cup found.replaced
    BY <1>1 DEF Classify
  <2>2. out[t] = NoRow
    BY <2>1 DEF RowsWritten
  <2>3. new[t] = stored[t]
    BY <2>2 DEF Upsert
  <2> QED BY <1>1, <2>3 DEF SeriesRows, Row
<1>2. CASE offer[t] # NoVal /\ stored[t] = NoRow
  <2>1. t \in found.new
    BY <1>2 DEF Classify
  <2>2. out[t] = row /\ row # NoRow
    BY <1>2, <2>1, SelectionAssumption DEF RowsWritten, SeriesOffer
  <2>3. new[t] = row
    BY <1>2, <2>2 DEF Upsert
  <2> QED BY <1>2, <2>2, <2>3
<1>3. CASE offer[t] # NoVal /\ stored[t] # NoRow /\ stored[t].val = offer[t]
  <2>1. t \notin found.new \cup found.replaced
    BY <1>3 DEF Classify
  <2>2. out[t] = NoRow
    BY <2>1 DEF RowsWritten
  <2>3. new[t] = stored[t]
    BY <2>2 DEF Upsert
  <2> QED BY <1>3, <2>3 DEF SeriesRows, Row
<1>4. CASE /\ offer[t] # NoVal /\ stored[t] # NoRow
           /\ stored[t].val # offer[t] /\ stored[t].served <= time
  <2>1. t \in found.replaced
    BY <1>4 DEF Classify
  <2>2. out[t] = row /\ row # NoRow
    BY <1>4, <2>1, SelectionAssumption DEF RowsWritten, SeriesOffer
  <2>3. new[t] = row
    BY <1>4, <2>2 DEF Upsert
  <2>4. [series |-> s, slot |-> t, val |-> stored[t].val, origin |-> "raw"]
          \in log
    BY <2>1 DEF RevisionsLogged
  <2> QED BY <1>4, <2>2, <2>3, <2>4 DEF SeriesRows, Row
<1>5. CASE /\ offer[t] # NoVal /\ stored[t] # NoRow
           /\ stored[t].val # offer[t] /\ ~ (stored[t].served <= time)
  <2>1. stored[t].served \in Nat
    BY <1>5 DEF SeriesRows, Row
  <2>2. t \in found.superseded /\ t \notin found.new \cup found.replaced
    BY <1>5, <2>1 DEF Classify
  <2>3. out[t] = NoRow
    BY <2>2 DEF RowsWritten
  <2>4. new[t] = stored[t]
    BY <2>3 DEF Upsert
  <2>5. [series |-> s, slot |-> t, val |-> offer[t], origin |-> "superseded"]
          \in log
    BY <2>2 DEF RevisionsLogged
  <2> QED BY <1>5, <2>1, <2>4, <2>5
<1> QED BY <1>1, <1>2, <1>3, <1>4, <1>5

-----------------------------------------------------------------------------
(* The tables                                                              *)

\* What a chunk does to the tables, with its offers and its log at hand.
LEMMA ServeChunkTables ==
  ASSUME StoreTypeOK, NEW c \in Chunks, NEW time \in Times, NEW r \in Rankings,
         ServeChunk(c, time, r)
  PROVE  /\ raw \in RawType /\ raw' \in RawType
         /\ \A s \in Series : /\ raw[s] \in SeriesRows
                              /\ c[s] \in SeriesOffer
                              /\ raw'[s] = Upsert(raw[s],
                                             RowsWritten(raw[s], c[s], time))
         /\ \A s \in SeriesOf(c) :
              RevisionsLogged(s, raw[s], c[s], time) \subseteq revision'
         /\ \A s \in Series : s \notin SeriesOf(c) =>
              RevisionsLogged(s, raw[s], c[s], time) = {}
         /\ time \in Nat
<1>1. time \in Nat
  BY StoreAssumption DEF Times
<1>2. \A s \in Series : raw[s] \in SeriesRows /\ c[s] \in SeriesOffer
  BY StoreAssumption DEF StoreTypeOK, RawType, SeriesRows, ChunkType, SeriesOffer
<1>3. \A s \in Series :
        raw'[s] = Upsert(raw[s], RowsWritten(raw[s], c[s], time))
  BY DEF ServeChunk
<1>4. \A s \in Series :
        Upsert(raw[s], RowsWritten(raw[s], c[s], time)) \in SeriesRows
  BY <1>1, <1>2, WriteType
<1>5. raw' \in RawType
  BY <1>4 DEF ServeChunk, RawType, SeriesRows
<1>6. \A s \in SeriesOf(c) :
        RevisionsLogged(s, raw[s], c[s], time) \subseteq revision'
  BY DEF ServeChunk
<1>7. ASSUME NEW s \in Series, s \notin SeriesOf(c)
      PROVE  RevisionsLogged(s, raw[s], c[s], time) = {}
  BY <1>7 DEF RevisionsLogged, Classify, SeriesOf
<1> QED BY <1>1, <1>2, <1>3, <1>5, <1>6, <1>7 DEF StoreTypeOK

\* The tables keep their types.
LEMMA StoreTypeStep == StoreTypeOK /\ [Next]_tables => StoreTypeOK'
<1> SUFFICES ASSUME StoreTypeOK, [Next]_tables PROVE StoreTypeOK'
  OBVIOUS
<1>1. ASSUME NEW c \in Chunks, NEW time \in Times, NEW r \in Rankings,
             ServeChunk(c, time, r)
      PROVE  StoreTypeOK'
  <2>1. raw' \in RawType
    BY <1>1, ServeChunkTables
  <2>2. revision' \subseteq Revision
    <3>1. \A s \in SeriesOf(c) :
            RevisionsLogged(s, raw[s], c[s], time) \subseteq Revision
      BY <1>1, ServeChunkTables, RevisionType DEF SeriesOf
    <3> QED BY <1>1, <3>1 DEF ServeChunk, StoreTypeOK
  <2>3. canonical' \in [Slots -> CanonicalRow \cup {NoRow}]
    BY <1>1, <2>1, SelectAndWriteType DEF ServeChunk, Select, StoreTypeOK
  <2>4. served' \subseteq Offer
    BY <1>1, StoreAssumption DEF ServeChunk, OffersOf, Offer, StoreTypeOK, Times
  <2> QED BY <1>1, <2>1, <2>2, <2>3, <2>4 DEF ServeChunk, Select, StoreTypeOK
<1>2. ASSUME NEW r \in Rankings, Reselect(r) PROVE StoreTypeOK'
  BY <1>2, SelectAndWriteType DEF Reselect, Select, StoreTypeOK
<1>3. ASSUME NEW r \in Rankings, SetPolicy(r) PROVE StoreTypeOK'
  BY <1>3 DEF SetPolicy, StoreTypeOK
<1>4. CASE UNCHANGED tables
  BY <1>4 DEF tables, StoreTypeOK
<1> QED BY <1>1, <1>2, <1>3, <1>4 DEF Next

\* The initial tables are well typed.
LEMMA StoreTypeInit == Init => StoreTypeOK
<1> SUFFICES ASSUME Init PROVE StoreTypeOK
  OBVIOUS
<1>1. raw \in RawType
  BY StoreAssumption DEF Init
<1>2. NoRows \in [Slots -> CanonicalRow \cup {NoRow}]
  BY DEF NoRows
<1>3. canonical \in [Slots -> CanonicalRow \cup {NoRow}]
  BY <1>1, <1>2, SelectAndWriteType DEF Init
<1>4. served \subseteq Offer
  BY DEF Init, Offer
<1> QED BY <1>1, <1>3, <1>4 DEF Init, StoreTypeOK

\* The bar tables keep their types through every chunk, reselection and
\* policy change.
THEOREM StoreTypeCorrect == Spec => []StoreTypeOK
BY StoreTypeInit, StoreTypeStep, PTL DEF Spec

\* No step of the store loses a served value: a replaced one is logged.
LEMMA NothingLostStep ==
  StoreTypeOK /\ NothingServedIsLost /\ [Next]_tables => NothingServedIsLost'
<1> SUFFICES ASSUME StoreTypeOK, NothingServedIsLost, [Next]_tables
             PROVE  NothingServedIsLost'
  OBVIOUS
<1>1. ASSUME NEW c \in Chunks, NEW time \in Times, NEW r \in Rankings,
             ServeChunk(c, time, r)
      PROVE  NothingServedIsLost'
  <2> SUFFICES ASSUME NEW o \in served'
               PROVE  \/ /\ raw'[o.series][o.slot] # NoRow
                         /\ raw'[o.series][o.slot].val = o.val
                      \/ \E v \in revision' : /\ v.series = o.series
                                              /\ v.slot = o.slot
                                              /\ v.val = o.val
    BY DEF NothingServedIsLost
  <2> DEFINE s == o.series
             t == o.slot
             log == RevisionsLogged(s, raw[s], c[s], time)
  <2>1. o \in served \/ o \in OffersOf(c, time)
    BY <1>1 DEF ServeChunk
  <2>2. s \in Series /\ t \in Slots /\ o.val \in Vals
    BY <2>1 DEF StoreTypeOK, Offer, OffersOf
  <2>3. log \subseteq revision'
    BY <1>1, <2>2, ServeChunkTables
  <2>4. revision \subseteq revision'
    BY <1>1 DEF ServeChunk
  <2>5. /\ raw[s][t] # NoRow =>
             /\ raw'[s][t] # NoRow
             /\ \/ raw'[s][t].val = raw[s][t].val
                \/ [series |-> s, slot |-> t, val |-> raw[s][t].val,
                    origin |-> "raw"] \in log
        /\ c[s][t] # NoVal =>
             \/ raw'[s][t] # NoRow /\ raw'[s][t].val = c[s][t]
             \/ [series |-> s, slot |-> t, val |-> c[s][t],
                 origin |-> "superseded"] \in log
    BY <1>1, <2>2, ServeChunkTables, WriteKeeps
  <2> HIDE DEF log
  <2>6. CASE o \in served
    <3>1. CASE raw[s][t] # NoRow /\ raw[s][t].val = o.val
      BY <2>3, <2>5, <3>1
    <3>2. CASE \E v \in revision : v.series = s /\ v.slot = t /\ v.val = o.val
      BY <2>4, <3>2
    <3> QED BY <2>6, <3>1, <3>2 DEF NothingServedIsLost
  <2>7. CASE o \in OffersOf(c, time)
    <3>1. c[s][t] = o.val /\ c[s][t] # NoVal
      BY <2>2, <2>7, StoreAssumption DEF OffersOf
    <3> QED BY <2>3, <2>5, <3>1
  <2> QED BY <2>1, <2>6, <2>7
<1>2. ASSUME NEW r \in Rankings, Reselect(r) PROVE NothingServedIsLost'
  BY <1>2 DEF Reselect, NothingServedIsLost
<1>3. ASSUME NEW r \in Rankings, SetPolicy(r) PROVE NothingServedIsLost'
  BY <1>3 DEF SetPolicy, NothingServedIsLost
<1>4. CASE UNCHANGED tables
  BY <1>4 DEF tables, NothingServedIsLost
<1> QED BY <1>1, <1>2, <1>3, <1>4 DEF Next

\* Every value a vendor ever served is stored or in the revision log.
THEOREM StoreNothingLost == Spec => []NothingServedIsLost
<1>1. Init => NothingServedIsLost
  <2> SUFFICES ASSUME Init, NEW o \in served
               PROVE  /\ raw[o.series][o.slot] # NoRow
                      /\ raw[o.series][o.slot].val = o.val
    BY DEF NothingServedIsLost
  <2>1. raw[o.series][o.slot] = [val |-> o.val, served |-> 0] /\ o.val \in Vals
    BY DEF Init
  <2>2. [val |-> o.val, served |-> 0] # NoRow
    BY <2>1, SelectionAssumption
  <2> QED BY <2>1, <2>2
<1> QED BY <1>1, NothingLostStep, StoreTypeCorrect, PTL DEF Spec

\* The serve time of a stored row never goes back and no row vanishes.
THEOREM StoreServeTime == Spec => ServeTimeNeverGoesBack
<1>1. StoreTypeOK /\ [Next]_tables => [ServeTimeForward]_raw
  <2> SUFFICES ASSUME StoreTypeOK, [Next]_tables PROVE [ServeTimeForward]_raw
    OBVIOUS
  <2>1. ASSUME NEW c \in Chunks, NEW time \in Times, NEW r \in Rankings,
               ServeChunk(c, time, r)
        PROVE  ServeTimeForward
    <3> SUFFICES ASSUME NEW s \in Series, NEW t \in Slots, raw[s][t] # NoRow
                 PROVE  /\ raw'[s][t] # NoRow
                        /\ raw'[s][t].served >= raw[s][t].served
      BY DEF ServeTimeForward
    <3>1. /\ raw[s] \in SeriesRows /\ c[s] \in SeriesOffer /\ time \in Nat
          /\ raw'[s] = Upsert(raw[s], RowsWritten(raw[s], c[s], time))
      BY <2>1, ServeChunkTables
    <3> QED BY <3>1, WriteKeeps
  <2>2. ASSUME NEW r \in Rankings, Reselect(r) PROVE UNCHANGED raw
    BY <2>2 DEF Reselect
  <2>3. ASSUME NEW r \in Rankings, SetPolicy(r) PROVE UNCHANGED raw
    BY <2>3 DEF SetPolicy
  <2>4. CASE UNCHANGED tables
    BY <2>4 DEF tables
  <2> QED BY <2>1, <2>2, <2>3, <2>4 DEF Next
<1> QED BY <1>1, StoreTypeCorrect, PTL DEF Spec, ServeTimeNeverGoesBack

\* Canonical is what selecting the raw rows again would give.
THEOREM StoreSettled == Spec => []SelectionIsSettled
<1>1. Init => SelectionIsSettled
  BY SelectionIdempotent, ChoiceIdempotent DEF Init, SelectionIsSettled
<1>2. SelectionIsSettled /\ [Next]_tables => SelectionIsSettled'
  <2> SUFFICES ASSUME SelectionIsSettled, [Next]_tables
               PROVE  SelectionIsSettled'
    OBVIOUS
  <2>1. ASSUME NEW c \in Chunks, NEW time \in Times, NEW r \in Rankings,
               ServeChunk(c, time, r)
        PROVE  SelectionIsSettled'
    BY <2>1, SelectionIdempotent, ChoiceIdempotent
       DEF ServeChunk, Select, SelectionIsSettled
  <2>2. ASSUME NEW r \in Rankings, Reselect(r) PROVE SelectionIsSettled'
    BY <2>2, SelectionIdempotent, ChoiceIdempotent
       DEF Reselect, Select, SelectionIsSettled
  <2>3. ASSUME NEW r \in Rankings, SetPolicy(r) PROVE SelectionIsSettled'
    BY <2>3 DEF SetPolicy, SelectionIsSettled
  <2>4. CASE UNCHANGED tables
    BY <2>4 DEF tables, SelectionIsSettled
  <2> QED BY <2>1, <2>2, <2>3, <2>4 DEF Next
<1> QED BY <1>1, <1>2, PTL DEF Spec

\* Canonical holds only slots that still have a candidate, and those the last
\* selection did not skip are of the vendor the raw rows and its ranking give.
OneVendorInv ==
  \A t \in Slots :
    canonical[t] # NoRow =>
      /\ t \in HeldSlots(raw)
      /\ Skipped(t) \/ VendorOf[canonical[t].series] = Chosen(raw, basis)

\* A selection over a canonical table without leftovers takes the session
\* from one vendor, but for the slots whose winner has no volume.
LEMMA SelectOneVendor ==
  ASSUME NEW tbl \in RawType, NEW r, NEW can,
         \A t \in Slots : can[t] # NoRow => t \in HeldSlots(tbl),
         NEW t \in Slots, SelectAndWrite(can, tbl, r)[t] # NoRow
  PROVE  /\ t \in HeldSlots(tbl)
         /\ \/ /\ t \in WinnerSlots(tbl, r)
               /\ Winner(tbl, r, t).val \in NullVolume
            \/ VendorOf[SelectAndWrite(can, tbl, r)[t].series] = Chosen(tbl, r)
<1>1. t \in WinnerSlots(tbl, r)
  BY DEF SelectAndWrite, RetractedSlots
<1>2. CASE Winner(tbl, r, t).val \in NullVolume
  <2>1. SelectAndWrite(can, tbl, r)[t] = can[t]
    BY <1>1, <1>2 DEF SelectAndWrite
  <2> QED BY <1>1, <1>2, <2>1
<1>3. CASE Winner(tbl, r, t).val \notin NullVolume
  <2>1. SelectAndWrite(can, tbl, r)[t] = Winner(tbl, r, t)
    BY <1>1, <1>3 DEF SelectAndWrite
  <2>2. Winner(tbl, r, t).series = Best(tbl, Chosen(tbl, r), t)
    BY DEF Winner
  <2> QED BY <1>1, <2>1, <2>2, WinnerIsStored
<1> QED BY <1>2, <1>3

\* A chunk never empties a slot.
LEMMA HeldSlotsStay ==
  ASSUME StoreTypeOK, NEW c \in Chunks, NEW time \in Times, NEW r \in Rankings,
         ServeChunk(c, time, r)
  PROVE  HeldSlots(raw) \subseteq HeldSlots(raw')
<1>1. ASSUME NEW s \in Series, NEW t \in Slots, raw[s][t] # NoRow
      PROVE  raw'[s][t] # NoRow
  <2>1. PICK new : raw'[s] = Upsert(raw[s], new)
    BY ServeChunkTables
  <2> QED BY <1>1, <2>1 DEF Upsert
<1> QED BY <1>1 DEF HeldSlots, Candidates

\* A session's canonical rows have one vendor, but for the slots whose winner
\* has no volume: SelectAndWrite skips them.
THEOREM StoreOneVendor == Spec => []SessionFromOneVendor
<1>1. Init => OneVendorInv
  <2> SUFFICES ASSUME Init PROVE OneVendorInv
    OBVIOUS
  <2>1. raw \in RawType /\ basis = policy
    BY StoreAssumption DEF Init
  <2>2. \A t \in Slots : NoRows[t] # NoRow => t \in HeldSlots(raw)
    BY DEF NoRows
  <2> QED BY <2>1, <2>2, SelectOneVendor DEF Init, OneVendorInv, Skipped
<1>2. StoreTypeOK /\ OneVendorInv /\ [Next]_tables => OneVendorInv'
  <2> SUFFICES ASSUME StoreTypeOK, OneVendorInv, [Next]_tables
               PROVE  OneVendorInv'
    OBVIOUS
  <2>1. ASSUME NEW c \in Chunks, NEW time \in Times, NEW r \in Rankings,
               ServeChunk(c, time, r)
        PROVE  OneVendorInv'
    <3>1. raw' \in RawType
      BY <2>1, ServeChunkTables
    <3>2. \A t \in Slots : canonical[t] # NoRow => t \in HeldSlots(raw')
      BY <2>1, HeldSlotsStay DEF OneVendorInv
    <3>3. canonical' = SelectAndWrite(canonical, raw', r) /\ basis' = r
      BY <2>1 DEF ServeChunk, Select
    <3> QED BY <3>1, <3>2, <3>3, SelectOneVendor DEF OneVendorInv, Skipped
  <2>2. ASSUME NEW r \in Rankings, Reselect(r) PROVE OneVendorInv'
    <3>1. /\ raw' = raw /\ raw \in RawType
          /\ canonical' = SelectAndWrite(canonical, raw, r) /\ basis' = r
      BY <2>2 DEF Reselect, Select, StoreTypeOK
    <3>2. \A t \in Slots : canonical[t] # NoRow => t \in HeldSlots(raw)
      BY DEF OneVendorInv
    <3> QED BY <3>1, <3>2, SelectOneVendor DEF OneVendorInv, Skipped
  <2>3. ASSUME NEW r \in Rankings, SetPolicy(r) PROVE OneVendorInv'
    BY <2>3 DEF SetPolicy, OneVendorInv, Skipped
  <2>4. CASE UNCHANGED tables
    BY <2>4 DEF tables, OneVendorInv, Skipped
  <2> QED BY <2>1, <2>2, <2>3, <2>4 DEF Next
<1>3. OneVendorInv => SessionFromOneVendor
  BY DEF OneVendorInv, SessionFromOneVendor
<1> QED BY <1>1, <1>2, <1>3, StoreTypeCorrect, PTL DEF Spec

-----------------------------------------------------------------------------
(* The transactions                                                        *)

\* The locks a transaction holds at each step.
LockInv ==
  \A p \in Procs :
    /\ pc[p] \in {"select", "commit"} => selLock = p
    /\ \A s \in done[p] : seriesLock[s] = p
    /\ pc[p] = "write" =>
         \A s \in Series : IsNext(p, s) => seriesLock[s] = p

\* How far the transaction is, and what it is about.
ProgressInv ==
  \A p \in Procs :
    /\ pc[p] = "idle" => /\ chunk[p] = EmptyChunk
                         /\ done[p] = {}
                         /\ newPolicy[p] = NoRow
    /\ chunk[p] # EmptyChunk => chunk[p] \in Chunks /\ at[p] \in Times
    /\ done[p] \subseteq SeriesOf(chunk[p])
    /\ pc[p] \in {"select", "commit"} => /\ done[p] = SeriesOf(chunk[p])
                                         /\ ranking[p] \in Rankings
    /\ chunk[p] # EmptyChunk => newPolicy[p] = NoRow
    /\ newPolicy[p] # NoRow => newPolicy[p] = ranking[p]
                               /\ pc[p] \in {"select", "commit"}

\* The staged rows, revisions and preview are those of the committed rows.
StagedInv ==
  \A p \in Procs :
    /\ \A s \in Series :
         rows[p][s] = IF s \in done[p]
                      THEN RowsWritten(raw[s], chunk[p][s], at[p]) ELSE NoRows
    /\ revs[p] = UNION {RevisionsLogged(s, raw[s], chunk[p][s], at[p]) :
                          s \in done[p]}
    /\ pc[p] = "write" =>
         \A s \in Series : IsNext(p, s) =>
           preview[p] = Classify(raw[s], chunk[p][s], at[p])

\* The staged selection is that of the committed tables with the
\* transaction's own rows.
SelectedInv ==
  \A p \in Procs :
    pc[p] = "commit" =>
      /\ selected[p] =
           SelectAndWrite(canonical, Merge(raw, rows[p]), ranking[p])
      /\ chosen[p] =
           RecordSessionChoice(choice, Merge(raw, rows[p]), ranking[p])

\* The ranking read under the selection lock is still in force.
PolicyInv ==
  ~ planned =>
    /\ basis = policy
    /\ \A p \in Procs :
         pc[p] \in {"select", "commit"} =>
           ranking[p] = IF newPolicy[p] = NoRow THEN policy ELSE newPolicy[p]

\* preview and chosen are indexed by the processes, whatever they hold.
FunctionInv ==
  /\ preview = [p \in Procs |-> preview[p]]
  /\ chosen = [p \in Procs |-> chosen[p]]

IngressInv ==
  TypeOK /\ FunctionInv /\ LockInv /\ ProgressInv /\ StagedInv /\ SelectedInv

-----------------------------------------------------------------------------
\* The empty chunk offers nothing.
LEMMA EmptyChunkFacts ==
  /\ EmptyChunk \in ChunkType
  /\ SeriesOf(EmptyChunk) = {}
  /\ \A time : OffersOf(EmptyChunk, time) = {}
  /\ NothingWritten \in RawType
  /\ NoRows \in [Slots -> CanonicalRow \cup {NoRow}]
BY StoreAssumption DEF EmptyChunk, ChunkType, SeriesOf, OffersOf,
                       NothingWritten, NoRows, RawType

\* Writing nothing changes nothing.
LEMMA UpsertNothing ==
  ASSUME NEW stored \in SeriesRows PROVE Upsert(stored, NoRows) = stored
BY DEF Upsert, NoRows, SeriesRows

\* A series without an offer gets no rows.
LEMMA NoOfferNoRows ==
  ASSUME NEW c, NEW s \in Series, s \notin SeriesOf(c), NEW stored, NEW time
  PROVE  RowsWritten(stored, c[s], time) = NoRows
BY DEF SeriesOf, RowsWritten, Classify, NoRows

\* ohlcv_raw with a transaction's rows is well typed.
LEMMA MergeType ==
  ASSUME NEW tbl \in RawType, NEW new \in RawType
  PROVE  Merge(tbl, new) \in RawType
<1> SUFFICES ASSUME NEW s \in Series
             PROVE  Upsert(tbl[s], new[s]) \in [Slots -> Row \cup {NoRow}]
  BY DEF Merge, RawType
<1> QED BY DEF Upsert, RawType

\* The next series to write is one only.
LEMMA NextIsUnique ==
  ASSUME NEW p, NEW s \in Series, NEW u \in Series, IsNext(p, s), IsNext(p, u)
  PROVE  s = u
<1>1. SeriesOrder[s] <= SeriesOrder[u] /\ SeriesOrder[u] <= SeriesOrder[s]
  BY DEF IsNext
<1> QED BY <1>1, IngressAssumption

-----------------------------------------------------------------------------
\* A commit leaves alone the rows of every series another transaction holds.
LEMMA CommitKeepsLocked ==
  ASSUME IngressInv, NEW p \in Procs, Commit(p),
         NEW s \in Series, seriesLock[s] # p
  PROVE  raw'[s] = raw[s]
<1>1. s \notin done[p]
  BY DEF IngressInv, LockInv
<1>2. rows[p][s] = NoRows
  BY <1>1 DEF IngressInv, StagedInv
<1>3. raw[s] \in SeriesRows
  BY DEF IngressInv, TypeOK, StoreTypeOK, RawType, SeriesRows
<1>4. raw'[s] = Upsert(raw[s], rows[p][s])
  BY DEF Commit, Merge
<1> QED BY <1>2, <1>3, <1>4, UpsertNothing

\* What ending a transaction leaves.
LEMMA EndTxFacts ==
  ASSUME TypeOK, FunctionInv, NEW p \in Procs, EndTx(p)
  PROVE  /\ \A q \in Procs : q # p =>
              /\ pc'[q] = pc[q] /\ chunk'[q] = chunk[q] /\ at'[q] = at[q]
              /\ preview'[q] = preview[q] /\ done'[q] = done[q]
              /\ rows'[q] = rows[q] /\ revs'[q] = revs[q]
              /\ ranking'[q] = ranking[q] /\ newPolicy'[q] = newPolicy[q]
              /\ selected'[q] = selected[q] /\ chosen'[q] = chosen[q]
              /\ selLock = q => selLock' = q
              /\ \A s \in Series : seriesLock[s] = q => seriesLock'[s] = q
         /\ pc'[p] = "idle" /\ chunk'[p] = EmptyChunk /\ done'[p] = {}
         /\ rows'[p] = NothingWritten /\ revs'[p] = {}
         /\ newPolicy'[p] = NoRow
<1>1. \A q \in Procs : q # p =>
        /\ pc'[q] = pc[q] /\ chunk'[q] = chunk[q] /\ at'[q] = at[q]
        /\ done'[q] = done[q]
        /\ rows'[q] = rows[q] /\ revs'[q] = revs[q]
        /\ ranking'[q] = ranking[q] /\ newPolicy'[q] = newPolicy[q]
        /\ selected'[q] = selected[q]
  BY DEF EndTx, TypeOK
<1>2. \A q \in Procs : q # p => preview'[q] = preview[q] /\ chosen'[q] = chosen[q]
  BY DEF EndTx, FunctionInv
<1>3. \A q \in Procs : q # p =>
        /\ selLock = q => selLock' = q
        /\ \A s \in Series : seriesLock[s] = q => seriesLock'[s] = q
  BY DEF EndTx
<1>4. /\ pc'[p] = "idle" /\ chunk'[p] = EmptyChunk /\ done'[p] = {}
      /\ rows'[p] = NothingWritten /\ revs'[p] = {}
      /\ newPolicy'[p] = NoRow
  BY DEF EndTx, TypeOK
<1> QED BY <1>1, <1>2, <1>3, <1>4

-----------------------------------------------------------------------------
(* One lemma per action: it preserves the invariant.                       *)

LEMMA BeginChunkStep ==
  ASSUME IngressInv, NEW p \in Procs, NEW c \in Chunks, NEW time \in Times,
         BeginChunk(p, c, time)
  PROVE  IngressInv'
<1> USE DEF IngressInv
<1>1. c \in ChunkType /\ time \in Nat /\ UNCHANGED tables
  BY StoreAssumption DEF Times, BeginChunk
<1>2. TypeOK'
  BY <1>1, IngressAssumption
     DEF TypeOK, StoreTypeOK, BeginChunk, tables, locks
<1>3. FunctionInv'
  BY DEF FunctionInv, BeginChunk
<1>4. done[p] = {} /\ newPolicy[p] = NoRow
  BY DEF ProgressInv, BeginChunk
<1>5. LockInv'
  BY <1>4 DEF LockInv, BeginChunk, TypeOK, locks, IsNext, Pending
<1>6. ProgressInv'
  BY <1>4 DEF ProgressInv, BeginChunk, TypeOK
<1>7. StagedInv'
  BY <1>1, <1>4 DEF StagedInv, BeginChunk, TypeOK, tables, IsNext, Pending
<1>8. SelectedInv'
  BY <1>1 DEF SelectedInv, BeginChunk, TypeOK, tables
<1> QED BY <1>2, <1>3, <1>5, <1>6, <1>7, <1>8

\* preview_series keeps the invariant.
LEMMA PreviewSeriesStep ==
  ASSUME IngressInv, NEW p \in Procs, NEW s \in Series, PreviewSeries(p, s)
  PROVE  IngressInv'
<1> USE DEF IngressInv
<1>1. UNCHANGED <<tables, selLock, chunk, at, done, rows, revs, ranking,
                  newPolicy, selected, chosen, bookkeeping>>
  BY DEF PreviewSeries
<1>2. TypeOK'
  BY <1>1 DEF TypeOK, StoreTypeOK, PreviewSeries, LockSeries, tables,
              bookkeeping
<1>3. FunctionInv'
  BY <1>1 DEF FunctionInv, PreviewSeries
<1>a. \A q \in Procs, u \in Series : IsNext(q, u)' <=> IsNext(q, u)
  BY <1>1 DEF IsNext, Pending
<1>b. \A u \in Series : IsNext(p, u) => u = s
  BY NextIsUnique DEF PreviewSeries
<1>4. LockInv'
  <2>1. /\ seriesLock'[s] = p
        /\ \A u \in Series : u # s => seriesLock'[u] = seriesLock[u]
        /\ \A q \in Procs : seriesLock[s] = q => q = p
    BY IngressAssumption DEF PreviewSeries, LockSeries, TypeOK
  <2>2. \A q \in Procs, u \in Series : seriesLock[u] = q => seriesLock'[u] = q
    BY <2>1
  <2>3. /\ pc'[p] = "write"
        /\ \A q \in Procs : q # p => pc'[q] = pc[q]
    BY DEF PreviewSeries, TypeOK
  <2> SUFFICES ASSUME NEW q \in Procs
               PROVE  /\ pc'[q] \in {"select", "commit"} => selLock' = q
                      /\ \A u \in done'[q] : seriesLock'[u] = q
                      /\ pc'[q] = "write" =>
                           \A u \in Series : IsNext(q, u)' => seriesLock'[u] = q
    BY DEF LockInv
  <2>4. pc'[q] \in {"select", "commit"} => selLock' = q
    BY <1>1, <2>3 DEF LockInv
  <2>5. \A u \in done'[q] : seriesLock'[u] = q
    BY <1>1, <2>2 DEF LockInv, TypeOK
  <2>6. ASSUME pc'[q] = "write", NEW u \in Series, IsNext(q, u)'
        PROVE  seriesLock'[u] = q
    BY <1>a, <1>b, <2>1, <2>2, <2>3, <2>6 DEF LockInv
  <2> QED BY <2>4, <2>5, <2>6
<1>5. ProgressInv'
  BY <1>1 DEF ProgressInv, PreviewSeries, TypeOK
<1>6. StagedInv'
  <2>1. /\ preview'[p] = Classify(raw[s], chunk[p][s], at[p])
        /\ \A q \in Procs : q # p => preview'[q] = preview[q] /\ pc'[q] = pc[q]
    BY DEF PreviewSeries, TypeOK, FunctionInv
  <2>2. UNCHANGED <<raw, chunk, at, done, rows, revs>>
    BY <1>1 DEF tables
  <2> QED BY <1>a, <1>b, <2>1, <2>2 DEF StagedInv
<1>7. SelectedInv'
  BY <1>1 DEF SelectedInv, PreviewSeries, TypeOK, tables
<1> QED BY <1>2, <1>3, <1>4, <1>5, <1>6, <1>7

\* write_raw keeps the invariant.
LEMMA WriteRawStep ==
  ASSUME IngressInv, NEW p \in Procs, NEW s \in Series, WriteRaw(p, s)
  PROVE  IngressInv'
<1> USE DEF IngressInv
<1>1. UNCHANGED <<tables, selLock, chunk, at, preview, ranking, newPolicy,
                  selected, chosen, bookkeeping>>
  BY DEF WriteRaw
<1>2. /\ raw[s] \in SeriesRows /\ chunk[p][s] \in SeriesOffer /\ at[p] \in Nat
      /\ s \notin done[p] /\ s \in SeriesOf(chunk[p])
      /\ seriesLock[s] = p /\ seriesLock' = seriesLock
  BY DEF TypeOK, StoreTypeOK, RawType, SeriesRows, ChunkType, SeriesOffer,
         WriteRaw, LockSeries, LockInv, IsNext, Pending
<1>3. /\ RowsWritten(raw[s], chunk[p][s], at[p]) \in [Slots -> Row \cup {NoRow}]
      /\ RevisionsLogged(s, raw[s], chunk[p][s], at[p]) \subseteq Revision
  BY <1>2, WriteType, RevisionType DEF SeriesRows
<1>4. TypeOK'
  <2>1. rows' \in [Procs -> RawType]
    BY <1>3 DEF TypeOK, WriteRaw, RawType
  <2>2. revs' \in [Procs -> SUBSET Revision]
    BY <1>3 DEF TypeOK, WriteRaw
  <2> QED BY <1>1, <1>2, <2>1, <2>2
          DEF TypeOK, StoreTypeOK, WriteRaw, tables, bookkeeping
<1>5. FunctionInv'
  BY <1>1 DEF FunctionInv
<1>6. LockInv'
  BY <1>1, <1>2 DEF LockInv, WriteRaw, TypeOK, IsNext, Pending
<1>7. ProgressInv'
  BY <1>1, <1>2 DEF ProgressInv, WriteRaw, TypeOK
<1>8. StagedInv'
  <2>1. ASSUME NEW q \in Procs, NEW u \in Series
        PROVE  rows'[q][u] =
                 IF u \in done'[q]
                 THEN RowsWritten(raw[u], chunk[q][u], at[q]) ELSE NoRows
    BY <1>1, <1>2 DEF StagedInv, WriteRaw, TypeOK, RawType
  <2>2. ASSUME NEW q \in Procs
        PROVE  revs'[q] = UNION {RevisionsLogged(u, raw[u], chunk[q][u], at[q]) :
                                   u \in done'[q]}
    <3>1. CASE q # p
      BY <3>1 DEF StagedInv, WriteRaw, TypeOK
    <3>2. CASE q = p
      <4>1. /\ revs'[p] = revs[p]
                 \cup RevisionsLogged(s, raw[s], chunk[p][s], at[p])
            /\ done'[p] = done[p] \cup {s}
        BY DEF WriteRaw, TypeOK
      <4> QED BY <3>2, <4>1 DEF StagedInv
    <3> QED BY <3>1, <3>2
  <2>3. ASSUME NEW q \in Procs, pc'[q] = "write", NEW u \in Series, IsNext(q, u)'
        PROVE  preview[q] = Classify(raw[u], chunk[q][u], at[q])
    <3>1. q # p /\ pc[q] = "write" /\ IsNext(q, u)
      BY <1>1, <2>3 DEF WriteRaw, TypeOK, IsNext, Pending
    <3> QED BY <3>1 DEF StagedInv
  <2>4. UNCHANGED <<raw, chunk, at, preview>>
    BY <1>1 DEF tables
  <2> QED BY <2>1, <2>2, <2>3, <2>4 DEF StagedInv
<1>9. SelectedInv'
  BY <1>1 DEF SelectedInv, WriteRaw, TypeOK, tables
<1> QED BY <1>4, <1>5, <1>6, <1>7, <1>8, <1>9

\* The three ways to take the selection lock.
LEMMA SelectionLockedStep ==
  ASSUME IngressInv, NEW p \in Procs, NEW r \in Rankings,
         \/ LockSelection(p)
         \/ WriteAndReselect(p, r)
         \/ ReselectSeries(p)
  PROVE  IngressInv'
<1> USE DEF IngressInv
<1>1. /\ UNCHANGED <<tables, seriesLock, chunk, at, preview, done, rows, revs,
                     selected, chosen, planned>>
      /\ selLock = NoProc /\ selLock' = p
      /\ pc' = [pc EXCEPT ![p] = "select"]
      /\ pc[p] \in {"idle", "series"}
  BY DEF LockSelection, WriteAndReselect, ReselectSeries, bookkeeping
<1>2. TypeOK'
  <2>1. started' \in 0..MaxTx
    BY IngressAssumption DEF TypeOK, LockSelection, WriteAndReselect,
                             ReselectSeries, bookkeeping
  <2>2. /\ ranking' \in [Procs -> Rankings \cup {<<>>}]
        /\ newPolicy' \in [Procs -> Rankings \cup {NoRow}]
    <3>1. CASE LockSelection(p)
      BY <3>1 DEF TypeOK, StoreTypeOK, LockSelection
    <3>2. CASE WriteAndReselect(p, r)
      BY <3>2 DEF TypeOK, WriteAndReselect
    <3>3. CASE ReselectSeries(p)
      BY <3>3 DEF TypeOK, StoreTypeOK, ReselectSeries
    <3> QED BY <3>1, <3>2, <3>3
  <2>3. pc' \in [Procs -> {"idle", "series", "write", "select", "commit"}]
    BY <1>1 DEF TypeOK
  <2> QED BY <1>1, <2>1, <2>2, <2>3 DEF TypeOK, StoreTypeOK, tables
<1>3. FunctionInv'
  BY <1>1 DEF FunctionInv
<1>4. LockInv'
  BY <1>1, IngressAssumption DEF LockInv, TypeOK, IsNext, Pending
<1>5. done[p] = SeriesOf(chunk[p])
  BY EmptyChunkFacts DEF ProgressInv, LockSelection, WriteAndReselect,
                         ReselectSeries, Pending
<1>6. ProgressInv'
  <2>1. policy \in Rankings
    BY DEF TypeOK, StoreTypeOK
  <2>2. CASE LockSelection(p) \/ ReselectSeries(p)
    <3>1. ranking' = [ranking EXCEPT ![p] = policy] /\ newPolicy' = newPolicy
      BY <2>2 DEF LockSelection, ReselectSeries
    <3>2. newPolicy[p] = NoRow
      BY <1>1 DEF ProgressInv
    <3> QED BY <1>1, <1>5, <2>1, <3>1, <3>2 DEF ProgressInv, TypeOK
  <2>3. CASE WriteAndReselect(p, r)
    <3>1. /\ ranking' = [ranking EXCEPT ![p] = r]
          /\ newPolicy' = [newPolicy EXCEPT ![p] = r]
          /\ pc[p] = "idle"
      BY <2>3 DEF WriteAndReselect
    <3> QED BY <1>1, <1>5, <3>1 DEF ProgressInv, TypeOK
  <2> QED BY <2>2, <2>3
<1>7. StagedInv'
  BY <1>1 DEF StagedInv, TypeOK, tables, IsNext, Pending
<1>8. SelectedInv'
  BY <1>1, IngressAssumption DEF SelectedInv, LockInv, TypeOK, tables
<1> QED BY <1>2, <1>3, <1>4, <1>6, <1>7, <1>8

\* The selection keeps the invariant.
LEMMA SelectSessionStep ==
  ASSUME IngressInv, NEW p \in Procs, SelectSession(p)
  PROVE  IngressInv'
<1> USE DEF IngressInv
<1>1. /\ UNCHANGED <<tables, locks, chunk, at, preview, done, rows, revs,
                     ranking, newPolicy, bookkeeping>>
      /\ pc[p] = "select"
      /\ pc' = [pc EXCEPT ![p] = "commit"]
  BY DEF SelectSession
<1>2. SelectAndWrite(canonical, Merge(raw, rows[p]), ranking[p])
        \in [Slots -> CanonicalRow \cup {NoRow}]
  BY MergeType, SelectAndWriteType DEF TypeOK, StoreTypeOK
<1>3. TypeOK'
  BY <1>1, <1>2 DEF TypeOK, StoreTypeOK, SelectSession, tables, locks,
                    bookkeeping
<1>4. FunctionInv'
  BY <1>1 DEF FunctionInv, SelectSession
<1>5. LockInv'
  BY <1>1 DEF LockInv, TypeOK, IsNext, Pending, locks
<1>6. ProgressInv'
  BY <1>1 DEF ProgressInv, TypeOK
<1>7. StagedInv'
  BY <1>1 DEF StagedInv, TypeOK, tables, IsNext, Pending
<1>8. SelectedInv'
  BY <1>1 DEF SelectedInv, SelectSession, TypeOK, FunctionInv, tables
<1> QED BY <1>3, <1>4, <1>5, <1>6, <1>7, <1>8

-----------------------------------------------------------------------------
(* Commit is a step of BarStore; no other step moves the tables.           *)

LEMMA CommitRefines ==
  ASSUME IngressInv, NEW p \in Procs, Commit(p)
  PROVE  Next
<1> USE DEF IngressInv
<1>1. /\ raw \in RawType /\ policy \in Rankings
      /\ done[p] = SeriesOf(chunk[p]) /\ ranking[p] \in Rankings
      /\ pc[p] = "commit"
  BY DEF TypeOK, StoreTypeOK, ProgressInv, Commit
<1>2. \A s \in Series : raw[s] \in SeriesRows
  BY <1>1 DEF RawType, SeriesRows
<1>3. raw' = [s \in Series |->
                Upsert(raw[s], RowsWritten(raw[s], chunk[p][s], at[p]))]
  <2>1. \A s \in Series : rows[p][s] = RowsWritten(raw[s], chunk[p][s], at[p])
    <3> SUFFICES ASSUME NEW s \in Series
                 PROVE  rows[p][s] = RowsWritten(raw[s], chunk[p][s], at[p])
      OBVIOUS
    <3>1. rows[p][s] = IF s \in done[p]
                       THEN RowsWritten(raw[s], chunk[p][s], at[p]) ELSE NoRows
      BY DEF StagedInv
    <3>2. CASE s \in done[p]
      BY <3>1, <3>2
    <3>3. CASE s \notin done[p]
      <4>1. s \notin SeriesOf(chunk[p])
        BY <1>1, <3>3
      <4>2. RowsWritten(raw[s], chunk[p][s], at[p]) = NoRows
        BY <4>1, NoOfferNoRows
      <4> QED BY <3>1, <3>3, <4>2
    <3> QED BY <3>2, <3>3
  <2> QED BY <2>1 DEF Commit, Merge
<1>4. Select(raw', ranking[p])
  BY <1>1 DEF SelectedInv, Commit, Select
<1>5. CASE chunk[p] # EmptyChunk
  <2>1. chunk[p] \in Chunks /\ at[p] \in Times /\ newPolicy[p] = NoRow
    BY <1>5 DEF ProgressInv
  <2>2. ServeChunk(chunk[p], at[p], ranking[p])
    BY <1>1, <1>3, <1>4, <2>1 DEF ServeChunk, Commit, StagedInv
  <2> QED BY <1>1, <2>1, <2>2 DEF Next
<1>6. CASE chunk[p] = EmptyChunk
  <2>1. done[p] = {}
    BY <1>1, <1>6, EmptyChunkFacts
  <2>2. raw' = raw
    <3>1. \A s \in Series : rows[p][s] = NoRows
      BY <2>1 DEF StagedInv
    <3>2. raw' = [s \in Series |-> raw[s]]
      BY <1>2, <3>1, UpsertNothing DEF Commit, Merge
    <3> QED BY <1>1, <3>2 DEF RawType
  <2>3. revs[p] = {}
    BY <2>1 DEF StagedInv
  <2>4. UNCHANGED <<raw, revision, served>>
    BY <1>6, <2>2, <2>3, EmptyChunkFacts DEF Commit
  <2>5. policy' \in {policy, ranking[p]}
    BY DEF Commit, ProgressInv
  <2>6. Reselect(ranking[p])
    BY <1>4, <2>2, <2>4, <2>5 DEF Reselect
  <2> QED BY <1>1, <2>6 DEF Next
<1> QED BY <1>5, <1>6

\* The end of a transaction keeps the types of its state.
LEMMA EndTxType ==
  ASSUME TypeOK, NEW p \in Procs, EndTx(p), StoreTypeOK'
  PROVE  TypeOK'
<1>1. /\ seriesLock' \in [Series -> Procs \cup {NoProc}]
      /\ selLock' \in Procs \cup {NoProc}
  BY DEF TypeOK, EndTx
<1>2. /\ pc' \in [Procs -> {"idle", "series", "write", "select", "commit"}]
      /\ chunk' \in [Procs -> ChunkType]
      /\ at' \in [Procs -> Nat]
      /\ done' \in [Procs -> SUBSET Series]
  BY EmptyChunkFacts DEF TypeOK, EndTx
<1>3. /\ rows' \in [Procs -> RawType]
      /\ revs' \in [Procs -> SUBSET Revision]
      /\ selected' \in [Procs -> [Slots -> CanonicalRow \cup {NoRow}]]
  BY EmptyChunkFacts DEF TypeOK, EndTx
<1>4. /\ ranking' \in [Procs -> Rankings \cup {<<>>}]
      /\ newPolicy' \in [Procs -> Rankings \cup {NoRow}]
      /\ planned' \in BOOLEAN /\ started' \in 0..MaxTx
  BY DEF TypeOK, EndTx, bookkeeping
<1> QED BY <1>1, <1>2, <1>3, <1>4 DEF TypeOK

\* A commit keeps the invariant, of the other transactions above all.
LEMMA CommitStep ==
  ASSUME IngressInv, NEW p \in Procs, Commit(p)
  PROVE  IngressInv'
<1> USE DEF IngressInv
<1>1. EndTx(p) /\ pc[p] = "commit" /\ selLock = p
  BY DEF Commit, LockInv
<1>2. StoreTypeOK'
  BY CommitRefines, StoreTypeStep DEF TypeOK
<1>3. TypeOK'
  BY <1>1, <1>2, EndTxType
<1>4. FunctionInv'
  BY <1>1 DEF EndTx, FunctionInv
<1>5. \A q \in Procs : q # p => pc[q] \notin {"select", "commit"}
  BY <1>1 DEF LockInv
<1>6. \A q \in Procs, s \in Series : q # p /\ seriesLock[s] = q => raw'[s] = raw[s]
  BY CommitKeepsLocked
<1>7. \A q \in Procs, s \in Series : q # p => (IsNext(q, s)' <=> IsNext(q, s))
  BY <1>1, EndTxFacts DEF IsNext, Pending
<1>8. LockInv'
  <2> SUFFICES ASSUME NEW q \in Procs
               PROVE  /\ pc'[q] \in {"select", "commit"} => selLock' = q
                      /\ \A u \in done'[q] : seriesLock'[u] = q
                      /\ pc'[q] = "write" =>
                           \A u \in Series : IsNext(q, u)' => seriesLock'[u] = q
    BY DEF LockInv
  <2>1. CASE q = p
    BY <1>1, <2>1, EndTxFacts
  <2>2. CASE q # p
    BY <1>1, <1>5, <1>7, <2>2, EndTxFacts DEF LockInv, TypeOK
  <2> QED BY <2>1, <2>2
<1>9. ProgressInv'
  <2> SUFFICES ASSUME NEW q \in Procs
               PROVE  ProgressInv!(q)'
    BY DEF ProgressInv
  <2>1. CASE q = p
    BY <1>1, <2>1, EndTxFacts, EmptyChunkFacts
  <2>2. CASE q # p
    BY <1>1, <2>2, EndTxFacts DEF ProgressInv
  <2> QED BY <2>1, <2>2
<1>10. StagedInv'
  <2> SUFFICES ASSUME NEW q \in Procs
               PROVE  StagedInv!(q)'
    BY DEF StagedInv
  <2>1. CASE q = p
    BY <1>1, <2>1, EndTxFacts DEF NothingWritten
  <2>2. CASE q # p
    <3>1. \A s \in done[q] : s \in Series /\ raw'[s] = raw[s]
      BY <1>6, <2>2 DEF LockInv, TypeOK
    <3>2. pc[q] = "write" => \A s \in Series : IsNext(q, s) => raw'[s] = raw[s]
      BY <1>6, <2>2 DEF LockInv
    <3>3. /\ pc'[q] = pc[q] /\ chunk'[q] = chunk[q] /\ at'[q] = at[q]
          /\ preview'[q] = preview[q] /\ done'[q] = done[q]
          /\ rows'[q] = rows[q] /\ revs'[q] = revs[q]
      BY <1>1, <2>2, EndTxFacts
    <3>4. \A s \in Series :
            rows'[q][s] = IF s \in done'[q]
                          THEN RowsWritten(raw'[s], chunk'[q][s], at'[q])
                          ELSE NoRows
      BY <3>1, <3>3 DEF StagedInv
    <3>5. revs'[q] = UNION {RevisionsLogged(s, raw'[s], chunk'[q][s], at'[q]) :
                              s \in done'[q]}
      <4>1. {RevisionsLogged(s, raw'[s], chunk'[q][s], at'[q]) : s \in done'[q]}
              = {RevisionsLogged(s, raw[s], chunk[q][s], at[q]) : s \in done[q]}
        BY <3>1, <3>3
      <4> QED BY <3>3, <4>1 DEF StagedInv
    <3>6. pc'[q] = "write" =>
            \A s \in Series : IsNext(q, s)' =>
              preview'[q] = Classify(raw'[s], chunk'[q][s], at'[q])
      BY <1>7, <2>2, <3>2, <3>3 DEF StagedInv
    <3> QED BY <3>4, <3>5, <3>6
  <2> QED BY <2>1, <2>2
<1>11. SelectedInv'
  BY <1>1, <1>5, EndTxFacts DEF SelectedInv
<1> QED BY <1>3, <1>4, <1>8, <1>9, <1>10, <1>11

\* A rollback keeps the invariant.
LEMMA RollbackStep ==
  ASSUME IngressInv, NEW p \in Procs, Rollback(p)
  PROVE  IngressInv'
<1> USE DEF IngressInv
<1>1. EndTx(p) /\ UNCHANGED tables
  BY DEF Rollback
<1>2. StoreTypeOK'
  BY <1>1 DEF TypeOK, StoreTypeOK, tables
<1>3. TypeOK'
  BY <1>1, <1>2, EndTxType
<1>4. FunctionInv'
  BY <1>1 DEF EndTx, FunctionInv
<1>5. \A q \in Procs, s \in Series : q # p => (IsNext(q, s)' <=> IsNext(q, s))
  BY <1>1, EndTxFacts DEF IsNext, Pending
<1>6. LockInv'
  <2> SUFFICES ASSUME NEW q \in Procs
               PROVE  /\ pc'[q] \in {"select", "commit"} => selLock' = q
                      /\ \A u \in done'[q] : seriesLock'[u] = q
                      /\ pc'[q] = "write" =>
                           \A u \in Series : IsNext(q, u)' => seriesLock'[u] = q
    BY DEF LockInv
  <2>1. CASE q = p
    BY <1>1, <2>1, EndTxFacts
  <2>2. CASE q # p
    BY <1>1, <1>5, <2>2, EndTxFacts DEF LockInv, TypeOK
  <2> QED BY <2>1, <2>2
<1>7. ProgressInv'
  <2> SUFFICES ASSUME NEW q \in Procs
               PROVE  ProgressInv!(q)'
    BY DEF ProgressInv
  <2>1. CASE q = p
    BY <1>1, <2>1, EndTxFacts, EmptyChunkFacts
  <2>2. CASE q # p
    BY <1>1, <2>2, EndTxFacts DEF ProgressInv
  <2> QED BY <2>1, <2>2
<1>8. StagedInv'
  <2> SUFFICES ASSUME NEW q \in Procs
               PROVE  StagedInv!(q)'
    BY DEF StagedInv
  <2>1. CASE q = p
    BY <1>1, <2>1, EndTxFacts DEF NothingWritten
  <2>2. CASE q # p
    BY <1>1, <1>5, <2>2, EndTxFacts DEF StagedInv, tables
  <2> QED BY <2>1, <2>2
<1>9. SelectedInv'
  <2> SUFFICES ASSUME NEW q \in Procs, pc'[q] = "commit"
               PROVE  /\ selected'[q] =
                           SelectAndWrite(canonical', Merge(raw', rows'[q]), ranking'[q])
                      /\ chosen'[q] =
                           RecordSessionChoice(choice', Merge(raw', rows'[q]), ranking'[q])
    BY DEF SelectedInv
  <2>1. q # p
    BY <1>1, EndTxFacts
  <2> QED BY <1>1, <2>1, EndTxFacts DEF SelectedInv, tables
<1> QED BY <1>3, <1>4, <1>6, <1>7, <1>8, <1>9

\* A policy row committed alone keeps the invariant.
LEMMA ApplyPlanStep ==
  ASSUME IngressInv, NEW r \in Rankings, ApplyPlan(r)
  PROVE  IngressInv'
<1> USE DEF IngressInv
<1>1. /\ UNCHANGED <<raw, revision, canonical, choice, basis, served>>
      /\ UNCHANGED <<seriesLock, selLock, pc, chunk, at, preview, done, rows,
                     revs, ranking, newPolicy, selected, chosen>>
      /\ policy' = r /\ planned' = TRUE
  BY DEF ApplyPlan, locks, txVars
<1>2. started' \in 0..MaxTx
  BY IngressAssumption DEF ApplyPlan, TypeOK
<1>3. TypeOK'
  BY <1>1, <1>2 DEF TypeOK, StoreTypeOK
<1>4. FunctionInv' /\ LockInv' /\ ProgressInv'
  BY <1>1 DEF FunctionInv, LockInv, ProgressInv, IsNext, Pending
<1>5. StagedInv' /\ SelectedInv'
  BY <1>1 DEF StagedInv, SelectedInv, IsNext, Pending
<1> QED BY <1>3, <1>4, <1>5

\* A stuttering step keeps the invariant.
LEMMA StutterStep ==
  ASSUME IngressInv, UNCHANGED vars
  PROVE  IngressInv'
<1> USE DEF IngressInv
<1>1. /\ UNCHANGED <<raw, revision, canonical, choice, policy, basis, served>>
      /\ UNCHANGED <<seriesLock, selLock, pc, chunk, at, preview, done, rows,
                     revs, ranking, newPolicy, selected, chosen, planned,
                     started>>
  BY DEF vars, tables, locks, txVars, bookkeeping
<1>2. TypeOK' /\ FunctionInv' /\ LockInv' /\ ProgressInv'
  BY <1>1 DEF TypeOK, StoreTypeOK, FunctionInv, LockInv, ProgressInv, IsNext,
              Pending
<1>3. StagedInv' /\ SelectedInv'
  BY <1>1 DEF StagedInv, SelectedInv, IsNext, Pending
<1> QED BY <1>2, <1>3

\* The invariant holds initially.
LEMMA IngressInvInit == IngressInit => IngressInv
<1> SUFFICES ASSUME IngressInit PROVE IngressInv
  OBVIOUS
<1>1. StoreTypeOK
  BY StoreTypeInit DEF IngressInit
<1>2. TypeOK
  <2>1. /\ seriesLock \in [Series -> Procs \cup {NoProc}]
        /\ selLock \in Procs \cup {NoProc}
        /\ pc \in [Procs -> {"idle", "series", "write", "select", "commit"}]
        /\ at \in [Procs -> Nat]
        /\ done \in [Procs -> SUBSET Series]
    BY DEF IngressInit
  <2>2. /\ chunk \in [Procs -> ChunkType]
        /\ rows \in [Procs -> RawType]
        /\ selected \in [Procs -> [Slots -> CanonicalRow \cup {NoRow}]]
    BY EmptyChunkFacts DEF IngressInit
  <2>3. /\ revs \in [Procs -> SUBSET Revision]
        /\ newPolicy \in [Procs -> Rankings \cup {NoRow}]
    BY DEF IngressInit
  <2>6. ranking \in [Procs -> Rankings \cup {<<>>}]
    BY Zenon DEF IngressInit
  <2>4. planned \in BOOLEAN
    BY Zenon DEF IngressInit
  <2>5. started \in 0..MaxTx
    BY IngressAssumption DEF IngressInit
  <2> QED BY <1>1, <2>1, <2>2, <2>3, <2>4, <2>5, <2>6 DEF TypeOK
<1>3. FunctionInv /\ LockInv
  BY DEF IngressInit, FunctionInv, LockInv
<1>4. ProgressInv /\ SelectedInv
  BY EmptyChunkFacts DEF IngressInit, ProgressInv, SelectedInv
<1>5. StagedInv
  BY DEF IngressInit, StagedInv, NothingWritten
<1> QED BY <1>2, <1>3, <1>4, <1>5 DEF IngressInv

\* The invariant is inductive.
LEMMA IngressInvStep == IngressInv /\ [IngressNext]_vars => IngressInv'
<1> SUFFICES ASSUME IngressInv, [IngressNext]_vars PROVE IngressInv'
  OBVIOUS
<1>1. ASSUME NEW p \in Procs, ProcNext(p) PROVE IngressInv'
  <2>1. ASSUME NEW s \in Series, PreviewSeries(p, s) PROVE IngressInv'
    BY <2>1, PreviewSeriesStep
  <2>2. ASSUME NEW s \in Series, WriteRaw(p, s) PROVE IngressInv'
    BY <2>2, WriteRawStep
  <2>3. CASE LockSelection(p)
    <3>1. policy \in Rankings
      BY DEF IngressInv, TypeOK, StoreTypeOK
    <3> QED BY <2>3, <3>1, SelectionLockedStep
  <2>4. CASE SelectSession(p)
    BY <2>4, SelectSessionStep
  <2>5. CASE Commit(p)
    BY <2>5, CommitStep
  <2> QED BY <1>1, <2>1, <2>2, <2>3, <2>4, <2>5 DEF ProcNext
<1>2. ASSUME NEW p \in Procs, NEW c \in Chunks, NEW time \in Times,
             BeginChunk(p, c, time)
      PROVE  IngressInv'
  BY <1>2, BeginChunkStep
<1>3. ASSUME NEW p \in Procs, NEW r \in Rankings, WriteAndReselect(p, r)
      PROVE  IngressInv'
  BY <1>3, SelectionLockedStep
<1>4. ASSUME NEW p \in Procs, ReselectSeries(p) PROVE IngressInv'
  <2>1. policy \in Rankings
    BY DEF IngressInv, TypeOK, StoreTypeOK
  <2> QED BY <1>4, <2>1, SelectionLockedStep
<1>5. ASSUME NEW r \in Rankings, ApplyPlan(r) PROVE IngressInv'
  BY <1>5, ApplyPlanStep
<1>6. ASSUME NEW p \in Procs, Rollback(p) PROVE IngressInv'
  BY <1>6, RollbackStep
<1>7. CASE UNCHANGED vars
  BY <1>7, StutterStep
<1> QED BY <1>1, <1>2, <1>3, <1>4, <1>5, <1>6, <1>7 DEF IngressNext

-----------------------------------------------------------------------------
(* Every step is a step of BarStore or leaves its tables alone.            *)

LEMMA IngressStepRefines ==
  IngressInv /\ [IngressNext]_vars => [Next]_tables
<1> SUFFICES ASSUME IngressInv, [IngressNext]_vars PROVE [Next]_tables
  OBVIOUS
<1>1. ASSUME NEW p \in Procs, ProcNext(p) PROVE [Next]_tables
  <2>1. CASE Commit(p)
    BY <2>1, CommitRefines
  <2>2. CASE ~ Commit(p)
    <3>1. UNCHANGED tables
      BY <1>1, <2>2 DEF ProcNext, PreviewSeries, WriteRaw, LockSelection,
                        SelectSession
    <3> QED BY <3>1
  <2> QED BY <2>1, <2>2
<1>2. ASSUME NEW p \in Procs, NEW c \in Chunks, NEW time \in Times,
             BeginChunk(p, c, time)
      PROVE  [Next]_tables
  BY <1>2 DEF BeginChunk
<1>3. ASSUME NEW p \in Procs, NEW r \in Rankings, WriteAndReselect(p, r)
      PROVE  [Next]_tables
  BY <1>3 DEF WriteAndReselect
<1>4. ASSUME NEW p \in Procs, ReselectSeries(p) PROVE [Next]_tables
  BY <1>4 DEF ReselectSeries
<1>5. ASSUME NEW r \in Rankings, ApplyPlan(r) PROVE [Next]_tables
  BY <1>5 DEF ApplyPlan, Next, SetPolicy
<1>6. ASSUME NEW p \in Procs, Rollback(p) PROVE [Next]_tables
  BY <1>6 DEF Rollback
<1>7. CASE UNCHANGED vars
  BY <1>7 DEF vars
<1> QED BY <1>1, <1>2, <1>3, <1>4, <1>5, <1>6, <1>7 DEF IngressNext

-----------------------------------------------------------------------------
\* Type correctness of the transactions.
THEOREM IngressTypeCorrect == IngressSpec => []TypeOK
<1>1. IngressInv => TypeOK
  BY DEF IngressInv
<1> QED BY <1>1, IngressInvInit, IngressInvStep, PTL DEF IngressSpec

\* The concurrent transactions of apply_raw_contract, write_and_reselect and
\* reselect_series implement the indivisible steps of BarStore.
THEOREM IngressImplementsStore == IngressSpec => AppliesChunksAtomically
<1>1. IngressInit => Init
  BY DEF IngressInit
<1> QED BY <1>1, IngressInvInit, IngressInvStep, IngressStepRefines, PTL
        DEF IngressSpec, Spec, AppliesChunksAtomically

\* No interleaving of the transactions loses a value a vendor served.
THEOREM IngressNothingLost == IngressSpec => []NothingServedIsLost
BY IngressImplementsStore, StoreNothingLost, PTL DEF AppliesChunksAtomically

\* No interleaving puts an older answer over a newer one.
THEOREM IngressServeTime == IngressSpec => ServeTimeNeverGoesBack
BY IngressImplementsStore, StoreServeTime, PTL DEF AppliesChunksAtomically

\* No interleaving leaves canonical rows another selection would change.
THEOREM IngressSettled == IngressSpec => []SelectionIsSettled
BY IngressImplementsStore, StoreSettled, PTL DEF AppliesChunksAtomically

\* The RuntimeError "raw write disagrees with its preview" of
\* apply_raw_contract is unreachable: the series lock taken by the preview
\* keeps the stored rows as they were.
THEOREM IngressPreviewExact == IngressSpec => []PreviewIsExact
<1>1. IngressInv => PreviewIsExact
  <2> SUFFICES ASSUME IngressInv, NEW p \in Procs, NEW s \in Series,
                      pc[p] = "write", IsNext(p, s)
               PROVE  PreviewAgrees(p, s)
    BY DEF PreviewIsExact
  <2>1. preview[p] = Classify(raw[s], chunk[p][s], at[p])
    BY DEF IngressInv, StagedInv
  <2> QED BY <2>1 DEF PreviewAgrees
<1> QED BY <1>1, IngressInvInit, IngressInvStep, PTL DEF IngressSpec

\* PolicyInv is inductive together with IngressInv.
LEMMA PolicyInvStep ==
  IngressInv /\ PolicyInv /\ [IngressNext]_vars => PolicyInv'
<1> SUFFICES ASSUME IngressInv, PolicyInv, [IngressNext]_vars, ~ planned'
             PROVE  /\ basis' = policy'
                    /\ \A q \in Procs :
                         pc'[q] \in {"select", "commit"} =>
                           ranking'[q] = IF newPolicy'[q] = NoRow THEN policy'
                                         ELSE newPolicy'[q]
  BY DEF PolicyInv
<1> USE DEF IngressInv
<1>1. ASSUME NEW p \in Procs, NEW s \in Series,
             PreviewSeries(p, s) \/ WriteRaw(p, s)
      PROVE  PolicyInv'
  BY <1>1 DEF PreviewSeries, WriteRaw, PolicyInv, TypeOK, tables, bookkeeping
<1>2. ASSUME NEW p \in Procs, LockSelection(p) \/ ReselectSeries(p)
      PROVE  PolicyInv'
  <2>1. newPolicy[p] = NoRow
    BY <1>2 DEF ProgressInv, LockSelection, ReselectSeries, TypeOK
  <2> QED BY <1>2, <2>1 DEF LockSelection, ReselectSeries, PolicyInv, TypeOK,
                            tables, bookkeeping
<1>3. ASSUME NEW p \in Procs, NEW r \in Rankings, WriteAndReselect(p, r)
      PROVE  PolicyInv'
  <2>1. r # NoRow
    BY StoreAssumption
  <2> QED BY <1>3, <2>1 DEF WriteAndReselect, PolicyInv, TypeOK, tables
<1>4. ASSUME NEW p \in Procs, SelectSession(p) PROVE PolicyInv'
  BY <1>4 DEF SelectSession, PolicyInv, TypeOK, tables, bookkeeping
<1>5. ASSUME NEW p \in Procs, Commit(p) PROVE PolicyInv'
  <2>1. ~ planned /\ EndTx(p) /\ pc[p] = "commit" /\ selLock = p
    BY <1>5 DEF Commit, EndTx, bookkeeping, LockInv
  <2>2. basis' = policy'
    BY <1>5, <2>1 DEF Commit, PolicyInv
  <2>3. \A q \in Procs : pc'[q] \notin {"select", "commit"}
    BY <2>1, EndTxFacts DEF LockInv
  <2> QED BY <2>2, <2>3 DEF PolicyInv
<1>6. ASSUME NEW p \in Procs, Rollback(p) PROVE PolicyInv'
  <2>1. ~ planned /\ EndTx(p) /\ UNCHANGED tables
    BY <1>6 DEF Rollback, EndTx, bookkeeping
  <2>2. \A q \in Procs : pc'[q] \in {"select", "commit"} => q # p
    BY <2>1, EndTxFacts
  <2> QED BY <2>1, <2>2, EndTxFacts DEF PolicyInv, tables
<1>7. ASSUME NEW p \in Procs, NEW c \in Chunks, NEW time \in Times,
             BeginChunk(p, c, time)
      PROVE  PolicyInv'
  BY <1>7 DEF BeginChunk, PolicyInv, TypeOK, tables
<1>8. ASSUME NEW r \in Rankings, ApplyPlan(r) PROVE PolicyInv'
  <2>1. planned' = TRUE
    BY <1>8 DEF ApplyPlan
  <2> QED BY <2>1, Zenon
<1>9. ASSUME UNCHANGED vars PROVE PolicyInv'
  <2>1. UNCHANGED <<policy, basis, pc, ranking, newPolicy, planned>>
    BY <1>9 DEF vars, tables, txVars, bookkeeping
  <2> QED BY <2>1, Zenon DEF PolicyInv
<1>10. ASSUME NEW p \in Procs, ProcNext(p) PROVE PolicyInv'
  BY <1>1, <1>2, <1>4, <1>5, <1>10, Zenon DEF ProcNext
<1>11. PolicyInv'
  <2>1. CASE IngressNext
    BY <1>2, <1>3, <1>6, <1>7, <1>8, <1>10, <2>1 DEF IngressNext
  <2> QED BY <1>9, <2>1
<1> QED BY <1>11 DEF PolicyInv

\* A writer that waited for the selection lock selects by the ranking in
\* force when it gets it, so canonical follows the policy as long as policy
\* rows are committed together with their selection.
THEOREM IngressPolicyFollowed == IngressSpec => []PolicyFollowed
<1>1. IngressInit => PolicyInv
  BY DEF IngressInit, Init, PolicyInv
<1>2. PolicyInv => PolicyFollowed
  BY DEF PolicyInv, PolicyFollowed
<1> QED BY <1>1, <1>2, PolicyInvStep, IngressInvInit, IngressInvStep, PTL
        DEF IngressSpec

\* No interleaving leaves a session half one vendor's and half another's,
\* but for the slots whose winner has no volume.
THEOREM IngressOneVendor == IngressSpec => []SessionFromOneVendor
BY IngressImplementsStore, StoreOneVendor, PTL DEF AppliesChunksAtomically

-----------------------------------------------------------------------------
(* Nobody waits for ever on a lock                                         *)

\* A lock has a holder that needs it, and a transaction locks its series in
\* the sort order.
OrderInv ==
  /\ selLock # NoProc => pc[selLock] \in {"select", "commit"}
  /\ \A s \in Series, q \in Procs :
       seriesLock[s] = q => s \in done[q] \/ (pc[q] = "write" /\ IsNext(q, s))
  /\ \A p \in Procs : \A s \in done[p], u \in Pending(p) : SeriesOrder[s] < SeriesOrder[u]

\* The open transactions are finitely many, however many processes there are.
Open == {p \in Procs : pc[p] # "idle"}

\* One of finitely many things has the greatest rank.
LEMMA GreatestRank ==
  ASSUME NEW S, IsFiniteSet(S), S # {}, NEW f, \A x \in S : f[x] \in Nat
  PROVE  \E x \in S : \A y \in S : f[y] <= f[x]
<1> DEFINE Bad(T) == T # {} /\ \A x \in T : \E y \in T : f[x] < f[y]
           B == {n \in Nat : \E T \in SUBSET S : Bad(T) /\ Cardinality(T) = n}
<1> SUFFICES ASSUME Bad(S) PROVE FALSE
  OBVIOUS
<1>1. B \subseteq Nat /\ B # {}
  <2>1. Cardinality(S) \in Nat
    BY FS_CardinalityType
  <2> QED BY <2>1
<1>2. PICK n \in B : \A k \in B : ~ (<<k, n>> \in OpToRel(<, Nat))
  <2> HIDE DEF B
  <2> QED BY <1>1, NatLessThanWellFounded, WFMin
<1>3. \A k \in B : ~ (k < n)
  <2> SUFFICES ASSUME NEW k \in B, k < n PROVE FALSE
    OBVIOUS
  <2>1. k \in Nat /\ n \in Nat
    OBVIOUS
  <2> HIDE DEF B
  <2> QED BY <1>2, <2>1 DEF OpToRel
<1>4. PICK T \in SUBSET S : Bad(T) /\ Cardinality(T) = n
  OBVIOUS
<1>5. PICK x \in T : TRUE
  BY <1>4
<1> DEFINE R == T \ {x}
<1>6. IsFiniteSet(T) /\ n \in Nat /\ IsFiniteSet(R) /\ Cardinality(R) = n - 1
      /\ Cardinality(R) \in Nat
  <2>1. IsFiniteSet(T)
    BY FS_Subset
  <2>2. IsFiniteSet(R) /\ Cardinality(R) = Cardinality(T) - 1
    BY <1>5, <2>1, FS_RemoveElement
  <2>3. Cardinality(R) \in Nat
    BY <2>2, FS_CardinalityType
  <2> QED BY <1>4, <2>1, <2>2, <2>3
<1>7. ~ Bad(R)
  <2> SUFFICES ASSUME Bad(R) PROVE FALSE
    OBVIOUS
  <2>1. R \in SUBSET S
    OBVIOUS
  <2>2. n - 1 \in B
    BY <1>6, <2>1
  <2>3. n - 1 < n
    BY <1>6
  <2> HIDE DEF B
  <2> QED BY <1>3, <2>2, <2>3
<1>8. PICK y \in T : f[x] < f[y]
  BY <1>4
<1>9. y \in R
  BY <1>8
<1>10. PICK m \in R : \A z \in R : ~ (f[m] < f[z])
  BY <1>7, <1>9
<1>11. f[m] < f[x]
  <2>1. PICK z \in T : f[m] < f[z]
    BY <1>4
  <2> QED BY <1>10, <2>1
<1>12. f[m] < f[y]
  BY <1>8, <1>11
<1> QED BY <1>9, <1>10, <1>12

\* A step of p that takes no lock and has written what it locked.
LEMMA OrderKept ==
  ASSUME IngressInv, OrderInv, NEW p \in Procs,
         UNCHANGED <<locks, chunk, done>>, pc[p] # "write", pc'[p] # "idle",
         \A q \in Procs : q # p => pc'[q] = pc[q],
         selLock = p => pc'[p] \in {"select", "commit"}
  PROVE  OrderInv'
<1>1. /\ selLock' = selLock /\ seriesLock' = seriesLock /\ chunk' = chunk /\ done' = done
  BY DEF locks
<1>2. \A q \in Procs : Pending(q)' = Pending(q)
  BY <1>1 DEF Pending
<1>3. \A q \in Procs, s \in Series : IsNext(q, s)' <=> IsNext(q, s)
  BY <1>2 DEF IsNext
<1>4. selLock' # NoProc => pc'[selLock'] \in {"select", "commit"}
  BY <1>1 DEF OrderInv, IngressInv, TypeOK
<1>5. ASSUME NEW s \in Series, NEW q \in Procs, seriesLock'[s] = q
      PROVE  s \in done'[q] \/ (pc'[q] = "write" /\ IsNext(q, s)')
  BY <1>1, <1>3, <1>5 DEF OrderInv
<1>6. \A q \in Procs : \A s \in done'[q], u \in Pending(q)' : SeriesOrder[s] < SeriesOrder[u]
  BY <1>1, <1>2 DEF OrderInv
<1> QED BY <1>4, <1>5, <1>6 DEF OrderInv

LEMMA OrderBegin ==
  ASSUME IngressInv, OrderInv, NEW p \in Procs, NEW c, NEW time, BeginChunk(p, c, time)
  PROVE  OrderInv'
<1>1. /\ pc[p] = "idle" /\ pc'[p] = "series" /\ \A q \in Procs : q # p => pc'[q] = pc[q]
      /\ \A q \in Procs : q # p => chunk'[q] = chunk[q]
      /\ selLock' = selLock /\ seriesLock' = seriesLock /\ done' = done
  BY DEF BeginChunk, locks, IngressInv, TypeOK
<1>2. done[p] = {}
  BY <1>1 DEF IngressInv, ProgressInv
<1>3. \A q \in Procs : q # p => Pending(q)' = Pending(q)
  BY <1>1 DEF Pending
<1>4. \A q \in Procs, s \in Series : q # p => (IsNext(q, s)' <=> IsNext(q, s))
  BY <1>3 DEF IsNext
<1>5. selLock' # NoProc => pc'[selLock'] \in {"select", "commit"}
  BY <1>1 DEF OrderInv, IngressInv, TypeOK
<1>6. ASSUME NEW s \in Series, NEW q \in Procs, seriesLock'[s] = q
      PROVE  s \in done'[q] \/ (pc'[q] = "write" /\ IsNext(q, s)')
  BY <1>1, <1>2, <1>4, <1>6 DEF OrderInv
<1>7. \A q \in Procs : \A s \in done'[q], u \in Pending(q)' : SeriesOrder[s] < SeriesOrder[u]
  BY <1>1, <1>2, <1>3 DEF OrderInv
<1> QED BY <1>5, <1>6, <1>7 DEF OrderInv

LEMMA OrderPreview ==
  ASSUME IngressInv, OrderInv, NEW p \in Procs, NEW s \in Series, PreviewSeries(p, s)
  PROVE  OrderInv'
<1>1. /\ pc[p] = "series" /\ pc'[p] = "write" /\ \A q \in Procs : q # p => pc'[q] = pc[q]
      /\ selLock' = selLock /\ chunk' = chunk /\ done' = done
      /\ IsNext(p, s) /\ seriesLock[s] \in {NoProc, p}
      /\ seriesLock'[s] = p /\ \A u \in Series : u # s => seriesLock'[u] = seriesLock[u]
  BY DEF PreviewSeries, LockSeries, IngressInv, TypeOK
<1>2. \A q \in Procs : Pending(q)' = Pending(q)
  BY <1>1 DEF Pending
<1>3. \A q \in Procs, u \in Series : IsNext(q, u)' <=> IsNext(q, u)
  BY <1>2 DEF IsNext
<1>4. selLock' # NoProc => pc'[selLock'] \in {"select", "commit"}
  BY <1>1 DEF OrderInv, IngressInv, TypeOK
<1>5. ASSUME NEW u \in Series, NEW q \in Procs, seriesLock'[u] = q
      PROVE  u \in done'[q] \/ (pc'[q] = "write" /\ IsNext(q, u)')
  <2>1. CASE u = s
    BY <1>1, <1>3, <1>5, <2>1
  <2>2. CASE u # s
    BY <1>1, <1>3, <1>5, <2>2 DEF OrderInv
  <2> QED BY <2>1, <2>2
<1>6. \A q \in Procs : \A v \in done'[q], u \in Pending(q)' : SeriesOrder[v] < SeriesOrder[u]
  BY <1>1, <1>2 DEF OrderInv
<1> QED BY <1>4, <1>5, <1>6 DEF OrderInv

LEMMA OrderWrite ==
  ASSUME IngressInv, OrderInv, NEW p \in Procs, NEW s \in Series, WriteRaw(p, s)
  PROVE  OrderInv'
<1>1. /\ pc[p] = "write" /\ pc'[p] = "series" /\ \A q \in Procs : q # p => pc'[q] = pc[q]
      /\ selLock' = selLock /\ chunk' = chunk /\ IsNext(p, s)
      /\ done'[p] = done[p] \cup {s} /\ \A q \in Procs : q # p => done'[q] = done[q]
      /\ seriesLock'[s] = p /\ \A u \in Series : u # s => seriesLock'[u] = seriesLock[u]
  BY DEF WriteRaw, LockSeries, IngressInv, TypeOK
<1>2. /\ \A q \in Procs : q # p => Pending(q)' = Pending(q)
      /\ Pending(p)' = Pending(p) \ {s}
  BY <1>1 DEF Pending
<1>3. \A q \in Procs, u \in Series : q # p => (IsNext(q, u)' <=> IsNext(q, u))
  BY <1>2 DEF IsNext
<1>4. selLock' # NoProc => pc'[selLock'] \in {"select", "commit"}
  BY <1>1 DEF OrderInv, IngressInv, TypeOK
<1>5. ASSUME NEW u \in Series, NEW q \in Procs, seriesLock'[u] = q
      PROVE  u \in done'[q] \/ (pc'[q] = "write" /\ IsNext(q, u)')
  <2>1. CASE u = s
    BY <1>1, <1>5, <2>1
  <2>2. CASE u # s /\ q # p
    BY <1>1, <1>3, <1>5, <2>2 DEF OrderInv
  <2>3. CASE u # s /\ q = p
    <3>1. u \in done[p] \/ IsNext(p, u)
      BY <1>1, <1>5, <2>3 DEF OrderInv
    <3>2. ~ IsNext(p, u)
      BY <1>1, <2>3, NextIsUnique
    <3> QED BY <1>1, <2>3, <3>1, <3>2
  <2> QED BY <2>1, <2>2, <2>3
<1>6. ASSUME NEW u \in Pending(p) \ {s} PROVE SeriesOrder[s] < SeriesOrder[u]
  <2>1. u \in Series /\ SeriesOrder[s] \in Nat /\ SeriesOrder[u] \in Nat
    BY <1>6, IngressAssumption DEF Pending, SeriesOf
  <2>2. SeriesOrder[s] <= SeriesOrder[u]
    BY <1>1, <1>6 DEF IsNext
  <2>3. SeriesOrder[s] # SeriesOrder[u]
    BY <1>6, <2>1, IngressAssumption
  <2> QED BY <2>1, <2>2, <2>3
<1>7. ASSUME NEW q \in Procs, NEW v \in done'[q], NEW u \in Pending(q)'
      PROVE  SeriesOrder[v] < SeriesOrder[u]
  <2>1. CASE q # p
    BY <1>1, <1>2, <1>7, <2>1 DEF OrderInv
  <2>2. CASE q = p /\ v = s
    BY <1>2, <1>6, <1>7, <2>2
  <2>3. CASE q = p /\ v # s
    BY <1>1, <1>2, <1>7, <2>3 DEF OrderInv
  <2> QED BY <2>1, <2>2, <2>3
<1> QED BY <1>4, <1>5, <1>7 DEF OrderInv

\* The three ways to take the selection lock.
LEMMA OrderSelection ==
  ASSUME IngressInv, OrderInv, NEW p \in Procs, selLock' = p,
         UNCHANGED <<seriesLock, chunk, done>>, pc[p] # "write", pc'[p] = "select",
         \A q \in Procs : q # p => pc'[q] = pc[q]
  PROVE  OrderInv'
<1>1. \A q \in Procs : Pending(q)' = Pending(q)
  BY DEF Pending
<1>2. \A q \in Procs, s \in Series : IsNext(q, s)' <=> IsNext(q, s)
  BY <1>1 DEF IsNext
<1>3. ASSUME NEW s \in Series, NEW q \in Procs, seriesLock'[s] = q
      PROVE  s \in done'[q] \/ (pc'[q] = "write" /\ IsNext(q, s)')
  BY <1>2, <1>3 DEF OrderInv
<1>4. \A q \in Procs : \A s \in done'[q], u \in Pending(q)' : SeriesOrder[s] < SeriesOrder[u]
  BY <1>1 DEF OrderInv
<1> QED BY <1>3, <1>4 DEF OrderInv

LEMMA OrderEnd ==
  ASSUME IngressInv, OrderInv, NEW p \in Procs, EndTx(p)
  PROVE  OrderInv'
<1>1. /\ \A q \in Procs : q # p => pc'[q] = pc[q] /\ chunk'[q] = chunk[q] /\ done'[q] = done[q]
      /\ done'[p] = {}
  BY EndTxFacts DEF IngressInv
<1>2. /\ \A s \in Series : seriesLock'[s] = IF seriesLock[s] = p THEN NoProc ELSE seriesLock[s]
      /\ selLock' = IF selLock = p THEN NoProc ELSE selLock
  BY DEF EndTx
<1>3. NoProc \notin Procs
  BY IngressAssumption
<1>4. \A q \in Procs : q # p => Pending(q)' = Pending(q)
  BY <1>1 DEF Pending
<1>5. \A q \in Procs, s \in Series : q # p => (IsNext(q, s)' <=> IsNext(q, s))
  BY <1>4 DEF IsNext
<1>6. selLock' # NoProc => pc'[selLock'] \in {"select", "commit"}
  BY <1>1, <1>2 DEF OrderInv, IngressInv, TypeOK
<1>7. ASSUME NEW s \in Series, NEW q \in Procs, seriesLock'[s] = q
      PROVE  s \in done'[q] \/ (pc'[q] = "write" /\ IsNext(q, s)')
  <2>1. q # p /\ seriesLock[s] = q
    BY <1>2, <1>3, <1>7
  <2> QED BY <1>1, <1>5, <2>1 DEF OrderInv
<1>8. \A q \in Procs : \A s \in done'[q], u \in Pending(q)' : SeriesOrder[s] < SeriesOrder[u]
  BY <1>1, <1>4 DEF OrderInv
<1> QED BY <1>6, <1>7, <1>8 DEF OrderInv

LEMMA OrderStep == IngressInv /\ OrderInv /\ [IngressNext]_vars => OrderInv'
<1> SUFFICES ASSUME IngressInv, OrderInv, [IngressNext]_vars PROVE OrderInv'
  OBVIOUS
<1>1. ASSUME NEW p \in Procs, ProcNext(p) PROVE OrderInv'
  <2>1. ASSUME NEW s \in Series, PreviewSeries(p, s) PROVE OrderInv'
    BY <2>1, OrderPreview
  <2>2. ASSUME NEW s \in Series, WriteRaw(p, s) PROVE OrderInv'
    BY <2>2, OrderWrite
  <2>3. CASE LockSelection(p)
    <3>1. /\ selLock' = p /\ UNCHANGED <<seriesLock, chunk, done>> /\ pc[p] # "write"
          /\ pc'[p] = "select" /\ \A q \in Procs : q # p => pc'[q] = pc[q]
      BY <2>3 DEF LockSelection, IngressInv, TypeOK
    <3> QED BY <3>1, OrderSelection
  <2>4. CASE SelectSession(p)
    <3>1. /\ UNCHANGED <<locks, chunk, done>> /\ pc[p] # "write" /\ pc'[p] # "idle"
          /\ selLock = p => pc'[p] \in {"select", "commit"}
          /\ \A q \in Procs : q # p => pc'[q] = pc[q]
      BY <2>4 DEF SelectSession, IngressInv, TypeOK
    <3> QED BY <3>1, OrderKept
  <2>5. CASE Commit(p)
    BY <2>5, OrderEnd DEF Commit
  <2> QED BY <1>1, <2>1, <2>2, <2>3, <2>4, <2>5 DEF ProcNext
<1>2. ASSUME NEW p \in Procs, NEW c \in Chunks, NEW time \in Times, BeginChunk(p, c, time)
      PROVE  OrderInv'
  BY <1>2, OrderBegin
<1>3. ASSUME NEW p \in Procs, NEW r \in Rankings, WriteAndReselect(p, r) PROVE OrderInv'
  <2>1. /\ selLock' = p /\ UNCHANGED <<seriesLock, chunk, done>> /\ pc[p] # "write"
        /\ pc'[p] = "select" /\ \A q \in Procs : q # p => pc'[q] = pc[q]
    BY <1>3 DEF WriteAndReselect, IngressInv, TypeOK
  <2> QED BY <2>1, OrderSelection
<1>4. ASSUME NEW p \in Procs, ReselectSeries(p) PROVE OrderInv'
  <2>1. /\ selLock' = p /\ UNCHANGED <<seriesLock, chunk, done>> /\ pc[p] # "write"
        /\ pc'[p] = "select" /\ \A q \in Procs : q # p => pc'[q] = pc[q]
    BY <1>4 DEF ReselectSeries, IngressInv, TypeOK
  <2> QED BY <2>1, OrderSelection
<1>5. ASSUME NEW p \in Procs, Rollback(p) PROVE OrderInv'
  BY <1>5, OrderEnd DEF Rollback
<1>6. CASE UNCHANGED <<locks, pc, chunk, done>>
  BY <1>6 DEF OrderInv, IsNext, Pending, locks
<1>7. ASSUME NEW r \in Rankings, ApplyPlan(r) PROVE OrderInv'
  BY <1>6, <1>7 DEF ApplyPlan, txVars
<1>8. CASE UNCHANGED vars
  BY <1>6, <1>8 DEF vars, txVars
<1> QED BY <1>1, <1>2, <1>3, <1>4, <1>5, <1>7, <1>8 DEF IngressNext

LEMMA OpenStep ==
  IngressInv /\ IsFiniteSet(Open) /\ [IngressNext]_vars => IsFiniteSet(Open)'
<1> SUFFICES ASSUME IngressInv, IsFiniteSet(Open), [IngressNext]_vars
             PROVE  IsFiniteSet(Open')
  OBVIOUS
<1>1. ASSUME NEW p \in Procs, \A q \in Procs : q # p => pc'[q] = pc[q]
      PROVE  IsFiniteSet(Open')
  <2>1. Open' \in SUBSET (Open \cup {p})
    BY <1>1 DEF Open
  <2>2. IsFiniteSet(Open \cup {p})
    BY FS_AddElement
  <2> QED BY <2>1, <2>2, FS_Subset
<1>2. CASE pc' = pc
  BY <1>2 DEF Open
<1>3. pc' = pc \/ \E p \in Procs : \A q \in Procs : q # p => pc'[q] = pc[q]
  <2>1. pc = [q \in Procs |-> pc[q]]
    BY DEF IngressInv, TypeOK
  <2>2. ASSUME NEW p \in Procs, ProcNext(p) PROVE \A q \in Procs : q # p => pc'[q] = pc[q]
    BY <2>1, <2>2 DEF ProcNext, PreviewSeries, WriteRaw, LockSelection, SelectSession,
                      Commit, EndTx
  <2>3. ASSUME NEW p \in Procs, NEW c \in Chunks, NEW time \in Times, BeginChunk(p, c, time)
        PROVE  \A q \in Procs : q # p => pc'[q] = pc[q]
    BY <2>1, <2>3 DEF BeginChunk
  <2>4. ASSUME NEW p \in Procs, NEW r \in Rankings, WriteAndReselect(p, r)
        PROVE  \A q \in Procs : q # p => pc'[q] = pc[q]
    BY <2>1, <2>4 DEF WriteAndReselect
  <2>5. ASSUME NEW p \in Procs, ReselectSeries(p) PROVE \A q \in Procs : q # p => pc'[q] = pc[q]
    BY <2>1, <2>5 DEF ReselectSeries
  <2>6. ASSUME NEW p \in Procs, Rollback(p) PROVE \A q \in Procs : q # p => pc'[q] = pc[q]
    BY <2>1, <2>6 DEF Rollback, EndTx
  <2>7. ASSUME NEW r \in Rankings, ApplyPlan(r) PROVE pc' = pc
    BY <2>7 DEF ApplyPlan, txVars
  <2>8. CASE UNCHANGED vars
    BY <2>8 DEF vars, txVars
  <2> QED BY <2>2, <2>3, <2>4, <2>5, <2>6, <2>7, <2>8 DEF IngressNext
<1> QED BY <1>1, <1>2, <1>3

\* Transactions that wait on each other wait on ever later series, and the
\* holder of the selection lock waits on nothing.
LEMMA WaitsAscend ==
  ASSUME IngressInv, OrderInv, IsFiniteSet(Open)
  PROVE  NoWaitCycle
<1> SUFFICES ASSUME NEW D \in SUBSET Procs, D # {},
                    \A p \in D : \E q \in D : WaitsFor(p, q)
             PROVE  FALSE
  BY DEF NoWaitCycle
<1>1. \A p \in D : pc[p] = "series" /\ p \in Procs
  BY DEF WaitsFor
<1>2. IsFiniteSet(D)
  <2>1. D \in SUBSET Open
    BY <1>1 DEF Open
  <2> QED BY <2>1, FS_Subset
<1>3. ASSUME NEW p \in D
      PROVE  \E s \in Series, q \in D : IsNext(p, s) /\ seriesLock[s] = q
  <2>1. PICK q \in D : WaitsFor(p, q)
    OBVIOUS
  <2>2. selLock # q
    BY <1>1, IngressAssumption DEF OrderInv
  <2> QED BY <2>1, <2>2 DEF WaitsFor
<1> DEFINE next(p) == CHOOSE s \in Series : IsNext(p, s)
           rank == [p \in D |-> SeriesOrder[next(p)]]
<1>4. \A p \in D : next(p) \in Series /\ IsNext(p, next(p))
  BY <1>3
<1>5. \A p \in D : rank[p] = SeriesOrder[next(p)] /\ rank[p] \in Nat
  BY <1>4, IngressAssumption
<1> HIDE DEF rank, next
<1>6. PICK p \in D : \A q \in D : rank[q] <= rank[p]
  BY <1>2, <1>5, GreatestRank
<1>7. PICK s \in Series, q \in D : IsNext(p, s) /\ seriesLock[s] = q
  BY <1>3
<1>8. s = next(p)
  BY <1>4, <1>7, NextIsUnique
<1>9. s \in done[q]
  BY <1>1, <1>7 DEF OrderInv
<1>10. SeriesOrder[s] < SeriesOrder[next(q)]
  BY <1>1, <1>4, <1>9 DEF OrderInv, IsNext
<1>11. rank[p] < rank[q]
  BY <1>5, <1>8, <1>10
<1> QED BY <1>5, <1>6, <1>11

\* The series locks of ohlcv_ingress_contract.py are taken in the sort order of
\* the keys and the selection lock last, so no set of transactions ever waits
\* on itself, for any number of processes and series and any chunks.
THEOREM IngressNoWaitCycle == IngressSpec => []NoWaitCycle
<1>1. IngressInit => OrderInv
  BY IngressAssumption DEF IngressInit, OrderInv
<1>2. IngressInit => IsFiniteSet(Open)
  <2> SUFFICES ASSUME IngressInit PROVE IsFiniteSet(Open)
    OBVIOUS
  <2>1. Open = {}
    BY DEF IngressInit, Open
  <2> QED BY <2>1, FS_EmptySet
<1>3. IngressInv /\ OrderInv /\ IsFiniteSet(Open) => NoWaitCycle
  BY WaitsAscend
<1> QED BY <1>1, <1>2, <1>3, OrderStep, OpenStep, IngressInvInit, IngressInvStep, PTL
        DEF IngressSpec
=============================================================================
