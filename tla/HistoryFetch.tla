---------------------------- MODULE HistoryFetch ----------------------------
(***************************************************************************)
(* The history fetcher on one intraday series of one vendor: what it       *)
(* stores (ohlcv_raw), what it writes down about the asking (the request   *)
(* ledger ohlcv_request) and what it says it holds (ohlcv_coverage).       *)
(*                                                                         *)
(* A run takes the fetcher's advisory lock, plans the gaps of the series   *)
(* from the stored rows and the recorded answers, and walks every window   *)
(* backward in chunks.  An answered chunk's bars, its request rows and its *)
(* coverage update commit in one transaction; the other request rows wait  *)
(* in the sink's buffer for the flush at the end of the item.  Commits     *)
(* fail, commits succeed without the caller learning it, requests fail or  *)
(* stall, sessions are lost, processes crash.  The ledger rebuild is a     *)
(* second process under the same lock.                                     *)
(*                                                                         *)
(* A slot is covered when the vendor's rows or recorded answers say there  *)
(* is nothing left to ask about it; a slot covered without need is a hole  *)
(* nobody will ever ask for.                                               *)
(***************************************************************************)
EXTENDS Integers, FiniteSets, FiniteSetsExt

CONSTANTS
  NSlots,       \* bound: slots of the series, oldest first, one a day
  Holds,        \* the slots the vendor has a bar for
  MaxChunk,     \* slots of one request (_MAX_CHUNK_DAYS)
  Cluster,      \* slots between two gaps of one window (_GAP_CLUSTER_MAX_DAYS)
  MaxAttempts,  \* 1 + request_retries
  MaxBuffer,    \* max_buffer_rows of the request sink
  MaxRuns,      \* bound: runs of the fetcher
  MaxRebuilds,  \* bound: rebuilds of the ledger
  MaxFaults     \* bound: failures of any kind

Slots == 1..NSlots

ASSUME FetchAssumption ==
  /\ NSlots \in Nat \ {0}
  /\ Holds \subseteq Slots
  /\ {MaxAttempts, MaxBuffer} \subseteq Nat \ {0}
  /\ MaxChunk \in Nat \ {0, 1}
  /\ {Cluster, MaxRuns, MaxRebuilds, MaxFaults} \subseteq Nat

VARIABLES
  now,      \* the newest slot that has ended (the run's end_dt)
  raw,      \* slots with a stored bar of the vendor
  cover,    \* the ohlcv_coverage row: row_count and bounds
  fails,    \* its consecutive_failures
  ledger,   \* rows of ohlcv_request
  buffer,   \* request rows in the sink
  unknown,  \* RequestSink._commit_unknown
  lock,     \* holder of the advisory lock
  pc,       \* where the fetcher is
  item,     \* the item being fetched
  snap,     \* what the rebuild read
  early,    \* ids of the requests whose row met a full buffer
  runs, rebuilds, faults, asked

db == <<raw, cover, fails, ledger>>
counters == <<runs, rebuilds, faults>>
vars == <<now, db, buffer, unknown, lock, pc, item, snap, early, counters, asked>>

Outcomes == {"bars", "no_data", "failed"}

Requests ==
  [id : Nat, lo : Slots, hi : Slots, outcome : Outcomes, partial : SUBSET Slots]

\* todo: slots still to ask in this attempt; full: the whole window is asked
\* again (escalation, overlap); rids: the persister's request_ids; req, bars:
\* the answer being persisted; bad: a window failed.
NoItem ==
  [todo |-> {}, full |-> FALSE, rids |-> {}, req |-> 0, bars |-> {},
   partial |-> {}, bad |-> FALSE, attempt |-> 0]

Items ==
  [todo : SUBSET Slots, full : BOOLEAN, rids : SUBSET Nat, req : Nat,
   bars : SUBSET Slots, partial : SUBSET Slots, bad : BOOLEAN, attempt : Nat]

\* The aggregate of the stored rows: distinct slots and their bounds.
Aggregate(rows) ==
  IF rows = {} THEN [n |-> 0, first |-> 0, last |-> 0]
  ELSE [n |-> Cardinality(rows), first |-> Min(rows), last |-> Max(rows)]

(***************************************************************************)
(* The gap planner.                                                        *)
(***************************************************************************)

\* Answers that count: a definitive nothing, or bars of which a row is held.
Evidence ==
  {r \in ledger : \/ r.outcome = "no_data"
                  \/ r.outcome = "bars" /\ (r.lo .. r.hi) \cap raw # {}}

\* Slots some answer served partial and no later answer covered whole.
LivePartials ==
  {t \in Slots : \E r \in Evidence :
     /\ t \in r.partial
     /\ ~\E q \in Evidence :
           q.id > r.id /\ t \in q.lo .. q.hi /\ t \notin q.partial}

Covered_Partials == {t \in Slots : \E r \in Evidence : t \in r.lo .. r.hi}

Covered ==
  {t \in Slots \ LivePartials : \E r \in Evidence : t \in r.lo .. r.hi}

\* Slots still forming are not planned.
Expected == 1..now

Gaps == Expected \ (raw \cup Covered)

\* Gap ranges closer than Cluster become one window, stored slots included.
Windows(gaps) ==
  {t \in Slots : \E a \in gaps, b \in gaps :
     a <= t /\ t <= b /\ b - a <= Cluster + 1}

Plan(full) == IF full THEN Expected ELSE Windows(Gaps)

\* The window being walked, the oldest one left, and its next chunk.
Window ==
  {t \in item.todo : Min(item.todo) .. t \subseteq item.todo}

Chunk == {t \in Window : t > Max(Window) - MaxChunk}

\* The request row's window_start is a day behind the chunk's edge, or the
\* window's own start; the duration asks one day more than the row says.
RowStart == Max({Max(Window) - MaxChunk + 2, Min(Window)})

Served == Holds \cap (RowStart - 1 .. Max(Window))

(***************************************************************************)
(* The request sink.                                                       *)
(***************************************************************************)

Ids(rows) == {r.id : r \in rows}

Sink(b, l, u, raised) ==
  [buffer |-> b, ledger |-> l, unknown |-> u, raised |-> raised]

\* A flush writes the rows, or fails and restores them; when the commit itself
\* failed the server may have them, so the next one first asks which are there.
FreshRows(s) ==
  IF s.unknown THEN {r \in s.buffer : r.id \notin Ids(s.ledger)} ELSE s.buffer

Flushed(s) == Sink({}, s.ledger \cup FreshRows(s), FALSE, FALSE)

\* The connection is dead, or the COPY of the fresh rows fails.
FlushFails(s) ==
  {Sink(b, s.ledger, s.unknown, TRUE) : b \in {s.buffer, FreshRows(s)} \ {{}}}

FlushLost(s) ==
  IF FreshRows(s) = {} THEN {}
  ELSE {Sink(FreshRows(s), l, TRUE, TRUE) : l \in {s.ledger, s.ledger \cup FreshRows(s)}}

FlushResults(s) ==
  {Flushed(s)} \cup (IF faults < MaxFaults THEN FlushFails(s) \cup FlushLost(s) ELSE {})

\* on_request: buffer the row, flush when the buffer is full.
Overflows(r) == Cardinality(buffer \cup {r}) >= MaxBuffer

OnRequest(r) ==
  LET s == Sink(buffer \cup {r}, ledger, unknown, FALSE)
  IN IF Overflows(r) THEN FlushResults(s) ELSE {s}

UseSink(s) ==
  /\ buffer' = s.buffer
  /\ ledger' = s.ledger
  /\ unknown' = s.unknown

Fault(happened) == faults' = faults + IF happened THEN 1 ELSE 0

(***************************************************************************)
(* A run of the fetcher.                                                   *)
(***************************************************************************)

Init ==
  /\ now \in Slots
  /\ raw = {}
  /\ cover = Aggregate({})
  /\ fails = 0
  /\ ledger = {}
  /\ buffer = {}
  /\ unknown = FALSE
  /\ lock = "free"
  /\ pc = "off"
  /\ item = NoItem
  /\ snap = Aggregate({})
  /\ early = {}
  /\ runs = 0
  /\ rebuilds = 0
  /\ faults = 0
  /\ asked = 0

\* The market goes on; a run in progress keeps the end it started with.
Tick ==
  /\ pc = "off"
  /\ now < NSlots
  /\ now' = now + 1
  /\ UNCHANGED <<db, buffer, unknown, lock, pc, item, snap, early, counters, asked>>

\* execute: the try-lock, then a fresh context with an empty sink.
StartRun ==
  /\ pc = "off"
  /\ lock = "free"
  /\ runs < MaxRuns
  /\ lock' = "fetch"
  /\ pc' = "idle"
  /\ buffer' = {}
  /\ unknown' = FALSE
  /\ runs' = runs + 1
  /\ UNCHANGED <<now, db, item, snap, early, rebuilds, faults, asked>>

\* fetch_item up to its plan: nothing to ask is an "ok" without a flush.
TakeItem(full) ==
  /\ pc = "idle"
  /\ item' = [NoItem EXCEPT !.todo = Plan(full), !.full = full, !.attempt = 1]
  /\ pc' = IF Plan(full) = {} THEN "record" ELSE "walk"
  /\ UNCHANGED <<now, db, buffer, unknown, lock, snap, early, counters, asked>>

\* The deferral horizon leaves nothing to ask: no outcome is recorded.
DeferItem ==
  /\ pc = "idle"
  /\ pc' = "teardown"
  /\ UNCHANGED <<now, db, buffer, unknown, lock, item, snap, early, counters, asked>>

QualifyFails ==
  /\ pc = "idle"
  /\ faults < MaxFaults
  /\ Fault(TRUE)
  /\ item' = [NoItem EXCEPT !.bad = TRUE]
  /\ pc' = "record"
  /\ UNCHANGED <<now, db, buffer, unknown, lock, snap, early, runs, rebuilds, asked>>

Row(outcome) ==
  [id |-> asked + 1, lo |-> RowStart, hi |-> Max(Window),
   outcome |-> outcome, partial |-> {}]

\* A row that meets a full buffer is in the ledger, or restored by a failed
\* flush, before the persister has seen its bars.
NoteEarly(r) == early' = early \cup (IF Overflows(r) THEN {r.id} ELSE {})

\* An exception inside a window fails the window, never the item.
WindowFails == [item EXCEPT !.todo = @ \ Window, !.bad = TRUE]

ChunkDone == [item EXCEPT !.todo = @ \ Chunk]

\* The walk's next request answers with bars: its row goes to the sink, its
\* bars to the persister.
AnswerBars ==
  /\ pc = "walk"
  /\ item.todo # {}
  /\ Served # {}
  /\ asked' = asked + 1
  /\ \E s \in OnRequest(Row("bars")) :
       \E part \in SUBSET (Served \cap {now}) :
         /\ UseSink(s)
         /\ NoteEarly(Row("bars"))
         /\ Fault(s.raised)
         /\ IF s.raised
            THEN part = {} /\ item' = WindowFails /\ pc' = pc
            ELSE /\ item' = [item EXCEPT !.rids = @ \cup {asked + 1},
                               !.req = asked + 1, !.bars = Served,
                               !.partial = part]
                 /\ pc' = "answered"
  /\ UNCHANGED <<now, raw, cover, fails, lock, snap, runs, rebuilds>>

\* The request has a definitive empty answer, or failed every retry.
AnswerNone(outcome) ==
  /\ pc = "walk"
  /\ item.todo # {}
  /\ \/ outcome = "no_data" /\ Served = {}
     \/ outcome = "failed" /\ faults < MaxFaults
  /\ asked' = asked + 1
  /\ \E s \in OnRequest(Row(outcome)) :
       /\ UseSink(s)
       /\ NoteEarly(Row(outcome))
       /\ Fault(s.raised \/ outcome = "failed")
       /\ item' = IF s.raised THEN WindowFails
                  ELSE [ChunkDone EXCEPT !.rids = @ \cup {asked + 1},
                                         !.bad = @ \/ outcome = "failed"]
  /\ UNCHANGED <<now, raw, cover, fails, lock, pc, snap, runs, rebuilds>>

\* The request failed and the history probe did not answer: the sink is
\* flushed, the item is not charged and the run ends.
SessionLost ==
  /\ pc = "walk"
  /\ item.todo # {}
  /\ faults < MaxFaults
  /\ asked' = asked + 1
  /\ \E s \in FlushResults(Sink(buffer \cup {Row("failed")}, ledger, unknown, FALSE)) :
       UseSink(s)
  /\ Fault(TRUE)
  /\ pc' = "teardown"
  /\ UNCHANGED <<now, raw, cover, fails, lock, item, snap, early, runs, rebuilds>>

(***************************************************************************)
(* The persister.                                                          *)
(***************************************************************************)

Complete == item.bars \ item.partial

\* note_partial: the partial slots are written onto the buffered row.
Noted ==
  {IF r.id = item.req THEN [r EXCEPT !.partial = item.partial] ELSE r : r \in buffer}

\* The row left the buffer before its partial bars were noted: LookupError.
NoteFails ==
  /\ pc = "answered"
  /\ item.partial # {}
  /\ item.req \notin Ids(buffer)
  /\ item' = WindowFails
  /\ pc' = "walk"
  /\ UNCHANGED <<now, db, buffer, unknown, lock, snap, early, counters, asked>>

MayPersist ==
  /\ pc = "answered"
  /\ item.partial # {} => item.req \in Ids(buffer)

\* No complete bar: nothing is offered, the row waits for the flush.
NothingComplete ==
  /\ MayPersist
  /\ Complete = {}
  /\ buffer' = Noted
  /\ item' = ChunkDone
  /\ pc' = "walk"
  /\ UNCHANGED <<now, db, unknown, lock, snap, early, counters, asked>>

\* upsert_coverage: the new slots (else the offered ones, which are stored)
\* widen the bounds, and the new ones are counted.
Bounded(c, slots, count) ==
  [n |-> c.n + count,
   first |-> Min(slots \cup (IF c.first = 0 THEN {} ELSE {c.first})),
   last |-> Max(slots \cup {c.last})]

Widened_Offered(c, rows, new) ==
  Bounded(c, IF new = {} THEN rows ELSE new, Cardinality(rows))

Widened(c, rows, new) ==
  Bounded(c, IF new = {} THEN rows ELSE new, Cardinality(new))

Taken == {r \in Noted : r.id \in item.rids}

\* A row that a lost flush wrote and restored: its second copy breaks the
\* primary key of ohlcv_request, and with it the whole transaction.  With one
\* item to a run the failed window ends before the row can be taken; items
\* that share a sink may meet it.
Duplicate == Ids(Taken) \cap Ids(ledger) # {}

\* The chunk's transaction: raw rows, request rows and coverage.
Commit ==
  /\ ~Duplicate
  /\ raw' = raw \cup Complete
  /\ ledger' = ledger \cup Taken
  /\ cover' = Widened(cover, Complete, Complete \ raw)
  /\ fails' = 0

PersistOk ==
  /\ MayPersist
  /\ Complete # {}
  /\ Commit
  /\ buffer' = Noted \ Taken
  /\ item' = [ChunkDone EXCEPT !.rids = {}]
  /\ pc' = "walk"
  /\ UNCHANGED <<now, unknown, lock, snap, early, counters, asked>>

\* The transaction fails, or commits and the caller sees an error: the
\* window fails; the rows taken off the sink are not put back.
PersistFails_KeepsRows(committed) ==
  /\ MayPersist
  /\ Complete # {}
  /\ Duplicate \/ faults < MaxFaults
  /\ Fault(~Duplicate)
  /\ IF committed THEN Commit ELSE UNCHANGED db
  /\ buffer' = Noted
  /\ item' = WindowFails
  /\ pc' = "walk"
  /\ UNCHANGED <<now, unknown, lock, snap, early, runs, rebuilds, asked>>

PersistFails(committed) ==
  /\ MayPersist
  /\ Complete # {}
  /\ Duplicate \/ faults < MaxFaults
  /\ Fault(~Duplicate)
  /\ IF committed THEN Commit ELSE UNCHANGED db
  /\ buffer' = Noted \ Taken
  /\ item' = [WindowFails EXCEPT !.rids = {}]
  /\ pc' = "walk"
  /\ UNCHANGED <<now, unknown, lock, snap, early, runs, rebuilds, asked>>

(***************************************************************************)
(* The end of an item and of a run.                                        *)
(***************************************************************************)

\* Every window asked: the sink is flushed; a failed flush fails the item.
ItemFlush ==
  /\ pc = "walk"
  /\ item.todo = {}
  /\ \E s \in FlushResults(Sink(buffer, ledger, unknown, FALSE)) :
       /\ UseSink(s)
       /\ Fault(s.raised)
       /\ item' = [item EXCEPT !.bad = @ \/ s.raised]
  /\ pc' = "record"
  /\ UNCHANGED <<now, raw, cover, fails, lock, snap, early, runs, rebuilds, asked>>

\* No progress for the stall bound: the attempt is cancelled, the sink
\* flushed and the client reconnected; then the item is planned again.
Stall(reconnected) ==
  /\ pc = "walk"
  /\ item.todo # {}
  /\ faults < MaxFaults
  /\ \E s \in FlushResults(Sink(buffer, ledger, unknown, FALSE)) :
       /\ UseSink(s)
       /\ IF reconnected /\ ~s.raised /\ item.attempt < MaxAttempts
          THEN /\ pc' = "replan"
               /\ item' = [item EXCEPT !.todo = {}]
          ELSE /\ pc' = IF reconnected THEN "record" ELSE "teardown"
               /\ item' = [NoItem EXCEPT !.bad = TRUE]
  /\ Fault(TRUE)
  /\ UNCHANGED <<now, raw, cover, fails, lock, snap, early, runs, rebuilds, asked>>

Replan ==
  /\ pc = "replan"
  /\ item' = [NoItem EXCEPT !.todo = Plan(item.full), !.full = item.full,
                            !.attempt = item.attempt + 1]
  /\ pc' = IF Plan(item.full) = {} THEN "record" ELSE "walk"
  /\ UNCHANGED <<now, db, buffer, unknown, lock, snap, early, counters, asked>>

\* The intake watchdog cancels the workers: nothing is recorded.
IntakeStall ==
  /\ pc = "walk"
  /\ faults < MaxFaults
  /\ Fault(TRUE)
  /\ pc' = "teardown"
  /\ UNCHANGED <<now, db, buffer, unknown, lock, item, snap, early, runs, rebuilds, asked>>

\* record_fetch_outcome in its own transaction.
RecordOutcome_Again ==
  /\ pc = "record"
  /\ fails' = IF item.bad THEN fails + 1 ELSE 0
  /\ pc' = "idle"
  /\ UNCHANGED <<now, raw, cover, ledger, buffer, unknown, lock, item, snap, early, counters, asked>>

RecordOutcome ==
  /\ pc = "record"
  /\ fails' = IF item.bad THEN fails + 1 ELSE 0
  /\ pc' = "teardown"
  /\ UNCHANGED <<now, raw, cover, ledger, buffer, unknown, lock, item, snap, early, counters, asked>>

RecordFails ==
  /\ pc = "record"
  /\ faults < MaxFaults
  /\ Fault(TRUE)
  /\ pc' = "teardown"
  /\ UNCHANGED <<now, db, buffer, unknown, lock, item, snap, early, runs, rebuilds, asked>>

EndRun ==
  /\ lock' = "free"
  /\ pc' = "off"
  /\ item' = NoItem

\* Disconnect, the best-effort final flush, the lock.
Teardown ==
  /\ pc = "teardown"
  /\ \E s \in FlushResults(Sink(buffer, ledger, unknown, FALSE)) :
       /\ ledger' = s.ledger
       /\ Fault(s.raised)
  /\ buffer' = {}
  /\ unknown' = FALSE
  /\ EndRun
  /\ UNCHANGED <<now, raw, cover, fails, snap, early, runs, rebuilds, asked>>

\* The disconnect times out and raises before the final flush; or the
\* process dies, whatever it was doing.
DieWithBuffer ==
  /\ pc # "off"
  /\ faults < MaxFaults
  /\ Fault(TRUE)
  /\ buffer' = {}
  /\ unknown' = FALSE
  /\ EndRun
  /\ UNCHANGED <<now, db, snap, early, runs, rebuilds, asked>>

(***************************************************************************)
(* The operator's tools.                                                   *)
(***************************************************************************)

\* --rebuild-coverage and the auditor's drift check, under the same lock:
\* the statement reads the stored rows, then writes the ledger row.
MayRebuild_Unlocked == TRUE

MayRebuild == lock = "free"

RebuildReads ==
  /\ MayRebuild
  /\ rebuilds < MaxRebuilds
  /\ rebuilds' = rebuilds + 1
  /\ lock' = "rebuild"
  /\ snap' = Aggregate(raw)
  /\ UNCHANGED <<now, db, buffer, unknown, pc, item, early, runs, faults, asked>>

RebuildWrites(commits) ==
  /\ lock = "rebuild"
  /\ cover' = IF commits THEN snap ELSE cover
  /\ lock' = "free"
  /\ UNCHANGED <<now, raw, fails, ledger, buffer, unknown, pc, item, snap, early, counters, asked>>

\* --reset-failures takes no lock.
ResetFailures ==
  /\ fails > 0
  /\ fails' = 0
  /\ UNCHANGED <<now, raw, cover, ledger, buffer, unknown, lock, pc, item, snap, early, counters, asked>>

Step ==
  \/ \E full \in BOOLEAN : TakeItem(full)
  \/ DeferItem \/ QualifyFails
  \/ AnswerBars
  \/ \E o \in {"no_data", "failed"} : AnswerNone(o)
  \/ SessionLost
  \/ NoteFails \/ NothingComplete \/ PersistOk
  \/ \E committed \in BOOLEAN : PersistFails(committed)
  \/ ItemFlush
  \/ \E reconnected \in BOOLEAN : Stall(reconnected)
  \/ Replan \/ IntakeStall
  \/ RecordOutcome \/ RecordFails
  \/ Teardown \/ DieWithBuffer

Next ==
  \/ Tick
  \/ StartRun
  \/ Step
  \/ RebuildReads
  \/ \E commits \in BOOLEAN : RebuildWrites(commits)
  \/ ResetFailures

Spec == Init /\ [][Next]_vars

\* The stall bound, the watchdogs and the bounded teardown keep a started
\* run moving, and the rebuild's one statement ends.
FairSpec ==
  /\ Spec
  /\ WF_vars(Step)
  /\ WF_vars(\E commits \in BOOLEAN : RebuildWrites(commits))

-----------------------------------------------------------------------------

CoverType == [n : Nat, first : Nat, last : Nat]

\* Every variable has its type, the sink is empty between runs, and the lock
\* is held exactly while a run or a rebuild is under way.
TypeOK ==
  /\ now \in Slots
  /\ raw \subseteq Slots
  /\ cover \in CoverType /\ snap \in CoverType
  /\ fails \in Nat
  /\ ledger \subseteq Requests
  /\ buffer \subseteq Requests
  /\ unknown \in BOOLEAN
  /\ lock \in {"free", "fetch", "rebuild"}
  /\ pc \in {"off", "idle", "walk", "answered", "replan", "record", "teardown"}
  /\ (pc # "off") <=> (lock = "fetch")
  /\ pc = "off" => buffer = {}
  /\ item \in Items /\ item.todo \subseteq Expected
  /\ {runs, rebuilds, faults, asked} \subseteq Nat
  /\ early \subseteq 1..asked

\* The coverage row states exactly the stored rows of the vendor: as many
\* slots, the same bounds, whatever was asked twice, failed after its commit,
\* died half-way or was rebuilt meanwhile ("the coverage ledger can never
\* describe bars that did not land").
CoverageIsExact == cover = Aggregate(raw)

\* A slot the vendor has a bar for and that is not stored stays a gap, so it
\* is asked again: no answer covers a slot whose bar did not land ("a lost
\* insert never looks covered").  The one exception is an answer whose row met
\* a full buffer and was flushed, or kept for a flush, ahead of its bars.
NoSilentHole ==
  \A t \in Holds \ raw :
    t \in Covered => \E r \in Evidence : t \in r.lo .. r.hi /\ r.id \in early

\* A request is recorded once, and a recorded one is not written again: a row
\* still in the buffer is in the ledger only after a flush whose commit was
\* not seen, which the next flush asks the server about first.
RecordedOnce ==
  /\ \A q \in ledger : \A r \in ledger : q.id = r.id => q = r
  /\ Ids(buffer) \cap Ids(ledger) # {} => unknown

\* A run, however it goes, gives the lock back.
LockFreed == lock # "free" ~> lock = "free"
=============================================================================
