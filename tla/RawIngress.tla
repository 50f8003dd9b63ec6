----------------------------- MODULE RawIngress -----------------------------
(***************************************************************************)
(* Concurrent ingress of vendor answers into the bar tables.               *)
(*                                                                         *)
(* A process is a fetcher, a loader or an operator script with its own     *)
(* database connection.  It applies a chunk of bars in one transaction     *)
(* (services/ohlcv_ingress_contract.py apply_raw_contract, called by       *)
(* persist_chunk_atomically): per series, in sorted order, the series      *)
(* lock, the preview, the write; then the selection lock, the policy, the  *)
(* selection of the whole session; then the commit.  Advisory locks are    *)
(* held to the end of the transaction.  A transaction reads the committed  *)
(* tables with its own writes on top (READ COMMITTED), and its writes      *)
(* become visible at the commit.  A rollback may end it at any step.       *)
(***************************************************************************)
EXTENDS BarStore

CONSTANTS
  Procs,        \* the processes with a connection
  SeriesOrder,  \* the sort order of the series keys
  NoProc,       \* nobody holds the lock
  MaxTx         \* bound: the transactions started

ASSUME IngressAssumption ==
  /\ SeriesOrder \in [Series -> Nat]
  /\ \A s, u \in Series : SeriesOrder[s] = SeriesOrder[u] => s = u
  /\ NoProc \notin Procs
  /\ MaxTx \in Nat

VARIABLES
  seriesLock,  \* per series, the holder of its advisory lock
  selLock,     \* the holder of bar_selection|symbol|timeframe
  pc,          \* "idle", "series", "write", "select" or "commit"
  chunk,       \* the chunk the transaction applies
  at,          \* its answered_at
  preview,     \* what preview_series found
  done,        \* the series written so far
  rows,        \* the ohlcv_raw rows written, uncommitted
  revs,        \* the ohlcv_revision rows written, uncommitted
  ranking,     \* the ranking read under the selection lock
  newPolicy,   \* the policy row written, uncommitted (NoRow if none)
  selected,    \* the canonical rows after the selection, uncommitted
  chosen,      \* the session choice after the selection, uncommitted
  planned,     \* history: a policy row was committed with no selection
  started      \* transactions started, for the bound

txVars == <<pc, chunk, at, preview, done, rows, revs, ranking, newPolicy,
            selected, chosen>>
locks == <<seriesLock, selLock>>
bookkeeping == <<planned, started>>
vars == <<tables, locks, txVars, bookkeeping>>

EmptyChunk == [s \in Series |-> [t \in Slots |-> NoVal]]
EmptyFound == [new |-> {}, unchanged |-> {}, replaced |-> {}, superseded |-> {}]
NothingWritten == [s \in Series |-> NoRows]

IngressInit ==
  /\ Init
  /\ seriesLock = [s \in Series |-> NoProc]
  /\ selLock = NoProc
  /\ pc = [p \in Procs |-> "idle"]
  /\ chunk = [p \in Procs |-> EmptyChunk]
  /\ at = [p \in Procs |-> 0]
  /\ preview = [p \in Procs |-> EmptyFound]
  /\ done = [p \in Procs |-> {}]
  /\ rows = [p \in Procs |-> NothingWritten]
  /\ revs = [p \in Procs |-> {}]
  /\ ranking = [p \in Procs |-> <<>>]
  /\ newPolicy = [p \in Procs |-> NoRow]
  /\ selected = [p \in Procs |-> NoRows]
  /\ chosen = [p \in Procs |-> NoRow]
  /\ planned = FALSE
  /\ started = 0

-----------------------------------------------------------------------------
\* The series of p's chunk not yet written, and the next of them.
Pending(p) == SeriesOf(chunk[p]) \ done[p]

\* Mutant of IsNext: the series in the order the answer holds them.
IsNext_Unsorted(p, s) == s \in Pending(p)

IsNext(p, s) ==
  /\ s \in Pending(p)
  /\ \A u \in Pending(p) : SeriesOrder[s] <= SeriesOrder[u]

\* COMMIT or ROLLBACK: the advisory locks are given back, the transaction's
\* own state is gone.
EndTx(p) ==
  /\ seriesLock' = [s \in Series |->
                      IF seriesLock[s] = p THEN NoProc ELSE seriesLock[s]]
  /\ selLock' = IF selLock = p THEN NoProc ELSE selLock
  /\ pc' = [pc EXCEPT ![p] = "idle"]
  /\ chunk' = [chunk EXCEPT ![p] = EmptyChunk]
  /\ at' = [at EXCEPT ![p] = 0]
  /\ preview' = [preview EXCEPT ![p] = EmptyFound]
  /\ done' = [done EXCEPT ![p] = {}]
  /\ rows' = [rows EXCEPT ![p] = NothingWritten]
  /\ revs' = [revs EXCEPT ![p] = {}]
  /\ ranking' = [ranking EXCEPT ![p] = <<>>]
  /\ newPolicy' = [newPolicy EXCEPT ![p] = NoRow]
  /\ selected' = [selected EXCEPT ![p] = NoRows]
  /\ chosen' = [chosen EXCEPT ![p] = NoRow]
  /\ UNCHANGED bookkeeping

-----------------------------------------------------------------------------
\* persist_chunk_atomically opens the transaction on an idle connection and
\* reads the contract's parameters, the policy among them.
BeginChunk(p, c, time) ==
  /\ pc[p] = "idle"
  /\ started < MaxTx
  /\ SeriesOf(c) # {}
  /\ started' = started + 1
  /\ pc' = [pc EXCEPT ![p] = "series"]
  /\ chunk' = [chunk EXCEPT ![p] = c]
  /\ at' = [at EXCEPT ![p] = time]
  /\ ranking' = [ranking EXCEPT ![p] = policy]
  /\ UNCHANGED <<tables, locks, preview, done, rows, revs, newPolicy, selected,
                 chosen, planned>>

\* Mutant of LockSeries: no lock.
LockSeries_None(p, s) == UNCHANGED seriesLock

\* _lock_series: pg_advisory_xact_lock, re-entrant within the session.
LockSeries(p, s) ==
  /\ seriesLock[s] \in {NoProc, p}
  /\ seriesLock' = [seriesLock EXCEPT ![s] = p]

\* preview_series: the series lock, then the stored rows of the series.
PreviewSeries(p, s) ==
  /\ pc[p] = "series"
  /\ IsNext(p, s)
  /\ LockSeries(p, s)
  /\ preview' = [preview EXCEPT ![p] = Classify(raw[s], chunk[p][s], at[p])]
  /\ pc' = [pc EXCEPT ![p] = "write"]
  /\ UNCHANGED <<tables, selLock, chunk, at, done, rows, revs, ranking,
                 newPolicy, selected, chosen, bookkeeping>>

\* A write that finds other counts than its preview raises.
PreviewAgrees(p, s) ==
  LET found == Classify(raw[s], chunk[p][s], at[p])
  IN  \A part \in DOMAIN found :
        Cardinality(found[part]) = Cardinality(preview[p][part])

\* write_raw: classify again, log the revisions, write the rows.
WriteRaw(p, s) ==
  /\ pc[p] = "write"
  /\ IsNext(p, s)
  /\ LockSeries(p, s)
  /\ PreviewAgrees(p, s)
  /\ rows' = [rows EXCEPT ![p][s] = RowsWritten(raw[s], chunk[p][s], at[p])]
  /\ revs' = [revs EXCEPT ![p] =
                @ \cup RevisionsLogged(s, raw[s], chunk[p][s], at[p])]
  /\ done' = [done EXCEPT ![p] = @ \cup {s}]
  /\ pc' = [pc EXCEPT ![p] = "series"]
  /\ UNCHANGED <<tables, selLock, chunk, at, preview, ranking, newPolicy,
                 selected, chosen, bookkeeping>>

\* Mutant of LockSelection: the selection is not serialised.
LockSelection_NoLock(p) ==
  /\ pc[p] = "series"
  /\ Pending(p) = {}
  /\ selLock' = p
  /\ ranking' = [ranking EXCEPT ![p] = policy]
  /\ pc' = [pc EXCEPT ![p] = "select"]
  /\ UNCHANGED <<tables, seriesLock, chunk, at, preview, done, rows, revs,
                 newPolicy, selected, chosen, bookkeeping>>

\* Mutant of LockSelection: the chunk's cached policy is used.
LockSelection_CachedPolicy(p) ==
  /\ pc[p] = "series"
  /\ Pending(p) = {}
  /\ selLock = NoProc
  /\ selLock' = p
  /\ pc' = [pc EXCEPT ![p] = "select"]
  /\ UNCHANGED <<tables, seriesLock, chunk, at, preview, done, rows, revs,
                 ranking, newPolicy, selected, chosen, bookkeeping>>

\* select_and_write on the ingress path: the selection lock, then the policy
\* read under it (policy_rows=None).
LockSelection(p) ==
  /\ pc[p] = "series"
  /\ Pending(p) = {}
  /\ selLock = NoProc
  /\ selLock' = p
  /\ ranking' = [ranking EXCEPT ![p] = policy]
  /\ pc' = [pc EXCEPT ![p] = "select"]
  /\ UNCHANGED <<tables, seriesLock, chunk, at, preview, done, rows, revs,
                 newPolicy, selected, chosen, bookkeeping>>

\* Mutant of SelectSession: the raw rows are read on another connection.
SelectSession_OtherConnection(p) ==
  /\ pc[p] = "select"
  /\ selected' = [selected EXCEPT ![p] =
                    SelectAndWrite(canonical, raw, ranking[p])]
  /\ chosen' = [chosen EXCEPT ![p] =
                  RecordSessionChoice(choice, raw, ranking[p])]
  /\ pc' = [pc EXCEPT ![p] = "commit"]
  /\ UNCHANGED <<tables, locks, chunk, at, preview, done, rows, revs, ranking,
                 newPolicy, bookkeeping>>

\* The rest of select_and_write: the raw rows of the whole session, this
\* transaction's own included, the selection and its writes.
SelectSession(p) ==
  /\ pc[p] = "select"
  /\ selected' = [selected EXCEPT ![p] =
                    SelectAndWrite(canonical, Merge(raw, rows[p]), ranking[p])]
  /\ chosen' = [chosen EXCEPT ![p] =
                  RecordSessionChoice(choice, Merge(raw, rows[p]), ranking[p])]
  /\ pc' = [pc EXCEPT ![p] = "commit"]
  /\ UNCHANGED <<tables, locks, chunk, at, preview, done, rows, revs, ranking,
                 newPolicy, bookkeeping>>

\* write_and_reselect: the selection lock first, then the policy row, then
\* the selection by the policy as this transaction sees it.
WriteAndReselect(p, r) ==
  /\ pc[p] = "idle"
  /\ started < MaxTx
  /\ selLock = NoProc
  /\ started' = started + 1
  /\ selLock' = p
  /\ newPolicy' = [newPolicy EXCEPT ![p] = r]
  /\ ranking' = [ranking EXCEPT ![p] = r]
  /\ pc' = [pc EXCEPT ![p] = "select"]
  /\ UNCHANGED <<tables, seriesLock, chunk, at, preview, done, rows, revs,
                 selected, chosen, planned>>

\* reselect_series: the selection alone, by the policy in force.
ReselectSeries(p) ==
  /\ pc[p] = "idle"
  /\ started < MaxTx
  /\ selLock = NoProc
  /\ started' = started + 1
  /\ selLock' = p
  /\ ranking' = [ranking EXCEPT ![p] = policy]
  /\ pc' = [pc EXCEPT ![p] = "select"]
  /\ UNCHANGED <<tables, seriesLock, chunk, at, preview, done, rows, revs,
                 newPolicy, selected, chosen, planned>>

\* The transaction's writes become visible together.
Commit(p) ==
  /\ pc[p] = "commit"
  /\ raw' = Merge(raw, rows[p])
  /\ revision' = revision \cup revs[p]
  /\ canonical' = selected[p]
  /\ choice' = chosen[p]
  /\ policy' = IF newPolicy[p] = NoRow THEN policy ELSE newPolicy[p]
  /\ basis' = ranking[p]
  /\ served' = served \cup OffersOf(chunk[p], at[p])
  /\ EndTx(p)

\* An error, a lost connection or a killed process, at any step.
Rollback(p) ==
  /\ pc[p] # "idle"
  /\ EndTx(p)
  /\ UNCHANGED tables

\* apply_plan, or insert_row with a span from today: a policy row committed
\* with no selection.  The table lock of apply_plan and the no-overlap
\* constraint wait for a policy row another transaction has written.
ApplyPlan(r) ==
  /\ started < MaxTx
  /\ r # policy
  /\ \A p \in Procs : newPolicy[p] = NoRow
  /\ policy' = r
  /\ planned' = TRUE
  /\ started' = started + 1
  /\ UNCHANGED <<raw, revision, canonical, choice, basis, served, locks, txVars>>

ProcNext(p) ==
  \/ \E s \in Series : PreviewSeries(p, s)
  \/ \E s \in Series : WriteRaw(p, s)
  \/ LockSelection(p)
  \/ SelectSession(p)
  \/ Commit(p)

IngressNext ==
  \/ \E p \in Procs, c \in Chunks, time \in Times : BeginChunk(p, c, time)
  \/ \E p \in Procs : ProcNext(p)
  \/ \E p \in Procs, r \in Rankings : WriteAndReselect(p, r)
  \/ \E p \in Procs : ReselectSeries(p)
  \/ \E r \in Rankings : ApplyPlan(r)
  \/ \E p \in Procs : Rollback(p)

IngressSpec == IngressInit /\ [][IngressNext]_vars

\* A started transaction keeps running; the lock manager grants a lock in
\* the order it was asked for, so nobody waits for ever on a lock that is
\* given back again and again.
Fairness ==
  \A p \in Procs :
    /\ \A s \in Series : SF_vars(PreviewSeries(p, s)) /\ WF_vars(WriteRaw(p, s))
    /\ SF_vars(LockSelection(p))
    /\ WF_vars(SelectSession(p))
    /\ WF_vars(Commit(p))

FairIngressSpec == IngressSpec /\ Fairness

-----------------------------------------------------------------------------
(* Properties of the transactions; those of the tables are in BarStore.     *)

\* Type invariant of the tables, the locks and every transaction of
\* apply_raw_contract and the reselections.
TypeOK ==
  /\ StoreTypeOK
  /\ seriesLock \in [Series -> Procs \cup {NoProc}]
  /\ selLock \in Procs \cup {NoProc}
  /\ pc \in [Procs -> {"idle", "series", "write", "select", "commit"}]
  /\ chunk \in [Procs -> ChunkType]
  /\ at \in [Procs -> Nat]
  /\ done \in [Procs -> SUBSET Series]
  /\ rows \in [Procs -> RawType]
  /\ revs \in [Procs -> SUBSET Revision]
  /\ ranking \in [Procs -> Rankings \cup {<<>>}]
  /\ newPolicy \in [Procs -> Rankings \cup {NoRow}]
  /\ selected \in [Procs -> [Slots -> CanonicalRow \cup {NoRow}]]
  /\ planned \in BOOLEAN
  /\ started \in 0..MaxTx

\* The preview's counts, recorded in ohlcv_load before the write, are the
\* write's: apply_raw_contract's RuntimeError "raw write disagrees with its
\* preview" is unreachable.
PreviewIsExact ==
  \A p \in Procs, s \in Series :
    pc[p] = "write" /\ IsNext(p, s) => PreviewAgrees(p, s)

\* Until a policy row is committed without a selection, canonical follows the
\* policy in force: a writer that waited for the lock of a write_and_reselect
\* selects by the new ranking, not by the copy it read before it waited.
PolicyFollowed == ~ planned => basis = policy

\* The lock p waits for is held by q.
WaitsFor(p, q) ==
  /\ p # q
  /\ pc[p] = "series"
  /\ \/ \E s \in Series : IsNext(p, s) /\ seriesLock[s] = q
     \/ Pending(p) = {} /\ selLock = q

\* Locks are taken in one order (series keys sorted, then the selection
\* lock), so no set of transactions waits on itself, however their chunks
\* overlap.
NoWaitCycle ==
  \A D \in SUBSET Procs :
    D # {} => \E p \in D : \A q \in D : ~ WaitsFor(p, q)

\* Every transaction ends.
TransactionsEnd == \A p \in Procs : pc[p] # "idle" ~> pc[p] = "idle"

\* The tables behave as if each chunk and each reselection were applied in
\* one indivisible step (the specification of BarStore).
AppliesChunksAtomically == Spec
=============================================================================
