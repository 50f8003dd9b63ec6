---------------------------- MODULE SelfHealing ----------------------------
(***************************************************************************)
(* The self-healing engine, src/self_healing/engine.py with ledger.py and  *)
(* pool_manager.py: Alertmanager webhooks run concurrently in one event    *)
(* loop, each checks the remediation ledger, measures, asks the circuit    *)
(* breaker and the rate limit, performs flush_connection_pool under a      *)
(* timeout and records the outcome.  The flush replaces the database pool  *)
(* that the ledger itself uses.                                            *)
(*                                                                         *)
(* What lies between two awaits is one step; a query is one step too.  A   *)
(* query fails when its pool is not open, and may fail otherwise.  The     *)
(* model spans less than the hour of the rate limit.                       *)
(***************************************************************************)
EXTENDS Integers, Sequences, FiniteSets

CONSTANTS
  Requests,    \* webhook requests that may be in progress at a time
  Alerts,      \* alert ids
  None,        \* no request
  MaxPerHour,  \* max_per_hour of the strategy
  MinSample,   \* attempts below which the circuit breaker stays closed
  MaxHooks,    \* bound: webhooks received
  MaxFaults    \* bound: failed queries, failed creations, timeouts and crashes

ASSUME HealingAssumption ==
  /\ IsFiniteSet(Requests) /\ None \notin Requests
  /\ Alerts # {}
  /\ MaxPerHour \in Nat \ {0} /\ MinSample \in Nat \ {0}
  /\ MaxHooks \in Nat /\ MaxFaults \in Nat

VARIABLES
  pc,         \* where each request is
  alert,      \* its alert
  outcome,    \* the outcome it is about to record
  pools,      \* the state of every pool made so far
  pool,       \* ManagedPool._pool
  ledger,     \* the pool the RemediationLedger was made with
  lock,       \* who holds ManagedPool._lock
  fresh,      \* the pool a flush has made and not yet swapped in
  records,    \* remediation_ledger: alert and outcome
  enabled,    \* the strategy's enabled
  hooks, faults,
  acted,      \* history: actions begun, those that wait for the lock in vain too
  unrecorded, \* history: actions that ended without a record
  known,      \* history: whether the alert had a record when it was received
  cut         \* history: a timeout hit a flush behind its swap

request == <<pc, alert, outcome>>
flush == <<pools, pool, ledger, lock, fresh>>
history == <<acted, unrecorded, known, cut>>
vars == <<request, flush, records, enabled, hooks, faults, history>>

NoPool == 0

Init ==
  /\ pc = [r \in Requests |-> "idle"]
  /\ alert = [r \in Requests |-> CHOOSE a \in Alerts : TRUE]
  /\ outcome = [r \in Requests |-> "failed"]
  /\ pools = <<"open">> /\ pool = 1 /\ ledger = 1
  /\ lock = None /\ fresh = NoPool
  /\ records = <<>> /\ enabled = TRUE
  /\ hooks = 0 /\ faults = 0
  /\ acted = 0 /\ unrecorded = 0
  /\ known = [r \in Requests |-> FALSE] /\ cut = FALSE

Goto(r, place) == pc' = [pc EXCEPT ![r] = place]

Fault == faults < MaxFaults /\ faults' = faults + 1

\* A query on pool p succeeds, or raises.
Answers(p) == pools[p] = "open" /\ UNCHANGED faults
Raises(p) == IF pools[p] = "open" THEN Fault ELSE UNCHANGED faults

Recorded(a) == \E k \in DOMAIN records : records[k].alert = a

-----------------------------------------------------------------------------
(* handle_webhook and execute_remediation up to the action.                 *)

Receive(r, a) ==
  /\ pc[r] = "idle"
  /\ hooks < MaxHooks /\ hooks' = hooks + 1
  /\ alert' = [alert EXCEPT ![r] = a]
  /\ known' = [known EXCEPT ![r] = Recorded(a)]
  /\ Goto(r, "check")
  /\ UNCHANGED <<outcome, flush, records, enabled, faults, acted, unrecorded, cut>>

\* Mutant of CheckAlert: an error of the ledger lets the alert pass.
CheckAlert_FailOpen(r) ==
  /\ pc[r] = "check"
  /\ \/ /\ Answers(ledger)
        /\ Goto(r, IF Recorded(alert[r]) THEN "idle" ELSE "measure")
     \/ /\ Raises(ledger)
        /\ Goto(r, "measure")
  /\ UNCHANGED <<alert, outcome, flush, records, enabled, hooks, history>>

\* alert_already_processed; an error ends the request.
CheckAlert(r) ==
  /\ pc[r] = "check"
  /\ \/ /\ Answers(ledger)
        /\ Goto(r, IF Recorded(alert[r]) THEN "idle" ELSE "measure")
     \/ /\ Raises(ledger)
        /\ Goto(r, "idle")
  /\ UNCHANGED <<alert, outcome, flush, records, enabled, hooks, history>>

\* The measurement before the action: none, within the threshold, or above it.
MeasurePre(r) ==
  /\ pc[r] = "measure"
  /\ \E next \in {"idle", "breaker"} : Goto(r, next)
  /\ UNCHANGED <<alert, outcome, flush, records, enabled, hooks, faults, history>>

Unsuccessful(recent) == Cardinality({k \in DOMAIN recent : recent[k].outcome # "success"})

\* More than half of the recent attempts failed, of enough of them.
BreakerOpen(recent) ==
  Len(recent) >= MinSample /\ 2 * Unsuccessful(recent) > Len(recent)

\* _check_circuit_breaker, on the managed pool, of the records of the last five
\* minutes; then the strategy must be enabled.
AskBreaker(r) ==
  /\ pc[r] = "breaker"
  /\ \/ /\ Answers(pool)
        /\ \E k \in 1..Len(records) + 1 :
             LET recent == SubSeq(records, k, Len(records))
             IN  Goto(r, IF BreakerOpen(recent) \/ ~enabled THEN "idle" ELSE "limit")
     \/ /\ Raises(pool)
        /\ Goto(r, "idle")
  /\ UNCHANGED <<alert, outcome, flush, records, enabled, hooks, history>>

\* Mutant of AskLimit: the limit may be reached.
AskLimit_OffByOne(r) ==
  /\ pc[r] = "limit"
  /\ \/ /\ Answers(ledger)
        /\ Goto(r, IF Len(records) > MaxPerHour THEN "idle" ELSE "lock")
     \/ /\ Raises(ledger)
        /\ Goto(r, "idle")
  /\ UNCHANGED <<alert, outcome, flush, records, enabled, hooks, history>>

\* attempts_in_last_hour.
AskLimit(r) ==
  /\ pc[r] = "limit"
  /\ \/ /\ Answers(ledger)
        /\ Goto(r, IF Len(records) >= MaxPerHour THEN "idle" ELSE "lock")
     \/ /\ Raises(ledger)
        /\ Goto(r, "idle")
  /\ UNCHANGED <<alert, outcome, flush, records, enabled, hooks, history>>

-----------------------------------------------------------------------------
(* The action: ManagedPool.flush, then the rebinding of the ledger.         *)

AcquireLock(r) ==
  /\ pc[r] = "lock" /\ lock = None
  /\ lock' = r
  /\ acted' = acted + 1
  /\ Goto(r, "create")
  /\ UNCHANGED <<alert, outcome, pools, pool, ledger, fresh, records, enabled, hooks, faults,
                 unrecorded, known, cut>>

Create(r) ==
  /\ pc[r] = "create"
  /\ pools' = Append(pools, "open")
  /\ fresh' = Len(pools) + 1
  /\ Goto(r, "verify")
  /\ UNCHANGED <<alert, outcome, pool, ledger, lock, records, enabled, hooks, faults, history>>

\* The action raises: the lock is free and the failure will be recorded.
ActionFails(r) ==
  /\ lock' = IF lock = r THEN None ELSE lock
  /\ fresh' = IF lock = r THEN NoPool ELSE fresh
  /\ outcome' = [outcome EXCEPT ![r] = "failed"]
  /\ Goto(r, "recordFailed")

CreateFails(r) ==
  /\ pc[r] = "create"
  /\ Fault
  /\ ActionFails(r)
  /\ UNCHANGED <<alert, pools, pool, ledger, records, enabled, hooks, history>>

\* Mutant of VerifyFails: the new pool is already in place when it is tried.
VerifyFails_Swapped(r) ==
  /\ pc[r] = "verify"
  /\ Fault
  /\ pool' = fresh
  /\ pools' = [pools EXCEPT ![fresh] = "closed"]
  /\ ActionFails(r)
  /\ UNCHANGED <<alert, ledger, records, enabled, hooks, history>>

\* SELECT 1 fails on the new pool: it is closed and the old one stays.
VerifyFails(r) ==
  /\ pc[r] = "verify"
  /\ Fault
  /\ pools' = [pools EXCEPT ![fresh] = "closed"]
  /\ ActionFails(r)
  /\ UNCHANGED <<alert, pool, ledger, records, enabled, hooks, history>>

\* The swap, up to the drain of the old pool.
Swap(r) ==
  /\ pc[r] = "verify"
  /\ pools' = [pools EXCEPT ![pool] = "closing"]
  /\ pool' = fresh /\ fresh' = NoPool
  /\ Goto(r, "drain")
  /\ UNCHANGED <<alert, outcome, ledger, lock, records, enabled, hooks, faults, history>>

ClosePools == pools' = [p \in DOMAIN pools |-> IF pools[p] = "closing" THEN "closed" ELSE pools[p]]

\* Mutant of Drained: the ledger keeps its pool.
Drained_NotRebound(r) ==
  /\ pc[r] = "drain"
  /\ ClosePools
  /\ lock' = None
  /\ Goto(r, "post")
  /\ UNCHANGED <<alert, outcome, pool, ledger, fresh, records, enabled, hooks, faults, history>>

\* Mutant of Drained: without a limit, the drain waits for the other requests.
Drained_NoLimit(r) ==
  /\ pc[r] = "drain" /\ \A q \in Requests \ {r} : pc[q] = "idle"
  /\ ClosePools
  /\ lock' = None
  /\ ledger' = pool /\ cut' = FALSE
  /\ Goto(r, "post")
  /\ UNCHANGED <<alert, outcome, pool, fresh, records, enabled, hooks, faults,
                 acted, unrecorded, known>>

\* The old pool is closed, or terminated after ten seconds; the flush returns
\* and the ledger is made anew.
Drained(r) ==
  /\ pc[r] = "drain"
  /\ ClosePools
  /\ lock' = None
  /\ ledger' = pool /\ cut' = FALSE
  /\ Goto(r, "post")
  /\ UNCHANGED <<alert, outcome, pool, fresh, records, enabled, hooks, faults,
                 acted, unrecorded, known>>

\* asyncio.timeout cancels the action.  No handler of the flush catches that: a
\* pool that was made stays open, and behind the swap the old pool is
\* terminated and the ledger not made anew.
Timeout(r) ==
  /\ pc[r] \in {"lock", "create", "verify", "drain"}
  /\ Fault
  /\ ActionFails(r)
  /\ cut' = (cut \/ pc[r] = "drain")
  /\ CASE pc[r] = "drain" -> ClosePools
       [] pc[r] = "create" -> pools' \in {pools, Append(pools, "open")}
       [] OTHER -> UNCHANGED pools
  /\ acted' = IF pc[r] = "lock" THEN acted + 1 ELSE acted
  /\ UNCHANGED <<alert, pool, ledger, records, enabled, hooks, unrecorded, known>>

-----------------------------------------------------------------------------
(* After the action.                                                        *)

MeasurePost(r) ==
  /\ pc[r] = "post"
  /\ \E o \in {"success", "partial"} : outcome' = [outcome EXCEPT ![r] = o]
  /\ Goto(r, "record")
  /\ UNCHANGED <<alert, flush, records, enabled, hooks, faults, history>>

Insert(r) == records' = Append(records, [alert |-> alert[r], outcome |-> outcome[r]])

\* _ledger.record; its failure is handled like one of the action.
Record(r) ==
  /\ pc[r] = "record"
  /\ \/ Answers(ledger) /\ Insert(r) /\ Goto(r, "disable") /\ UNCHANGED outcome
     \/ /\ Raises(ledger)
        /\ outcome' = [outcome EXCEPT ![r] = "failed"]
        /\ Goto(r, "recordFailed")
        /\ UNCHANGED records
  /\ UNCHANGED <<alert, flush, enabled, hooks, history>>

\* _ledger.record in the except branch; its failure leaves the handler.
RecordFailed(r) ==
  /\ pc[r] \in {"recordFailed", "recordAgain"}
  /\ \/ Answers(ledger) /\ Insert(r) /\ Goto(r, "disableFailed") /\ UNCHANGED unrecorded
     \/ /\ Raises(ledger)
        /\ unrecorded' = IF pc[r] = "recordFailed" THEN unrecorded + 1 ELSE unrecorded
        /\ Goto(r, "idle")
        /\ UNCHANGED records
  /\ UNCHANGED <<alert, outcome, flush, enabled, hooks, acted, known, cut>>

\* _maybe_auto_disable, by the success rates as they were last refreshed.  Its
\* error behind a recorded success ends in the except branch as well, which
\* records the same remediation again, as failed.
AutoDisable(r) ==
  /\ pc[r] \in {"disable", "disableFailed"}
  /\ \/ /\ Answers(ledger)
        /\ enabled' \in {enabled, FALSE}
        /\ Goto(r, "idle") /\ UNCHANGED outcome
     \/ /\ Raises(ledger)
        /\ outcome' = [outcome EXCEPT ![r] = "failed"]
        /\ Goto(r, IF pc[r] = "disable" THEN "recordAgain" ELSE "idle")
        /\ UNCHANGED enabled
  /\ UNCHANGED <<alert, flush, records, hooks, history>>

\* The process dies and starts again; the ledger table stays.
Acting == {r \in Requests :
  pc[r] \in {"create", "verify", "drain", "post", "record", "recordFailed"}}

Crash ==
  /\ Fault
  /\ pc' = [r \in Requests |-> "idle"]
  /\ pools' = <<"open">> /\ pool' = 1 /\ ledger' = 1
  /\ lock' = None /\ fresh' = NoPool
  /\ enabled' = TRUE
  /\ unrecorded' = unrecorded + Cardinality(Acting)
  /\ cut' = FALSE
  /\ UNCHANGED <<alert, outcome, records, hooks, acted, known>>

-----------------------------------------------------------------------------
Step(r) ==
  \/ CheckAlert(r) \/ MeasurePre(r) \/ AskBreaker(r) \/ AskLimit(r)
  \/ Create(r) \/ CreateFails(r) \/ Swap(r) \/ VerifyFails(r) \/ Drained(r)
  \/ MeasurePost(r) \/ Record(r) \/ RecordFailed(r) \/ AutoDisable(r)

Next ==
  \/ \E r \in Requests :
       \/ \E a \in Alerts : Receive(r, a)
       \/ Step(r) \/ AcquireLock(r) \/ Timeout(r)
  \/ Crash

Spec == Init /\ [][Next]_vars

\* The event loop runs a request that can go on (the drain ends after ten
\* seconds), and asyncio.Lock serves its waiters in turn.
FairSpec ==
  Spec /\ \A r \in Requests : WF_vars(Step(r)) /\ SF_vars(AcquireLock(r))

-----------------------------------------------------------------------------
Places == {"idle", "check", "measure", "breaker", "limit", "lock", "create", "verify",
           "drain", "post", "record", "recordFailed", "recordAgain", "disable",
           "disableFailed"}

TypeOK ==
  /\ pc \in [Requests -> Places] /\ alert \in [Requests -> Alerts]
  /\ outcome \in [Requests -> {"success", "partial", "failed"}]
  /\ pools \in Seq({"open", "closing", "closed"})
  /\ pool \in DOMAIN pools /\ ledger \in DOMAIN pools
  /\ lock \in Requests \cup {None}
  /\ fresh \in {NoPool} \cup DOMAIN pools
  /\ \A r \in Requests : lock = r <=> pc[r] \in {"create", "verify", "drain"}
  /\ fresh # NoPool <=> \E r \in Requests : pc[r] = "verify"
  /\ records \in Seq([alert : Alerts, outcome : {"success", "partial", "failed"}])
  /\ enabled \in BOOLEAN /\ cut \in BOOLEAN
  /\ hooks \in 0..MaxHooks /\ faults \in 0..MaxFaults
  /\ acted \in Nat /\ unrecorded \in Nat /\ known \in [Requests -> BOOLEAN]

(* pool_manager.py l. 8: the system is never left without a working pool.      *)
(* Whatever fails or is cancelled, and however flushes overlap, the managed    *)
(* pool is open, and only the flush that holds the lock has another one in     *)
(* the making.                                                                 *)
WorkingPool == pools[pool] = "open" /\ fresh # pool

(* The ledger uses the managed pool, except while a flush drains the old one   *)
(* and after a timeout has cut a flush between its swap and the rebinding      *)
(* (engine.py l. 438-441).  In these times every ledger query of every         *)
(* request fails.                                                              *)
LedgerFollowsPool ==
  ledger # pool => cut \/ \E r \in Requests : pc[r] = "drain"

(* An alert that has a record when it is received is not acted on, also if the *)
(* ledger cannot be asked and after a restart (engine.py l. 130).              *)
RecordedNotRepeated ==
  \A r \in Requests : known[r] => pc[r] \in {"idle", "check"}

(* The rate limit is read before the action and the record written behind it,  *)
(* so requests in progress and lost records exceed it, and nothing else does:  *)
(* actions are at most the limit, the other requests in progress, and the      *)
(* actions whose record was lost.                                              *)
RateBound == acted <= MaxPerHour + (Cardinality(Requests) - 1) + unrecorded

(* Every webhook request ends.                                                 *)
RequestsEnd == \A r \in Requests : (pc[r] # "idle") ~> (pc[r] = "idle")
=============================================================================
