-------------------------- MODULE SelfHealingProofs --------------------------
(***************************************************************************)
(* Proofs about SelfHealing, for any finite set of requests, any alerts,   *)
(* any limit and any number of webhooks and faults.                        *)
(***************************************************************************)
EXTENDS SelfHealing, FiniteSetTheorems, TLAPS

\* A pool that waits for its swap is open: a flush that fails behind the
\* verification takes it back with its own lock.
FreshIsOpen == fresh # NoPool => pools[fresh] = "open"

\* A known alert is in the table as long as its request has not asked.
KnownIsRecorded ==
  \A r \in Requests : known[r] /\ pc[r] = "check" => Recorded(alert[r])

\* The requests that have passed the rate limit and not yet acted.
Waiting == {r \in Requests : pc[r] = "lock"}

\* Every action begun is recorded, in progress, or lost; and what has passed
\* the limit is bounded together with what was done.
ActionsAccounted == acted <= Len(records) + Cardinality(Acting) + unrecorded
PassedBound ==
  acted + Cardinality(Waiting) <= MaxPerHour + (Cardinality(Requests) - 1) + unrecorded

HealingInv ==
  /\ TypeOK
  /\ WorkingPool /\ FreshIsOpen
  /\ LedgerFollowsPool
  /\ RecordedNotRepeated /\ KnownIsRecorded
  /\ ActionsAccounted /\ PassedBound

-----------------------------------------------------------------------------
(* Types: the lock is held exactly by the flush in progress.                *)

LEMMA HealingInitTypes == Init => TypeOK
<1> SUFFICES ASSUME Init PROVE TypeOK
  OBVIOUS
<1>1. (CHOOSE a \in Alerts : TRUE) \in Alerts
  BY HealingAssumption
<1>2. /\ pc \in [Requests -> Places] /\ alert \in [Requests -> Alerts]
      /\ outcome \in [Requests -> {"success", "partial", "failed"}]
      /\ known \in [Requests -> BOOLEAN]
      /\ \A r \in Requests : pc[r] = "idle"
  BY <1>1 DEF Init, Places
<1>3. /\ pools \in Seq({"open", "closing", "closed"}) /\ DOMAIN pools = 1..1
      /\ records \in Seq([alert : Alerts, outcome : {"success", "partial", "failed"}])
  BY DEF Init
<1>4. /\ pool = 1 /\ ledger = 1 /\ lock = None /\ fresh = 0 /\ enabled = TRUE /\ cut = FALSE
      /\ hooks = 0 /\ faults = 0 /\ acted = 0 /\ unrecorded = 0
  BY DEF Init, NoPool
<1>5. /\ pool \in DOMAIN pools /\ ledger \in DOMAIN pools /\ fresh \in {NoPool} \cup DOMAIN pools
      /\ hooks \in 0..MaxHooks /\ faults \in 0..MaxFaults
      /\ \A r \in Requests : lock # r
  BY <1>3, <1>4, HealingAssumption DEF NoPool
<1> QED
  BY <1>2, <1>3, <1>4, <1>5 DEF TypeOK, NoPool

\* The requests before the action change only their place.
LEMMA AskKeepsTypes ==
  ASSUME TypeOK, NEW r \in Requests,
         (\E a \in Alerts : Receive(r, a)) \/ CheckAlert(r) \/ MeasurePre(r) \/ AskBreaker(r)
           \/ AskLimit(r)
  PROVE  TypeOK'
<1>1. /\ pc' \in [Requests -> Places] /\ alert' \in [Requests -> Alerts]
      /\ known' \in [Requests -> BOOLEAN]
      /\ hooks' \in 0..MaxHooks /\ faults' \in 0..MaxFaults
  <2>1. faults' \in 0..MaxFaults /\ hooks' \in 0..MaxHooks
    <3>1. faults' = faults \/ (faults < MaxFaults /\ faults' = faults + 1)
      BY DEF Receive, CheckAlert, MeasurePre, AskBreaker, AskLimit, Fault, Answers, Raises
    <3>2. hooks' = hooks \/ (hooks < MaxHooks /\ hooks' = hooks + 1)
      BY DEF Receive, CheckAlert, MeasurePre, AskBreaker, AskLimit
    <3> QED
      BY <3>1, <3>2, HealingAssumption DEF TypeOK
  <2>2. alert' \in [Requests -> Alerts] /\ known' \in [Requests -> BOOLEAN]
    <3>1. CASE \E a \in Alerts : Receive(r, a)
      <4> PICK a \in Alerts : Receive(r, a)
        BY <3>1
      <4>1. alert' = [alert EXCEPT ![r] = a] /\ known' = [known EXCEPT ![r] = Recorded(a)]
        BY DEF Receive
      <4>2. Recorded(a) \in BOOLEAN
        BY DEF Recorded
      <4>3. alert \in [Requests -> Alerts] /\ known \in [Requests -> BOOLEAN]
        BY DEF TypeOK
      <4> QED
        BY <4>1, <4>2, <4>3
    <3>2. CASE ~\E a \in Alerts : Receive(r, a)
      <4>1. alert' = alert /\ known' = known
        BY <3>2 DEF CheckAlert, MeasurePre, AskBreaker, AskLimit, history
      <4> QED
        BY <4>1 DEF TypeOK
    <3> QED
      BY <3>1, <3>2
  <2>3. \E place \in {"idle", "check", "measure", "breaker", "limit", "lock"} : Goto(r, place)
    BY DEF Receive, CheckAlert, MeasurePre, AskBreaker, AskLimit
  <2> QED
    BY <2>1, <2>2, <2>3 DEF TypeOK, Places, Goto
<1>2. /\ pc[r] \in {"idle", "check", "measure", "breaker", "limit"}
      /\ pc'[r] \in {"idle", "check", "measure", "breaker", "limit", "lock"}
      /\ \A q \in Requests \ {r} : pc'[q] = pc[q]
      /\ UNCHANGED <<outcome, flush, records, enabled, acted, unrecorded, cut>>
  BY DEF TypeOK, Receive, CheckAlert, MeasurePre, AskBreaker, AskLimit, Goto, history
<1> QED
  BY <1>1, <1>2 DEF TypeOK, flush

\* Closing pools keeps their number.
LEMMA ClosePoolsType ==
  ASSUME TypeOK, ClosePools
  PROVE  pools' \in Seq({"open", "closing", "closed"}) /\ DOMAIN pools' = DOMAIN pools
<1>1. pools \in [1..Len(pools) -> {"open", "closing", "closed"}] /\ Len(pools) \in Nat
  BY DEF TypeOK
<1>2. pools' \in [1..Len(pools) -> {"open", "closing", "closed"}]
  BY <1>1 DEF ClosePools
<1> QED
  BY <1>1, <1>2

LEMMA FlushKeepsTypes ==
  ASSUME TypeOK, NEW r \in Requests,
         AcquireLock(r) \/ Create(r) \/ CreateFails(r) \/ Swap(r) \/ VerifyFails(r)
           \/ Drained(r) \/ Timeout(r)
  PROVE  TypeOK'
<1> USE HealingAssumption DEF TypeOK, Goto, Places, NoPool, history
<1>1. CASE AcquireLock(r)
  BY <1>1 DEF AcquireLock
<1>2. CASE Create(r)
  BY <1>2 DEF Create
<1>3. CASE CreateFails(r)
  BY <1>3 DEF CreateFails, ActionFails, Fault
<1>4. CASE Swap(r)
  BY <1>4 DEF Swap
<1>5. CASE VerifyFails(r)
  BY <1>5 DEF VerifyFails, ActionFails, Fault
<1>6. CASE Drained(r)
  BY <1>6, ClosePoolsType DEF Drained
<1>7. CASE Timeout(r)
  <2>1. /\ pools' \in Seq({"open", "closing", "closed"}) /\ DOMAIN pools \subseteq DOMAIN pools'
    <3>1. CASE ClosePools
      BY <3>1, ClosePoolsType
    <3>2. CASE pools' = pools
      BY <3>2
    <3>4. CASE pools' = Append(pools, "open")
      <4>1. pools \in Seq({"open", "closing", "closed"})
        OBVIOUS
      <4>2. /\ Append(pools, "open") \in Seq({"open", "closing", "closed"})
            /\ Len(Append(pools, "open")) = Len(pools) + 1
            /\ DOMAIN pools = 1..Len(pools) /\ Len(pools) \in Nat
        BY <4>1
      <4> QED
        BY <3>4, <4>2
    <3>3. ClosePools \/ pools' = pools \/ pools' = Append(pools, "open")
      <4>1. CASE pc[r] = "drain"
        BY <1>7, <4>1, Zenon DEF Timeout
      <4>2. CASE pc[r] = "create"
        BY <1>7, <4>2 DEF Timeout, ClosePools
      <4>3. CASE pc[r] \notin {"drain", "create"}
        BY <1>7, <4>3 DEF Timeout, ClosePools
      <4> QED
        BY <4>1, <4>2, <4>3
    <3> QED
      BY <3>1, <3>2, <3>3, <3>4
  <2>2. /\ pool' \in DOMAIN pools' /\ ledger' \in DOMAIN pools'
        /\ fresh' \in {NoPool} \cup DOMAIN pools'
    BY <1>7, <2>1 DEF Timeout, ActionFails
  <2>3. acted' \in Nat /\ cut' \in BOOLEAN /\ faults' \in 0..MaxFaults
    <3>1. acted' \in {acted, acted + 1} /\ cut' = (cut \/ pc[r] = "drain")
      BY <1>7 DEF Timeout
    <3>2. faults < MaxFaults /\ faults' = faults + 1
      BY <1>7 DEF Timeout, Fault
    <3>3. acted \in Nat /\ faults \in 0..MaxFaults /\ MaxFaults \in Nat
      OBVIOUS
    <3> HIDE HealingAssumption DEF TypeOK
    <3> QED
      BY <3>1, <3>2, <3>3
  <2>4. /\ pc[r] \in {"lock", "create", "verify", "drain"}
        /\ pc' = [pc EXCEPT ![r] = "recordFailed"]
        /\ outcome' = [outcome EXCEPT ![r] = "failed"]
        /\ lock' = IF lock = r THEN None ELSE lock
        /\ fresh' = IF lock = r THEN NoPool ELSE fresh
        /\ UNCHANGED <<alert, records, enabled, hooks, unrecorded, known>>
    BY <1>7 DEF Timeout, ActionFails
  <2> QED
    BY <2>1, <2>2, <2>3, <2>4
<1> QED
  BY <1>1, <1>2, <1>3, <1>4, <1>5, <1>6, <1>7

LEMMA AppendType == \A S : \A s \in Seq(S), e \in S : Append(s, e) \in Seq(S)
OBVIOUS

LEMMA RecordKeepsTypes ==
  ASSUME TypeOK, NEW r \in Requests,
         MeasurePost(r) \/ Record(r) \/ RecordFailed(r) \/ AutoDisable(r)
  PROVE  TypeOK'
<1>1. /\ pc[r] \notin {"create", "verify", "drain"}
      /\ \E place \in {"idle", "record", "recordFailed", "recordAgain", "disable",
                       "disableFailed"} : Goto(r, place)
      /\ UNCHANGED <<alert, flush, hooks, acted, known, cut>>
  BY DEF MeasurePost, Record, RecordFailed, AutoDisable, history
<1>2. outcome' \in [Requests -> {"success", "partial", "failed"}]
  BY DEF TypeOK, MeasurePost, Record, RecordFailed, AutoDisable
<1>3. records' \in Seq([alert : Alerts, outcome : {"success", "partial", "failed"}])
  <2>1. [alert |-> alert[r], outcome |-> outcome[r]]
          \in [alert : Alerts, outcome : {"success", "partial", "failed"}]
    BY DEF TypeOK
  <2>2. records' = records \/ records' = Append(records, [alert |-> alert[r], outcome |-> outcome[r]])
    BY DEF MeasurePost, Record, RecordFailed, AutoDisable, Insert
  <2>3. records \in Seq([alert : Alerts, outcome : {"success", "partial", "failed"}])
    BY DEF TypeOK
  <2> QED
    BY <2>1, <2>2, <2>3, AppendType
<1>4. enabled' \in BOOLEAN
  BY DEF TypeOK, MeasurePost, Record, RecordFailed, AutoDisable
<1>5. unrecorded' \in Nat
  <2>1. unrecorded' = unrecorded \/ unrecorded' = unrecorded + 1
    BY DEF MeasurePost, Record, RecordFailed, AutoDisable, history
  <2>2. unrecorded \in Nat
    BY DEF TypeOK
  <2> QED
    BY <2>1, <2>2
<1>6. faults' \in 0..MaxFaults
  <2>1. faults' = faults \/ (faults < MaxFaults /\ faults' = faults + 1)
    BY DEF MeasurePost, Record, RecordFailed, AutoDisable, Answers, Raises, Fault
  <2>2. faults \in 0..MaxFaults
    BY DEF TypeOK
  <2> QED
    BY <2>1, <2>2, HealingAssumption
<1> QED
  BY <1>1, <1>2, <1>3, <1>4, <1>5, <1>6 DEF TypeOK, Places, Goto, flush

\* The sets of requests the counts are about are finite.
LEMMA CountsFinite ==
  /\ IsFiniteSet(Acting) /\ Cardinality(Acting) \in Nat
  /\ IsFiniteSet(Waiting) /\ Cardinality(Waiting) \in Nat
  /\ Cardinality(Requests) \in Nat
BY HealingAssumption, FS_Subset, FS_CardinalityType DEF Acting, Waiting

LEMMA CrashKeepsTypes == TypeOK /\ Crash => TypeOK'
<1> SUFFICES ASSUME TypeOK, Crash PROVE TypeOK'
  OBVIOUS
<1>1. /\ pc' \in [Requests -> Places] /\ \A r \in Requests : pc'[r] = "idle"
  BY DEF Crash, Places
<1>2. pools' \in Seq({"open", "closing", "closed"}) /\ DOMAIN pools' = 1..1
  BY DEF Crash
<1>3. /\ pool' = 1 /\ ledger' = 1 /\ lock' = None /\ fresh' = NoPool
      /\ enabled' = TRUE /\ cut' = FALSE
      /\ UNCHANGED <<alert, outcome, records, hooks, acted, known>>
  BY DEF Crash
<1>4. unrecorded' \in Nat /\ faults' \in 0..MaxFaults
  BY CountsFinite, HealingAssumption DEF Crash, Fault, TypeOK
<1>5. /\ pool' \in DOMAIN pools' /\ ledger' \in DOMAIN pools'
      /\ \A r \in Requests : lock' # r
  BY <1>2, <1>3, HealingAssumption
<1> QED
  BY <1>1, <1>2, <1>3, <1>4, <1>5 DEF TypeOK

LEMMA HealingStepTypes == TypeOK /\ [Next]_vars => TypeOK'
<1> SUFFICES ASSUME TypeOK, [Next]_vars PROVE TypeOK'
  OBVIOUS
<1>1. CASE Crash
  BY <1>1, CrashKeepsTypes
<1>2. CASE UNCHANGED vars
  BY <1>2 DEF TypeOK, vars, request, flush, history
<1>3. ASSUME NEW r \in Requests,
             (\E a \in Alerts : Receive(r, a)) \/ Step(r) \/ AcquireLock(r) \/ Timeout(r)
      PROVE  TypeOK'
  BY <1>3, AskKeepsTypes, FlushKeepsTypes, RecordKeepsTypes DEF Step
<1> QED
  BY <1>1, <1>2, <1>3 DEF Next

-----------------------------------------------------------------------------
(* The pools.                                                               *)

\* Only a flush changes a pool, the ledger's pool or the cut.
LEMMA OthersKeepPools ==
  ASSUME NEW r \in Requests,
         (\E a \in Alerts : Receive(r, a)) \/ CheckAlert(r) \/ MeasurePre(r) \/ AskBreaker(r)
           \/ AskLimit(r) \/ MeasurePost(r) \/ Record(r) \/ RecordFailed(r) \/ AutoDisable(r)
  PROVE  /\ UNCHANGED <<flush, cut>> /\ pc[r] # "drain"
         /\ \E place \in Places : Goto(r, place)
BY DEF Receive, CheckAlert, MeasurePre, AskBreaker, AskLimit, MeasurePost, Record,
       RecordFailed, AutoDisable, history, Places

\* What a timeout does to the pools.
LEMMA TimeoutPools ==
  ASSUME TypeOK, NEW r \in Requests, Timeout(r)
  PROVE  /\ \A p \in DOMAIN pools : p \in DOMAIN pools' /\ (pools[p] = "open" => pools'[p] = "open")
         /\ pool' = pool /\ ledger' = ledger
         /\ lock # r => fresh' = fresh
         /\ lock = r => fresh' = NoPool
<1>1. pools' = pools \/ pools' = Append(pools, "open") \/ ClosePools
  BY DEF Timeout, ClosePools
<1>2. pools \in Seq({"open", "closing", "closed"})
  BY DEF TypeOK
<1>3. \A p \in DOMAIN pools : p \in DOMAIN pools' /\ (pools[p] = "open" => pools'[p] = "open")
  BY <1>1, <1>2 DEF ClosePools
<1> QED
  BY <1>3 DEF Timeout, ActionFails

LEMMA StepKeepsPools ==
  ASSUME TypeOK, WorkingPool, FreshIsOpen, [Next]_vars
  PROVE  WorkingPool' /\ FreshIsOpen'
<1> USE DEF WorkingPool, FreshIsOpen
<1>1. /\ pools \in Seq({"open", "closing", "closed"}) /\ pool \in DOMAIN pools
      /\ fresh \in {NoPool} \cup DOMAIN pools /\ NoPool \notin DOMAIN pools
  BY DEF TypeOK, NoPool
<1>2. CASE Crash
  BY <1>2 DEF Crash, NoPool
<1>3. CASE UNCHANGED vars
  BY <1>3 DEF vars, flush
<1>4. ASSUME NEW r \in Requests,
             (\E a \in Alerts : Receive(r, a)) \/ Step(r) \/ AcquireLock(r) \/ Timeout(r)
      PROVE  WorkingPool' /\ FreshIsOpen'
  <2>1. CASE Timeout(r)
    BY <1>1, <2>1, TimeoutPools
  <2>2. CASE AcquireLock(r)
    BY <2>2 DEF AcquireLock
  <2>3. CASE Create(r)
    BY <1>1, <2>3 DEF Create, NoPool
  <2>4. CASE CreateFails(r)
    BY <1>1, <2>4 DEF CreateFails, ActionFails
  <2>5. CASE Swap(r)
    <3>1. fresh # NoPool
      BY <2>5 DEF Swap, TypeOK
    <3> QED
      BY <1>1, <2>5, <3>1 DEF Swap
  <2>6. CASE VerifyFails(r)
    <3>1. lock = r /\ fresh # NoPool
      BY <2>6 DEF VerifyFails, TypeOK
    <3> QED
      BY <1>1, <2>6, <3>1 DEF VerifyFails, ActionFails
  <2>7. CASE Drained(r)
    BY <1>1, <2>7 DEF Drained, ClosePools
  <2>8. CASE UNCHANGED flush
    BY <2>8 DEF flush
  <2> QED
    BY <1>4, <2>1, <2>2, <2>3, <2>4, <2>5, <2>6, <2>7, <2>8, OthersKeepPools DEF Step
<1> QED
  BY <1>2, <1>3, <1>4 DEF Next

LEMMA StepKeepsLedger ==
  ASSUME TypeOK, LedgerFollowsPool, [Next]_vars
  PROVE  LedgerFollowsPool'
<1> USE DEF LedgerFollowsPool
<1>0. pc \in [Requests -> Places]
  BY DEF TypeOK
<1>1. CASE Crash
  BY <1>1 DEF Crash
<1>2. CASE UNCHANGED vars
  BY <1>2 DEF vars, flush, request, history
<1>3. ASSUME NEW r \in Requests,
             (\E a \in Alerts : Receive(r, a)) \/ Step(r) \/ AcquireLock(r) \/ Timeout(r)
      PROVE  LedgerFollowsPool'
  \* A step that is no drain and leaves the pools and the cut alone.
  <2>1. CASE /\ UNCHANGED <<pool, ledger, cut>> /\ pc[r] # "drain"
             /\ \E place \in Places : Goto(r, place)
    <3>1. \A q \in Requests : pc[q] = "drain" => pc'[q] = "drain"
      BY <1>0, <2>1 DEF Goto
    <3> QED
      BY <2>1, <3>1
  <2>2. CASE Timeout(r)
    <3>1. CASE pc[r] = "drain"
      BY <2>2, <3>1 DEF Timeout
    <3>2. CASE pc[r] # "drain"
      <4>1. UNCHANGED <<pool, ledger>> /\ (cut => cut')
        BY <2>2 DEF Timeout
      <4>2. \A q \in Requests : pc[q] = "drain" => pc'[q] = "drain"
        BY <1>0, <2>2, <3>2 DEF Timeout, ActionFails, Goto
      <4> QED
        BY <4>1, <4>2
    <3> QED
      BY <3>1, <3>2
  <2>3. CASE Swap(r)
    BY <1>0, <2>3 DEF Swap, Goto
  <2>4. CASE Drained(r)
    BY <2>4 DEF Drained
  <2>5. CASE AcquireLock(r) \/ Create(r) \/ CreateFails(r) \/ VerifyFails(r)
    BY <2>1, <2>5
       DEF AcquireLock, Create, CreateFails, VerifyFails, ActionFails, history, Places
  <2>6. CASE UNCHANGED <<flush, cut>> /\ pc[r] # "drain" /\ \E place \in Places : Goto(r, place)
    BY <2>1, <2>6 DEF flush
  <2> QED
    BY <1>3, <2>2, <2>3, <2>4, <2>5, <2>6, OthersKeepPools DEF Step
<1> QED
  BY <1>1, <1>2, <1>3 DEF Next

-----------------------------------------------------------------------------
(* Alerts that have a record.                                               *)

\* Records are only ever added.
LEMMA RecordsStay ==
  ASSUME TypeOK, [Next]_vars
  PROVE  \A a \in Alerts : Recorded(a) => Recorded(a)'
<1>1. records' = records \/ \E r \in Requests : Insert(r)
  BY DEF Next, Step, Receive, CheckAlert, MeasurePre, AskBreaker, AskLimit, AcquireLock,
         Create, CreateFails, VerifyFails, Swap, Drained, Timeout, MeasurePost, Record,
         RecordFailed, AutoDisable, Crash, vars
<1>2. CASE records' = records
  BY <1>2 DEF Recorded
<1>3. ASSUME NEW r \in Requests, Insert(r)
      PROVE  \A a \in Alerts : Recorded(a) => Recorded(a)'
  <2>1. records \in Seq([alert : Alerts, outcome : {"success", "partial", "failed"}])
    BY DEF TypeOK
  <2>2. \A k \in DOMAIN records : k \in DOMAIN records' /\ records'[k] = records[k]
    BY <1>3, <2>1 DEF Insert
  <2> QED
    BY <2>2 DEF Recorded
<1> QED
  BY <1>1, <1>2, <1>3

\* A request that neither receives nor asks leaves its alert known or unknown,
\* and is past the check.
LEMMA StepKeepsKnown ==
  ASSUME TypeOK, RecordedNotRepeated, KnownIsRecorded, [Next]_vars
  PROVE  RecordedNotRepeated' /\ KnownIsRecorded'
<1> USE DEF RecordedNotRepeated, KnownIsRecorded
<1>0. /\ pc \in [Requests -> Places] /\ known \in [Requests -> BOOLEAN]
      /\ alert \in [Requests -> Alerts] /\ alert' \in [Requests -> Alerts]
  BY HealingStepTypes DEF TypeOK
<1>1. \A a \in Alerts : Recorded(a) => Recorded(a)'
  BY RecordsStay
<1>2. CASE Crash
  BY <1>2 DEF Crash
<1>3. CASE UNCHANGED vars
  BY <1>0, <1>1, <1>3 DEF vars, request, history
<1>4. ASSUME NEW r \in Requests,
             (\E a \in Alerts : Receive(r, a)) \/ Step(r) \/ AcquireLock(r) \/ Timeout(r)
      PROVE  RecordedNotRepeated' /\ KnownIsRecorded'
  <2>1. CASE /\ UNCHANGED <<alert, known>> /\ \E place \in Places \ {"check"} : Goto(r, place)
             /\ pc[r] \notin {"idle", "check"} \/ pc'[r] = "idle"
    <3>1. pc'[r] # "check" /\ \A q \in Requests \ {r} : pc'[q] = pc[q]
      BY <1>0, <2>1 DEF Goto
    <3> QED
      BY <1>0, <1>1, <2>1, <3>1
  <2>2. ASSUME NEW a \in Alerts, Receive(r, a)
        PROVE  RecordedNotRepeated' /\ KnownIsRecorded'
    <3>1. /\ known' = [known EXCEPT ![r] = Recorded(a)] /\ alert' = [alert EXCEPT ![r] = a]
          /\ pc' = [pc EXCEPT ![r] = "check"]
      BY <2>2 DEF Receive, Goto
    <3>2. /\ pc'[r] = "check" /\ alert'[r] = a /\ (known'[r] => Recorded(a))
          /\ \A q \in Requests \ {r} : pc'[q] = pc[q] /\ alert'[q] = alert[q] /\ known'[q] = known[q]
      BY <1>0, <3>1
    <3> QED
      BY <1>0, <1>1, <3>2
  <2>3. CASE CheckAlert(r)
    <3>1. CASE Goto(r, "idle")
      BY <1>0, <2>1, <2>3, <3>1 DEF CheckAlert, Goto, Places, history
    <3>2. CASE Goto(r, "measure") /\ ~Recorded(alert[r])
      <4>1. ~known[r] /\ UNCHANGED <<alert, known>>
        BY <2>3, <3>2 DEF CheckAlert, history
      <4>2. pc'[r] = "measure" /\ \A q \in Requests \ {r} : pc'[q] = pc[q]
        BY <1>0, <3>2 DEF Goto
      <4> QED
        BY <1>0, <1>1, <4>1, <4>2
    <3> QED
      BY <2>3, <3>1, <3>2 DEF CheckAlert
  <2>4. CASE MeasurePre(r) \/ AskBreaker(r) \/ AskLimit(r)
    BY <2>1, <2>4 DEF MeasurePre, AskBreaker, AskLimit, history, Places
  <2>5. CASE \/ AcquireLock(r) \/ Create(r) \/ CreateFails(r) \/ Swap(r) \/ VerifyFails(r)
             \/ Drained(r) \/ Timeout(r)
    BY <2>1, <2>5
       DEF AcquireLock, Create, CreateFails, Swap, VerifyFails, Drained, Timeout, ActionFails,
           history, Places
  <2>6. CASE MeasurePost(r) \/ Record(r) \/ RecordFailed(r) \/ AutoDisable(r)
    BY <2>1, <2>6 DEF MeasurePost, Record, RecordFailed, AutoDisable, history, Places
  <2> QED
    BY <1>4, <2>2, <2>3, <2>4, <2>5, <2>6 DEF Step
<1> QED
  BY <1>2, <1>3, <1>4 DEF Next

-----------------------------------------------------------------------------
(* The rate limit.                                                          *)

ActingPlaces == {"create", "verify", "drain", "post", "record", "recordFailed"}

\* How the counts change when one request moves.
LEMMA MoveCounts ==
  ASSUME TypeOK, NEW r \in Requests, NEW place \in Places, Goto(r, place)
  PROVE  /\ Cardinality(Acting') = Cardinality(Acting)
              + (IF place \in ActingPlaces THEN 1 ELSE 0)
              - (IF pc[r] \in ActingPlaces THEN 1 ELSE 0)
         /\ Cardinality(Waiting') = Cardinality(Waiting)
              + (IF place = "lock" THEN 1 ELSE 0) - (IF pc[r] = "lock" THEN 1 ELSE 0)
<1>0. /\ IsFiniteSet(Acting) /\ Cardinality(Acting) \in Nat
      /\ IsFiniteSet(Waiting) /\ Cardinality(Waiting) \in Nat
  BY CountsFinite
<1>1. pc' = [pc EXCEPT ![r] = place] /\ pc \in [Requests -> Places]
  BY DEF Goto, TypeOK
<1>2. /\ Acting' = IF place \in ActingPlaces THEN Acting \cup {r} ELSE Acting \ {r}
      /\ r \in Acting <=> pc[r] \in ActingPlaces
  BY <1>1 DEF Acting, ActingPlaces
<1>3. /\ Waiting' = IF place = "lock" THEN Waiting \cup {r} ELSE Waiting \ {r}
      /\ r \in Waiting <=> pc[r] = "lock"
  BY <1>1 DEF Waiting
<1>4. /\ Cardinality(Acting \cup {r}) = IF r \in Acting THEN Cardinality(Acting) ELSE Cardinality(Acting) + 1
      /\ Cardinality(Acting \ {r}) = IF r \in Acting THEN Cardinality(Acting) - 1 ELSE Cardinality(Acting)
  BY <1>0, FS_AddElement, FS_RemoveElement
<1>5. /\ Cardinality(Waiting \cup {r}) = IF r \in Waiting THEN Cardinality(Waiting) ELSE Cardinality(Waiting) + 1
      /\ Cardinality(Waiting \ {r}) = IF r \in Waiting THEN Cardinality(Waiting) - 1 ELSE Cardinality(Waiting)
  BY <1>0, FS_AddElement, FS_RemoveElement
<1> QED
  BY <1>0, <1>2, <1>3, <1>4, <1>5

\* A request that asks for the limit is neither waiting nor acting.
LEMMA RoomForOne ==
  ASSUME NEW r \in Requests, pc[r] = "limit"
  PROVE  Cardinality(Acting) + Cardinality(Waiting) + 1 <= Cardinality(Requests)
<1>1. /\ IsFiniteSet(Acting) /\ IsFiniteSet(Waiting) /\ Cardinality(Acting) \in Nat
      /\ Cardinality(Waiting) \in Nat /\ Cardinality(Requests) \in Nat
  BY CountsFinite
<1>2. Acting \cap Waiting = {} /\ r \notin Acting \cup Waiting
  BY DEF Acting, Waiting
<1>3. /\ IsFiniteSet(Acting \cup Waiting)
      /\ Cardinality(Acting \cup Waiting) = Cardinality(Acting) + Cardinality(Waiting)
  <2>1. /\ IsFiniteSet(Acting \cup Waiting)
        /\ Cardinality(Acting \cup Waiting)
             = Cardinality(Acting) + Cardinality(Waiting) - Cardinality(Acting \cap Waiting)
    BY <1>1, FS_Union
  <2>2. Cardinality(Acting \cap Waiting) = 0
    BY <1>2, FS_EmptySet
  <2> QED
    BY <1>1, <2>1, <2>2
<1>4. Cardinality((Acting \cup Waiting) \cup {r}) = Cardinality(Acting) + Cardinality(Waiting) + 1
  BY <1>2, <1>3, FS_AddElement
<1>5. (Acting \cup Waiting) \cup {r} \in SUBSET Requests
  BY DEF Acting, Waiting
<1>6. Cardinality((Acting \cup Waiting) \cup {r}) <= Cardinality(Requests)
  BY <1>5, FS_Subset, HealingAssumption
<1> QED
  BY <1>4, <1>6

LEMMA StepKeepsRate ==
  ASSUME TypeOK, ActionsAccounted, PassedBound, [Next]_vars
  PROVE  ActionsAccounted' /\ PassedBound'
<1> DEFINE A == Cardinality(Acting)
           W == Cardinality(Waiting)
           N == Cardinality(Requests)
           L == Len(records)
           Keeps == /\ acted' <= L' + A' + unrecorded'
                    /\ acted' + W' <= MaxPerHour + (N - 1) + unrecorded'
<1>0. /\ A \in Nat /\ W \in Nat /\ N \in Nat /\ L \in Nat /\ MaxPerHour \in Nat
      /\ acted \in Nat /\ unrecorded \in Nat
  BY CountsFinite, HealingAssumption DEF TypeOK
<1>1. acted <= L + A + unrecorded /\ acted + W <= MaxPerHour + (N - 1) + unrecorded
  BY DEF ActionsAccounted, PassedBound
<1>2. SUFFICES Keeps
  BY DEF ActionsAccounted, PassedBound
<1>3. ASSUME NEW r \in Requests, Insert(r) PROVE L' = L + 1
  <2>1. records \in Seq([alert : Alerts, outcome : {"success", "partial", "failed"}])
    BY DEF TypeOK
  <2> QED
    BY <1>3, <2>1 DEF Insert
<1>4. CASE Crash
  <2>1. Acting' = {} /\ Waiting' = {}
    BY <1>4 DEF Crash, Acting, Waiting
  <2>2. A' = 0 /\ W' = 0
    BY <2>1, FS_EmptySet
  <2>3. acted' = acted /\ L' = L /\ unrecorded' = unrecorded + A
    BY <1>4 DEF Crash
  <2> QED
    BY <1>0, <1>1, <2>2, <2>3
<1>5. CASE UNCHANGED vars
  <2>1. A' = A /\ W' = W /\ L' = L /\ UNCHANGED <<acted, unrecorded>>
    BY <1>5 DEF vars, request, history, Acting, Waiting
  <2> QED
    BY <1>1, <2>1
<1>6. ASSUME NEW r \in Requests,
             (\E a \in Alerts : Receive(r, a)) \/ Step(r) \/ AcquireLock(r) \/ Timeout(r)
      PROVE  Keeps
  <2>0. pc[r] \in Places
    BY DEF TypeOK
  \* A step outside of the action, or within it.
  <2>1. ASSUME NEW place \in Places, Goto(r, place), UNCHANGED <<acted, records, unrecorded>>,
               place \in ActingPlaces <=> pc[r] \in ActingPlaces, place # "lock", pc[r] # "lock"
        PROVE  Keeps
    <3>0. /\ A' = A + (IF place \in ActingPlaces THEN 1 ELSE 0)
                    - (IF pc[r] \in ActingPlaces THEN 1 ELSE 0)
          /\ W' = W + (IF place = "lock" THEN 1 ELSE 0) - (IF pc[r] = "lock" THEN 1 ELSE 0)
      BY <2>1, MoveCounts
    <3>1. A' = A /\ W' = W
      BY <1>0, <2>1, <3>0
    <3>2. L' = L /\ acted' = acted /\ unrecorded' = unrecorded
      BY <2>1
    <3> QED
      BY <1>1, <3>1, <3>2
  <2>2. CASE \/ (\E a \in Alerts : Receive(r, a)) \/ CheckAlert(r) \/ MeasurePre(r) \/ AskBreaker(r)
             \/ Create(r) \/ CreateFails(r) \/ Swap(r) \/ VerifyFails(r) \/ Drained(r)
             \/ MeasurePost(r) \/ AutoDisable(r)
    <3>1. PICK place \in Places : Goto(r, place) /\ UNCHANGED <<acted, records, unrecorded>>
            /\ (place \in ActingPlaces <=> pc[r] \in ActingPlaces) /\ pc[r] # "lock"
            /\ place # "lock"
      BY <2>2
         DEF Receive, CheckAlert, MeasurePre, AskBreaker, Create, CreateFails, Swap, VerifyFails,
             Drained, MeasurePost, AutoDisable, ActionFails, history, Places, ActingPlaces
    <3> QED
      BY <2>1, <3>1
  <2>3. CASE AskLimit(r)
    <3>1. CASE Goto(r, "lock") /\ L < MaxPerHour
      <4>1. /\ pc[r] = "limit" /\ UNCHANGED <<acted, records, unrecorded>>
        BY <2>3 DEF AskLimit, history
      <4>2. A' = A /\ W' = W + 1
        BY <1>0, <3>1, <4>1, MoveCounts DEF Places, ActingPlaces
      <4>3. A + W + 1 <= N
        BY <4>1, RoomForOne
      <4> QED
        BY <1>0, <1>1, <3>1, <4>1, <4>2, <4>3
    <3>2. CASE Goto(r, "idle")
      BY <2>1, <2>3, <3>2 DEF AskLimit, history, Places, ActingPlaces
    <3> QED
      BY <1>0, <2>3, <3>1, <3>2 DEF AskLimit
  <2>4. CASE AcquireLock(r) \/ (Timeout(r) /\ pc[r] = "lock")
    <3>1. /\ acted' = acted + 1 /\ UNCHANGED <<records, unrecorded>> /\ pc[r] = "lock"
          /\ Goto(r, "create") \/ Goto(r, "recordFailed")
      BY <2>4 DEF AcquireLock, Timeout, ActionFails
    <3>2. A' = A + 1 /\ W' = W - 1
      BY <1>0, <3>1, MoveCounts DEF Places, ActingPlaces
    <3> QED
      BY <1>0, <1>1, <3>1, <3>2
  <2>5. CASE Timeout(r) /\ pc[r] # "lock"
    BY <2>1, <2>5 DEF Timeout, ActionFails, Places, ActingPlaces
  <2>6. CASE Record(r)
    <3>1. CASE Insert(r) /\ Goto(r, "disable")
      <4>1. A' = A - 1 /\ W' = W /\ UNCHANGED <<acted, unrecorded>>
        BY <1>0, <2>6, <3>1, MoveCounts DEF Record, history, Places, ActingPlaces
      <4> QED
        BY <1>0, <1>1, <1>3, <3>1, <4>1
    <3>2. CASE Goto(r, "recordFailed") /\ UNCHANGED records
      BY <2>1, <2>6, <3>2 DEF Record, history, Places, ActingPlaces
    <3> QED
      BY <2>6, <3>1, <3>2 DEF Record
  <2>7. CASE RecordFailed(r)
    <3>1. PICK place \in {"disableFailed", "idle"} : Goto(r, place)
      BY <2>7 DEF RecordFailed
    <3>2. /\ pc[r] \in {"recordFailed", "recordAgain"} /\ UNCHANGED acted
          /\ W' = W /\ A' = A - (IF pc[r] = "recordFailed" THEN 1 ELSE 0)
      BY <1>0, <2>7, <3>1, MoveCounts DEF RecordFailed, Places, ActingPlaces
    <3>3. CASE Insert(r) /\ UNCHANGED unrecorded
      BY <1>0, <1>1, <1>3, <3>2, <3>3
    <3>4. CASE /\ unrecorded' = IF pc[r] = "recordFailed" THEN unrecorded + 1 ELSE unrecorded
               /\ UNCHANGED records
      BY <1>0, <1>1, <3>2, <3>4
    <3> QED
      BY <2>7, <3>3, <3>4 DEF RecordFailed
  <2> QED
    BY <1>6, <2>2, <2>3, <2>4, <2>5, <2>6, <2>7 DEF Step
<1> QED
  BY <1>4, <1>5, <1>6 DEF Next

-----------------------------------------------------------------------------
LEMMA HealingInvInit == Init => HealingInv
<1> SUFFICES ASSUME Init PROVE HealingInv
  OBVIOUS
<1>1. TypeOK
  BY HealingInitTypes
<1>2. WorkingPool /\ FreshIsOpen /\ LedgerFollowsPool
  BY DEF Init, WorkingPool, FreshIsOpen, LedgerFollowsPool, NoPool
<1>3. RecordedNotRepeated /\ KnownIsRecorded
  BY DEF Init, RecordedNotRepeated, KnownIsRecorded
<1>4. Waiting = {} /\ acted = 0 /\ unrecorded = 0 /\ Len(records) = 0
  BY DEF Init, Waiting
<1>5. Cardinality(Waiting) = 0
  BY <1>4, FS_EmptySet
<1>6. ActionsAccounted /\ PassedBound
  BY <1>4, <1>5, CountsFinite, HealingAssumption DEF ActionsAccounted, PassedBound
<1> QED
  BY <1>1, <1>2, <1>3, <1>6 DEF HealingInv

(* The invariant is inductive: no step of a request, no timeout and no crash   *)
(* of the engine leaves it.                                                    *)
THEOREM HealingInvariant == Spec => []HealingInv
<1>1. HealingInv /\ [Next]_vars => HealingInv'
  BY HealingStepTypes, StepKeepsPools, StepKeepsLedger, StepKeepsKnown, StepKeepsRate
     DEF HealingInv
<1> QED
  BY <1>1, HealingInvInit, PTL DEF Spec

(* The engine's variables keep their types, the lock of the pool manager is    *)
(* held exactly by the flush in progress, and a pool waits for its swap        *)
(* exactly while one is verified.                                              *)
THEOREM HealingTypeCorrect == Spec => []TypeOK
<1>1. HealingInv => TypeOK
  BY DEF HealingInv
<1> QED
  BY <1>1, HealingInvariant, PTL

(* The process always has an open pool (pool_manager.py), however many         *)
(* flushes overlap, fail or are cancelled.                                     *)
THEOREM AlwaysAWorkingPool == Spec => []WorkingPool
<1>1. HealingInv => WorkingPool
  BY DEF HealingInv
<1> QED
  BY <1>1, HealingInvariant, PTL

(* The ledger is on the managed pool except during a drain and after a timeout *)
(* that cut a flush (engine.py, _flush_connection_pool).                       *)
THEOREM LedgerOnManagedPool == Spec => []LedgerFollowsPool
<1>1. HealingInv => LedgerFollowsPool
  BY DEF HealingInv
<1> QED
  BY <1>1, HealingInvariant, PTL

(* An alert with a record is never acted on again (engine.py, the ledger check *)
(* of execute_remediation).                                                    *)
THEOREM NoSecondRemediation == Spec => []RecordedNotRepeated
<1>1. HealingInv => RecordedNotRepeated
  BY DEF HealingInv
<1> QED
  BY <1>1, HealingInvariant, PTL

(* By how much overlapping requests and lost records exceed max_per_hour, for  *)
(* any number of requests (engine.py, the rate limit).                         *)
THEOREM RateLimitOvershoot == Spec => []RateBound
<1>1. HealingInv => RateBound
  BY CountsFinite, HealingAssumption DEF HealingInv, RateBound, PassedBound, TypeOK
<1> QED
  BY <1>1, HealingInvariant, PTL

=============================================================================
