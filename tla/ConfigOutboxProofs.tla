------------------------- MODULE ConfigOutboxProofs -------------------------
(***************************************************************************)
(* What set() and the outbox guarantee for any number of callers,          *)
(* dispatchers, changes and faults.                                        *)
(***************************************************************************)
EXTENDS ConfigOutbox, FiniteSetTheorems, WellFoundedInduction, TLAPS

\* A sequence stays one over a larger set.
LEMMA SeqWiden ==
  ASSUME NEW S, NEW T, S \subseteq T, NEW q \in Seq(S)
  PROVE  q \in Seq(T)
OBVIOUS

\* What Append does to the domain and the elements.
LEMMA AppendFacts ==
  ASSUME NEW S, NEW q \in Seq(S), NEW e \in S
  PROVE  /\ Append(q, e) \in Seq(S)
         /\ Len(Append(q, e)) = Len(q) + 1
         /\ DOMAIN Append(q, e) = DOMAIN q \cup {Len(q) + 1}
         /\ \A i \in DOMAIN q : Append(q, e)[i] = q[i] /\ i <= Len(q)
         /\ Append(q, e)[Len(q) + 1] = e
         /\ DOMAIN q \subseteq DOMAIN Append(q, e)
<1>1. Append(q, e) \in Seq(S) /\ Len(Append(q, e)) = Len(q) + 1
    OBVIOUS
<1>2. DOMAIN q = 1..Len(q) /\ Len(q) \in Nat
    OBVIOUS
<1>3. DOMAIN Append(q, e) = 1..(Len(q) + 1)
    BY <1>1
<1>4. \A i \in DOMAIN q : Append(q, e)[i] = q[i] /\ i <= Len(q)
    BY <1>2
<1> QED
    BY <1>1, <1>2, <1>3, <1>4

OutboxRow ==
  [val : Vals, ver : Nat, status : {"pending", "waiting", "published"}]
HistoryRow == [val : Vals, ver : Nat, expected : Int \cup {NoVersion}]
SetterTx ==
  [pc : {"idle", "read", "written"}, val : Vals \cup {NoVal}, ver : Nat,
   expected : Int \cup {NoVersion}]

\* The parts of the type invariant, grouped by the component that owns them.
TablesOK ==
  /\ state \in [val : Vals \cup {NoVal}, ver : Nat]
  /\ history \in Seq(HistoryRow)
  /\ outbox \in Seq(OutboxRow)

SettersOK ==
  /\ rowLock \in Setters \cup {NoSetter}
  /\ setter \in [Setters -> SetterTx]
  /\ \A s \in Setters : setter[s].pc # "idle" => setter[s].val \in Vals

DispatchOK ==
  /\ claim \in [Dispatchers -> SUBSET (DOMAIN outbox)]
  /\ sent \in [Dispatchers -> SUBSET (DOMAIN outbox)]
  /\ failed \in [Dispatchers -> SUBSET (DOMAIN outbox)]
  /\ topic \in Seq(DOMAIN outbox)

ServiceOK ==
  /\ consumer \in {"off", "loaded", "deaf", "on"}
  /\ pos \in 0..Len(topic)
  /\ offset \in 0..Len(topic) \cup {NoVersion}
  /\ cache \in Vals \cup {NoVal}
  /\ sets \in Nat /\ faults \in Nat

\* TypeOK by the part of the system.
LEMMA TypeParts == TypeOK <=> TablesOK /\ SettersOK /\ DispatchOK /\ ServiceOK
BY DEF TypeOK, TablesOK, SettersOK, DispatchOK, ServiceOK, OutboxRow,
       HistoryRow, SetterTx

\* The same of the next state.
LEMMA TypePartsNext ==
  TypeOK' <=> TablesOK' /\ SettersOK' /\ DispatchOK' /\ ServiceOK'
BY DEF TypeOK, TablesOK, SettersOK, DispatchOK, ServiceOK, OutboxRow,
       HistoryRow, SetterTx

\* The steps of a set() before its commit keep the types.
LEMMA SetTypes ==
  ASSUME TypeOK, NEW s \in Setters, NEW v \in Vals, NEW e \in Int \cup {NoVersion},
         BeginSet(s, v, e)
  PROVE  TypeOK'
<1> USE TypeParts, TypePartsNext
<1>1. SettersOK'
    BY ConfigAssumption
       DEF BeginSet, SelectForUpdate, TablesOK, SettersOK, SetterTx, tables
<1>2. TablesOK' /\ DispatchOK' /\ ServiceOK'
    BY DEF BeginSet, TablesOK, DispatchOK, ServiceOK, tables, dispatch, service
<1> QED
    BY <1>1, <1>2

\* The commit of a set() keeps the types of the tables.
LEMMA CommitTypes ==
  ASSUME TypeOK, NEW s \in Setters, CommitSet(s)
  PROVE  TypeOK'
<1> USE TypeParts, TypePartsNext
<1>1. SettersOK'
    BY DEF CommitSet, Unlock, SettersOK, SetterTx, Idle
<1>2. /\ setter[s].val \in Vals /\ setter[s].ver \in Nat
      /\ setter[s].expected \in Int \cup {NoVersion}
    BY DEF CommitSet, SettersOK, SetterTx
<1>3. TablesOK' /\ DOMAIN outbox \subseteq DOMAIN outbox'
  <2>1. [val |-> setter[s].val, ver |-> setter[s].ver, status |-> "pending"]
          \in OutboxRow
      BY <1>2 DEF OutboxRow
  <2>2. [val |-> setter[s].val, ver |-> setter[s].ver,
         expected |-> setter[s].expected] \in HistoryRow
      BY <1>2 DEF HistoryRow
  <2>3. outbox' \in Seq(OutboxRow) /\ DOMAIN outbox \subseteq DOMAIN outbox'
      BY <2>1, AppendFacts DEF CommitSet, TablesOK
  <2>4. history' \in Seq(HistoryRow)
      BY <2>2, AppendFacts DEF CommitSet, TablesOK
  <2>5. state' \in [val : Vals \cup {NoVal}, ver : Nat]
      BY <1>2 DEF CommitSet
  <2> QED
      BY <2>3, <2>4, <2>5 DEF TablesOK
<1>4. DispatchOK'
  <2>1. topic' \in Seq(DOMAIN outbox')
      BY <1>3, SeqWiden DEF CommitSet, DispatchOK
  <2> QED
      BY <1>3, <2>1 DEF CommitSet, DispatchOK, dispatch
<1>5. ServiceOK'
    BY DEF CommitSet, ServiceOK, service, bounds
<1> QED
    BY <1>1, <1>3, <1>4, <1>5

\* The steps of a dispatcher keep the types.
LEMMA DispatcherTypes ==
  ASSUME TypeOK, DispatcherNext
  PROVE  TypeOK'
<1> USE TypeParts, TypePartsNext
<1>a. SettersOK'
    BY DEF DispatcherNext, Claim, CommitBatch, CrashDispatcher, PublishRow,
           PublishFail, BackoffOver, SettersOK, setting
<1>1. ASSUME NEW d \in Dispatchers, Claim(d)
      PROVE  TypeOK'
  <2>1. FirstRows(Claimable) \subseteq DOMAIN outbox
      BY DEF FirstRows, Claimable
  <2>2. DispatchOK'
      BY <1>1, <2>1 DEF Claim, DispatchOK, tables
  <2> QED
      BY <1>1, <1>a, <2>2 DEF Claim, TablesOK, ServiceOK, tables, service, bounds
<1>2. ASSUME NEW d \in Dispatchers, NEW i \in DOMAIN outbox,
             PublishRow(d, i) \/ PublishFail(d, i)
      PROVE  TypeOK'
  <2>1. topic' \in Seq(DOMAIN outbox) /\ Len(topic') >= Len(topic)
    <3>1. /\ Append(topic, i) \in Seq(DOMAIN outbox)
          /\ Len(Append(topic, i)) = Len(topic) + 1 /\ Len(topic) \in Nat
        BY AppendFacts DEF DispatchOK
    <3> QED
        BY <1>2, <3>1 DEF PublishRow, PublishFail, DispatchOK
  <2>2. DispatchOK'
      BY <1>2, <2>1 DEF PublishRow, PublishFail, DispatchOK, tables
  <2>3. ServiceOK'
    <3>1. Len(topic') \in Nat /\ Len(topic) \in Nat
        BY <2>1 DEF DispatchOK
    <3> QED
        BY <1>2, <2>1, <3>1
           DEF PublishRow, PublishFail, Fault, ServiceOK, service, bounds
  <2> QED
      BY <1>2, <1>a, <2>2, <2>3 DEF PublishRow, PublishFail, TablesOK, tables
<1>3. ASSUME NEW d \in Dispatchers, CommitBatch(d)
      PROVE  TypeOK'
  <2>1. outbox' \in Seq(OutboxRow) /\ DOMAIN outbox' = DOMAIN outbox
    <3>1. DOMAIN outbox = 1..Len(outbox) /\ Len(outbox) \in Nat
        BY DEF TablesOK
    <3>2. \A i \in DOMAIN outbox : outbox[i] \in OutboxRow
        BY DEF TablesOK
    <3>3. Statuses(d) \in [1..Len(outbox) -> OutboxRow]
        BY <3>1, <3>2 DEF Statuses, OutboxRow
    <3> QED
        BY <1>3, <3>1, <3>3 DEF CommitBatch
  <2>2. DispatchOK'
      BY <1>3, <2>1 DEF CommitBatch, Release, DispatchOK
  <2> QED
      BY <1>3, <1>a, <2>1, <2>2
         DEF CommitBatch, TablesOK, ServiceOK, service, bounds
<1>4. ASSUME NEW d \in Dispatchers, CrashDispatcher(d)
      PROVE  TypeOK'
  <2>1. DispatchOK'
      BY <1>4 DEF CrashDispatcher, Release, DispatchOK, tables
  <2> QED
      BY <1>4, <1>a, <2>1
         DEF CrashDispatcher, Fault, TablesOK, ServiceOK, tables, service
<1>5. ASSUME NEW i \in DOMAIN outbox, BackoffOver(i)
      PROVE  TypeOK'
  <2>1. outbox' \in Seq(OutboxRow) /\ DOMAIN outbox' = DOMAIN outbox
    <3>1. outbox[i] \in OutboxRow
        BY DEF TablesOK
    <3>2. [outbox[i] EXCEPT !.status = "pending"] \in OutboxRow
        BY <3>1 DEF OutboxRow
    <3> QED
        BY <1>5, <3>2 DEF BackoffOver, TablesOK
  <2> QED
      BY <1>5, <1>a, <2>1
         DEF BackoffOver, TablesOK, DispatchOK, ServiceOK, dispatch, service, bounds
<1> QED
    BY <1>1, <1>2, <1>3, <1>4, <1>5 DEF DispatcherNext

\* The steps of the service keep the types.
LEMMA ServiceTypes ==
  ASSUME TypeOK, ServiceNext
  PROVE  TypeOK'
<1> USE TypeParts, TypePartsNext
<1>1. TablesOK' /\ SettersOK' /\ DispatchOK'
    BY DEF ServiceNext, LoadSnapshot, SnapshotFails, Subscribe, SubscribeFails, ReceiveUpdate,
           AutoCommit, RestartService, TablesOK, SettersOK, DispatchOK, tables,
           setting, dispatch
<1>2. CASE LoadSnapshot
    BY <1>1, <1>2 DEF LoadSnapshot, ServiceOK, TablesOK, bounds
<1>3. CASE SnapshotFails \/ SubscribeFails \/ RestartService
    BY <1>1, <1>3 DEF SnapshotFails, SubscribeFails, RestartService, Fault, ServiceOK
<1>4. CASE Subscribe
  <2>1. Len(topic) \in Nat
      BY DEF DispatchOK
  <2> QED
      BY <1>4, <2>1, <1>1 DEF Subscribe, ServiceOK, bounds
<1>5. CASE ReceiveUpdate
  <2>1. Len(topic) \in Nat /\ pos + 1 \in DOMAIN topic
      BY <1>5 DEF ReceiveUpdate, DispatchOK, ServiceOK
  <2>2. topic[pos + 1] \in DOMAIN outbox
      BY <2>1 DEF DispatchOK
  <2>3. outbox[topic[pos + 1]] \in OutboxRow
      BY <2>2 DEF TablesOK
  <2> QED
      BY <1>1, <1>5, <2>1, <2>3 DEF ReceiveUpdate, ServiceOK, OutboxRow, bounds
<1>6. CASE AutoCommit
    BY <1>6, <1>1 DEF AutoCommit, ServiceOK, bounds
<1> QED
    BY <1>1, <1>2, <1>3, <1>4, <1>5, <1>6 DEF ServiceNext, ServiceOK

\* Every step keeps the types.
LEMMA TypeStep == TypeOK /\ [Next]_vars => TypeOK'
<1> SUFFICES ASSUME TypeOK, [Next]_vars
             PROVE  TypeOK'
    OBVIOUS
<1>1. ASSUME NEW s \in Setters, NEW v \in Vals,
             NEW e \in {NoVersion} \cup 1..MaxSets, BeginSet(s, v, e)
      PROVE  TypeOK'
  <2>1. e \in Int \cup {NoVersion}
      BY ConfigAssumption
  <2> QED
      BY <1>1, <2>1, SetTypes
<1>2. ASSUME NEW s \in Setters, NEW n \in DOMAIN history, RevertKey(s, n)
      PROVE  TypeOK'
  <2>1. history \in Seq(HistoryRow)
      BY TypeParts DEF TablesOK
  <2>2. history[n] \in HistoryRow
      BY <2>1
  <2>3. history[n].val \in Vals
      BY <2>2 DEF HistoryRow
  <2> QED
      BY <1>2, <2>3, SetTypes DEF RevertKey
<1>3. ASSUME NEW s \in Setters, WriteSet(s) \/ RollbackSet(s)
      PROVE  TypeOK'
  <2>1. SettersOK'
      BY <1>3, TypeParts DEF WriteSet, RollbackSet, Unlock, SettersOK, SetterTx, Idle
  <2> QED
      BY <1>3, <2>1, TypeParts, TypePartsNext
         DEF WriteSet, RollbackSet, TablesOK, DispatchOK, ServiceOK, tables,
             dispatch, service, bounds
<1>4. CASE UNCHANGED vars
    BY <1>4 DEF TypeOK, vars, tables, setting, dispatch, service, bounds
<1> QED
    BY <1>1, <1>2, <1>3, <1>4, CommitTypes, DispatcherTypes, ServiceTypes
       DEF Next, SetterNext

\* The initial state is well typed.
LEMMA TypeInit == Init => TypeOK
BY ConfigAssumption DEF Init, TypeOK, Idle

\* The tables, transactions, dispatchers and the service keep their types.
THEOREM ConfigTypeCorrect == Spec => []TypeOK
BY TypeInit, TypeStep, PTL DEF Spec

-----------------------------------------------------------------------------
(***************************************************************************)
(* A key that has a row.  The row lock is held from the read to the end of *)
(* the transaction, so at most one transaction has read the row, and what  *)
(* it read is still the committed row.                                     *)
(***************************************************************************)
LockInv ==
  /\ state.ver > 0
  /\ \A s \in Setters : setter[s].pc # "idle" =>
       /\ rowLock = s
       /\ setter[s].ver = state.ver + 1
       /\ setter[s].expected \in {NoVersion, state.ver}

SetInv == TypeOK /\ LockInv /\ VersionsIncrease /\ NoLostUpdate

\* A set() that reads the row holds its lock, and knows the committed version.
LEMMA BeginKeepsLock ==
  ASSUME SetInv, NEW s \in Setters, NEW v, NEW e, BeginSet(s, v, e)
  PROVE  LockInv' /\ UNCHANGED <<state, history>>
<1> USE TypeParts
<1>1. rowLock = NoSetter /\ rowLock' = s /\ UNCHANGED <<state, history>>
    BY DEF SetInv, LockInv, BeginSet, SelectForUpdate, tables
<1>2. \A u \in Setters : setter[u].pc = "idle"
    BY <1>1, ConfigAssumption DEF SetInv, LockInv
<1>3. \A u \in Setters : u # s => setter'[u] = setter[u]
    BY DEF SetInv, SettersOK, BeginSet
<1>4. /\ setter'[s].ver = state.ver + 1
      /\ setter'[s].expected \in {NoVersion, state.ver}
    BY DEF SetInv, LockInv, SettersOK, BeginSet
<1> QED
    BY <1>1, <1>2, <1>3, <1>4 DEF SetInv, LockInv

\* The commit of a set() continues the versions.
LEMMA CommitKeepsVersions ==
  ASSUME SetInv, NEW s \in Setters, CommitSet(s)
  PROVE  LockInv' /\ VersionsIncrease' /\ NoLostUpdate'
<1> USE TypeParts
<1> DEFINE row == [val |-> setter[s].val, ver |-> setter[s].ver,
                   expected |-> setter[s].expected]
<1>1. /\ rowLock = s /\ setter[s].ver = state.ver + 1
      /\ setter[s].expected \in {NoVersion, state.ver}
    BY DEF SetInv, LockInv, CommitSet
<1>2. state' = [val |-> setter[s].val, ver |-> setter[s].ver]
    BY DEF CommitSet
<1>3. row \in HistoryRow /\ history \in Seq(HistoryRow)
    BY DEF SetInv, CommitSet, TablesOK, SettersOK, SetterTx, HistoryRow
<1>4. /\ history' = Append(history, row) /\ Len(history) \in Nat
      /\ Len(history') = Len(history) + 1
      /\ DOMAIN history' = DOMAIN history \cup {Len(history) + 1}
      /\ \A i \in DOMAIN history : history'[i] = history[i] /\ i <= Len(history)
      /\ history'[Len(history) + 1] = row
  <2>1. history' = Append(history, row)
      BY DEF CommitSet
  <2> HIDE DEF row
  <2> QED
      BY <2>1, <1>3, AppendFacts
<1>5. DOMAIN history = 1..Len(history)
    BY <1>3
<1>6. state.ver \in Nat /\ \A i \in DOMAIN history : history[i].ver \in Nat
  <2>1. state.ver \in Nat
      BY DEF SetInv, TablesOK
  <2>2. \A i \in DOMAIN history : history[i] \in HistoryRow
      BY <1>3
  <2> QED
      BY <2>1, <2>2 DEF HistoryRow
<1>7. LockInv'
  <2>1. \A u \in Setters : setter'[u].pc = "idle"
    <3>1. \A u \in Setters : u # s => setter[u].pc = "idle"
        BY <1>1 DEF SetInv, LockInv
    <3> QED
        BY <3>1 DEF SetInv, SettersOK, CommitSet, Idle
  <2> QED
      BY <1>1, <1>2, <1>6, <2>1 DEF LockInv
<1>8. \A i \in DOMAIN history : history[i].ver <= state.ver
  <2> SUFFICES ASSUME NEW i \in DOMAIN history
               PROVE  history[i].ver <= state.ver
      OBVIOUS
  <2>1. history # <<>> /\ Len(history) \in DOMAIN history
      BY <1>5, <1>4
  <2>2. CASE i = Len(history)
      BY <1>6, <2>1, <2>2 DEF SetInv, VersionsIncrease
  <2>3. CASE i < Len(history)
      BY <1>6, <2>1, <2>3 DEF SetInv, VersionsIncrease
  <2> QED
      BY <1>4, <1>5, <2>2, <2>3
<1>9. VersionsIncrease'
  <2>1. ASSUME NEW i \in DOMAIN history', NEW j \in DOMAIN history', i < j
        PROVE  history'[i].ver < history'[j].ver
    <3>1. i \in DOMAIN history
        BY <1>4, <1>5, <2>1
    <3>2. CASE j \in DOMAIN history
        BY <1>4, <2>1, <3>1, <3>2 DEF SetInv, VersionsIncrease
    <3>3. CASE j = Len(history) + 1
      <4>1. history'[j].ver = state.ver + 1
          BY <1>1, <1>4, <3>3
      <4> QED
          BY <1>4, <1>6, <1>8, <3>1, <4>1
    <3> QED
        BY <1>4, <3>2, <3>3
  <2>2. /\ state'.ver = history'[Len(history')].ver
        /\ state'.val = history'[Len(history')].val
      BY <1>2, <1>4
  <2> QED
      BY <2>1, <2>2 DEF VersionsIncrease
<1>10. NoLostUpdate'
  <2> SUFFICES ASSUME NEW i \in DOMAIN history', i > 1,
                      history'[i].expected # NoVersion
               PROVE  history'[i - 1].ver = history'[i].expected
      BY DEF NoLostUpdate
  <2>1. i - 1 \in DOMAIN history
      BY <1>4, <1>5
  <2>2. CASE i \in DOMAIN history
      BY <1>4, <2>1, <2>2 DEF SetInv, NoLostUpdate
  <2>3. CASE i = Len(history) + 1
    <3>1. history'[i].expected = state.ver
        BY <1>1, <1>4, <2>3
    <3>2. history # <<>> /\ i - 1 = Len(history)
        BY <1>4, <1>5, <2>1, <2>3
    <3>3. history[Len(history)].ver = state.ver
        BY <3>2 DEF SetInv, VersionsIncrease
    <3> QED
        BY <1>4, <2>1, <3>1, <3>2, <3>3
  <2> QED
      BY <1>4, <2>2, <2>3
<1> QED
    BY <1>7, <1>9, <1>10

\* SetInv is inductive.
LEMMA SetStep == SetInv /\ [Next]_vars => SetInv'
<1> SUFFICES ASSUME SetInv, [Next]_vars
             PROVE  SetInv'
    OBVIOUS
<1>1. TypeOK'
    BY TypeStep DEF SetInv
<1>2. ASSUME UNCHANGED <<state, history>>
      PROVE  VersionsIncrease' /\ NoLostUpdate'
    BY <1>2 DEF SetInv, VersionsIncrease, NoLostUpdate
<1>3. ASSUME NEW s \in Setters, NEW v, NEW e, BeginSet(s, v, e)
      PROVE  SetInv'
    BY <1>1, <1>2, <1>3, BeginKeepsLock DEF SetInv
<1>4. ASSUME NEW s \in Setters, NEW n \in DOMAIN history, RevertKey(s, n)
      PROVE  SetInv'
    BY <1>3, <1>4 DEF RevertKey
<1>5. ASSUME NEW s \in Setters, CommitSet(s)
      PROVE  SetInv'
    BY <1>1, <1>5, CommitKeepsVersions DEF SetInv
<1>6. ASSUME NEW s \in Setters, WriteSet(s) \/ RollbackSet(s)
      PROVE  SetInv'
  <2>1. rowLock = s /\ UNCHANGED <<state, history>>
      BY <1>6 DEF WriteSet, RollbackSet, SetInv, LockInv, tables
  <2>2. \A u \in Setters : u # s => setter[u].pc = "idle" /\ setter'[u] = setter[u]
      BY <1>6, <2>1, TypeParts DEF WriteSet, RollbackSet, SetInv, LockInv, SettersOK
  <2>3. \/ setter'[s].pc = "idle"
        \/ /\ setter[s].pc # "idle" /\ rowLock' = s
           /\ setter'[s].ver = setter[s].ver
           /\ setter'[s].expected = setter[s].expected
      BY <1>6, TypeParts DEF WriteSet, RollbackSet, SetInv, SettersOK, SetterTx, Idle
  <2>4. LockInv'
      BY <2>1, <2>2, <2>3 DEF SetInv, LockInv
  <2> QED
      BY <1>1, <1>2, <2>1, <2>4 DEF SetInv
<1>7. CASE UNCHANGED <<state, history, setting>>
    BY <1>1, <1>2, <1>7 DEF SetInv, LockInv, setting
<1>8. CASE DispatcherNext
    BY <1>7, <1>8
       DEF DispatcherNext, Claim, CommitBatch, CrashDispatcher, PublishRow,
           PublishFail, BackoffOver, tables
<1>9. CASE ServiceNext
    BY <1>7, <1>9
       DEF ServiceNext, LoadSnapshot, SnapshotFails, Subscribe, SubscribeFails, ReceiveUpdate,
           AutoCommit, RestartService, tables
<1>10. CASE UNCHANGED vars
    BY <1>7, <1>10 DEF vars, tables
<1> QED
    BY <1>3, <1>4, <1>5, <1>6, <1>8, <1>9, <1>10 DEF Next, SetterNext

\* SetInv is an invariant of a key that has a row.
LEMMA SetInvariant ==
  ASSUME Seeded
  PROVE  Spec => []SetInv
<1>1. Init => SetInv
  <2> SUFFICES ASSUME Init
               PROVE  SetInv
      OBVIOUS
  <2>1. LockInv
      BY DEF Init, LockInv, Idle
  <2>2. VersionsIncrease /\ NoLostUpdate
      BY DEF Init, VersionsIncrease, NoLostUpdate
  <2> QED
      BY <2>1, <2>2, TypeInit DEF SetInv
<1> QED
    BY <1>1, SetStep, PTL DEF Spec

\* set(): the changes of a key that has a row get increasing versions, and
\* config_state is the last of them, whatever calls overlap.
THEOREM ConfigVersionsIncrease ==
  ASSUME Seeded
  PROVE  Spec => []VersionsIncrease
<1>1. SetInv => VersionsIncrease
    BY DEF SetInv
<1> QED
    BY <1>1, SetInvariant, PTL

\* set(expected_version) on a key that has a row never overwrites a change its
\* caller has not seen.
THEOREM ConfigNoLostUpdate ==
  ASSUME Seeded
  PROVE  Spec => []NoLostUpdate
<1>1. SetInv => NoLostUpdate
    BY DEF SetInv
<1> QED
    BY <1>1, SetInvariant, PTL

-----------------------------------------------------------------------------
(***************************************************************************)
(* The outbox: what a dispatcher counts as published is on the topic, and  *)
(* the topic only grows.                                                   *)
(***************************************************************************)
SentInv == TypeOK /\ PublishedWasSent /\ \A d \in Dispatchers : sent[d] \subseteq Sent

\* Publishing adds one row to those sent.
LEMMA TopicGrows ==
  ASSUME TypeOK, NEW i \in DOMAIN outbox, topic' = Append(topic, i)
  PROVE  Sent' = Sent \cup {i}
<1>1. /\ DOMAIN topic' = DOMAIN topic \cup {Len(topic) + 1}
      /\ \A n \in DOMAIN topic : topic'[n] = topic[n]
      /\ topic'[Len(topic) + 1] = i
    BY TypeParts, AppendFacts DEF DispatchOK
<1> QED
    BY <1>1 DEF Sent

\* SentInv is inductive.
LEMMA SentStep == SentInv /\ [Next]_vars => SentInv'
<1> SUFFICES ASSUME SentInv, [Next]_vars
             PROVE  SentInv'
    OBVIOUS
<1>1. TypeOK'
    BY TypeStep DEF SentInv
<1>2. CASE UNCHANGED <<outbox, sent, topic>>
    BY <1>1, <1>2 DEF SentInv, PublishedWasSent, Sent
<1>3. ASSUME NEW s \in Setters, CommitSet(s)
      PROVE  SentInv'
  <2> DEFINE new == [val |-> setter[s].val, ver |-> setter[s].ver,
                     status |-> "pending"]
  <2>1. new \in OutboxRow /\ outbox \in Seq(OutboxRow)
      BY <1>3, TypeParts
         DEF SentInv, CommitSet, TablesOK, SettersOK, SetterTx, OutboxRow
  <2>2. outbox' = Append(outbox, new) /\ UNCHANGED <<sent, topic>>
      BY <1>3 DEF CommitSet, dispatch
  <2>3. new.status = "pending"
      OBVIOUS
  <2> HIDE DEF new
  <2>4. /\ DOMAIN outbox' = DOMAIN outbox \cup {Len(outbox) + 1}
        /\ \A i \in DOMAIN outbox : outbox'[i] = outbox[i]
        /\ outbox'[Len(outbox) + 1] = new
      BY <2>1, <2>2, AppendFacts
  <2> QED
      BY <1>1, <2>2, <2>3, <2>4 DEF SentInv, PublishedWasSent, Sent
<1>4. ASSUME NEW d \in Dispatchers, NEW i \in DOMAIN outbox, PublishRow(d, i)
      PROVE  SentInv'
  <2>1. Sent' = Sent \cup {i}
      BY <1>4, TopicGrows DEF PublishRow, SentInv
  <2> QED
      BY <1>1, <1>4, <2>1, TypeParts
         DEF PublishRow, SentInv, PublishedWasSent, DispatchOK, tables
<1>5. ASSUME NEW d \in Dispatchers, NEW i \in DOMAIN outbox, PublishFail(d, i)
      PROVE  SentInv'
  <2>1. Sent \subseteq Sent'
    <3>1. CASE topic' = topic
        BY <3>1 DEF Sent
    <3>2. CASE topic' = Append(topic, i)
        BY <3>2, TopicGrows DEF SentInv
    <3> QED
        BY <1>5, <3>1, <3>2 DEF PublishFail
  <2> QED
      BY <1>1, <1>5, <2>1 DEF PublishFail, SentInv, PublishedWasSent, tables
<1>6. ASSUME NEW d \in Dispatchers, CommitBatch(d)
      PROVE  SentInv'
  <2>1. /\ DOMAIN outbox' = DOMAIN outbox
        /\ \A i \in DOMAIN outbox : outbox'[i] = Statuses(d)[i]
        /\ Sent' = Sent
      BY <1>6 DEF CommitBatch, Statuses, Sent
  <2>2. ASSUME NEW i \in DOMAIN outbox, Statuses(d)[i].status = "published"
        PROVE  i \in Sent
    <3>1. outbox[i] \in OutboxRow
        BY TypeParts DEF SentInv, TablesOK
    <3>2. i \in sent[d] \/ outbox[i].status = "published"
        BY <2>2, <3>1 DEF Statuses, OutboxRow
    <3> QED
        BY <3>2 DEF SentInv, PublishedWasSent
  <2>3. \A e \in Dispatchers : sent'[e] \subseteq sent[e]
      BY <1>6, TypeParts DEF CommitBatch, Release, SentInv, DispatchOK
  <2> QED
      BY <1>1, <2>1, <2>2, <2>3 DEF SentInv, PublishedWasSent
<1>7. ASSUME NEW d \in Dispatchers, CrashDispatcher(d)
      PROVE  SentInv'
  <2>1. \A e \in Dispatchers : sent'[e] \subseteq sent[e]
      BY <1>7, TypeParts DEF CrashDispatcher, Release, SentInv, DispatchOK
  <2> QED
      BY <1>1, <1>7, <2>1
         DEF CrashDispatcher, SentInv, PublishedWasSent, Sent, tables
<1>8. ASSUME NEW i \in DOMAIN outbox, BackoffOver(i)
      PROVE  SentInv'
  <2>1. outbox[i] \in OutboxRow
      BY TypeParts DEF SentInv, TablesOK
  <2>2. /\ DOMAIN outbox' = DOMAIN outbox
        /\ \A j \in DOMAIN outbox :
             outbox'[j].status = "published" => outbox[j].status = "published"
      BY <1>8, <2>1 DEF BackoffOver, OutboxRow
  <2> QED
      BY <1>1, <1>8, <2>2 DEF BackoffOver, SentInv, PublishedWasSent, Sent, dispatch
<1>9. CASE ServiceNext
    BY <1>2, <1>9
       DEF ServiceNext, LoadSnapshot, SnapshotFails, Subscribe, SubscribeFails, ReceiveUpdate,
           AutoCommit, RestartService, tables, dispatch
<1>10. CASE UNCHANGED vars
    BY <1>2, <1>10 DEF vars, tables, dispatch
<1>11. ASSUME NEW s \in Setters,
              \/ WriteSet(s) \/ RollbackSet(s)
              \/ \E v, e : BeginSet(s, v, e)
       PROVE  SentInv'
    BY <1>2, <1>11 DEF WriteSet, RollbackSet, BeginSet, tables, dispatch
<1>12. ASSUME NEW d \in Dispatchers, Claim(d)
       PROVE  SentInv'
    BY <1>2, <1>12 DEF Claim, tables
<1> QED
    BY <1>3, <1>4, <1>5, <1>6, <1>7, <1>8, <1>9, <1>10, <1>11, <1>12
       DEF Next, SetterNext, DispatcherNext, RevertKey

\* _publish_row: an outbox row marked published has its message on the topic,
\* for any dispatchers, failures and crashes.
THEOREM ConfigPublishedWasSent == Spec => []PublishedWasSent
<1>1. Init => SentInv
    BY TypeInit DEF Init, SentInv, PublishedWasSent
<1>2. SentInv => PublishedWasSent
    BY DEF SentInv
<1> QED
    BY <1>1, <1>2, SentStep, PTL DEF Spec

-----------------------------------------------------------------------------
(***************************************************************************)
(* How often a message is repeated.  Every message on the topic is that of *)
(* a row marked published or about to be, or is charged to a fault: one to *)
(* a failed publish, at most a claim to a crash.                           *)
(***************************************************************************)
Settled == {i \in DOMAIN outbox : outbox[i].status = "published"}
InBatch == UNION {sent[d] : d \in Dispatchers}
Counted == Settled \cup InBatch

\* Claims do not overlap, and their rows are pending to everyone else.
ClaimInv ==
  /\ \A d \in Dispatchers :
       /\ sent[d] \subseteq claim[d] /\ failed[d] \subseteq claim[d]
       /\ sent[d] \cap failed[d] = {}
       /\ Cardinality(claim[d]) <= ClaimSize
       /\ \A i \in claim[d] : outbox[i].status = "pending"
  /\ \A d, e \in Dispatchers : d # e => claim[d] \cap claim[e] = {}

ChargeInv == Len(topic) <= Cardinality(Counted) + faults * ClaimSize

CountInv == TypeOK /\ ClaimInv /\ ChargeInv

\* A non-empty set of row ids has a greatest one.
LEMMA LastRow ==
  ASSUME NEW n \in Nat, NEW S, S \subseteq 1..n, S # {}
  PROVE  \E m \in S : \A i \in S : i <= m
<1> DEFINE T == {n - i : i \in S}
<1>1. T \subseteq Nat /\ T # {}
  <2>1. \A i \in S : n - i \in Nat
      OBVIOUS
  <2> QED
      BY <2>1
<1>2. PICK k \in T : \A j \in T : ~ (<<j, k>> \in OpToRel(<, Nat))
  <2> HIDE DEF T
  <2> QED
      BY <1>1, NatLessThanWellFounded, WFMin
<1>3. PICK m \in S : k = n - m
    OBVIOUS
<1>4. ASSUME NEW i \in S PROVE i <= m
  <2>1. n - i \in Nat /\ k \in Nat /\ n - i \in T
      BY <1>1, <1>2
  <2> HIDE DEF T
  <2>2. ~ (n - i < k)
      BY <1>2, <2>1 DEF OpToRel
  <2>3. i \in 1..n /\ m \in 1..n
      BY <1>3
  <2> QED
      BY <1>3, <2>2, <2>3
<1> QED
    BY <1>3, <1>4

\* Row ids are finitely many.
LEMMA RowsFinite ==
  ASSUME NEW n \in Nat, NEW S, S \subseteq 1..n
  PROVE  IsFiniteSet(S) /\ Cardinality(S) \in Nat /\ Cardinality(S) <= n
<1>1. IsFiniteSet(1..n) /\ Cardinality(1..n) = n
  <2>1. 1 \in Int /\ n \in Int
      OBVIOUS
  <2>2. IsFiniteSet(1..n) /\ Cardinality(1..n) = IF 1 > n THEN 0 ELSE n - 1 + 1
      BY <2>1, FS_Interval
  <2> QED
      BY <2>2
<1>2. S \in SUBSET (1..n)
    OBVIOUS
<1>3. IsFiniteSet(S) /\ Cardinality(S) <= n
    BY <1>1, <1>2, FS_Subset
<1> QED
    BY <1>3, FS_CardinalityType

\* The claim query's LIMIT.
LEMMA FirstRowsFew ==
  ASSUME NEW n \in Nat, NEW ids, ids \subseteq 1..n
  PROVE  FirstRows(ids) \subseteq ids /\ Cardinality(FirstRows(ids)) <= ClaimSize
<1> DEFINE F == FirstRows(ids)
<1>1. F \subseteq ids /\ \A i \in F : Cardinality({j \in ids : j < i}) < ClaimSize
    BY DEF FirstRows
<1> HIDE DEF F
<1>2. IsFiniteSet(F) /\ Cardinality(F) \in Nat
    BY <1>1, RowsFinite
<1>3. CASE F = {}
    BY <1>1, <1>3, FS_EmptySet, ConfigAssumption DEF F
<1>4. CASE F # {}
  <2>1. PICK m \in F : \A i \in F : i <= m
      BY <1>1, <1>4, LastRow
  <2> DEFINE before == {j \in ids : j < m}
  <2>2. F \ {m} \in SUBSET before
    <3> SUFFICES ASSUME NEW i \in F, i # m
                 PROVE  i \in before
        OBVIOUS
    <3>1. i \in 1..n /\ m \in 1..n /\ i <= m
        BY <1>1, <2>1
    <3> QED
        BY <1>1, <3>1
  <2>3. Cardinality(before) < ClaimSize
      BY <1>1, <2>1
  <2>4. before \subseteq 1..n
      OBVIOUS
  <2> HIDE DEF before
  <2>5. IsFiniteSet(before) /\ Cardinality(before) \in Nat
      BY <2>4, RowsFinite
  <2>6. Cardinality(F \ {m}) <= Cardinality(before)
      BY <2>2, <2>5, FS_Subset
  <2>7. Cardinality(F \ {m}) = Cardinality(F) - 1
      BY <1>2, <2>1, FS_RemoveElement
  <2>8. Cardinality(F) <= ClaimSize
      BY <1>2, <2>3, <2>5, <2>6, <2>7, ConfigAssumption
  <2> QED
      BY <1>1, <2>8 DEF F
<1> QED
    BY <1>3, <1>4

\* What the invariant says of the sets it counts.
LEMMA CountedFacts ==
  ASSUME CountInv
  PROVE  /\ Len(outbox) \in Nat /\ DOMAIN outbox = 1..Len(outbox) /\ Len(topic) \in Nat
         /\ Counted \subseteq 1..Len(outbox)
         /\ IsFiniteSet(Counted) /\ Cardinality(Counted) \in Nat
         /\ Cardinality(Counted) <= Len(outbox)
         /\ \A d \in Dispatchers : claim[d] \subseteq 1..Len(outbox) /\ sent[d] \subseteq Counted
<1>1. /\ outbox \in Seq(OutboxRow) /\ topic \in Seq(DOMAIN outbox)
      /\ claim \in [Dispatchers -> SUBSET (DOMAIN outbox)]
      /\ sent \in [Dispatchers -> SUBSET (DOMAIN outbox)]
    BY TypeParts DEF CountInv, TablesOK, DispatchOK
<1>2. Len(outbox) \in Nat /\ DOMAIN outbox = 1..Len(outbox) /\ Len(topic) \in Nat
    BY <1>1
<1>3. Counted \subseteq 1..Len(outbox)
    BY <1>1, <1>2 DEF Counted, Settled, InBatch
<1>4. \A d \in Dispatchers : claim[d] \subseteq 1..Len(outbox) /\ sent[d] \subseteq Counted
    BY <1>1, <1>2 DEF Counted, InBatch
<1> QED
    BY <1>2, <1>3, <1>4, RowsFinite

\* One fault more pays for a claim.
LEMMA FaultPays ==
  ASSUME NEW f \in Nat
  PROVE  f * ClaimSize \in Nat /\ (f + 1) * ClaimSize = f * ClaimSize + ClaimSize
BY ConfigAssumption

\* A step that leaves the outbox and the topic alone; it may be a fault.
LEMMA CountKept ==
  ASSUME CountInv, TypeOK', UNCHANGED <<outbox, claim, sent, failed, topic>>,
         faults' = faults \/ faults' = faults + 1
  PROVE  CountInv'
<1>1. ClaimInv'
    BY DEF CountInv, ClaimInv
<1>2. Counted' = Counted
    BY DEF Counted, Settled, InBatch
<1>3. Len(topic) \in Nat /\ Cardinality(Counted) \in Nat
    BY CountedFacts
<1>4. faults \in Nat
    BY DEF CountInv, TypeOK
<1>5. /\ faults * ClaimSize \in Nat /\ ClaimSize \in Nat
      /\ (faults + 1) * ClaimSize = faults * ClaimSize + ClaimSize
    BY <1>4, FaultPays, ConfigAssumption
<1>6. Len(topic) <= Cardinality(Counted) + faults * ClaimSize
    BY DEF CountInv, ChargeInv
<1>7. Len(topic) <= Cardinality(Counted) + (faults + 1) * ClaimSize
    BY <1>3, <1>5, <1>6
<1>8. ChargeInv'
    BY <1>2, <1>6, <1>7 DEF ChargeInv
<1> QED
    BY <1>1, <1>8 DEF CountInv

\* A new row is pending and on no claim.
LEMMA CountCommitSet ==
  ASSUME CountInv, TypeOK', NEW s \in Setters, CommitSet(s)
  PROVE  CountInv'
<1> DEFINE new == [val |-> setter[s].val, ver |-> setter[s].ver, status |-> "pending"]
<1>1. new \in OutboxRow /\ outbox \in Seq(OutboxRow)
    BY TypeParts DEF CountInv, CommitSet, TablesOK, SettersOK, SetterTx, OutboxRow
<1>2. outbox' = Append(outbox, new) /\ UNCHANGED <<claim, sent, failed, topic, faults>>
    BY DEF CommitSet, dispatch, bounds
<1>3. new.status = "pending"
    OBVIOUS
<1> HIDE DEF new
<1>4. /\ DOMAIN outbox' = DOMAIN outbox \cup {Len(outbox) + 1}
      /\ \A i \in DOMAIN outbox : outbox'[i] = outbox[i]
      /\ outbox'[Len(outbox) + 1] = new
    BY <1>1, <1>2, AppendFacts
<1>5. Settled' = Settled
    BY <1>3, <1>4 DEF Settled
<1>6. Counted' = Counted
    BY <1>2, <1>5 DEF Counted, InBatch
<1>7. ChargeInv'
    BY <1>2, <1>6 DEF CountInv, ChargeInv
<1>8. \A d \in Dispatchers : claim[d] \subseteq DOMAIN outbox
    BY TypeParts DEF CountInv, DispatchOK
<1>9. ClaimInv'
    BY <1>2, <1>4, <1>8 DEF CountInv, ClaimInv
<1> QED
    BY <1>7, <1>9 DEF CountInv

LEMMA CountClaim ==
  ASSUME CountInv, TypeOK', NEW d \in Dispatchers, Claim(d)
  PROVE  CountInv'
<1>1. /\ claim' = [claim EXCEPT ![d] = FirstRows(Claimable)] /\ claim[d] = {}
      /\ UNCHANGED <<outbox, sent, failed, topic, faults>>
    BY DEF Claim, tables, bounds
<1>2. Claimable \subseteq 1..Len(outbox) /\ Len(outbox) \in Nat
    BY CountedFacts DEF Claimable
<1>3. FirstRows(Claimable) \subseteq Claimable /\ Cardinality(FirstRows(Claimable)) <= ClaimSize
    BY <1>2, FirstRowsFew
<1>4. claim \in [Dispatchers -> SUBSET (DOMAIN outbox)]
    BY TypeParts DEF CountInv, DispatchOK
<1>5. claim'[d] = FirstRows(Claimable) /\ \A e \in Dispatchers : e # d => claim'[e] = claim[e]
    BY <1>1, <1>4
<1>6. /\ \A i \in claim'[d] : outbox[i].status = "pending"
      /\ \A i \in claim'[d], e \in Dispatchers : i \notin claim[e]
    BY <1>3, <1>5 DEF Claimable
<1>7. ASSUME NEW e \in Dispatchers
      PROVE  /\ sent'[e] \subseteq claim'[e] /\ failed'[e] \subseteq claim'[e]
             /\ sent'[e] \cap failed'[e] = {}
             /\ Cardinality(claim'[e]) <= ClaimSize
             /\ \A i \in claim'[e] : outbox'[i].status = "pending"
  <2>1. CASE e = d
    <3>1. sent[e] = {} /\ failed[e] = {}
        BY <1>1, <2>1 DEF CountInv, ClaimInv
    <3> QED
        BY <1>1, <1>3, <1>5, <1>6, <2>1, <3>1
  <2>2. CASE e # d
      BY <1>1, <1>5, <2>2 DEF CountInv, ClaimInv
  <2> QED
      BY <2>1, <2>2
<1>8. \A e, g \in Dispatchers : e # g => claim'[e] \cap claim'[g] = {}
    BY <1>5, <1>6 DEF CountInv, ClaimInv
<1>9. ClaimInv'
    BY <1>7, <1>8 DEF ClaimInv
<1>10. Counted' = Counted
    BY <1>1 DEF Counted, Settled, InBatch
<1>11. ChargeInv'
    BY <1>1, <1>10 DEF CountInv, ChargeInv
<1> QED
    BY <1>9, <1>11 DEF CountInv

LEMMA CountPublishRow ==
  ASSUME CountInv, TypeOK', NEW d \in Dispatchers, NEW i \in DOMAIN outbox, PublishRow(d, i)
  PROVE  CountInv'
<1>1. /\ i \in claim[d] /\ i \notin sent[d] /\ i \notin failed[d] /\ topic' = Append(topic, i)
      /\ sent' = [sent EXCEPT ![d] = sent[d] \cup {i}]
      /\ UNCHANGED <<outbox, claim, failed, faults>>
    BY DEF PublishRow, Unpublished, tables, bounds
<1>2. /\ sent \in [Dispatchers -> SUBSET (DOMAIN outbox)] /\ topic \in Seq(DOMAIN outbox)
      /\ outbox \in Seq(OutboxRow)
    BY TypeParts DEF CountInv, DispatchOK, TablesOK
<1>3. sent'[d] = sent[d] \cup {i} /\ \A e \in Dispatchers : e # d => sent'[e] = sent[e]
    BY <1>1, <1>2
<1>4. ClaimInv'
    BY <1>1, <1>3 DEF CountInv, ClaimInv
<1>5. i \notin Counted
  <2>1. outbox[i].status = "pending"
      BY <1>1 DEF CountInv, ClaimInv
  <2>2. \A e \in Dispatchers : i \notin sent[e]
      BY <1>1 DEF CountInv, ClaimInv
  <2> QED
      BY <2>1, <2>2 DEF Counted, Settled, InBatch
<1>6. Counted' = Counted \cup {i}
  <2>1. InBatch' = InBatch \cup {i}
    <3>1. InBatch' = UNION {sent'[e] : e \in Dispatchers}
        BY DEF InBatch
    <3> QED
        BY <1>3, <3>1 DEF InBatch
  <2>2. Settled' = Settled
      BY <1>1 DEF Settled
  <2> QED
      BY <2>1, <2>2 DEF Counted
<1>7. IsFiniteSet(Counted) /\ Cardinality(Counted) \in Nat /\ Len(topic) \in Nat
    BY CountedFacts
<1>8. Cardinality(Counted') = Cardinality(Counted) + 1
    BY <1>5, <1>6, <1>7, FS_AddElement
<1>9. Len(topic') = Len(topic) + 1
    BY <1>1, <1>2
<1>10. faults * ClaimSize \in Nat
    BY FaultPays DEF CountInv, TypeOK
<1>11. Len(topic) <= Cardinality(Counted) + faults * ClaimSize
    BY DEF CountInv, ChargeInv
<1>12. Len(topic') <= Cardinality(Counted') + faults * ClaimSize
    BY <1>7, <1>8, <1>9, <1>10, <1>11
<1>13. ChargeInv'
    BY <1>1, <1>12 DEF ChargeInv
<1> QED
    BY <1>4, <1>13 DEF CountInv

\* A failed publish is a fault, and a claim of any row has room for one.
LEMMA CountPublishFail ==
  ASSUME CountInv, TypeOK', NEW d \in Dispatchers, NEW i \in DOMAIN outbox, PublishFail(d, i)
  PROVE  CountInv'
<1>1. /\ i \in claim[d] /\ i \notin sent[d] /\ (topic' = topic \/ topic' = Append(topic, i))
      /\ failed' = [failed EXCEPT ![d] = failed[d] \cup {i}]
      /\ UNCHANGED <<outbox, claim, sent>> /\ faults' = faults + 1
    BY DEF PublishFail, Unpublished, tables, Fault
<1>2. /\ failed \in [Dispatchers -> SUBSET (DOMAIN outbox)] /\ topic \in Seq(DOMAIN outbox)
    BY TypeParts DEF CountInv, DispatchOK
<1>3. failed'[d] = failed[d] \cup {i} /\ \A e \in Dispatchers : e # d => failed'[e] = failed[e]
    BY <1>1, <1>2
<1>4. ClaimInv'
    BY <1>1, <1>3 DEF CountInv, ClaimInv
<1>5. Counted' = Counted
    BY <1>1 DEF Counted, Settled, InBatch
<1>6. /\ Cardinality(Counted) \in Nat /\ Len(topic) \in Nat /\ Len(outbox) \in Nat
      /\ claim[d] \subseteq 1..Len(outbox)
    BY CountedFacts
<1>7. ClaimSize \in Nat /\ 1 <= ClaimSize
  <2>1. IsFiniteSet(claim[d]) /\ Cardinality(claim[d]) \in Nat
      BY <1>6, RowsFinite
  <2>2. Cardinality(claim[d]) # 0
      BY <1>1, <2>1, FS_EmptySet
  <2>3. Cardinality(claim[d]) <= ClaimSize
      BY DEF CountInv, ClaimInv
  <2> QED
      BY <2>1, <2>2, <2>3, ConfigAssumption
<1>8. Len(topic') = Len(topic) \/ Len(topic') = Len(topic) + 1
    BY <1>1, <1>2
<1>9. /\ faults * ClaimSize \in Nat
      /\ (faults + 1) * ClaimSize = faults * ClaimSize + ClaimSize
    BY FaultPays DEF CountInv, TypeOK
<1>10. Len(topic) <= Cardinality(Counted) + faults * ClaimSize
    BY DEF CountInv, ChargeInv
<1>11. Len(topic') <= Cardinality(Counted) + (faults + 1) * ClaimSize
    BY <1>6, <1>7, <1>8, <1>9, <1>10
<1>12. ChargeInv'
    BY <1>1, <1>5, <1>11 DEF ChargeInv
<1> QED
    BY <1>4, <1>12 DEF CountInv

\* Releasing one dispatcher's claim keeps the others' as they are.
LEMMA ReleaseFacts ==
  ASSUME CountInv, NEW d \in Dispatchers, Release(d)
  PROVE  /\ claim'[d] = {} /\ sent'[d] = {} /\ failed'[d] = {}
         /\ \A e \in Dispatchers : e # d =>
              claim'[e] = claim[e] /\ sent'[e] = sent[e] /\ failed'[e] = failed[e]
         /\ InBatch \subseteq InBatch' \cup sent[d] /\ InBatch' \subseteq InBatch
<1>1. /\ claim \in [Dispatchers -> SUBSET (DOMAIN outbox)]
      /\ sent \in [Dispatchers -> SUBSET (DOMAIN outbox)]
      /\ failed \in [Dispatchers -> SUBSET (DOMAIN outbox)]
    BY TypeParts DEF CountInv, DispatchOK
<1>2. /\ claim'[d] = {} /\ sent'[d] = {} /\ failed'[d] = {}
      /\ \A e \in Dispatchers : e # d =>
           claim'[e] = claim[e] /\ sent'[e] = sent[e] /\ failed'[e] = failed[e]
    BY <1>1 DEF Release
<1>3. InBatch' = UNION {sent'[e] : e \in Dispatchers}
    BY DEF InBatch
<1> QED
    BY <1>2, <1>3 DEF InBatch

\* The claims after a release, if no other claim's row changes its status.
LEMMA ReleaseClaims ==
  ASSUME CountInv, NEW d \in Dispatchers, Release(d),
         \A i \in DOMAIN outbox : i \notin claim[d] => outbox'[i].status = outbox[i].status
  PROVE  ClaimInv'
<1>1. /\ claim'[d] = {} /\ sent'[d] = {} /\ failed'[d] = {}
      /\ \A e \in Dispatchers : e # d =>
           claim'[e] = claim[e] /\ sent'[e] = sent[e] /\ failed'[e] = failed[e]
    BY ReleaseFacts
<1>2. ASSUME NEW e \in Dispatchers
      PROVE  /\ sent'[e] \subseteq claim'[e] /\ failed'[e] \subseteq claim'[e]
             /\ sent'[e] \cap failed'[e] = {}
             /\ Cardinality(claim'[e]) <= ClaimSize
             /\ \A i \in claim'[e] : outbox'[i].status = "pending"
  <2>1. CASE e = d
      BY <1>1, <2>1, FS_EmptySet, ConfigAssumption
  <2>2. CASE e # d
    <3>1. claim[e] \cap claim[d] = {} /\ claim[e] \subseteq DOMAIN outbox
        BY <2>2, TypeParts DEF CountInv, ClaimInv, DispatchOK
    <3> QED
        BY <1>1, <2>2, <3>1 DEF CountInv, ClaimInv
  <2> QED
      BY <2>1, <2>2
<1>3. \A e, g \in Dispatchers : e # g => claim'[e] \cap claim'[g] = {}
    BY <1>1 DEF CountInv, ClaimInv
<1> QED
    BY <1>2, <1>3 DEF ClaimInv

\* The rows sent are marked published: the count stays.
LEMMA CountCommitBatch ==
  ASSUME CountInv, TypeOK', NEW d \in Dispatchers, CommitBatch(d)
  PROVE  CountInv'
<1>1. outbox' = Statuses(d) /\ Release(d) /\ topic' = topic /\ faults' = faults
    BY DEF CommitBatch, bounds
<1>2. \A i \in DOMAIN outbox : outbox[i] \in OutboxRow
    BY TypeParts DEF CountInv, TablesOK
<1>3. /\ DOMAIN outbox' = DOMAIN outbox
      /\ \A i \in DOMAIN outbox : i \in sent[d] => outbox'[i].status = "published"
      /\ \A i \in DOMAIN outbox :
           i \notin sent[d] \cup failed[d] => outbox'[i].status = outbox[i].status
  <2>1. /\ DOMAIN outbox' = DOMAIN outbox
        /\ \A i \in DOMAIN outbox : outbox'[i] = Statuses(d)[i]
      BY <1>1 DEF Statuses
  <2>2. ASSUME NEW i \in DOMAIN outbox, i \in sent[d]
        PROVE  Statuses(d)[i].status = "published"
    <3>1. i \notin failed[d]
        BY <2>2 DEF CountInv, ClaimInv
    <3>2. Statuses(d)[i] = [outbox[i] EXCEPT !.status = "published"]
        BY <2>2, <3>1 DEF Statuses
    <3> QED
        BY <1>2, <3>2 DEF OutboxRow
  <2>3. ASSUME NEW i \in DOMAIN outbox, i \notin sent[d] \cup failed[d]
        PROVE  Statuses(d)[i] = outbox[i]
      BY <2>3 DEF Statuses
  <2> QED
      BY <2>1, <2>2, <2>3
<1>4. sent[d] \subseteq claim[d] /\ failed[d] \subseteq claim[d] /\ sent[d] \subseteq DOMAIN outbox
    BY TypeParts DEF CountInv, ClaimInv, DispatchOK
<1>5. ClaimInv'
    BY <1>1, <1>3, <1>4, ReleaseClaims
<1>6. Counted \subseteq Counted'
  <2>1. Settled \cup sent[d] \subseteq Settled'
    <3>1. \A i \in Settled : i \notin claim[d]
        BY DEF CountInv, ClaimInv, Settled
    <3> QED
        BY <1>3, <1>4, <3>1 DEF Settled
  <2>2. InBatch \subseteq InBatch' \cup sent[d]
      BY <1>1, ReleaseFacts
  <2> QED
      BY <2>1, <2>2 DEF Counted
<1>7. Len(outbox') \in Nat /\ Counted' \subseteq 1..Len(outbox')
  <2>1. /\ outbox' \in Seq(OutboxRow) /\ sent' \in [Dispatchers -> SUBSET (DOMAIN outbox')]
      BY TypePartsNext DEF TablesOK, DispatchOK
  <2>2. DOMAIN outbox' = 1..Len(outbox') /\ Len(outbox') \in Nat
      BY <2>1
  <2>3. Settled' \subseteq DOMAIN outbox'
      BY DEF Settled
  <2>4. InBatch' \subseteq DOMAIN outbox'
      BY <2>1 DEF InBatch
  <2> QED
      BY <2>2, <2>3, <2>4 DEF Counted
<1>8. IsFiniteSet(Counted') /\ Cardinality(Counted') \in Nat
    BY <1>7, RowsFinite
<1>9. Cardinality(Counted) <= Cardinality(Counted')
    BY <1>6, <1>8, FS_Subset
<1>10. Cardinality(Counted) \in Nat /\ Len(topic) \in Nat
    BY CountedFacts
<1>11. faults * ClaimSize \in Nat
    BY FaultPays DEF CountInv, TypeOK
<1>12. Len(topic) <= Cardinality(Counted) + faults * ClaimSize
    BY DEF CountInv, ChargeInv
<1>13. Len(topic) <= Cardinality(Counted') + faults * ClaimSize
    BY <1>8, <1>9, <1>10, <1>11, <1>12
<1>14. ChargeInv'
    BY <1>1, <1>13 DEF ChargeInv
<1> QED
    BY <1>5, <1>14 DEF CountInv

\* A crash forgets what one claim has sent.
LEMMA CountCrash ==
  ASSUME CountInv, TypeOK', NEW d \in Dispatchers, CrashDispatcher(d)
  PROVE  CountInv'
<1>1. Release(d) /\ outbox' = outbox /\ topic' = topic /\ faults' = faults + 1
    BY DEF CrashDispatcher, Fault, tables
<1>2. ClaimInv'
    BY <1>1, ReleaseClaims
<1>3. Settled' = Settled
    BY <1>1 DEF Settled
<1>4. Counted' \subseteq Counted /\ Counted \subseteq Counted' \cup sent[d]
    BY <1>1, <1>3, ReleaseFacts DEF Counted
<1>5. /\ IsFiniteSet(Counted) /\ Cardinality(Counted) \in Nat /\ Len(topic) \in Nat
      /\ Len(outbox) \in Nat /\ claim[d] \subseteq 1..Len(outbox)
    BY CountedFacts
<1>6. sent[d] \in SUBSET claim[d] /\ Cardinality(claim[d]) <= ClaimSize
    BY DEF CountInv, ClaimInv
<1>7. /\ IsFiniteSet(claim[d]) /\ Cardinality(claim[d]) \in Nat
      /\ IsFiniteSet(sent[d]) /\ Cardinality(sent[d]) \in Nat
    BY <1>5, <1>6, RowsFinite
<1>8. Cardinality(sent[d]) <= Cardinality(claim[d])
    BY <1>6, <1>7, FS_Subset
<1>9. IsFiniteSet(Counted') /\ Cardinality(Counted') \in Nat
  <2>1. Counted' \in SUBSET Counted
      BY <1>4
  <2>2. IsFiniteSet(Counted')
      BY <1>5, <2>1, FS_Subset
  <2> QED
      BY <2>2, FS_CardinalityType
<1>10. Cardinality(Counted) <= Cardinality(Counted') + Cardinality(sent[d])
  <2> DEFINE U == Counted' \cup sent[d]
             N == Counted' \cap sent[d]
  <2>1. IsFiniteSet(U) /\ Cardinality(U)
          = Cardinality(Counted') + Cardinality(sent[d]) - Cardinality(N)
      BY <1>7, <1>9, FS_Union
  <2>2. N \in SUBSET sent[d] /\ Counted \in SUBSET U
      BY <1>4
  <2> HIDE DEF U, N
  <2>3. IsFiniteSet(N) /\ Cardinality(N) \in Nat /\ Cardinality(U) \in Nat
    <3>1. IsFiniteSet(N)
        BY <1>7, <2>2, FS_Subset
    <3> QED
        BY <2>1, <3>1, FS_CardinalityType
  <2>4. Cardinality(Counted) <= Cardinality(U)
      BY <2>1, <2>2, FS_Subset
  <2> QED
      BY <1>5, <1>7, <1>9, <2>1, <2>3, <2>4
<1>11. /\ faults * ClaimSize \in Nat /\ ClaimSize \in Nat
       /\ (faults + 1) * ClaimSize = faults * ClaimSize + ClaimSize
    BY FaultPays, ConfigAssumption DEF CountInv, TypeOK
<1>12. Len(topic) <= Cardinality(Counted) + faults * ClaimSize
    BY DEF CountInv, ChargeInv
<1>13. Len(topic) <= Cardinality(Counted') + (faults + 1) * ClaimSize
    BY <1>5, <1>6, <1>7, <1>8, <1>9, <1>10, <1>11, <1>12
<1>14. ChargeInv'
    BY <1>1, <1>13 DEF ChargeInv
<1> QED
    BY <1>2, <1>14 DEF CountInv

LEMMA CountBackoff ==
  ASSUME CountInv, TypeOK', NEW i \in DOMAIN outbox, BackoffOver(i)
  PROVE  CountInv'
<1>1. /\ outbox[i].status = "waiting" /\ outbox' = [outbox EXCEPT ![i].status = "pending"]
      /\ UNCHANGED <<claim, sent, failed, topic, faults>>
    BY DEF BackoffOver, dispatch, bounds
<1>2. outbox[i] \in OutboxRow
    BY TypeParts DEF CountInv, TablesOK
<1>3. /\ DOMAIN outbox' = DOMAIN outbox
      /\ \A j \in DOMAIN outbox :
           outbox'[j].status = IF j = i THEN "pending" ELSE outbox[j].status
    BY <1>1, <1>2 DEF OutboxRow
<1>4. Settled' = Settled
    BY <1>1, <1>3 DEF Settled
<1>5. Counted' = Counted
    BY <1>1, <1>4 DEF Counted, InBatch
<1>6. \A d \in Dispatchers : claim[d] \subseteq DOMAIN outbox
    BY TypeParts DEF CountInv, DispatchOK
<1>7. ClaimInv'
    BY <1>1, <1>3, <1>6 DEF CountInv, ClaimInv
<1>8. ChargeInv'
    BY <1>1, <1>5 DEF CountInv, ChargeInv
<1> QED
    BY <1>7, <1>8 DEF CountInv

\* CountInv is inductive.
LEMMA CountStep == CountInv /\ [Next]_vars => CountInv'
<1> SUFFICES ASSUME CountInv, [Next]_vars
             PROVE  CountInv'
    OBVIOUS
<1>1. TypeOK'
    BY TypeStep DEF CountInv
<1>2. ASSUME NEW s \in Setters, CommitSet(s) PROVE CountInv'
    BY <1>1, <1>2, CountCommitSet
<1>3. ASSUME NEW d \in Dispatchers, Claim(d) PROVE CountInv'
    BY <1>1, <1>3, CountClaim
<1>4. ASSUME NEW d \in Dispatchers, NEW i \in DOMAIN outbox, PublishRow(d, i) PROVE CountInv'
    BY <1>1, <1>4, CountPublishRow
<1>5. ASSUME NEW d \in Dispatchers, NEW i \in DOMAIN outbox, PublishFail(d, i) PROVE CountInv'
    BY <1>1, <1>5, CountPublishFail
<1>6. ASSUME NEW d \in Dispatchers, CommitBatch(d) PROVE CountInv'
    BY <1>1, <1>6, CountCommitBatch
<1>7. ASSUME NEW d \in Dispatchers, CrashDispatcher(d) PROVE CountInv'
    BY <1>1, <1>7, CountCrash
<1>8. ASSUME NEW i \in DOMAIN outbox, BackoffOver(i) PROVE CountInv'
    BY <1>1, <1>8, CountBackoff
<1>9. CASE ServiceNext
  <2>1. UNCHANGED <<outbox, claim, sent, failed, topic>> /\ (faults' = faults \/ faults' = faults + 1)
      BY <1>9 DEF ServiceNext, LoadSnapshot, SnapshotFails, Subscribe, SubscribeFails,
                  ReceiveUpdate, AutoCommit, RestartService, Fault, tables, dispatch, bounds
  <2> QED
      BY <1>1, <2>1, CountKept
<1>10. CASE UNCHANGED vars
    BY <1>1, <1>10, CountKept DEF vars, tables, dispatch, bounds
<1>11. ASSUME NEW s \in Setters,
              \/ WriteSet(s) \/ RollbackSet(s)
              \/ \E v, e : BeginSet(s, v, e)
       PROVE  CountInv'
    BY <1>1, <1>11, CountKept DEF WriteSet, RollbackSet, BeginSet, tables, dispatch, bounds
<1> QED
    BY <1>2, <1>3, <1>4, <1>5, <1>6, <1>7, <1>8, <1>9, <1>10, <1>11
       DEF Next, SetterNext, DispatcherNext, RevertKey

\* SKIP LOCKED and the open claim transaction of outbox_publisher.py: however
\* many dispatchers compete, the topic holds at most one message per change,
\* and ClaimSize more for each fault.
THEOREM ConfigRepeatsAreRetries == Spec => []RepeatsAreRetries
<1>1. Init => CountInv
  <2> SUFFICES ASSUME Init PROVE CountInv
      OBVIOUS
  <2>1. TypeOK
      BY TypeInit
  <2>2. ClaimInv
      BY FS_EmptySet, ConfigAssumption DEF Init, ClaimInv
  <2>3. Counted = {}
      BY DEF Init, Counted, Settled, InBatch
  <2>4. ChargeInv
    <3>1. Cardinality(Counted) = 0 /\ Len(topic) = 0 /\ faults = 0
        BY <2>3, FS_EmptySet DEF Init
    <3> QED
        BY <3>1, ConfigAssumption DEF ChargeInv
  <2> QED
      BY <2>1, <2>2, <2>4 DEF CountInv
<1>2. CountInv => RepeatsAreRetries
  <2> SUFFICES ASSUME CountInv PROVE RepeatsAreRetries
      OBVIOUS
  <2>1. /\ Len(outbox) \in Nat /\ Len(topic) \in Nat /\ Cardinality(Counted) \in Nat
        /\ Cardinality(Counted) <= Len(outbox)
      BY CountedFacts
  <2>2. faults * ClaimSize \in Nat
      BY FaultPays DEF CountInv, TypeOK
  <2>3. Len(topic) <= Cardinality(Counted) + faults * ClaimSize
      BY DEF CountInv, ChargeInv
  <2>4. Len(topic) <= Len(outbox) + faults * ClaimSize
      BY <2>1, <2>2, <2>3
  <2> QED
      BY <2>4 DEF RepeatsAreRetries
<1> QED
    BY <1>1, <1>2, CountStep, PTL DEF Spec
=============================================================================
