---------------------------- MODULE ConfigOutbox ----------------------------
(***************************************************************************)
(* How a configuration change reaches the services: one key of             *)
(* src/config/config_service.py ConfigService (set, revert_key),           *)
(* src/config/outbox_publisher.py OutboxPublisher and one service with the *)
(* ConfigConsumerMixin of src/config/config_consumer.py.                   *)
(*                                                                         *)
(* set() writes config_history, config_state and config_outbox in one      *)
(* transaction, under a lock on the key's config_state row if there is     *)
(* one.  A dispatcher claims pending outbox rows in a transaction that     *)
(* stays open while it publishes them, and marks each published or, after  *)
(* a failure, pending again with a back-off.  The service loads a snapshot *)
(* of config_state, subscribes, and applies every message it receives.     *)
(***************************************************************************)
EXTENDS Integers, Sequences, FiniteSets

CONSTANTS
  Vals,         \* the values of the key
  Setters,      \* callers of set() and revert_key()
  Dispatchers,  \* OutboxPublisher instances
  Seeded,       \* config_state has a row for the key at the start
  ClaimSize,    \* _CLAIM_BATCH_SIZE
  NoSetter, NoVersion, NoVal,
  MaxSets,      \* bound: set() calls
  MaxFaults     \* bound: failed publishes, crashes and restarts

ASSUME ConfigAssumption ==
  /\ Seeded \in BOOLEAN
  /\ ClaimSize \in Nat
  /\ NoSetter \notin Setters
  /\ NoVersion \notin Int
  /\ NoVal \notin Vals
  /\ MaxSets \in Nat /\ MaxFaults \in Nat

VARIABLES
  state,     \* the config_state row: val and version (0: no row)
  history,   \* the config_history rows, in commit order
  outbox,    \* the config_outbox rows, by id
  rowLock,   \* the setter holding the lock on the config_state row
  setter,    \* per setter: its transaction
  claim,     \* per dispatcher: the row ids its transaction has locked
  sent,      \* per dispatcher: those published
  failed,    \* per dispatcher: those whose publish raised
  topic,     \* the messages of topic_config_updates, as outbox ids
  consumer,  \* the service: "off", "loaded", "deaf" or "on"
  pos,       \* its position in the topic
  offset,    \* its group's committed offset (NoVersion: none)
  cache,     \* _config_cache[key]
  sets, faults

tables == <<state, history, outbox>>
setting == <<rowLock, setter>>
dispatch == <<claim, sent, failed>>
service == <<consumer, pos, offset, cache>>
bounds == <<sets, faults>>
vars == <<tables, setting, dispatch, topic, service, bounds>>

Idle == [pc |-> "idle", val |-> NoVal, ver |-> 0, expected |-> NoVersion]

Init ==
  /\ \E v \in Vals :
       state = IF Seeded THEN [val |-> v, ver |-> 1] ELSE [val |-> NoVal, ver |-> 0]
  /\ history = <<>> /\ outbox = <<>>
  /\ rowLock = NoSetter
  /\ setter = [s \in Setters |-> Idle]
  /\ claim = [d \in Dispatchers |-> {}]
  /\ sent = [d \in Dispatchers |-> {}]
  /\ failed = [d \in Dispatchers |-> {}]
  /\ topic = <<>>
  /\ consumer = "off" /\ pos = 0 /\ offset = NoVersion /\ cache = NoVal
  /\ sets = 0 /\ faults = 0

Fault == faults < MaxFaults /\ faults' = faults + 1 /\ UNCHANGED sets

-----------------------------------------------------------------------------
\* Mutant of SelectForUpdate: a plain SELECT.
SelectForUpdate_NoLock(s) == UNCHANGED rowLock

\* FOR UPDATE waits for and takes the row's lock, if there is a row.
SelectForUpdate(s) ==
  IF state.ver > 0
  THEN rowLock = NoSetter /\ rowLock' = s
  ELSE UNCHANGED rowLock

\* The transaction of set() reads the row.  An expected_version is compared, if
\* there is a row; a different one ends the call with ConfigVersionConflict.
BeginSet(s, v, e) ==
  /\ setter[s].pc = "idle"
  /\ sets < MaxSets
  /\ SelectForUpdate(s)
  /\ state.ver > 0 /\ e # NoVersion => e = state.ver
  /\ setter' = [setter EXCEPT ![s] =
       [pc |-> "read", val |-> v, ver |-> state.ver + 1, expected |-> e]]
  /\ sets' = sets + 1
  /\ UNCHANGED <<tables, dispatch, topic, service, faults>>

\* revert_key sets the value of an earlier version.
RevertKey(s, n) == BeginSet(s, history[n].val, NoVersion)

\* The three inserts.  The upsert of config_state waits for another
\* transaction's uncommitted row.
WriteSet(s) ==
  /\ setter[s].pc = "read"
  /\ rowLock \in {NoSetter, s}
  /\ rowLock' = s
  /\ setter' = [setter EXCEPT ![s].pc = "written"]
  /\ UNCHANGED <<tables, dispatch, topic, service, bounds>>

Unlock(s) == rowLock' = IF rowLock = s THEN NoSetter ELSE rowLock

CommitSet(s) ==
  /\ setter[s].pc = "written"
  /\ LET row == [val |-> setter[s].val, ver |-> setter[s].ver]
     IN  /\ state' = row
         /\ history' = Append(history,
              [val |-> row.val, ver |-> row.ver, expected |-> setter[s].expected])
         /\ outbox' = Append(outbox,
              [val |-> row.val, ver |-> row.ver, status |-> "pending"])
  /\ setter' = [setter EXCEPT ![s] = Idle]
  /\ Unlock(s)
  /\ UNCHANGED <<dispatch, topic, service, bounds>>

RollbackSet(s) ==
  /\ setter[s].pc # "idle"
  /\ setter' = [setter EXCEPT ![s] = Idle]
  /\ Unlock(s)
  /\ UNCHANGED <<tables, dispatch, topic, service, bounds>>

-----------------------------------------------------------------------------
\* The rows the claim query may take: pending, due, and not locked by another
\* dispatcher (SKIP LOCKED).  Mutant: the rows are not locked.
Claimable_Unlocked == {i \in DOMAIN outbox : outbox[i].status = "pending"}

Claimable ==
  {i \in DOMAIN outbox :
     /\ outbox[i].status = "pending"
     /\ \A d \in Dispatchers : i \notin claim[d]}

\* ORDER BY id LIMIT: the first of them.
FirstRows(ids) == {i \in ids : Cardinality({j \in ids : j < i}) < ClaimSize}

Claim(d) ==
  /\ claim[d] = {}
  /\ Claimable # {}
  /\ claim' = [claim EXCEPT ![d] = FirstRows(Claimable)]
  /\ UNCHANGED <<tables, setting, sent, failed, topic, service, bounds>>

\* The rows of the claim still to be published.  They come from UPDATE ...
\* RETURNING, in no particular order.
Unpublished(d) == claim[d] \ (sent[d] \cup failed[d])

\* _publish_row: the broker acknowledges the message.
PublishRow(d, i) ==
  /\ i \in Unpublished(d)
  /\ topic' = Append(topic, i)
  /\ sent' = [sent EXCEPT ![d] = @ \cup {i}]
  /\ UNCHANGED <<tables, setting, claim, failed, service, bounds>>

\* publish() raises; the message may have reached the topic all the same.
PublishFail(d, i) ==
  /\ i \in Unpublished(d)
  /\ topic' \in {topic, Append(topic, i)}
  /\ failed' = [failed EXCEPT ![d] = @ \cup {i}]
  /\ Fault
  /\ UNCHANGED <<tables, setting, claim, sent, service>>

Release(d) ==
  /\ claim' = [claim EXCEPT ![d] = {}]
  /\ sent' = [sent EXCEPT ![d] = {}]
  /\ failed' = [failed EXCEPT ![d] = {}]

\* The statuses after the batch: published, or pending again once
\* next_attempt_at has come.
Statuses(d) ==
  [i \in DOMAIN outbox |->
     CASE i \in sent[d] -> [outbox[i] EXCEPT !.status = "published"]
       [] i \in failed[d] -> [outbox[i] EXCEPT !.status = "waiting"]
       [] OTHER -> outbox[i]]

\* _poll_and_publish commits when every row of the batch has been tried.
CommitBatch(d) ==
  /\ claim[d] # {}
  /\ Unpublished(d) = {}
  /\ outbox' = Statuses(d)
  /\ Release(d)
  /\ UNCHANGED <<state, history, setting, topic, service, bounds>>

\* Mutant of CrashDispatcher: the claim was committed on its own.
CrashDispatcher_Claimed(d) ==
  /\ claim[d] # {}
  /\ outbox' = [i \in DOMAIN outbox |->
       IF i \in claim[d] THEN [outbox[i] EXCEPT !.status = "publishing"]
       ELSE outbox[i]]
  /\ Release(d)
  /\ Fault
  /\ UNCHANGED <<state, history, setting, topic, service>>

\* The dispatcher dies, or a status update raises: the transaction is rolled
\* back and its rows are pending again, the published ones too.
CrashDispatcher(d) ==
  /\ claim[d] # {}
  /\ Release(d)
  /\ Fault
  /\ UNCHANGED <<tables, setting, topic, service>>

\* next_attempt_at <= NOW()
BackoffOver(i) ==
  /\ outbox[i].status = "waiting"
  /\ outbox' = [outbox EXCEPT ![i].status = "pending"]
  /\ UNCHANGED <<state, history, setting, dispatch, topic, service, bounds>>

-----------------------------------------------------------------------------
\* _pre_setup_config_load
LoadSnapshot ==
  /\ consumer = "off"
  /\ consumer' = "loaded"
  /\ cache' = state.val
  /\ UNCHANGED <<tables, setting, dispatch, topic, pos, offset, bounds>>

\* The snapshot fails: the service starts on code defaults.
SnapshotFails ==
  /\ consumer = "off"
  /\ consumer' = "loaded"
  /\ Fault
  /\ UNCHANGED <<tables, setting, dispatch, topic, pos, offset, cache>>

\* _setup_config_consumer, after _setup: auto_offset_reset is "latest", so a
\* group without a committed offset starts at the end of the topic.
Subscribe ==
  /\ consumer = "loaded"
  /\ consumer' = "on"
  /\ pos' = IF offset = NoVersion THEN Len(topic) ELSE offset
  /\ UNCHANGED <<tables, setting, dispatch, topic, offset, cache, bounds>>

\* The subscription fails, and is not tried again: no hot reload.
SubscribeFails ==
  /\ consumer = "loaded"
  /\ consumer' = "deaf"
  /\ Fault
  /\ UNCHANGED <<tables, setting, dispatch, topic, pos, offset, cache>>

\* _reload_config_loop: the message's value goes into the cache, whatever its
\* version.
ReceiveUpdate ==
  /\ consumer = "on"
  /\ pos < Len(topic)
  /\ pos' = pos + 1
  /\ cache' = outbox[topic[pos + 1]].val
  /\ UNCHANGED <<tables, setting, dispatch, topic, consumer, offset, bounds>>

\* enable_auto_commit: the position of the consume thread, which may be ahead
\* of the loop.
AutoCommit ==
  /\ consumer = "on"
  /\ offset' \in {n \in pos..Len(topic) : offset = NoVersion \/ offset < n}
  /\ UNCHANGED <<tables, setting, dispatch, topic, consumer, pos, cache, bounds>>

RestartService ==
  /\ consumer # "off"
  /\ consumer' = "off"
  /\ cache' = NoVal
  /\ Fault
  /\ UNCHANGED <<tables, setting, dispatch, topic, pos, offset>>

-----------------------------------------------------------------------------
SetterNext ==
  \E s \in Setters :
    \/ \E v \in Vals, e \in {NoVersion} \cup 1..MaxSets : BeginSet(s, v, e)
    \/ \E n \in DOMAIN history : RevertKey(s, n)
    \/ WriteSet(s) \/ CommitSet(s) \/ RollbackSet(s)

DispatcherNext ==
  \/ \E d \in Dispatchers :
       \/ Claim(d) \/ CommitBatch(d) \/ CrashDispatcher(d)
       \/ \E i \in DOMAIN outbox : PublishRow(d, i) \/ PublishFail(d, i)
  \/ \E i \in DOMAIN outbox : BackoffOver(i)

ServiceNext ==
  LoadSnapshot \/ SnapshotFails \/ Subscribe \/ SubscribeFails \/ ReceiveUpdate
  \/ AutoCommit \/ RestartService

Next == SetterNext \/ DispatcherNext \/ ServiceNext

Spec == Init /\ [][Next]_vars

\* The dispatchers poll for ever, the broker acknowledges a message tried again
\* and again, back-offs end, and the service starts and reads its topic.
\* Nothing obliges a setter to go on.
Fairness ==
  /\ \A d \in Dispatchers :
       /\ WF_vars(Claim(d)) /\ WF_vars(CommitBatch(d))
       /\ \A i \in 1..MaxSets : SF_vars(i \in DOMAIN outbox /\ PublishRow(d, i))
  /\ \A i \in 1..MaxSets : WF_vars(i \in DOMAIN outbox /\ BackoffOver(i))
  /\ WF_vars(LoadSnapshot) /\ WF_vars(Subscribe) /\ WF_vars(ReceiveUpdate)

FairSpec == Spec /\ Fairness

-----------------------------------------------------------------------------
Sent == {topic[n] : n \in DOMAIN topic}

\* Type invariant of the tables, the topic, the transactions and the service.
TypeOK ==
  /\ state \in [val : Vals \cup {NoVal}, ver : Nat]
  /\ history \in Seq([val : Vals, ver : Nat, expected : Int \cup {NoVersion}])
  /\ outbox \in Seq([val : Vals, ver : Nat,
                     status : {"pending", "waiting", "published"}])
  /\ rowLock \in Setters \cup {NoSetter}
  /\ setter \in [Setters -> [pc : {"idle", "read", "written"},
                             val : Vals \cup {NoVal}, ver : Nat,
                             expected : Int \cup {NoVersion}]]
  /\ \A s \in Setters : setter[s].pc # "idle" => setter[s].val \in Vals
  /\ claim \in [Dispatchers -> SUBSET (DOMAIN outbox)]
  /\ sent \in [Dispatchers -> SUBSET (DOMAIN outbox)]
  /\ failed \in [Dispatchers -> SUBSET (DOMAIN outbox)]
  /\ topic \in Seq(DOMAIN outbox)
  /\ consumer \in {"off", "loaded", "deaf", "on"}
  /\ pos \in 0..Len(topic)
  /\ offset \in 0..Len(topic) \cup {NoVersion}
  /\ cache \in Vals \cup {NoVal}
  /\ sets \in Nat /\ faults \in Nat

\* "SELECT ... FOR UPDATE executes INSIDE the transaction (safe concurrency)":
\* concurrent set() calls never give two changes one version, and config_state
\* is the last change.  It fails for the first set() calls of a key, when
\* there is no row to lock.
VersionsIncrease ==
  /\ \A i, j \in DOMAIN history : i < j => history[i].ver < history[j].ver
  /\ history # <<>> => state.ver = history[Len(history)].ver
                      /\ state.val = history[Len(history)].val

\* set(expected_version): a change that names the version it replaces comes
\* directly after the change that made that version: no change that was
\* committed meanwhile is overwritten unseen.
NoLostUpdate ==
  \A i \in DOMAIN history :
    history[i].expected # NoVersion /\ i > 1 =>
      history[i - 1].ver = history[i].expected

\* _publish_row: an outbox row is marked published only if its message is on
\* the topic, across failures, retries, crashes and competing dispatchers.
PublishedWasSent ==
  \A i \in DOMAIN outbox : outbox[i].status = "published" => i \in Sent

\* SKIP LOCKED, "multiple dispatcher instances safe": a message is repeated
\* only because of a failed publish or a crash of a dispatcher.  A crash
\* repeats at most a claim.
RepeatsAreRetries == Len(topic) <= Len(outbox) + faults * ClaimSize

\* The outbox: every committed change reaches the topic.
EveryChangeArrives ==
  \A i \in 1..MaxSets : (i \in DOMAIN outbox) ~> (i \in Sent)
=============================================================================
