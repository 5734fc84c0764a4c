-------------------------- MODULE RaftStorageProofs --------------------------
(***************************************************************************)
(* Theorems about RaftStorage, for every set of payloads, every number of  *)
(* terms and every length of the log: the log has no gap and purging never *)
(* asserts, the node can be brought back to all that is committed, what it *)
(* shows and stores is a committed state, the stored snapshot never goes   *)
(* back, and the storage implements ReplicatedState.                       *)
(***************************************************************************)
EXTENDS RaftStorage, FiniteSetTheorems, SequenceTheorems, TLAPS

-----------------------------------------------------------------------------
(* The inductive invariant. *)

\* Terms do not go back along the chosen entries.
TermsOrdered ==
  \A i, j \in 1 .. Len(chosen) : i <= j => chosen[i].term <= chosen[j].term

\* state_at is what applying the chosen entries one after the other makes.
History ==
  /\ Len(state_at) = Len(chosen) + 1
  /\ Len(chosen) <= MaxIndex
  /\ state_at[1] = default
  /\ \A k \in 1 .. Len(chosen) :
       state_at[k + 1] = apply(state_at[k], <<chosen[k].term, k>>, chosen[k].payload)
  /\ TermsOrdered

\* A state of the history.
Committed(s) == applied(s) <= Len(chosen) /\ s = state_at[applied(s) + 1]

\* The position the state machine has once the job is done.
target(job) == IF job.type = "apply" THEN index(job.log_id) ELSE applied(job.snapshot)

\* The position from which a job starts.
origin(j) == IF j = 1 THEN applied(sm) ELSE target(jobs[j - 1])

\* A job brings the state machine from where the one before leaves it to a later
\* committed state; an install that is under way has done so.
GoodJob(j) ==
  /\ target(jobs[j]) <= Len(chosen)
  /\ jobs[j].type = "apply" =>
       /\ target(jobs[j]) = origin(j) + 1
       /\ jobs[j].log_id = id_of(target(jobs[j]))
       /\ jobs[j].payload = chosen[target(jobs[j])].payload
  /\ jobs[j].type = "install" =>
       /\ Committed(jobs[j].snapshot)
       /\ origin(j) < target(jobs[j]) \/ (j = 1 /\ worker # "idle")

\* Jobs do not lead back.
TargetsOrdered ==
  \A i, j \in 1 .. Len(jobs) : i <= j => target(jobs[i]) <= target(jobs[j])

\* The jobs lead from the state of the node to what openraft knows.
JobsLead ==
  /\ known <= Len(chosen)
  /\ known = IF jobs = <<>> THEN applied(sm) ELSE target(jobs[Len(jobs)])
  /\ \A j \in 1 .. Len(jobs) : GoodJob(j)
  /\ TargetsOrdered
  /\ worker # "idle" => jobs # <<>> /\ jobs[1].type = "install" /\ sm = jobs[1].snapshot

\* The snapshot, and the copy a task made for the next one, are no later than the
\* state machine, and the copy is no earlier than the snapshot.
SnapshotsBehind ==
  /\ Committed(sm)
  /\ \A s \in current_snapshot : Committed(s) /\ applied(s) <= applied(sm)
  /\ builder.stage # "idle" =>
       /\ Committed(builder.copy)
       /\ applied(builder.copy) <= applied(sm)
       /\ \A s \in current_snapshot : applied(s) <= applied(builder.copy)
  /\ builder.stage = "locking" => builder.copy = sm
  /\ builder.stage = "writing" => worker # "writing"

purged == index(log_storage.last_purged_log_id)

\* The log begins after the purged entries and has no gap; what is purged is covered
\* by a snapshot, and what is committed and not purged is in the log.
LogKept ==
  /\ ~log_storage.panic
  /\ purged <= known
  /\ log_storage.last_purged_log_id = id_of(purged)
  /\ \E l \in Nat : l >= purged /\ DOMAIN log_storage.log = purged + 1 .. l
  /\ \A i \in purged + 1 .. known :
       i \in DOMAIN log_storage.log /\ log_storage.log[i] = chosen[i]
  /\ purged = 0 \/ \E s \in restorable : purged <= applied(s)

IInv == TypeOK /\ History /\ JobsLead /\ SnapshotsBehind /\ LogKept

-----------------------------------------------------------------------------
(* The operators. *)

\* Applying an entry makes a state at the position of the entry.
LEMMA ApplyType ==
  ASSUME NEW s \in StateMachineData, NEW id \in LogId, NEW p \in Payload
  PROVE  /\ apply(s, id, p) \in StateMachineData
         /\ apply(s, id, p).last_applied_log = id
<1>1. (IF p \in Normal THEN Append(s.node, p) ELSE s.node) \in Seq(Normal)
  BY DEF StateMachineData
<1>2. (IF p \in Membership THEN <<id, p>> ELSE s.last_membership) \in LogId \X (Membership \cup {"none"})
  BY DEF StateMachineData
<1> QED
  BY <1>1, <1>2 DEF apply, StateMachineData

\* The position of a state is a position in the log.
LEMMA AppliedType ==
  ASSUME NEW s \in StateMachineData
  PROVE  applied(s) \in 0 .. MaxIndex
BY DEF applied, index, StateMachineData, LogId

\* The default of StateMachineData is a state.
LEMMA DefaultType == default \in StateMachineData
BY StorageAssumption DEF default, StateMachineData, LogId, None

\* The id of a chosen entry.
LEMMA IdType ==
  ASSUME TypeOK, History, NEW i \in 0 .. Len(chosen)
  PROVE  id_of(i) \in LogId /\ index(id_of(i)) = i
<1>1. CASE i = 0
  BY <1>1, StorageAssumption DEF id_of, LogId, index, None
<1>2. CASE i # 0
  <2>1. chosen[i] \in Entry /\ i \in 1 .. MaxIndex
    BY <1>2, StorageAssumption DEF TypeOK, History
  <2> QED
    BY <1>2, <2>1, StorageAssumption DEF id_of, LogId, index, Entry
<1> QED
  BY <1>1, <1>2

\* Each state of the history has the position it is at.
LEMMA StateAt ==
  ASSUME TypeOK, History, NEW k \in 0 .. Len(chosen)
  PROVE  /\ state_at[k + 1] \in StateMachineData
         /\ state_at[k + 1].last_applied_log = id_of(k)
         /\ applied(state_at[k + 1]) = k
         /\ Committed(state_at[k + 1])
<1>1. state_at[k + 1] \in StateMachineData
  BY DEF TypeOK, History
<1>2. state_at[k + 1].last_applied_log = id_of(k)
  <2>1. CASE k = 0
    BY <2>1 DEF History, default, id_of
  <2>2. CASE k # 0
    <3>1. k \in 1 .. Len(chosen) /\ chosen[k] \in Entry /\ state_at[k] \in StateMachineData
      BY <2>2 DEF TypeOK, History
    <3>2. id_of(k) = <<chosen[k].term, k>>
      BY <2>2 DEF id_of
    <3>3. id_of(k) \in LogId /\ chosen[k].payload \in Payload
      BY <3>1, IdType DEF Entry
    <3> QED
      BY <3>1, <3>2, <3>3, ApplyType DEF History
  <2> QED
    BY <2>1, <2>2
<1>3. applied(state_at[k + 1]) = k
  BY <1>2, IdType DEF applied
<1> QED
  BY <1>1, <1>2, <1>3 DEF Committed

\* A log is a function on some indexes.
LEMMA LogType ==
  ASSUME NEW ls \in LogStorageInner
  PROVE  DOMAIN ls.log \in SUBSET Index /\ ls.log \in [DOMAIN ls.log -> Entry]
<1>1. PICK is \in SUBSET Index : ls.log \in [is -> Entry]
  BY DEF LogStorageInner
<1> QED
  BY <1>1

\* A function on some indexes is a log.
LEMMA WithLog ==
  ASSUME NEW ls \in LogStorageInner, NEW is \in SUBSET Index, NEW f \in [is -> Entry]
  PROVE  /\ [ls EXCEPT !.log = f] \in LogStorageInner
         /\ [ls EXCEPT !.log = f].log = f
<1>1. f \in UNION {[js -> Entry] : js \in SUBSET Index}
  OBVIOUS
<1> QED
  BY <1>1 DEF LogStorageInner

\* Taking entries out of a log.
LEMMA WithoutType ==
  ASSUME NEW ls \in LogStorageInner, NEW indexes
  PROVE  /\ without(ls, indexes) \in LogStorageInner
         /\ DOMAIN without(ls, indexes).log = DOMAIN ls.log \ indexes
         /\ \A i \in DOMAIN ls.log \ indexes : without(ls, indexes).log[i] = ls.log[i]
         /\ without(ls, indexes).last_purged_log_id = ls.last_purged_log_id
         /\ without(ls, indexes).panic = ls.panic
<1> DEFINE f == [i \in DOMAIN ls.log \ indexes |-> ls.log[i]]
<1>1. DOMAIN ls.log \ indexes \in SUBSET Index /\ f \in [DOMAIN ls.log \ indexes -> Entry]
  BY LogType
<1>2. without(ls, indexes) = [ls EXCEPT !.log = f]
  BY DEF without
<1>3. DOMAIN f = DOMAIN ls.log \ indexes /\ \A i \in DOMAIN ls.log \ indexes : f[i] = ls.log[i]
  OBVIOUS
<1>4. /\ [ls EXCEPT !.log = f].last_purged_log_id = ls.last_purged_log_id
      /\ [ls EXCEPT !.log = f].panic = ls.panic
  BY DEF LogStorageInner
<1> HIDE DEF f
<1> QED
  BY <1>1, <1>2, <1>3, <1>4, WithLog

\* Purging takes out a prefix of the log; it asserts that it does not go back.
LEMMA PurgeType ==
  ASSUME NEW ls \in LogStorageInner, NEW id \in LogId
  PROVE  /\ purge(ls, id) \in LogStorageInner
         /\ DOMAIN purge(ls, id).log = {i \in DOMAIN ls.log : i > index(id)}
         /\ \A i \in DOMAIN ls.log : i > index(id) => purge(ls, id).log[i] = ls.log[i]
         /\ purge(ls, id).last_purged_log_id = id
         /\ precedes(ls.last_purged_log_id, id) => purge(ls, id).panic = ls.panic
<1> DEFINE out == {i \in Index : i <= index(id)}
           rest == without(ls, out)
<1>1. /\ rest \in LogStorageInner
      /\ DOMAIN rest.log = DOMAIN ls.log \ out
      /\ \A i \in DOMAIN ls.log \ out : rest.log[i] = ls.log[i]
      /\ rest.panic = ls.panic
  BY WithoutType
<1>2. DOMAIN ls.log \ out = {i \in DOMAIN ls.log : i > index(id)}
  BY LogType DEF Index, LogId, index
<1>3. purge(ls, id) = [rest EXCEPT !.last_purged_log_id = id,
                         !.panic = rest.panic \/ ~precedes(ls.last_purged_log_id, id)]
  BY DEF purge
<1> HIDE DEF rest, out
<1>4. (rest.panic \/ ~precedes(ls.last_purged_log_id, id)) \in BOOLEAN
  OBVIOUS
<1>5. /\ purge(ls, id) \in LogStorageInner
      /\ purge(ls, id).log = rest.log
      /\ purge(ls, id).last_purged_log_id = id
      /\ purge(ls, id).panic = (rest.panic \/ ~precedes(ls.last_purged_log_id, id))
  BY <1>1, <1>3, <1>4 DEF LogStorageInner
<1>6. precedes(ls.last_purged_log_id, id) => purge(ls, id).panic = ls.panic
  <2>1. rest.panic \in BOOLEAN
    BY <1>1 DEF LogStorageInner
  <2> QED
    BY <1>1, <1>5, <2>1
<1> QED
  BY <1>1, <1>2, <1>5, <1>6

\* Appending entries, and what the last id is of a log without a gap.
LEMMA AppendType ==
  ASSUME NEW ls \in LogStorageInner, NEW is \in SUBSET Index, NEW entries \in [is -> Entry]
  PROVE  /\ append(ls, entries) \in LogStorageInner
         /\ DOMAIN append(ls, entries).log = DOMAIN ls.log \cup is
         /\ \A i \in DOMAIN ls.log \ is : append(ls, entries).log[i] = ls.log[i]
         /\ append(ls, entries).last_purged_log_id = ls.last_purged_log_id
         /\ append(ls, entries).panic = ls.panic
<1> DEFINE f == [i \in DOMAIN ls.log \cup is |-> IF i \in is THEN entries[i] ELSE ls.log[i]]
<1>1. DOMAIN ls.log \cup is \in SUBSET Index /\ f \in [DOMAIN ls.log \cup is -> Entry]
  BY LogType
<1>2. append(ls, entries) = [ls EXCEPT !.log = f]
  BY DEF append
<1>3. DOMAIN f = DOMAIN ls.log \cup is /\ \A i \in DOMAIN ls.log \ is : f[i] = ls.log[i]
  OBVIOUS
<1>4. /\ [ls EXCEPT !.log = f].last_purged_log_id = ls.last_purged_log_id
      /\ [ls EXCEPT !.log = f].panic = ls.panic
  BY DEF LogStorageInner
<1> HIDE DEF f
<1> QED
  BY <1>1, <1>2, <1>3, <1>4, WithLog

\* get_log_state finds the end of a log without a gap, an empty one included.
LEMMA LastLogId ==
  ASSUME NEW ls \in LogStorageInner, NEW l \in Nat, l >= index(ls.last_purged_log_id),
         DOMAIN ls.log = index(ls.last_purged_log_id) + 1 .. l
  PROVE  index(last_log_id(ls)) = l
<1> DEFINE p == index(ls.last_purged_log_id)
<1>1. p \in Nat
  BY DEF LogStorageInner, LogId, index
<1>2. CASE l = p
  <2>1. DOMAIN ls.log = {}
    BY <1>1, <1>2
  <2> QED
    BY <1>2, <2>1 DEF last_log_id
<1>3. CASE l > p
  <2>1. l \in DOMAIN ls.log /\ \A j \in DOMAIN ls.log : j <= l
    BY <1>1, <1>3
  <2> DEFINE last == CHOOSE i \in DOMAIN ls.log : \A j \in DOMAIN ls.log : j <= i
  <2>2. last \in DOMAIN ls.log /\ \A j \in DOMAIN ls.log : j <= last
    BY <2>1
  <2>3. last = l
    BY <1>1, <2>1, <2>2
  <2>4. last_log_id(ls) = <<ls.log[last].term, last>>
    BY <2>1 DEF last_log_id
  <2> HIDE DEF last
  <2> QED
    BY <2>3, <2>4 DEF index
<1> QED
  BY <1>1, <1>2, <1>3

-----------------------------------------------------------------------------
(* Parts of the invariant that a step leaves alone. *)

\* The history is about the chosen entries and their states alone.
LEMMA HistoryFrame ==
  ASSUME History, UNCHANGED <<chosen, state_at>>
  PROVE  History'
BY DEF History, TermsOrdered, apply

\* The jobs lead on while neither they nor the state machine change.
LEMMA JobsFrame ==
  ASSUME JobsLead, UNCHANGED <<chosen, state_at, known, sm, jobs, worker>>
  PROVE  JobsLead'
BY DEF JobsLead, TargetsOrdered, GoodJob, Committed, target, origin, id_of, applied, index

\* The snapshots stay behind while neither they nor the state machine change.
LEMMA SnapshotsFrame ==
  ASSUME SnapshotsBehind, UNCHANGED <<chosen, state_at, sm, current_snapshot, builder, worker>>
  PROVE  SnapshotsBehind'
BY DEF SnapshotsBehind, Committed, applied, index

\* The log is kept while neither it nor what covers its purged part changes.
LEMMA LogFrame ==
  ASSUME LogKept, UNCHANGED <<chosen, log_storage, known, current_snapshot, jobs>>
  PROVE  LogKept'
BY DEF LogKept, purged, restorable, id_of, applied, index

\* A job handed to the worker.
LEMMA JobType ==
  ASSUME TypeOK, NEW j \in 1 .. Len(jobs)
  PROVE  /\ jobs[j] \in Job
         /\ jobs[j].type \in {"apply", "install"}
         /\ jobs[j].type = "apply" => jobs[j].log_id \in LogId /\ jobs[j].payload \in Payload
         /\ jobs[j].type = "install" => jobs[j].snapshot \in StateMachineData
         /\ target(jobs[j]) \in 0 .. MaxIndex
<1>1. jobs[j] \in Job
  BY DEF TypeOK
<1>2. /\ jobs[j].type \in {"apply", "install"}
      /\ jobs[j].type = "apply" => jobs[j].log_id \in LogId /\ jobs[j].payload \in Payload
      /\ jobs[j].type = "install" => jobs[j].snapshot \in StateMachineData
  BY <1>1 DEF Job
<1>3. target(jobs[j]) \in 0 .. MaxIndex
  BY <1>2, AppliedType DEF target, index, LogId
<1> QED
  BY <1>1, <1>2, <1>3

-----------------------------------------------------------------------------
(* The initial states. *)

\* A node with empty storage satisfies the invariant.
LEMMA IInvInit == Init => IInv
<1> SUFFICES ASSUME Init PROVE IInv
  OBVIOUS
<1> USE StorageAssumption
<1>1. None \in LogId
  BY DEF None, LogId
<1>2. <<>> \in UNION {[js -> Entry] : js \in SUBSET Index}
  <2>1. <<>> \in [{} -> Entry] /\ {} \in SUBSET Index
    OBVIOUS
  <2> QED
    BY <2>1
<1>3. TypeOK
  <2>1. log_storage \in LogStorageInner
    <3> DEFINE logs == UNION {[js -> Entry] : js \in SUBSET Index}
    <3>1. LogStorageInner = [last_purged_log_id : LogId, log : logs, committed : LogId,
                             vote : 0 .. MaxTerm, panic : BOOLEAN]
      BY DEF LogStorageInner
    <3>2. <<>> \in logs
      BY <1>2
    <3> HIDE DEF logs
    <3> QED
      BY <1>1, <3>1, <3>2 DEF Init
  <2>2. /\ chosen \in Seq(Entry) /\ state_at \in Seq(StateMachineData) /\ known \in 0 .. MaxIndex
        /\ sm \in StateMachineData /\ jobs \in Seq(Job)
        /\ worker \in {"idle", "locking", "writing"}
        /\ builder \in [stage : {"idle"}] \cup [stage : {"locking", "writing"}, copy : StateMachineData]
    BY DefaultType DEF Init
  <2>3. current_snapshot \subseteq StateMachineData /\ Cardinality(current_snapshot) <= 1
    BY FS_EmptySet DEF Init
  <2> QED
    BY <2>1, <2>2, <2>3 DEF TypeOK
<1>4. applied(default) = 0
  BY DEF applied, default, index, None
<1>5. History
  BY DEF Init, History, TermsOrdered
<1>6. JobsLead
  BY <1>4 DEF Init, JobsLead, TargetsOrdered
<1>7. SnapshotsBehind
  BY <1>4 DEF Init, SnapshotsBehind, Committed
<1>8. LogKept
  <2>1. purged = 0
    BY DEF Init, purged, index, None
  <2>2. DOMAIN log_storage.log = 1 .. 0 /\ known = 0
    BY DEF Init
  <2> QED
    BY <2>1, <2>2 DEF Init, LogKept, id_of
<1> QED
  BY <1>3, <1>5, <1>6, <1>7, <1>8 DEF IInv

-----------------------------------------------------------------------------
(* The cluster commits an entry. *)

\* A newly committed entry changes nothing about the states before it.
LEMMA ChooseStep ==
  ASSUME IInv, NEW e \in Entry, choose_entry(e)
  PROVE  IInv'
<1> USE StorageAssumption
<1> DEFINE n == Len(chosen)
           next == apply(state_at[n + 1], <<e.term, n + 1>>, e.payload)
<1>1. TypeOK /\ History /\ JobsLead /\ SnapshotsBehind /\ LogKept
  BY DEF IInv
<1>2. n \in Nat /\ n < MaxIndex /\ chosen \in Seq(Entry) /\ state_at \in Seq(StateMachineData)
  BY <1>1 DEF TypeOK, choose_entry
<1>3. Len(state_at) = n + 1
  BY <1>1 DEF History
<1>4. chosen' = Append(chosen, e) /\ state_at' = Append(state_at, next)
  BY DEF choose_entry
<1>5. next \in StateMachineData
  <2>1. state_at[n + 1] \in StateMachineData
    BY <1>2, <1>3
  <2>2. <<e.term, n + 1>> \in LogId /\ e.payload \in Payload
    BY <1>2 DEF Entry, LogId
  <2> QED
    BY <2>1, <2>2, ApplyType
<1> HIDE DEF next
<1>6. /\ Len(chosen') = n + 1 /\ Len(state_at') = n + 2
      /\ \A k \in 1 .. n : chosen'[k] = chosen[k]
      /\ \A k \in 1 .. n + 1 : state_at'[k] = state_at[k]
      /\ chosen'[n + 1] = e /\ state_at'[n + 2] = next
      /\ chosen' \in Seq(Entry) /\ state_at' \in Seq(StateMachineData)
  BY <1>2, <1>3, <1>4, <1>5
<1>7. /\ UNCHANGED <<log_storage, known, sm, current_snapshot, jobs, worker, builder>>
      /\ e.term >= term(id_of(n))
  BY DEF choose_entry, log_vars
<1>8. TypeOK'
  BY <1>1, <1>6, <1>7 DEF TypeOK
<1>9. History'
  <2>1. \A k \in 1 .. n + 1 :
          state_at'[k + 1] = apply(state_at'[k], <<chosen'[k].term, k>>, chosen'[k].payload)
    <3> SUFFICES ASSUME NEW k \in 1 .. n + 1
                 PROVE  state_at'[k + 1] = apply(state_at'[k], <<chosen'[k].term, k>>, chosen'[k].payload)
      OBVIOUS
    <3>1. CASE k = n + 1
      <4>1. k + 1 = n + 2 /\ n + 1 \in 1 .. n + 1
        BY <1>2, <3>1
      <4>2. state_at'[k + 1] = next /\ state_at'[k] = state_at[n + 1] /\ chosen'[k] = e
        BY <1>6, <3>1, <4>1
      <4>3. next = apply(state_at[n + 1], <<e.term, k>>, e.payload)
        BY <3>1 DEF next
      <4> QED
        BY <4>2, <4>3
    <3>2. CASE k \in 1 .. n
      <4>1. k \in 1 .. n + 1 /\ k + 1 \in 1 .. n + 1
        BY <1>2, <3>2
      <4>2. state_at[k + 1] = apply(state_at[k], <<chosen[k].term, k>>, chosen[k].payload)
        BY <1>1, <3>2 DEF History
      <4>3. state_at'[k + 1] = state_at[k + 1] /\ state_at'[k] = state_at[k] /\ chosen'[k] = chosen[k]
        BY <1>6, <3>2, <4>1
      <4> QED
        BY <4>2, <4>3
    <3> QED
      BY <1>2, <3>1, <3>2
  <2>2. \A i, j \in 1 .. n + 1 : i <= j => chosen'[i].term <= chosen'[j].term
    <3> SUFFICES ASSUME NEW i \in 1 .. n + 1, NEW j \in 1 .. n + 1, i <= j
                 PROVE  chosen'[i].term <= chosen'[j].term
      OBVIOUS
    <3>1. CASE j \in 1 .. n
      <4>1. i \in 1 .. n /\ chosen[i].term <= chosen[j].term
        BY <1>1, <1>2, <3>1 DEF History, TermsOrdered
      <4> QED
        BY <1>6, <3>1, <4>1
    <3>2. CASE i = n + 1
      <4>1. j = n + 1 /\ e.term \in Int
        BY <1>2, <3>2 DEF Entry
      <4>2. chosen'[i] = e /\ chosen'[j] = e
        BY <1>6, <3>2, <4>1
      <4> QED
        BY <4>1, <4>2
    <3>3. CASE i \in 1 .. n /\ j = n + 1
      <4>1. chosen[i].term <= chosen[n].term /\ n # 0
        BY <1>1, <1>2, <3>3 DEF History, TermsOrdered
      <4>2. chosen[n].term <= e.term
        BY <1>7, <4>1 DEF id_of, term
      <4>3. chosen[i] \in Entry /\ chosen[n] \in Entry
        BY <1>2, <3>3, <4>1
      <4>4. chosen[i].term \in Int /\ chosen[n].term \in Int /\ e.term \in Int
        BY <4>3 DEF Entry
      <4> QED
        BY <1>6, <3>3, <4>1, <4>2, <4>4
    <3> QED
      BY <1>2, <3>1, <3>2, <3>3
  <2>3. state_at'[1] = default
    BY <1>1, <1>2, <1>6 DEF History
  <2>4. Len(state_at') = Len(chosen') + 1 /\ Len(chosen') <= MaxIndex /\ Len(chosen') = n + 1
    BY <1>2, <1>6
  <2> HIDE DEF n
  <2> QED
    BY <2>1, <2>2, <2>3, <2>4 DEF History, TermsOrdered
<1>10. \A s \in StateMachineData : Committed(s) => Committed(s)'
  <2> SUFFICES ASSUME NEW s \in StateMachineData, Committed(s)
               PROVE  applied(s) <= Len(chosen') /\ s = state_at'[applied(s) + 1]
    BY DEF Committed, applied, index
  <2>1. applied(s) \in Nat /\ applied(s) <= n /\ s = state_at[applied(s) + 1]
    BY AppliedType DEF Committed
  <2>2. applied(s) + 1 \in 1 .. n + 1 /\ applied(s) <= n + 1
    BY <1>2, <2>1
  <2> QED
    BY <1>6, <2>1, <2>2
<1>11. JobsLead'
  <2>1. \A j \in 1 .. Len(jobs) : GoodJob(j)'
    <3> SUFFICES ASSUME NEW j \in 1 .. Len(jobs) PROVE GoodJob(j)'
      OBVIOUS
    <3>1. GoodJob(j)
      BY <1>1 DEF JobsLead
    <3>2. target(jobs[j])' = target(jobs[j]) /\ origin(j)' = origin(j)
      BY <1>7 DEF target, origin, applied, index
    <3>3. target(jobs[j]) \in 0 .. n
      BY <1>1, <1>2, <3>1, JobType DEF GoodJob
    <3>4. jobs[j].type = "apply" => target(jobs[j]) \in 1 .. n
      <4>1. origin(j) \in Nat
        <5>1. CASE j = 1
          BY <1>1, <5>1, AppliedType DEF TypeOK, origin
        <5>2. CASE j # 1
          <6>1. j - 1 \in 1 .. Len(jobs)
            BY <1>1, <5>2 DEF TypeOK
          <6> QED
            BY <1>1, <5>2, <6>1, JobType DEF origin
        <5> QED
          BY <5>1, <5>2
      <4> QED
        BY <3>1, <3>3, <4>1 DEF GoodJob
    <3>5. jobs[j].type = "install" => Committed(jobs[j].snapshot)'
      <4>1. jobs[j].type = "install" => jobs[j].snapshot \in StateMachineData /\ Committed(jobs[j].snapshot)
        BY <1>1, <3>1, JobType DEF GoodJob
      <4> QED
        BY <1>7, <1>10, <4>1 DEF Committed, applied, index
    <3>6. jobs[j].type = "apply" =>
            /\ jobs[j].log_id = id_of(target(jobs[j]))'
            /\ jobs[j].payload = chosen'[target(jobs[j])].payload
      <4>1. jobs[j].type = "apply" => id_of(target(jobs[j]))' = id_of(target(jobs[j]))
        BY <1>2, <1>6, <3>2, <3>4 DEF id_of
      <4> QED
        BY <1>2, <1>6, <3>1, <3>4, <4>1 DEF GoodJob
    <3> QED
      BY <1>2, <1>6, <1>7, <3>1, <3>2, <3>3, <3>5, <3>6 DEF GoodJob
  <2>2. known \in Nat
    BY <1>1 DEF TypeOK
  <2> QED
    BY <1>1, <1>2, <1>6, <1>7, <2>1, <2>2 DEF JobsLead, TargetsOrdered, target, applied, index
<1>12. SnapshotsBehind'
  <2>1. builder.stage # "idle" => builder.copy \in StateMachineData
    BY <1>1 DEF TypeOK
  <2>2. sm \in StateMachineData /\ current_snapshot \subseteq StateMachineData
    BY <1>1 DEF TypeOK
  <2>3. Committed(sm)' /\ \A s \in current_snapshot : Committed(s)'
    BY <1>1, <1>7, <1>10, <2>2 DEF SnapshotsBehind, Committed, applied, index
  <2>4. builder.stage # "idle" => Committed(builder.copy)'
    BY <1>1, <1>7, <1>10, <2>1 DEF SnapshotsBehind, Committed, applied, index
  <2> QED
    BY <1>1, <1>7, <2>3, <2>4 DEF SnapshotsBehind, applied, index
<1>13. LogKept'
  <2>1. purged' = purged /\ known' = known /\ restorable' = restorable
    BY <1>7 DEF purged, restorable
  <2>2. purged \in 0 .. n /\ known \in 0 .. n
    BY <1>1 DEF LogKept, JobsLead, TypeOK, LogStorageInner, LogId, purged, index
  <2>3. id_of(purged)' = id_of(purged)
    BY <1>6, <2>1, <2>2 DEF id_of
  <2>4. \A i \in purged + 1 .. known : chosen'[i] = chosen[i]
    BY <1>6, <2>2
  <2> QED
    BY <1>1, <1>7, <2>1, <2>3, <2>4 DEF LogKept, applied, index
<1> QED
  BY <1>8, <1>9, <1>11, <1>12, <1>13 DEF IInv

-----------------------------------------------------------------------------
(* openraft's core task. *)

\* A step that changes the log alone.
LEMMA LogStep ==
  ASSUME IInv, log_storage' \in LogStorageInner, LogKept',
         UNCHANGED <<chosen, state_at, known, sm, current_snapshot, jobs, worker, builder>>
  PROVE  IInv'
<1>1. TypeOK'
  BY DEF IInv, TypeOK
<1>2. History' /\ JobsLead' /\ SnapshotsBehind'
  BY HistoryFrame, JobsFrame, SnapshotsFrame DEF IInv
<1> QED
  BY <1>1, <1>2 DEF IInv

\* save_vote leaves the log alone.
LEMMA VoteStep ==
  ASSUME IInv, NEW t \in 1 .. MaxTerm, grant_vote(t)
  PROVE  IInv'
<1> USE StorageAssumption
<1>1. log_storage \in LogStorageInner
  BY DEF IInv, TypeOK
<1>2. log_storage' = [log_storage EXCEPT !.vote = t]
  BY DEF grant_vote, save_vote
<1>3. /\ log_storage' \in LogStorageInner
      /\ log_storage'.log = log_storage.log /\ log_storage'.panic = log_storage.panic
      /\ log_storage'.last_purged_log_id = log_storage.last_purged_log_id
  BY <1>1, <1>2 DEF LogStorageInner
<1>4. UNCHANGED <<chosen, state_at, known, sm, current_snapshot, jobs, worker, builder>>
  BY DEF grant_vote
<1>5. LogKept'
  BY <1>3, <1>4 DEF IInv, LogKept, purged, restorable, id_of, applied, index
<1> QED
  BY <1>3, <1>4, <1>5, LogStep

\* append continues the log where get_log_state says that it ends.
LEMMA AppendStep ==
  ASSUME IInv, NEW entries \in Batch, append_entries(entries)
  PROVE  IInv'
<1> USE StorageAssumption
<1> DEFINE ls == log_storage
<1>1. TypeOK /\ LogKept /\ ls \in LogStorageInner
  BY DEF IInv, TypeOK
<1>2. PICK l \in Nat : l >= purged /\ DOMAIN ls.log = purged + 1 .. l
  BY <1>1 DEF LogKept
<1>3. purged \in Nat /\ known \in Nat
  BY <1>1 DEF TypeOK, LogStorageInner, LogId, purged, index
<1>4. index(last_log_id(ls)) = l
  BY <1>1, <1>2, LastLogId DEF purged
<1>5. PICK i \in Index, j \in Index : entries \in [i .. j -> Entry]
  BY DEF Batch
<1>6. DOMAIN entries = i .. j /\ i .. j \in SUBSET Index
  BY <1>5 DEF Index
<1>7. Cardinality(DOMAIN entries) \in Nat
  BY DEF Batch
<1> DEFINE c == Cardinality(DOMAIN entries)
<1>8. i .. j = l + 1 .. l + c
  BY <1>4, <1>6 DEF append_entries
<1>9. /\ ls' \in LogStorageInner
      /\ DOMAIN ls'.log = DOMAIN ls.log \cup (i .. j)
      /\ \A k \in DOMAIN ls.log \ (i .. j) : ls'.log[k] = ls.log[k]
      /\ ls'.last_purged_log_id = ls.last_purged_log_id
      /\ ls'.panic = ls.panic
  <2>1. log_storage' = append(log_storage, entries)
    BY DEF append_entries
  <2> DEFINE is == i .. j
  <2>2. is \in SUBSET Index /\ entries \in [is -> Entry] /\ log_storage \in LogStorageInner
    BY <1>1, <1>5, <1>6
  <2> HIDE DEF is
  <2>3. /\ append(log_storage, entries) \in LogStorageInner
        /\ DOMAIN append(log_storage, entries).log = DOMAIN log_storage.log \cup is
        /\ \A k \in DOMAIN log_storage.log \ is :
             append(log_storage, entries).log[k] = log_storage.log[k]
        /\ append(log_storage, entries).last_purged_log_id = log_storage.last_purged_log_id
        /\ append(log_storage, entries).panic = log_storage.panic
    BY <2>2, AppendType
  <2> QED
    BY <2>1, <2>3 DEF is
<1>10. UNCHANGED <<chosen, state_at, known, sm, current_snapshot, jobs, worker, builder>>
  BY DEF append_entries
<1>11. purged' = purged /\ restorable' = restorable /\ id_of(purged)' = id_of(purged)
  BY <1>9, <1>10 DEF purged, restorable, id_of
<1> HIDE DEF c
<1>12. c \in Nat
  BY <1>7 DEF c
<1>13. DOMAIN ls'.log = purged + 1 .. l + c /\ l + c \in Nat /\ l + c >= purged
  <2>1. (purged + 1 .. l) \cup (l + 1 .. l + c) = purged + 1 .. l + c
    BY <1>2, <1>3, <1>12
  <2>2. DOMAIN ls'.log = (purged + 1 .. l) \cup (l + 1 .. l + c)
    BY <1>2, <1>8, <1>9, Zenon
  <2>3. l + c \in Nat /\ l + c >= purged
    BY <1>2, <1>3, <1>12
  <2> QED
    BY <2>1, <2>2, <2>3, Zenon
<1>14. \A k \in purged + 1 .. known : k \in DOMAIN ls'.log /\ ls'.log[k] = chosen[k]
  <2> SUFFICES ASSUME NEW k \in purged + 1 .. known
               PROVE  k \in DOMAIN ls'.log /\ ls'.log[k] = chosen[k]
    OBVIOUS
  <2>1. k \in DOMAIN ls.log /\ ls.log[k] = chosen[k]
    BY <1>1 DEF LogKept
  <2>2. k \notin l + 1 .. l + c
    BY <1>2, <1>3, <1>12, <2>1
  <2> QED
    BY <1>8, <1>9, <2>1, <2>2
<1>15. LogKept'
  BY <1>1, <1>9, <1>10, <1>11, <1>13, <1>14 DEF LogKept, applied, index
<1> QED
  BY <1>9, <1>10, <1>15, LogStep

\* truncate takes out entries that are not committed, and all behind them.
LEMMA TruncateStep ==
  ASSUME IInv, NEW i \in Index, truncate_log(i)
  PROVE  IInv'
<1> USE StorageAssumption
<1> DEFINE ls == log_storage
           out == {k \in Index : k >= i}
<1>1. TypeOK /\ LogKept /\ ls \in LogStorageInner
  BY DEF IInv, TypeOK
<1>2. PICK l \in Nat : l >= purged /\ DOMAIN ls.log = purged + 1 .. l
  BY <1>1 DEF LogKept
<1>3. purged \in Nat /\ known \in Nat /\ i \in Nat
  BY <1>1 DEF TypeOK, LogStorageInner, LogId, purged, index, Index
<1>4. i \in DOMAIN ls.log /\ i > known /\ ls' = without(ls, out)
  BY DEF truncate_log, truncate, index
<1>5. /\ ls' \in LogStorageInner
      /\ DOMAIN ls'.log = DOMAIN ls.log \ out
      /\ \A k \in DOMAIN ls.log \ out : ls'.log[k] = ls.log[k]
      /\ ls'.last_purged_log_id = ls.last_purged_log_id
      /\ ls'.panic = ls.panic
  BY <1>1, <1>4, WithoutType
<1>6. UNCHANGED <<chosen, state_at, known, sm, current_snapshot, jobs, worker, builder>>
  BY DEF truncate_log
<1>7. purged' = purged /\ restorable' = restorable /\ id_of(purged)' = id_of(purged)
  BY <1>5, <1>6 DEF purged, restorable, id_of
<1>8. DOMAIN ls.log \subseteq Index
  BY <1>1, LogType
<1>9. DOMAIN ls'.log = purged + 1 .. i - 1 /\ i - 1 \in Nat /\ i - 1 >= purged
  <2>1. purged + 1 <= i /\ i <= l
    BY <1>2, <1>3, <1>4
  <2>2. \A k \in purged + 1 .. l : k \in out <=> k >= i
    BY <1>2, <1>8
  <2>3. (purged + 1 .. l) \ out = purged + 1 .. i - 1
    <3> HIDE DEF out
    <3> QED
      BY <1>2, <1>3, <2>1, <2>2
  <2> QED
    BY <1>2, <1>3, <1>5, <2>1, <2>3
<1>10. \A k \in purged + 1 .. known : k \in DOMAIN ls'.log /\ ls'.log[k] = chosen[k]
  <2> SUFFICES ASSUME NEW k \in purged + 1 .. known
               PROVE  k \in DOMAIN ls'.log /\ ls'.log[k] = chosen[k]
    OBVIOUS
  <2>1. k \in DOMAIN ls.log /\ ls.log[k] = chosen[k]
    BY <1>1 DEF LogKept
  <2>2. k \notin out
    BY <1>3, <1>4
  <2> QED
    BY <1>5, <2>1, <2>2
<1>11. LogKept'
  BY <1>1, <1>5, <1>6, <1>7, <1>9, <1>10 DEF LogKept, applied, index
<1> QED
  BY <1>5, <1>6, <1>11, LogStep

\* The state machine is not ahead of what openraft knows.
LEMMA NotAhead ==
  ASSUME IInv
  PROVE  applied(sm) <= known
<1>1. TypeOK /\ JobsLead
  BY DEF IInv
<1>2. applied(sm) \in Nat
  BY <1>1, AppliedType DEF TypeOK
<1>3. CASE jobs = <<>>
  BY <1>1, <1>2, <1>3 DEF JobsLead
<1>4. CASE jobs # <<>>
  <2>1. 1 \in 1 .. Len(jobs) /\ Len(jobs) \in 1 .. Len(jobs) /\ 1 <= Len(jobs)
    BY <1>1, <1>4 DEF TypeOK
  <2>2. target(jobs[1]) <= target(jobs[Len(jobs)]) /\ known = target(jobs[Len(jobs)])
    BY <1>1, <1>4, <2>1 DEF JobsLead, TargetsOrdered
  <2>3. target(jobs[1]) \in Nat /\ target(jobs[Len(jobs)]) \in Nat
    BY <1>1, <2>1, JobType
  <2>4. applied(sm) <= target(jobs[1])
    <3>1. GoodJob(1) /\ jobs[1].type \in {"apply", "install"} /\ origin(1) = applied(sm)
      BY <1>1, <2>1, JobType DEF JobsLead, origin
    <3>2. CASE jobs[1].type = "apply"
      BY <1>2, <2>3, <3>1, <3>2 DEF GoodJob
    <3>3. CASE jobs[1].type = "install" /\ worker = "idle"
      BY <1>2, <2>3, <3>1, <3>3 DEF GoodJob
    <3>4. CASE worker # "idle"
      <4>1. sm = jobs[1].snapshot /\ jobs[1].type = "install"
        BY <1>1, <3>4 DEF JobsLead
      <4> QED
        BY <1>2, <4>1 DEF target
    <3> QED
      BY <3>1, <3>2, <3>3, <3>4
  <2> QED
    BY <1>2, <2>2, <2>3, <2>4
<1> QED
  BY <1>3, <1>4

\* What purging up to k leaves of a log without a gap.
LEMMA PurgePrefix ==
  ASSUME NEW ls \in LogStorageInner, NEW p \in Nat, NEW l \in Nat, l >= p,
         DOMAIN ls.log = p + 1 .. l,
         NEW id \in LogId, index(id) >= p
  PROVE  \E m \in Nat : m >= index(id) /\ DOMAIN purge(ls, id).log = index(id) + 1 .. m
<1> DEFINE k == index(id)
<1>1. k \in Nat
  BY DEF LogId, index
<1>2. DOMAIN purge(ls, id).log = {i \in p + 1 .. l : i > k}
  BY PurgeType
<1> HIDE DEF k
<1>3. CASE l >= k
  <2>1. {i \in p + 1 .. l : i > k} = k + 1 .. l
    BY <1>1, <1>3 DEF k
  <2> QED
    BY <1>2, <1>3, <2>1 DEF k
<1>4. CASE l < k
  <2>1. {i \in p + 1 .. l : i > k} = k + 1 .. k
    BY <1>1, <1>4
  <2> QED
    BY <1>1, <1>2, <2>1 DEF k
<1> QED
  BY <1>1, <1>3, <1>4

\* Purging a chosen entry after the purged ones does not assert.
LEMMA PurgeForward ==
  ASSUME IInv, NEW k \in Nat, k <= Len(chosen), purged <= k
  PROVE  precedes(log_storage.last_purged_log_id, id_of(k))
<1>1. TypeOK /\ History /\ LogKept
  BY DEF IInv
<1>2. purged \in 0 .. k
  BY <1>1 DEF TypeOK, LogStorageInner, LogId, purged, index
<1>3. log_storage.last_purged_log_id = id_of(purged)
  BY <1>1 DEF LogKept
<1>4. index(id_of(purged)) = purged /\ index(id_of(k)) = k
  BY <1>1, <1>2, IdType
<1>5. term(id_of(purged)) \in Nat /\ term(id_of(k)) \in Nat
  <2>1. id_of(purged) \in LogId /\ id_of(k) \in LogId
    BY <1>1, <1>2, IdType
  <2> QED
    BY <2>1 DEF LogId, term
<1>6. term(id_of(purged)) <= term(id_of(k))
  <2>1. CASE purged = 0
    BY <1>5, <2>1 DEF id_of, None, term
  <2>2. CASE purged # 0
    BY <1>1, <1>2, <2>2 DEF History, TermsOrdered, id_of, term
  <2> QED
    BY <2>1, <2>2
<1> QED
  BY <1>2, <1>3, <1>4, <1>5, <1>6 DEF precedes

\* purge takes out what the stored snapshot covers.
LEMMA PurgeStep ==
  ASSUME IInv, NEW i \in Index, purge_log(i)
  PROVE  IInv'
<1> USE StorageAssumption
<1>1. TypeOK /\ History /\ JobsLead /\ SnapshotsBehind /\ LogKept /\ log_storage \in LogStorageInner
  BY DEF IInv, TypeOK
<1>2. PICK s \in current_snapshot : i <= applied(s)
  BY DEF purge_log
<1>3. i > purged /\ log_storage' = purge(log_storage, id_of(i))
  BY DEF purge_log, purged
<1>4. UNCHANGED <<chosen, state_at, known, sm, current_snapshot, jobs, worker, builder>>
  BY DEF purge_log
<1>5. purged \in Nat /\ known \in Nat /\ i \in Nat /\ Len(chosen) \in Nat /\ applied(s) \in Nat /\ applied(sm) \in Nat
  BY <1>1, AppliedType DEF TypeOK, LogStorageInner, LogId, purged, index, Index
<1>6. i <= known /\ i <= Len(chosen)
  <2>1. applied(s) <= applied(sm) /\ applied(sm) <= known /\ known <= Len(chosen)
    BY <1>1, NotAhead DEF SnapshotsBehind, JobsLead
  <2> QED
    BY <1>2, <1>5, <2>1
<1>7. id_of(i) \in LogId /\ index(id_of(i)) = i
  BY <1>1, <1>5, <1>6, IdType
<1>8. /\ log_storage' \in LogStorageInner
      /\ DOMAIN log_storage'.log = {k \in DOMAIN log_storage.log : k > i}
      /\ \A k \in DOMAIN log_storage.log : k > i => log_storage'.log[k] = log_storage.log[k]
      /\ log_storage'.last_purged_log_id = id_of(i)
      /\ log_storage'.panic = log_storage.panic
  BY <1>1, <1>3, <1>5, <1>6, <1>7, PurgeType, PurgeForward
<1>9. purged' = i /\ restorable' = restorable /\ id_of(i)' = id_of(i)
  BY <1>4, <1>7, <1>8 DEF purged, restorable, id_of
<1>10. \E m \in Nat : m >= i /\ DOMAIN log_storage'.log = i + 1 .. m
  <2>1. PICK l \in Nat : l >= purged /\ DOMAIN log_storage.log = purged + 1 .. l
    BY <1>1 DEF LogKept
  <2>2. index(id_of(i)) >= purged
    BY <1>3, <1>5, <1>7
  <2>3. \E m \in Nat : m >= index(id_of(i)) /\
          DOMAIN purge(log_storage, id_of(i)).log = index(id_of(i)) + 1 .. m
    BY <1>1, <1>5, <1>7, <2>1, <2>2, PurgePrefix
  <2> QED
    BY <1>3, <1>7, <2>3
<1>11. \A k \in i + 1 .. known : k \in DOMAIN log_storage'.log /\ log_storage'.log[k] = chosen[k]
  <2> SUFFICES ASSUME NEW k \in i + 1 .. known
               PROVE  k \in DOMAIN log_storage'.log /\ log_storage'.log[k] = chosen[k]
    OBVIOUS
  <2>1. k \in purged + 1 .. known /\ k > i
    BY <1>3, <1>5
  <2>2. k \in DOMAIN log_storage.log /\ log_storage.log[k] = chosen[k]
    BY <1>1, <2>1 DEF LogKept
  <2> QED
    BY <1>8, <2>1, <2>2
<1>12. \E r \in restorable : i <= applied(r)
  BY <1>2 DEF restorable
<1>13. LogKept'
  BY <1>1, <1>4, <1>6, <1>8, <1>9, <1>10, <1>11, <1>12 DEF LogKept, applied, index
<1> QED
  BY <1>4, <1>8, <1>13, LogStep

\* A job that leads on from what is known.
LEMMA AppendJob ==
  ASSUME IInv, NEW job \in Job, jobs' = Append(jobs, job), known' = target(job),
         target(job) \in known + 1 .. Len(chosen),
         job.type = "apply" =>
           /\ target(job) = known + 1
           /\ job.log_id = id_of(target(job))
           /\ job.payload = chosen[target(job)].payload,
         job.type = "install" => Committed(job.snapshot),
         UNCHANGED <<chosen, state_at, sm, worker>>
  PROVE  JobsLead'
<1>0. PICK n \in Nat : n = Len(jobs)
  BY DEF IInv, TypeOK
<1>1. /\ TypeOK /\ JobsLead /\ n = Len(jobs) /\ jobs \in Seq(Job)
      /\ known \in Nat /\ Len(chosen) \in Nat
  BY <1>0 DEF IInv, TypeOK
<1>2. /\ Len(jobs') = n + 1 /\ jobs'[n + 1] = job
      /\ \A j \in 1 .. n : jobs'[j] = jobs[j]
  BY <1>1
<1>3. \A j \in 1 .. n : target(jobs[j]) \in Nat /\ target(jobs[j]) <= known
  <2> SUFFICES ASSUME NEW j \in 1 .. n PROVE target(jobs[j]) \in Nat /\ target(jobs[j]) <= known
    OBVIOUS
  <2>1. n \in 1 .. n /\ j <= n /\ jobs # <<>>
    BY <1>1
  <2> QED
    BY <1>1, <2>1, JobType DEF JobsLead, TargetsOrdered
<1>4. \A j \in 1 .. n : GoodJob(j)'
  <2> SUFFICES ASSUME NEW j \in 1 .. n PROVE GoodJob(j)'
    OBVIOUS
  <2>1. GoodJob(j) /\ jobs'[j] = jobs[j] /\ target(jobs[j])' = target(jobs[j])
    BY <1>1, <1>2 DEF JobsLead, target, applied, index
  <2>2. origin(j)' = origin(j)
    <3>1. CASE j = 1
      BY <3>1 DEF origin, applied, index
    <3>2. CASE j # 1
      <4>1. j - 1 \in 1 .. n
        BY <1>1, <3>2
      <4> QED
        BY <1>2, <3>2, <4>1 DEF origin, target, applied, index
    <3> QED
      BY <3>1, <3>2
  <2> QED
    BY <2>1, <2>2 DEF GoodJob, Committed, id_of, applied, index
<1>5. GoodJob(n + 1)'
  <2>1. origin(n + 1)' = known
    <3>1. CASE n = 0
      <4>0. jobs = <<>>
        BY <1>1, <3>1, EmptySeq
      <4>1. jobs = <<>> /\ known = applied(sm)
        BY <1>1, <4>0 DEF JobsLead
      <4> QED
        BY <3>1, <4>1 DEF origin, applied, index
    <3>2. CASE n # 0
      <4>1. n \in 1 .. n /\ n + 1 # 1 /\ (n + 1) - 1 = n /\ jobs # <<>>
        BY <1>1, <3>2
      <4>2. known = target(jobs[n])
        BY <1>1, <4>1 DEF JobsLead
      <4> QED
        BY <1>2, <4>1, <4>2 DEF origin, target, applied, index
    <3> QED
      BY <3>1, <3>2
  <2>2. jobs'[n + 1] = job /\ target(jobs[n + 1])' = target(job)
    BY <1>2 DEF target, applied, index
  <2>3. target(job) > known /\ target(job) <= Len(chosen')
    BY <1>1
  <2> QED
    BY <2>1, <2>2, <2>3 DEF GoodJob, Committed, id_of, applied, index
<1>6. TargetsOrdered'
  <2> SUFFICES ASSUME NEW i \in 1 .. n + 1, NEW j \in 1 .. n + 1, i <= j
               PROVE  target(jobs'[i]) <= target(jobs'[j])
    BY <1>2 DEF TargetsOrdered, target, applied, index
  <2>1. CASE j \in 1 .. n
    <3>1. i \in 1 .. n
      BY <1>1, <2>1
    <3> QED
      BY <1>1, <1>2, <2>1, <3>1 DEF JobsLead, TargetsOrdered
  <2>2. CASE i \in 1 .. n /\ j = n + 1
    BY <1>1, <1>2, <1>3, <2>2
  <2>3. CASE i = n + 1 /\ j = n + 1
    BY <1>1, <1>2, <2>3
  <2> QED
    BY <1>1, <2>1, <2>2, <2>3
<1>7. known' = target(jobs[Len(jobs)])' /\ jobs' # <<>> /\ known' <= Len(chosen')
  BY <1>1, <1>2 DEF target, applied, index
<1>8. worker' # "idle" => jobs'[1].type = "install" /\ sm' = jobs'[1].snapshot
  <2>1. ASSUME worker # "idle" PROVE 1 \in 1 .. n /\ jobs[1].type = "install" /\ sm = jobs[1].snapshot
    BY <1>1, <2>1 DEF JobsLead
  <2> QED
    BY <1>2, <2>1
<1>9. \A j \in 1 .. n + 1 : GoodJob(j)'
  BY <1>1, <1>4, <1>5
<1> QED
  BY <1>2, <1>6, <1>7, <1>8, <1>9 DEF JobsLead

\* An entry that is read back from the log leads on from what was known.
LEMMA CommitStep ==
  ASSUME IInv, commit_entry
  PROVE  IInv'
<1> USE StorageAssumption
<1> DEFINE i == known + 1
           entries == try_get_log_entries(log_storage, {i})
           job == [type |-> "apply", log_id |-> id_of(i), payload |-> entries[i].payload]
<1>1. TypeOK /\ History /\ LogKept /\ log_storage \in LogStorageInner
  BY DEF IInv, TypeOK
<1>2. /\ i <= Len(chosen) /\ i \in DOMAIN entries /\ entries[i] = chosen[i]
      /\ known' = i /\ log_storage' = save_committed(log_storage, id_of(i))
      /\ jobs' = Append(jobs, job)
      /\ UNCHANGED <<chosen, state_at, sm, current_snapshot, worker, builder>>
  BY DEF commit_entry
<1>3. known \in Nat /\ i \in 1 .. Len(chosen) /\ i \in 0 .. Len(chosen)
  BY <1>1, <1>2 DEF TypeOK
<1>4. i \in DOMAIN log_storage.log /\ log_storage.log[i] = chosen[i]
  BY <1>2 DEF try_get_log_entries
<1>5. id_of(i) \in LogId /\ index(id_of(i)) = i
  BY <1>1, <1>3, IdType
<1>6. job \in Job /\ job.type = "apply" /\ job.log_id = id_of(i) /\ job.payload = chosen[i].payload
  <2>1. chosen[i] \in Entry
    BY <1>1, <1>3 DEF TypeOK
  <2> QED
    BY <1>2, <1>5, <2>1 DEF Job, Entry
<1> HIDE DEF job, entries
<1>7. target(job) = i
  BY <1>5, <1>6 DEF target
<1>8. JobsLead'
  <2>1. target(job) \in known + 1 .. Len(chosen)
    BY <1>3, <1>7
  <2> QED
    BY <1>2, <1>6, <1>7, <2>1, AppendJob
<1>9. /\ log_storage' \in LogStorageInner
      /\ log_storage'.log = log_storage.log /\ log_storage'.panic = log_storage.panic
      /\ log_storage'.last_purged_log_id = log_storage.last_purged_log_id
  BY <1>1, <1>2, <1>5 DEF save_committed, LogStorageInner
<1>10. known' \in 0 .. MaxIndex /\ jobs' \in Seq(Job)
  BY <1>1, <1>2, <1>3, <1>6 DEF History, TypeOK
<1>11. TypeOK'
  BY <1>1, <1>2, <1>9, <1>10 DEF TypeOK
<1>12. \A s \in restorable : s \in restorable'
  <2>1. \A j \in 1 .. Len(jobs) : j \in 1 .. Len(jobs') /\ jobs'[j] = jobs[j]
    BY <1>1, <1>2 DEF TypeOK
  <2> QED
    BY <1>2, <2>1 DEF restorable
<1>13. LogKept'
  <2>0. purged' = purged /\ purged \in Nat
    BY <1>1, <1>9 DEF purged, LogStorageInner, LogId, index
  <2>1. purged' = purged /\ id_of(purged)' = id_of(purged) /\ purged \in Nat
    BY <1>2, <2>0 DEF id_of
  <2>2. \A k \in purged + 1 .. i : k \in DOMAIN log_storage.log /\ log_storage.log[k] = chosen[k]
    <3> SUFFICES ASSUME NEW k \in purged + 1 .. i
                 PROVE  k \in DOMAIN log_storage.log /\ log_storage.log[k] = chosen[k]
      OBVIOUS
    <3>1. k = i \/ k \in purged + 1 .. known
      BY <1>3, <2>1
    <3> QED
      BY <1>1, <1>4, <3>1 DEF LogKept
  <2>3. purged <= i
    BY <1>1, <1>3, <2>1 DEF LogKept
  <2>4. purged = 0 \/ \E s \in restorable' : purged <= applied(s)
    BY <1>1, <1>12 DEF LogKept
  <2> QED
    BY <1>1, <1>2, <1>9, <2>1, <2>2, <2>3, <2>4 DEF LogKept, applied, index
<1> QED
  BY <1>1, <1>2, <1>8, <1>11, <1>13, HistoryFrame, SnapshotsFrame DEF IInv

\* A snapshot of the leader replaces what is purged for it.
LEMMA ReceiveStep ==
  ASSUME IInv, NEW k \in Index, receive_snapshot(k)
  PROVE  IInv'
<1> USE StorageAssumption
<1> DEFINE id == id_of(k)
           conflicts == k \in DOMAIN log_storage.log /\ log_storage.log[k].term # term(id)
           cut == IF conflicts THEN truncate(log_storage, id) ELSE log_storage
           job == [type |-> "install", snapshot |-> state_at[k + 1]]
<1>1. TypeOK /\ History /\ JobsLead /\ LogKept /\ log_storage \in LogStorageInner
  BY DEF IInv, TypeOK
<1>2. /\ k \in known + 1 .. Len(chosen) /\ known' = k /\ log_storage' = purge(cut, id)
      /\ jobs' = Append(jobs, job)
      /\ UNCHANGED <<chosen, state_at, sm, current_snapshot, worker, builder>>
  BY DEF receive_snapshot
<1>3. /\ known \in Nat /\ purged \in Nat /\ k \in Nat /\ k > known /\ k >= purged
      /\ k \in 0 .. Len(chosen)
  BY <1>1, <1>2 DEF TypeOK, LogKept, LogStorageInner, LogId, purged, index, Index
<1>4. id \in LogId /\ index(id) = k
  BY <1>1, <1>3, IdType
<1>5. /\ state_at[k + 1] \in StateMachineData /\ applied(state_at[k + 1]) = k
      /\ Committed(state_at[k + 1])
  BY <1>1, <1>3, StateAt
<1>6. /\ job \in Job /\ job.type = "install" /\ job.snapshot = state_at[k + 1]
      /\ target(job) = k
  BY <1>5 DEF Job, target
<1> HIDE DEF job, id
<1>7. JobsLead'
  BY <1>2, <1>5, <1>6, AppendJob
<1>8. PICK l \in Nat : /\ cut \in LogStorageInner /\ l >= purged /\ DOMAIN cut.log = purged + 1 .. l
                        /\ cut.last_purged_log_id = log_storage.last_purged_log_id
                        /\ cut.panic = log_storage.panic
  <2>1. PICK l \in Nat : l >= purged /\ DOMAIN log_storage.log = purged + 1 .. l
    BY <1>1 DEF LogKept
  <2>2. CASE ~conflicts
    BY <1>1, <2>1, <2>2
  <2>3. CASE conflicts
    <3> DEFINE out == {i \in Index : i >= k}
    <3>1. cut = without(log_storage, out)
      BY <1>4, <2>3 DEF truncate
    <3>2. /\ without(log_storage, out) \in LogStorageInner
          /\ DOMAIN without(log_storage, out).log = (purged + 1 .. l) \ out
          /\ without(log_storage, out).last_purged_log_id = log_storage.last_purged_log_id
          /\ without(log_storage, out).panic = log_storage.panic
      <4> HIDE DEF out, cut
      <4> QED
        BY <1>1, <2>1, WithoutType
    <3>3. purged + 1 <= k /\ k <= l
      BY <1>3, <2>1, <2>3
    <3>4. \A i \in purged + 1 .. l : i \in out <=> i >= k
      BY <1>1, <2>1, LogType
    <3> HIDE DEF out, cut
    <3>5. (purged + 1 .. l) \ out = purged + 1 .. k - 1 /\ k - 1 \in Nat /\ k - 1 >= purged
      BY <1>3, <2>1, <3>3, <3>4
    <3> QED
      BY <3>1, <3>2, <3>5
  <2> QED
    BY <2>2, <2>3
<1> HIDE DEF cut
<1>9. precedes(cut.last_purged_log_id, id)
  BY <1>2, <1>3, <1>8, PurgeForward DEF id
<1>10. /\ log_storage' \in LogStorageInner
       /\ log_storage'.last_purged_log_id = id
       /\ log_storage'.panic = log_storage.panic
  BY <1>2, <1>4, <1>8, <1>9, PurgeType
<1>11. \E m \in Nat : m >= k /\ DOMAIN log_storage'.log = k + 1 .. m
  <2>1. \E m \in Nat : m >= index(id) /\ DOMAIN purge(cut, id).log = index(id) + 1 .. m
    BY <1>3, <1>4, <1>8, PurgePrefix
  <2> QED
    BY <1>2, <1>4, <2>1
<1>12. known' \in 0 .. MaxIndex /\ jobs' \in Seq(Job)
  BY <1>1, <1>2, <1>3, <1>6 DEF History, TypeOK
<1>13. TypeOK'
  BY <1>1, <1>2, <1>10, <1>12 DEF TypeOK
<1>14. state_at[k + 1] \in restorable'
  <2>1. /\ Len(jobs) + 1 \in 1 .. Len(jobs') /\ jobs'[Len(jobs) + 1] = job
    BY <1>1, <1>2 DEF TypeOK
  <2> QED
    BY <1>6, <2>1 DEF restorable
<1>15. LogKept'
  <2>1. purged' = k
    BY <1>4, <1>10 DEF purged
  <2>2. id_of(k)' = id
    BY <1>2 DEF id_of, id
  <2>3. \A i \in k + 1 .. k : FALSE
    BY <1>3
  <2>4. ~log_storage'.panic
    BY <1>1, <1>10 DEF LogKept
  <2>5. \E s \in restorable' : k <= applied(s)
    BY <1>3, <1>5, <1>14
  <2>6. log_storage'.last_purged_log_id = id_of(purged)'
    BY <1>10, <2>1, <2>2 DEF id_of
  <2> QED
    BY <1>2, <1>3, <1>11, <2>1, <2>3, <2>4, <2>5, <2>6 DEF LogKept, applied, index
<1> QED
  BY <1>1, <1>2, <1>7, <1>13, <1>15, HistoryFrame, SnapshotsFrame DEF IInv

-----------------------------------------------------------------------------
(* openraft's state machine worker. *)

\* The first job is done and taken out; the state machine is where it leads to.
LEMMA TailJobs ==
  ASSUME IInv, jobs # <<>>, jobs' = Tail(jobs), applied(sm') = target(jobs[1]),
         worker' = "idle", UNCHANGED <<chosen, state_at, known>>
  PROVE  JobsLead' /\ jobs' \in Seq(Job)
<1>0. PICK n \in Nat : n = Len(jobs)
  BY DEF IInv, TypeOK
<1>1. TypeOK /\ JobsLead /\ n = Len(jobs) /\ jobs \in Seq(Job) /\ n >= 1
  BY <1>0, EmptySeq DEF IInv, TypeOK
<1>2. /\ Len(jobs') = n - 1 /\ jobs' \in Seq(Job)
      /\ \A j \in 1 .. n - 1 : jobs'[j] = jobs[j + 1]
  BY <1>1
<1>3. TargetsOrdered'
  <2> SUFFICES ASSUME NEW i \in 1 .. n - 1, NEW j \in 1 .. n - 1, i <= j
               PROVE  target(jobs'[i]) <= target(jobs'[j])
    BY <1>2 DEF TargetsOrdered, target, applied, index
  <2>1. i + 1 \in 1 .. n /\ j + 1 \in 1 .. n /\ i + 1 <= j + 1
    BY <1>1
  <2> QED
    BY <1>1, <1>2, <2>1 DEF JobsLead, TargetsOrdered
<1>4. \A j \in 1 .. n - 1 : GoodJob(j)'
  <2> SUFFICES ASSUME NEW j \in 1 .. n - 1 PROVE GoodJob(j)'
    OBVIOUS
  <2>1. j + 1 \in 1 .. n /\ j + 1 # 1 /\ (j + 1) - 1 = j
    BY <1>1
  <2>2. GoodJob(j + 1) /\ jobs'[j] = jobs[j + 1] /\ target(jobs[j])' = target(jobs[j + 1])
    BY <1>1, <1>2, <2>1 DEF JobsLead, target, applied, index
  <2>3. origin(j)' = origin(j + 1)
    <3>1. origin(j + 1) = target(jobs[j])
      BY <2>1 DEF origin
    <3>2. CASE j = 1
      BY <3>1, <3>2 DEF origin, applied, index
    <3>3. CASE j # 1
      <4>1. j - 1 \in 1 .. n - 1 /\ (j - 1) + 1 = j
        BY <1>1, <3>3
      <4> QED
        BY <1>2, <3>1, <3>3, <4>1 DEF origin, target, applied, index
    <3> QED
      BY <3>2, <3>3
  <2> QED
    BY <2>1, <2>2, <2>3 DEF GoodJob, Committed, id_of, applied, index
<1>5. known' = IF jobs' = <<>> THEN applied(sm') ELSE target(jobs'[n - 1])
  <2>1. known = target(jobs[n])
    BY <1>1 DEF JobsLead
  <2>2. CASE n = 1
    BY <1>1, <1>2, <2>1, <2>2, EmptySeq
  <2>3. CASE n # 1
    <3>0. n - 1 \in 1 .. n - 1 /\ (n - 1) + 1 = n /\ n - 1 # 0
      BY <1>1, <2>3
    <3>1. n - 1 \in 1 .. n - 1 /\ (n - 1) + 1 = n /\ jobs' # <<>>
      BY <1>2, <3>0, EmptySeq
    <3> QED
      BY <1>2, <2>1, <3>1
  <2> QED
    BY <2>2, <2>3
<1>6. known' <= Len(chosen')
  BY <1>1 DEF JobsLead
<1> QED
  BY <1>2, <1>3, <1>4, <1>5, <1>6 DEF JobsLead, target, applied, index

\* Applying the first entry leads to the next state of the history.
LEMMA ApplyStep ==
  ASSUME IInv, apply_job
  PROVE  IInv'
<1> USE StorageAssumption
<1> DEFINE job == Head(jobs)
<1>1. TypeOK /\ History /\ JobsLead /\ SnapshotsBehind /\ LogKept
  BY DEF IInv
<1>2. /\ jobs # <<>> /\ job.type = "apply" /\ builder.stage # "locking"
      /\ sm' = apply(sm, job.log_id, job.payload) /\ jobs' = Tail(jobs)
      /\ UNCHANGED <<chosen, state_at, log_storage, known, current_snapshot, worker, builder>>
  BY DEF apply_job, next_job, sm_read_locked, log_vars
<1>3. 1 \in 1 .. Len(jobs) /\ job = jobs[1]
  BY <1>1, <1>2 DEF TypeOK
<1>4. job.log_id \in LogId /\ job.payload \in Payload /\ sm \in StateMachineData /\ applied(sm) \in Nat
  BY <1>1, <1>2, <1>3, JobType, AppliedType DEF TypeOK
<1>5. PICK k \in Nat : k = applied(sm)
  BY <1>4
<1>6. /\ k + 1 <= Len(chosen) /\ target(job) = k + 1 /\ job.log_id = id_of(k + 1)
      /\ job.payload = chosen[k + 1].payload
  BY <1>1, <1>2, <1>3, <1>5 DEF JobsLead, GoodJob, origin
<1>7. sm' \in StateMachineData /\ applied(sm') = target(job)
  BY <1>2, <1>4, ApplyType DEF applied, target
<1>8. sm' = state_at[k + 2]
  <2>1. sm = state_at[k + 1]
    BY <1>1, <1>5 DEF SnapshotsBehind, Committed
  <2>2. k + 1 \in 1 .. Len(chosen) /\ (k + 1) + 1 = k + 2 /\ k + 1 # 0
    BY <1>1, <1>5, <1>6 DEF TypeOK
  <2>3. state_at[k + 2] = apply(state_at[k + 1], <<chosen[k + 1].term, k + 1>>, chosen[k + 1].payload)
    BY <1>1, <2>2 DEF History
  <2>4. job.log_id = <<chosen[k + 1].term, k + 1>>
    BY <1>6, <2>2 DEF id_of
  <2> QED
    BY <1>2, <1>6, <2>1, <2>3, <2>4
<1> HIDE DEF job
<1>9. worker = "idle"
  BY <1>1, <1>2, <1>3 DEF JobsLead
<1>10. JobsLead' /\ jobs' \in Seq(Job)
  BY <1>2, <1>3, <1>7, <1>9, TailJobs
<1>11. TypeOK'
  BY <1>1, <1>2, <1>7, <1>10 DEF TypeOK
<1>12. SnapshotsBehind'
  <2>1. applied(sm)' = k + 1
    BY <1>6, <1>7 DEF applied, index
  <2>2. Committed(sm)'
    BY <1>2, <1>5, <1>6, <1>8, <2>1 DEF Committed
  <2>3. \A s \in current_snapshot : Committed(s) /\ applied(s) <= k + 1
    <3> SUFFICES ASSUME NEW s \in current_snapshot PROVE Committed(s) /\ applied(s) <= k + 1
      OBVIOUS
    <3>1. applied(s) \in Nat
      BY <1>1, AppliedType DEF TypeOK
    <3> QED
      BY <1>1, <1>5, <3>1 DEF SnapshotsBehind
  <2>4. builder.stage # "idle" =>
          /\ Committed(builder.copy) /\ applied(builder.copy) <= k + 1
          /\ \A s \in current_snapshot : applied(s) <= applied(builder.copy)
    <3> SUFFICES ASSUME builder.stage # "idle"
                 PROVE  /\ Committed(builder.copy) /\ applied(builder.copy) <= k + 1
                        /\ \A s \in current_snapshot : applied(s) <= applied(builder.copy)
      OBVIOUS
    <3>1. builder.copy \in StateMachineData
      BY <1>1 DEF TypeOK
    <3>2. applied(builder.copy) \in Nat
      BY <3>1, AppliedType
    <3> QED
      BY <1>1, <1>5, <3>2 DEF SnapshotsBehind
  <2> QED
    BY <1>1, <1>2, <1>9, <2>1, <2>2, <2>3, <2>4 DEF SnapshotsBehind, Committed, applied, index
<1>13. LogKept'
  <2>1. restorable' = restorable
    <3>1. /\ jobs \in Seq(Job) /\ Len(jobs) \in Nat /\ Len(jobs) >= 1
      BY <1>1, <1>3 DEF TypeOK
    <3>2. /\ Len(jobs') = Len(jobs) - 1
          /\ \A j \in 1 .. Len(jobs) - 1 : jobs'[j] = jobs[j + 1]
      BY <1>2, <3>1
    <3> DEFINE installs == {j \in 1 .. Len(jobs) : jobs[j].type = "install"}
    <3>3. \A j \in installs : j - 1 \in 1 .. Len(jobs') /\ jobs'[j - 1] = jobs[j]
      <4> SUFFICES ASSUME NEW j \in installs
                   PROVE  j - 1 \in 1 .. Len(jobs') /\ jobs'[j - 1] = jobs[j]
        OBVIOUS
      <4>1. j # 1
        BY <1>2, <1>3
      <4>2. j - 1 \in 1 .. Len(jobs) - 1 /\ (j - 1) + 1 = j
        BY <3>1, <4>1
      <4> QED
        BY <3>2, <4>2
    <3>4. \A j \in 1 .. Len(jobs') : j + 1 \in 1 .. Len(jobs) /\ jobs'[j] = jobs[j + 1]
      BY <3>1, <3>2
    <3>5. ASSUME NEW x \in restorable PROVE x \in restorable'
      <4>1. CASE x \in current_snapshot
        BY <1>2, <4>1 DEF restorable
      <4>2. CASE x \notin current_snapshot
        <5>1. PICK j \in installs : x = jobs[j].snapshot
          BY <3>5, <4>2 DEF restorable
        <5>2. jobs'[j - 1].type = "install" /\ x = jobs'[j - 1].snapshot /\ j - 1 \in 1 .. Len(jobs')
          BY <3>3, <5>1
        <5> QED
          BY <5>2 DEF restorable
      <4> QED
        BY <4>1, <4>2
    <3>6. ASSUME NEW x \in restorable' PROVE x \in restorable
      <4>1. CASE x \in current_snapshot
        BY <4>1 DEF restorable
      <4>2. CASE x \notin current_snapshot
        <5>1. PICK j \in 1 .. Len(jobs') : jobs'[j].type = "install" /\ x = jobs'[j].snapshot
          BY <1>2, <3>6, <4>2 DEF restorable
        <5>2. jobs[j + 1].type = "install" /\ x = jobs[j + 1].snapshot /\ j + 1 \in 1 .. Len(jobs)
          BY <3>4, <5>1
        <5> QED
          BY <5>2 DEF restorable
      <4> QED
        BY <4>1, <4>2
    <3> QED
      BY <3>5, <3>6
  <2> QED
    BY <1>1, <1>2, <2>1 DEF LogKept, purged, id_of, applied, index
<1> QED
  BY <1>1, <1>2, <1>10, <1>11, <1>12, <1>13, HistoryFrame DEF IInv

\* install_snapshot leads to a later state of the history.
LEMMA InstallStep ==
  ASSUME IInv, install_state_machine
  PROVE  IInv'
<1> USE StorageAssumption
<1>1. TypeOK /\ History /\ JobsLead /\ SnapshotsBehind /\ LogKept
  BY DEF IInv
<1>2. /\ jobs # <<>> /\ Head(jobs).type = "install" /\ worker = "idle"
      /\ builder.stage # "locking"
      /\ sm' = Head(jobs).snapshot /\ worker' = "locking"
      /\ UNCHANGED <<chosen, state_at, log_storage, known, current_snapshot, jobs, builder>>
  BY DEF install_state_machine, next_job, sm_read_locked, log_vars
<1>3. 1 \in 1 .. Len(jobs) /\ Head(jobs) = jobs[1]
  BY <1>1, <1>2 DEF TypeOK
<1>4. sm' \in StateMachineData /\ sm \in StateMachineData
  BY <1>1, <1>2, <1>3, JobType DEF TypeOK
<1>5. /\ applied(sm') = target(jobs[1]) /\ applied(sm) < applied(sm')
      /\ Committed(jobs[1].snapshot)
  BY <1>1, <1>2, <1>3 DEF JobsLead, GoodJob, origin, target
<1>6. applied(sm) \in Nat /\ applied(sm') \in Nat
  BY <1>4, AppliedType
<1>7. TypeOK'
  BY <1>1, <1>2, <1>4 DEF TypeOK
<1>8. JobsLead'
  <2>1. \A j \in 1 .. Len(jobs) : GoodJob(j)'
    <3> SUFFICES ASSUME NEW j \in 1 .. Len(jobs) PROVE GoodJob(j)'
      OBVIOUS
    <3>1. GoodJob(j) /\ target(jobs[j])' = target(jobs[j])
      BY <1>1, <1>2 DEF JobsLead, target, applied, index
    <3>2. CASE j = 1
      BY <1>2, <1>3, <3>1, <3>2 DEF GoodJob, Committed, applied, index
    <3>3. CASE j # 1
      <4>1. origin(j)' = origin(j)
        BY <1>2, <3>3 DEF origin, target, applied, index
      <4> QED
        BY <1>2, <3>1, <3>3, <4>1 DEF GoodJob, Committed, id_of, applied, index
    <3> QED
      BY <3>2, <3>3
  <2> QED
    BY <1>1, <1>2, <1>3, <2>1 DEF JobsLead, TargetsOrdered, target, applied, index
<1>9. SnapshotsBehind'
  <2>1. applied(sm)' = applied(sm')
    BY DEF applied, index
  <2>2. Committed(sm)'
    BY <1>2, <1>3, <1>5 DEF Committed, applied, index
  <2>3. \A s \in current_snapshot : Committed(s) /\ applied(s) <= applied(sm')
    <3> SUFFICES ASSUME NEW s \in current_snapshot PROVE Committed(s) /\ applied(s) <= applied(sm')
      OBVIOUS
    <3>1. applied(s) \in Nat
      BY <1>1, AppliedType DEF TypeOK
    <3> QED
      BY <1>1, <1>5, <1>6, <3>1 DEF SnapshotsBehind
  <2>4. builder.stage # "idle" =>
          /\ Committed(builder.copy) /\ applied(builder.copy) <= applied(sm')
          /\ \A s \in current_snapshot : applied(s) <= applied(builder.copy)
    <3> SUFFICES ASSUME builder.stage # "idle"
                 PROVE  /\ Committed(builder.copy) /\ applied(builder.copy) <= applied(sm')
                        /\ \A s \in current_snapshot : applied(s) <= applied(builder.copy)
      OBVIOUS
    <3>1. builder.copy \in StateMachineData
      BY <1>1 DEF TypeOK
    <3>2. applied(builder.copy) \in Nat
      BY <3>1, AppliedType
    <3> QED
      BY <1>1, <1>5, <1>6, <3>2 DEF SnapshotsBehind
  <2> QED
    BY <1>1, <1>2, <2>1, <2>2, <2>3, <2>4 DEF SnapshotsBehind, Committed, applied, index
<1> QED
  BY <1>1, <1>2, <1>7, <1>8, <1>9, HistoryFrame, LogFrame DEF IInv

\* The worker gets the lock of the snapshot only when the builder has not.
LEMMA InstallLockStep ==
  ASSUME IInv, install_lock
  PROVE  IInv'
<1>1. /\ worker = "locking" /\ worker' = "writing" /\ builder.stage # "writing"
      /\ UNCHANGED <<chosen, state_at, log_storage, known, sm, current_snapshot, jobs, builder>>
  BY DEF install_lock, snapshot_locked, log_vars
<1>2. TypeOK'
  BY <1>1 DEF IInv, TypeOK
<1>3. JobsLead'
  BY <1>1 DEF IInv, JobsLead, TargetsOrdered, GoodJob, Committed, target, origin, id_of, applied, index
<1>4. SnapshotsBehind'
  BY <1>1 DEF IInv, SnapshotsBehind, Committed, applied, index
<1> QED
  BY <1>1, <1>2, <1>3, <1>4, HistoryFrame, LogFrame DEF IInv

\* The installed snapshot is the state of the state machine.
LEMMA InstallWriteStep ==
  ASSUME IInv, install_write
  PROVE  IInv'
<1> USE StorageAssumption
<1>1. TypeOK /\ History /\ JobsLead /\ SnapshotsBehind /\ LogKept
  BY DEF IInv
<1>2. /\ worker = "writing" /\ worker' = "idle" /\ jobs' = Tail(jobs)
      /\ current_snapshot' = {Head(jobs).snapshot}
      /\ UNCHANGED <<chosen, state_at, log_storage, known, sm, builder>>
  BY DEF install_write, log_vars
<1>3. /\ jobs # <<>> /\ jobs[1].type = "install" /\ sm = jobs[1].snapshot
      /\ Head(jobs) = jobs[1] /\ sm \in StateMachineData /\ 1 \in 1 .. Len(jobs)
  BY <1>1, <1>2 DEF JobsLead, TypeOK
<1>4. current_snapshot' = {sm} /\ applied(sm) \in Nat /\ applied(sm') = target(jobs[1])
  BY <1>2, <1>3, AppliedType DEF target
<1>5. JobsLead' /\ jobs' \in Seq(Job)
  BY <1>2, <1>3, <1>4, TailJobs
<1>6. TypeOK'
  <2>1. Cardinality({sm}) <= 1
    BY FS_Singleton
  <2> QED
    BY <1>1, <1>2, <1>3, <1>4, <1>5, <2>1 DEF TypeOK
<1>7. SnapshotsBehind'
  <2>1. builder.stage # "idle" => builder.stage = "locking" /\ builder.copy = sm
    BY <1>1, <1>2 DEF SnapshotsBehind, TypeOK
  <2>2. Committed(sm) /\ applied(sm) <= applied(sm)
    BY <1>1, <1>4 DEF SnapshotsBehind
  <2> QED
    BY <1>2, <1>4, <2>1, <2>2 DEF SnapshotsBehind, Committed, applied, index
<1>8. LogKept'
  <2>1. purged \in Nat
    BY <1>1 DEF TypeOK, LogStorageInner, LogId, purged, index
  <2>2. purged = 0 \/ \E s \in restorable' : purged <= applied(s)
    <3> SUFFICES ASSUME NEW s \in restorable, purged <= applied(s)
                 PROVE  \E r \in restorable' : purged <= applied(r)
      BY <1>1 DEF LogKept
    <3>1. CASE s \in current_snapshot
      <4>1. applied(s) <= applied(sm) /\ applied(s) \in Nat
        BY <1>1, <3>1, AppliedType DEF SnapshotsBehind, TypeOK
      <4>2. purged <= applied(sm) /\ sm \in restorable'
        BY <1>4, <2>1, <4>1 DEF restorable
      <4> QED
        BY <4>2
    <3>2. CASE s \notin current_snapshot
      <4>1. PICK j \in 1 .. Len(jobs) : jobs[j].type = "install" /\ s = jobs[j].snapshot
        BY <3>2 DEF restorable
      <4>2. CASE j = 1
        <5>1. s \in restorable'
          BY <1>3, <1>4, <4>1, <4>2 DEF restorable
        <5> QED
          BY <5>1
      <4>3. CASE j # 1
        <5>1. j - 1 \in 1 .. Len(jobs') /\ jobs'[j - 1] = jobs[j]
          BY <1>1, <1>2, <1>3, <4>3 DEF TypeOK
        <5>2. s \in restorable'
          BY <4>1, <5>1 DEF restorable
        <5> QED
          BY <5>2
      <4> QED
        BY <4>2, <4>3
    <3> QED
      BY <3>1, <3>2
  <2> QED
    BY <1>1, <1>2, <2>2 DEF LogKept, purged, id_of, applied, index
<1> QED
  BY <1>1, <1>2, <1>5, <1>6, <1>7, <1>8, HistoryFrame DEF IInv

-----------------------------------------------------------------------------
(* The task that builds a snapshot. *)

\* build_snapshot copies the state that the state machine has.
LEMMA BuildCopyStep ==
  ASSUME IInv, build_copy
  PROVE  IInv'
<1>1. TypeOK /\ History /\ JobsLead /\ SnapshotsBehind /\ LogKept
  BY DEF IInv
<1>2. /\ builder' = [stage |-> "locking", copy |-> sm]
      /\ UNCHANGED <<chosen, state_at, log_storage, known, sm, current_snapshot, jobs, worker>>
  BY DEF build_copy, log_vars
<1>3. sm \in StateMachineData /\ applied(sm) \in Nat
  BY <1>1, AppliedType DEF TypeOK
<1>4. TypeOK'
  BY <1>1, <1>2, <1>3 DEF TypeOK
<1>5. SnapshotsBehind'
  BY <1>1, <1>2, <1>3 DEF SnapshotsBehind, Committed, applied, index
<1> QED
  BY <1>1, <1>2, <1>4, <1>5, HistoryFrame, JobsFrame, LogFrame DEF IInv

\* The builder gets the lock of the snapshot only when the worker has not.
LEMMA BuildLockStep ==
  ASSUME IInv, build_lock
  PROVE  IInv'
<1>1. TypeOK /\ History /\ JobsLead /\ SnapshotsBehind /\ LogKept
  BY DEF IInv
<1>2. /\ builder.stage = "locking" /\ worker # "writing"
      /\ builder' = [builder EXCEPT !.stage = "writing"]
      /\ UNCHANGED <<chosen, state_at, log_storage, known, sm, current_snapshot, jobs, worker>>
  BY DEF build_lock, snapshot_locked, log_vars
<1>3. /\ builder' \in [stage : {"locking", "writing"}, copy : StateMachineData]
      /\ builder'.stage = "writing" /\ builder'.copy = builder.copy
  <2>1. builder \in [stage : {"locking", "writing"}, copy : StateMachineData]
    BY <1>1, <1>2 DEF TypeOK
  <2> QED
    BY <1>2, <2>1
<1>4. TypeOK'
  BY <1>1, <1>2, <1>3 DEF TypeOK
<1>5. SnapshotsBehind'
  BY <1>1, <1>2, <1>3 DEF SnapshotsBehind, Committed, applied, index
<1> QED
  BY <1>1, <1>2, <1>4, <1>5, HistoryFrame, JobsFrame, LogFrame DEF IInv

\* The copy is no earlier than the snapshot that it replaces.
LEMMA BuildWriteStep ==
  ASSUME IInv, build_write
  PROVE  IInv'
<1>1. TypeOK /\ History /\ JobsLead /\ SnapshotsBehind /\ LogKept
  BY DEF IInv
<1>2. /\ builder.stage = "writing" /\ current_snapshot' = {builder.copy}
      /\ builder' = [stage |-> "idle"]
      /\ UNCHANGED <<chosen, state_at, log_storage, known, sm, jobs, worker>>
  BY DEF build_write, log_vars
<1>3. builder.copy \in StateMachineData /\ applied(builder.copy) \in Nat
  <2>1. builder.copy \in StateMachineData
    BY <1>1, <1>2 DEF TypeOK
  <2> QED
    BY <2>1, AppliedType
<1>4. TypeOK'
  <2>1. PICK n : n = Cardinality({builder.copy})
    OBVIOUS
  <2>2. n = 1
    BY <2>1, FS_Singleton, Zenon
  <2>3. n <= 1
    BY <2>2
  <2>4. Cardinality(current_snapshot') <= 1
    BY <1>2, <2>1, <2>3, Zenon
  <2>5. current_snapshot' \subseteq StateMachineData
    BY <1>2, <1>3
  <2> QED
    BY <1>1, <1>2, <2>4, <2>5 DEF TypeOK
<1>5. SnapshotsBehind'
  BY <1>1, <1>2 DEF SnapshotsBehind, Committed, applied, index
<1>6. LogKept'
  <2>1. purged \in Nat
    BY <1>1 DEF TypeOK, LogStorageInner, LogId, purged, index
  <2>2. purged = 0 \/ \E s \in restorable' : purged <= applied(s)
    <3> SUFFICES ASSUME NEW s \in restorable, purged <= applied(s)
                 PROVE  \E r \in restorable' : purged <= applied(r)
      BY <1>1 DEF LogKept
    <3>1. CASE s \in current_snapshot
      <4>1. applied(s) <= applied(builder.copy) /\ applied(s) \in Nat
        BY <1>1, <1>2, <3>1, AppliedType DEF SnapshotsBehind, TypeOK
      <4>2. purged <= applied(builder.copy) /\ builder.copy \in restorable'
        BY <1>2, <1>3, <2>1, <4>1 DEF restorable
      <4> QED
        BY <4>2
    <3>2. CASE s \notin current_snapshot
      <4>1. s \in restorable'
        BY <1>2, <3>2 DEF restorable
      <4> QED
        BY <4>1
    <3> QED
      BY <3>1, <3>2
  <2> QED
    BY <1>1, <1>2, <2>2 DEF LogKept, purged, id_of, applied, index
<1> QED
  BY <1>1, <1>2, <1>4, <1>5, <1>6, HistoryFrame, JobsFrame DEF IInv

-----------------------------------------------------------------------------
(* The theorems. *)

\* Every step keeps the invariant.
LEMMA IInvStep == IInv /\ [Next]_vars => IInv'
<1> SUFFICES ASSUME IInv, [Next]_vars PROVE IInv'
  OBVIOUS
<1>1. ASSUME NEW e \in Entry, choose_entry(e) PROVE IInv'
  BY <1>1, ChooseStep
<1>2. ASSUME NEW t \in 1 .. MaxTerm, grant_vote(t) PROVE IInv'
  BY <1>2, VoteStep
<1>3. ASSUME NEW entries \in Batch, append_entries(entries) PROVE IInv'
  BY <1>3, AppendStep
<1>4. ASSUME NEW i \in Index, truncate_log(i) PROVE IInv'
  BY <1>4, TruncateStep
<1>5. ASSUME NEW i \in Index, receive_snapshot(i) PROVE IInv'
  BY <1>5, ReceiveStep
<1>6. ASSUME NEW i \in Index, purge_log(i) PROVE IInv'
  BY <1>6, PurgeStep
<1>7. CASE commit_entry
  BY <1>7, CommitStep
<1>8. CASE Worker
  BY <1>8, ApplyStep, InstallStep, InstallLockStep, InstallWriteStep DEF Worker
<1>9. CASE build_copy \/ Builder
  BY <1>9, BuildCopyStep, BuildLockStep, BuildWriteStep DEF Builder
<1>10. CASE UNCHANGED vars
  <2>1. UNCHANGED <<chosen, state_at, log_storage, known, sm, current_snapshot, jobs, worker, builder>>
    BY <1>10 DEF vars
  <2>2. TypeOK'
    BY <2>1 DEF IInv, TypeOK
  <2> QED
    BY <2>1, <2>2, HistoryFrame, JobsFrame, SnapshotsFrame, LogFrame DEF IInv
<1> QED
  BY <1>1, <1>2, <1>3, <1>4, <1>5, <1>6, <1>7, <1>8, <1>9, <1>10 DEF Next

\* The invariant holds in every behaviour of the storage.
LEMMA Inductive == Spec => []IInv
BY IInvInit, IInvStep, PTL DEF Spec

\* Every variable of the storage keeps its type, whatever openraft asks of it.
THEOREM StorageTypeCorrect == Spec => []TypeOK
<1>1. IInv => TypeOK
  BY DEF IInv
<1> QED
  BY <1>1, Inductive, PTL

\* The log has no gap between what is purged and its last entry, and the assertion
\* in LogStorageInner::purge never fails.
THEOREM LogStaysContiguous == Spec => []LogContiguous
<1>1. IInv => LogContiguous
  <2> SUFFICES ASSUME IInv PROVE LogContiguous
    OBVIOUS
  <2>1. LogKept /\ log_storage \in LogStorageInner
    BY DEF IInv, TypeOK
  <2>2. PICK l \in Nat : l >= purged /\ DOMAIN log_storage.log = purged + 1 .. l
    BY <2>1 DEF LogKept
  <2>3. index(last_log_id(log_storage)) = l
    BY <2>1, <2>2, LastLogId DEF purged
  <2> QED
    BY <2>1, <2>2, <2>3 DEF LogContiguous, LogKept, purged
<1> QED
  BY <1>1, Inductive, PTL

\* A snapshot and the log behind it bring the node back to every entry it knows to
\* be committed: purge, truncate and install_snapshot never lose one.
THEOREM AlwaysRecoverable == Spec => []Recoverable
<1>1. IInv => Recoverable
  <2> SUFFICES ASSUME IInv PROVE Recoverable
    OBVIOUS
  <2>1. LogKept /\ TypeOK
    BY DEF IInv
  <2>2. purged \in Nat /\ known \in Nat
    BY <2>1 DEF TypeOK, LogStorageInner, LogId, purged, index
  <2>3. PICK from \in {0} \cup {applied(s) : s \in restorable} : purged <= from /\ from \in Nat
    <3>1. CASE purged = 0
      BY <3>1
    <3>2. CASE purged # 0
      <4>1. PICK s \in restorable : purged <= applied(s)
        BY <2>1, <3>2 DEF LogKept
      <4>2. s \in StateMachineData
        <5>1. CASE s \in current_snapshot
          BY <2>1, <5>1 DEF TypeOK
        <5>2. CASE s \notin current_snapshot
          <6>1. PICK j \in 1 .. Len(jobs) : jobs[j].type = "install" /\ s = jobs[j].snapshot
            BY <5>2 DEF restorable
          <6> QED
            BY <2>1, <6>1, JobType
        <5> QED
          BY <5>1, <5>2
      <4>3. applied(s) \in Nat
        BY <4>2, AppliedType
      <4> QED
        BY <4>1, <4>3
    <3> QED
      BY <3>1, <3>2
  <2>4. \A i \in from + 1 .. known : i \in purged + 1 .. known
    BY <2>2, <2>3
  <2>5. \A i \in from + 1 .. known :
          i \in DOMAIN log_storage.log /\ log_storage.log[i] = chosen[i]
    BY <2>1, <2>4 DEF LogKept
  <2> QED
    BY <2>3, <2>5 DEF Recoverable
<1> QED
  BY <1>1, Inductive, PTL

\* What the state machine holds, and what is stored as its snapshot, is the state
\* after the committed entries up to its last applied id.
THEOREM StatesStayTrue == Spec => []StatesTrue
<1>1. IInv => StatesTrue
  BY DEF IInv, SnapshotsBehind, Committed, StatesTrue
<1> QED
  BY <1>1, Inductive, PTL

\* The stored snapshot never goes back, although build_snapshot and install_snapshot
\* both write it.
THEOREM SnapshotNeverBack == Spec => SnapshotForward
<1> DEFINE Forward == \A s \in current_snapshot : \E t \in current_snapshot' : applied(s) <= applied(t)
<1>1. IInv /\ [Next]_vars => [Forward]_vars
  <2> SUFFICES ASSUME IInv, [Next]_vars, NEW s \in current_snapshot
               PROVE  \E t \in current_snapshot' : applied(s) <= applied(t)
    OBVIOUS
  <2>1. TypeOK /\ JobsLead /\ SnapshotsBehind
    BY DEF IInv
  <2>2. applied(s) \in Nat
    BY <2>1, AppliedType DEF TypeOK
  <2>3. CASE install_write
    <3>1. Head(jobs).snapshot = sm /\ current_snapshot' = {Head(jobs).snapshot}
      BY <2>1, <2>3 DEF install_write, JobsLead, TypeOK
    <3> QED
      BY <2>1, <3>1 DEF SnapshotsBehind
  <2>4. CASE build_write
    BY <2>1, <2>4 DEF build_write, SnapshotsBehind
  <2>5. CASE current_snapshot' = current_snapshot
    BY <2>2, <2>5
  <2>6. install_write \/ build_write \/ current_snapshot' = current_snapshot
    BY DEF Next, Worker, Builder, vars, choose_entry, grant_vote, append_entries, truncate_log,
           receive_snapshot, purge_log, commit_entry, apply_job, install_state_machine,
           install_lock, build_copy, build_lock
  <2> QED
    BY <2>3, <2>4, <2>5, <2>6
<1> QED
  BY <1>1, Inductive, PTL DEF Spec, SnapshotForward

\* The storage implements ReplicatedState: the state machine shows one committed
\* state after the other, whether StateMachineStore applies entries or installs
\* snapshots.
THEOREM StorageRefinesReplicatedState == Spec => ImplementsReplicatedState
<1>1. Init => Abstract!Init
  BY DEF Init, Abstract!Init, default, applied, index, None
<1>2. IInv /\ IInv' /\ [Next]_vars => [Abstract!Commit \/ Abstract!Advance]_<<state_at, applied(sm), sm>>
  <2> SUFFICES ASSUME IInv, IInv', [Next]_vars
               PROVE  \/ Abstract!Commit \/ Abstract!Advance
                      \/ UNCHANGED <<state_at, applied(sm), sm>>
    OBVIOUS
  <2>1. ASSUME NEW e \in Entry, choose_entry(e) PROVE Abstract!Commit
    <3>1. /\ state_at \in Seq(StateMachineData) /\ state_at' \in Seq(StateMachineData)
          /\ sm' = sm
      BY <2>1 DEF IInv, TypeOK, choose_entry
    <3>2. PICK x : state_at' = Append(state_at, x)
      BY <2>1 DEF choose_entry
    <3>3. Len(state_at') = Len(state_at) + 1
      BY <3>1, <3>2
    <3>4. SubSeq(state_at', 1, Len(state_at)) = state_at
      BY <3>1, <3>2
    <3> QED
      BY <3>1, <3>3, <3>4 DEF Abstract!Commit, applied, index
  <2>2. CASE apply_job \/ install_state_machine
    <3>1. state_at' = state_at /\ chosen' = chosen
      BY <2>2 DEF apply_job, install_state_machine
    <3>2. sm' = state_at[applied(sm') + 1] /\ applied(sm') <= Len(state_at) - 1
      <4>1. Committed(sm)' /\ Len(state_at) = Len(chosen) + 1 /\ Len(chosen) \in Nat
        BY DEF IInv, SnapshotsBehind, History, TypeOK
      <4> QED
        BY <3>1, <4>1 DEF Committed, applied, index
    <3>3. applied(sm) \in Nat /\ applied(sm') \in Nat /\ Len(state_at) \in Nat
      BY AppliedType DEF IInv, TypeOK
    <3>4. applied(sm') >= applied(sm) + 1
      <4>1. TypeOK /\ JobsLead /\ SnapshotsBehind
        BY DEF IInv
      <4>2. jobs # <<>> /\ 1 \in 1 .. Len(jobs) /\ Head(jobs) = jobs[1]
        BY <2>2, <4>1 DEF apply_job, install_state_machine, next_job, TypeOK
      <4>3. GoodJob(1) /\ origin(1) = applied(sm)
        BY <4>1, <4>2 DEF JobsLead, origin
      <4>4. CASE apply_job
        <5>1. jobs[1].type = "apply" /\ sm' = apply(sm, jobs[1].log_id, jobs[1].payload)
          BY <4>2, <4>4 DEF apply_job, next_job
        <5>2. sm'.last_applied_log = jobs[1].log_id
          BY <5>1 DEF apply
        <5>3. applied(sm') = target(jobs[1])
          BY <5>1, <5>2 DEF applied, target
        <5> QED
          BY <3>3, <4>3, <5>1, <5>3 DEF GoodJob
      <4>5. CASE install_state_machine
        <5>1. jobs[1].type = "install" /\ sm' = jobs[1].snapshot /\ worker = "idle"
          BY <4>2, <4>5 DEF install_state_machine, next_job
        <5>2. applied(sm') = target(jobs[1])
          BY <5>1 DEF target
        <5> QED
          BY <3>3, <4>3, <5>1, <5>2 DEF GoodJob
      <4> QED
        BY <2>2, <4>4, <4>5
    <3>5. applied(sm') \in applied(sm) + 1 .. Len(state_at) - 1
      BY <3>2, <3>3, <3>4
    <3> QED
      BY <3>1, <3>2, <3>5 DEF Abstract!Advance, applied, index
  <2>3. CASE state_at' = state_at /\ sm' = sm
    BY <2>3 DEF applied, index
  <2>4. \/ \E e \in Entry : choose_entry(e)
        \/ apply_job \/ install_state_machine
        \/ state_at' = state_at /\ sm' = sm
    BY DEF Next, Worker, Builder, vars, grant_vote, append_entries, truncate_log,
           receive_snapshot, purge_log, commit_entry, install_lock, install_write,
           build_copy, build_lock, build_write
  <2> QED
    BY <2>1, <2>2, <2>3, <2>4
<1> QED
  BY <1>1, <1>2, Inductive, PTL DEF Spec, ImplementsReplicatedState, Abstract!Spec
=============================================================================
