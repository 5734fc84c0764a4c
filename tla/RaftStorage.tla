----------------------------- MODULE RaftStorage -----------------------------
(***************************************************************************)
(* What one node stores for raft: LogStorage (raft/log_storage.rs) and the *)
(* StateMachineStore with its snapshots (raft/state_machine.rs), driven by *)
(* openraft.                                                               *)
(*                                                                         *)
(* openraft is external: its core task calls the log storage, its state    *)
(* machine worker applies entries and installs snapshots in the order they *)
(* were handed to it, and a task of its own builds a snapshot.  The two    *)
(* RwLocks of the StateMachineStore are modelled by the stages of the      *)
(* worker and of the builder that hold them.                               *)
(*                                                                         *)
(* A log id is the pair <<term, index>>; <<0, 0>> stands for None.  The    *)
(* data of the node is the sequence of the proposals applied to it.        *)
(***************************************************************************)
EXTENDS Integers, Sequences, FiniteSets

CONSTANTS
  Payload,       \* payloads of entries
  Normal,        \* those that are proposals
  Membership,    \* those that are memberships; the others are blank
  MaxTerm,       \* terms of the leaders
  MaxIndex,      \* length of the committed log
  MaxBatch       \* how many entries one append brings

ASSUME StorageAssumption ==
  /\ Normal \cup Membership \subseteq Payload
  /\ Normal \cap Membership = {}
  /\ MaxTerm \in Nat /\ MaxIndex \in Nat /\ MaxBatch \in Nat

VARIABLES
  chosen,      \* the entries the cluster has committed
  state_at,    \* state_at[k + 1]: the state after the first k of them
  log_storage, \* LogStorageInner
  known,       \* how many entries openraft knows to be committed
  sm,          \* StateMachineData
  current_snapshot, \* the StoredSnapshot, {} for None
  jobs,        \* what was handed to the state machine worker
  worker,      \* how far the worker is with an install
  builder      \* the snapshot task: its stage and the state it copied

vars == <<chosen, state_at, log_storage, known, sm, current_snapshot, jobs, worker, builder>>
log_vars == <<log_storage, known>>

Index == 1 .. MaxIndex
Entry == [term : 1 .. MaxTerm, payload : Payload]
LogId == (0 .. MaxTerm) \X (0 .. MaxIndex)
None == <<0, 0>>

LogStorageInner ==
  [last_purged_log_id : LogId, log : UNION {[is -> Entry] : is \in SUBSET Index},
   committed : LogId, vote : 0 .. MaxTerm, panic : BOOLEAN]

StateMachineData ==
  [last_applied_log : LogId, last_membership : LogId \X (Membership \cup {"none"}),
   node : Seq(Normal)]

default ==
  [last_applied_log |-> None, last_membership |-> <<None, "none">>, node |-> <<>>]

Job ==
  [type : {"apply"}, log_id : LogId, payload : Payload]
    \cup [type : {"install"}, snapshot : StateMachineData]

TypeOK ==
  /\ chosen \in Seq(Entry)
  /\ state_at \in Seq(StateMachineData)
  /\ log_storage \in LogStorageInner
  /\ known \in 0 .. MaxIndex
  /\ sm \in StateMachineData
  /\ current_snapshot \subseteq StateMachineData
  /\ Cardinality(current_snapshot) <= 1
  /\ jobs \in Seq(Job)
  /\ worker \in {"idle", "locking", "writing"}
  /\ builder \in [stage : {"idle"}] \cup [stage : {"locking", "writing"}, copy : StateMachineData]

Init ==
  /\ chosen = <<>>
  /\ state_at = <<default>>
  /\ log_storage = [last_purged_log_id |-> None, log |-> <<>>, committed |-> None, vote |-> 0,
                    panic |-> FALSE]
  /\ known = 0
  /\ sm = default
  /\ current_snapshot = {}
  /\ jobs = <<>>
  /\ worker = "idle"
  /\ builder = [stage |-> "idle"]

-----------------------------------------------------------------------------
(* The operations of LogStorageInner. *)

term(id) == id[1]
index(id) == id[2]

\* The derived order of LogId: by leader, then by index; None is the least.
precedes(a, b) == term(a) < term(b) \/ (term(a) = term(b) /\ index(a) <= index(b))

without(ls, indexes) ==
  [ls EXCEPT !.log = [i \in DOMAIN ls.log \ indexes |-> ls.log[i]]]

\* The entries of the range that the log has.
try_get_log_entries(ls, range) == [i \in DOMAIN ls.log \cap range |-> ls.log[i]]

\* Mutant: an empty log has no last id.
last_log_id_of_log(ls) ==
  IF DOMAIN ls.log = {} THEN None
  ELSE LET i == CHOOSE i \in DOMAIN ls.log : \A j \in DOMAIN ls.log : j <= i
       IN  <<ls.log[i].term, i>>

\* get_log_state: the last entry, or the last purged one.
last_log_id(ls) ==
  IF DOMAIN ls.log = {} THEN ls.last_purged_log_id
  ELSE LET i == CHOOSE i \in DOMAIN ls.log : \A j \in DOMAIN ls.log : j <= i
       IN  <<ls.log[i].term, i>>

save_vote(ls, t) == [ls EXCEPT !.vote = t]

save_committed(ls, id) == [ls EXCEPT !.committed = id]

\* Mutant: an entry is filed under the index after its own.
append_next(ls, entries) ==
  [ls EXCEPT !.log = [i \in DOMAIN ls.log \cup {j + 1 : j \in DOMAIN entries} |->
                        IF i - 1 \in DOMAIN entries THEN entries[i - 1] ELSE ls.log[i]]]

append(ls, entries) ==
  [ls EXCEPT !.log = [i \in DOMAIN ls.log \cup DOMAIN entries |->
                        IF i \in DOMAIN entries THEN entries[i] ELSE ls.log[i]]]

truncate(ls, id) == without(ls, {i \in Index : i >= index(id)})

\* Mutant: one entry too many.
purge_next(ls, id) ==
  [without(ls, {i \in Index : i <= index(id) + 1})
     EXCEPT !.last_purged_log_id = id, !.panic = @ \/ ~precedes(ls.last_purged_log_id, id)]

\* assert!(*ld <= Some(log_id)), then every entry up to it goes.
purge(ls, id) ==
  [without(ls, {i \in Index : i <= index(id)})
     EXCEPT !.last_purged_log_id = id, !.panic = @ \/ ~precedes(ls.last_purged_log_id, id)]

\* One round of the loop of StateMachineStore::apply.  A call applies several
\* entries under one write lock; nothing can look in between.
apply(s, id, payload) ==
  [last_applied_log |-> id,
   last_membership |-> IF payload \in Membership THEN <<id, payload>> ELSE s.last_membership,
   node |-> IF payload \in Normal THEN Append(s.node, payload) ELSE s.node]

applied(s) == index(s.last_applied_log)

-----------------------------------------------------------------------------
(* The cluster. *)

id_of(i) == IF i = 0 THEN None ELSE <<chosen[i].term, i>>

\* The leaders commit one more entry.
choose_entry(e) ==
  /\ Len(chosen) < MaxIndex
  /\ e.term >= term(id_of(Len(chosen)))
  /\ chosen' = Append(chosen, e)
  /\ state_at' = Append(state_at, apply(state_at[Len(chosen) + 1], <<e.term, Len(chosen) + 1>>, e.payload))
  /\ UNCHANGED <<log_vars, sm, current_snapshot, jobs, worker, builder>>

-----------------------------------------------------------------------------
(* openraft's core task on this node.                                       *)

\* The node grants its vote to a leader of a later term.
grant_vote(t) ==
  /\ t > log_storage.vote
  /\ log_storage' = save_vote(log_storage, t)
  /\ UNCHANGED <<chosen, state_at, known, sm, current_snapshot, jobs, worker, builder>>

\* Entries of the leader it voted for arrive: at the next index, with terms that do not
\* go back; they need not be the chosen ones.
append_entries(entries) ==
  LET last == last_log_id(log_storage)
  IN  /\ DOMAIN entries = index(last) + 1 .. index(last) + Cardinality(DOMAIN entries)
      /\ \A i \in DOMAIN entries :
           /\ entries[i].term <= log_storage.vote
           /\ entries[i].term >= IF i - 1 \in DOMAIN entries THEN entries[i - 1].term ELSE term(last)
      /\ log_storage' = append(log_storage, entries)
      /\ UNCHANGED <<chosen, state_at, known, sm, current_snapshot, jobs, worker, builder>>

\* A new leader's log differs from an uncommitted entry on.
truncate_log(i) ==
  /\ i \in DOMAIN log_storage.log
  /\ i > known
  /\ log_storage' = truncate(log_storage, <<log_storage.log[i].term, i>>)
  /\ UNCHANGED <<chosen, state_at, known, sm, current_snapshot, jobs, worker, builder>>

\* The next entry is known to be committed; it is read back from the log, the
\* committed id is saved and the entry is handed to the worker.
commit_entry ==
  LET i       == known + 1
      entries == try_get_log_entries(log_storage, {i})
  IN  /\ i <= Len(chosen)
      /\ i \in DOMAIN entries
      /\ entries[i] = chosen[i]
      /\ known' = i
      /\ log_storage' = save_committed(log_storage, id_of(i))
      /\ jobs' = Append(jobs, [type |-> "apply", log_id |-> id_of(i), payload |-> entries[i].payload])
      /\ UNCHANGED <<chosen, state_at, sm, current_snapshot, worker, builder>>

\* A snapshot that is ahead arrives from the leader: a log that conflicts with it
\* is cut off, the install is handed to the worker and the log purged.
receive_snapshot(k) ==
  LET id        == id_of(k)
      conflicts == k \in DOMAIN log_storage.log /\ log_storage.log[k].term # term(id)
      cut       == IF conflicts THEN truncate(log_storage, id) ELSE log_storage
  IN  /\ k \in known + 1 .. Len(chosen)
      /\ known' = k
      /\ log_storage' = purge(cut, id)
      /\ jobs' = Append(jobs, [type |-> "install", snapshot |-> state_at[k + 1]])
      /\ UNCHANGED <<chosen, state_at, sm, current_snapshot, worker, builder>>

\* What a snapshot covers need not be in the log.
purge_log(i) ==
  /\ \E s \in current_snapshot : i <= applied(s)
  /\ i > index(log_storage.last_purged_log_id)
  /\ log_storage' = purge(log_storage, id_of(i))
  /\ UNCHANGED <<chosen, state_at, known, sm, current_snapshot, jobs, worker, builder>>

-----------------------------------------------------------------------------
(* openraft's state machine worker. *)

\* The write lock is held while the worker waits for the lock of the snapshot.
sm_write_locked == worker = "locking"

\* Mutant: build_snapshot drops the read guard once it has its copy.
sm_read_unlocked == FALSE

\* So is the read lock by the task that builds a snapshot.
sm_read_locked == builder.stage = "locking"

\* Mutant: the task waits for a lock that it holds already.
snapshot_locked_twice == worker = "writing" \/ builder.stage \in {"locking", "writing"}

snapshot_locked == worker = "writing" \/ builder.stage = "writing"

next_job(type) == jobs # <<>> /\ Head(jobs).type = type

apply_job ==
  /\ next_job("apply")
  /\ ~sm_read_locked
  /\ sm' = apply(sm, Head(jobs).log_id, Head(jobs).payload)
  /\ jobs' = Tail(jobs)
  /\ UNCHANGED <<chosen, state_at, log_vars, current_snapshot, worker, builder>>

\* Mutant: the membership of the snapshot is not taken over.
install_node_only ==
  /\ next_job("install")
  /\ worker = "idle"
  /\ ~sm_read_locked
  /\ sm' = [Head(jobs).snapshot EXCEPT !.last_membership = sm.last_membership]
  /\ worker' = "locking"
  /\ UNCHANGED <<chosen, state_at, log_vars, current_snapshot, jobs, builder>>

\* Mutant: the last applied id stays what it was.
install_without_id ==
  /\ next_job("install")
  /\ worker = "idle"
  /\ ~sm_read_locked
  /\ sm' = [Head(jobs).snapshot EXCEPT !.last_applied_log = sm.last_applied_log]
  /\ worker' = "locking"
  /\ UNCHANGED <<chosen, state_at, log_vars, current_snapshot, jobs, builder>>

\* install_snapshot: the state machine is replaced under its write lock, ...
install_state_machine ==
  /\ next_job("install")
  /\ worker = "idle"
  /\ ~sm_read_locked
  /\ sm' = Head(jobs).snapshot
  /\ worker' = "locking"
  /\ UNCHANGED <<chosen, state_at, log_vars, current_snapshot, jobs, builder>>

\* ... which it keeps until it has the lock of the snapshot.
install_lock ==
  /\ worker = "locking"
  /\ ~snapshot_locked
  /\ worker' = "writing"
  /\ UNCHANGED <<chosen, state_at, log_vars, sm, current_snapshot, jobs, builder>>

install_write ==
  /\ worker = "writing"
  /\ current_snapshot' = {Head(jobs).snapshot}
  /\ worker' = "idle"
  /\ jobs' = Tail(jobs)
  /\ UNCHANGED <<chosen, state_at, log_vars, sm, builder>>

-----------------------------------------------------------------------------
(* The task that builds a snapshot. *)

\* build_snapshot: a copy is made under the read lock of the state machine.
build_copy ==
  /\ builder.stage = "idle"
  /\ ~sm_write_locked
  /\ builder' = [stage |-> "locking", copy |-> sm]
  /\ UNCHANGED <<chosen, state_at, log_vars, sm, current_snapshot, jobs, worker>>

\* The lock of the snapshot is taken before the read lock is released.
build_lock ==
  /\ builder.stage = "locking"
  /\ ~snapshot_locked
  /\ builder' = [builder EXCEPT !.stage = "writing"]
  /\ UNCHANGED <<chosen, state_at, log_vars, sm, current_snapshot, jobs, worker>>

build_write ==
  /\ builder.stage = "writing"
  /\ current_snapshot' = {builder.copy}
  /\ builder' = [stage |-> "idle"]
  /\ UNCHANGED <<chosen, state_at, log_vars, sm, jobs, worker>>

-----------------------------------------------------------------------------

Batch ==
  {entries \in UNION {[i .. j -> Entry] : i, j \in Index} :
     Cardinality(DOMAIN entries) \in 1 .. MaxBatch}

Worker == apply_job \/ install_state_machine \/ install_lock \/ install_write

Builder == build_lock \/ build_write

Next ==
  \/ \E e \in Entry : choose_entry(e)
  \/ \E t \in 1 .. MaxTerm : grant_vote(t)
  \/ \E entries \in Batch : append_entries(entries)
  \/ \E i \in Index : truncate_log(i) \/ receive_snapshot(i) \/ purge_log(i)
  \/ commit_entry
  \/ Worker
  \/ build_copy \/ Builder

Spec == Init /\ [][Next]_vars

\* tokio's RwLock serves waiters in the order they came, so a task that waits for
\* a lock which is free again and again gets it.
FairSpec == Spec /\ SF_vars(Worker) /\ WF_vars(Builder)

-----------------------------------------------------------------------------
(* Safety. *)

\* Nothing is missing between the last purged entry and the last one, so that
\* openraft reads back every entry it asks for (append, truncate, purge and
\* get_log_state agree on where the log begins and ends), and no purge asserts.
LogContiguous ==
  LET ls == log_storage
  IN  /\ DOMAIN ls.log = index(ls.last_purged_log_id) + 1 .. index(last_log_id(ls))
      /\ ~ls.panic

\* The states that a snapshot or an install still to be done would restore.
restorable ==
  current_snapshot \cup {jobs[j].snapshot : j \in {j \in 1 .. Len(jobs) : jobs[j].type = "install"}}

\* The node can be brought back to every entry it knows to be committed: one
\* snapshot, and behind it the log without a gap and with the chosen entries.
Recoverable ==
  \E from \in {0} \cup {applied(s) : s \in restorable} :
    \A i \in from + 1 .. known :
      i \in DOMAIN log_storage.log /\ log_storage.log[i] = chosen[i]

\* The state machine holds what the entries up to its last applied id make, and
\* the membership of the latest of them that is one; so does the snapshot.
StatesTrue == \A s \in {sm} \cup current_snapshot : s = state_at[applied(s) + 1]

-----------------------------------------------------------------------------
(* Action properties and refinement. *)

\* The stored snapshot never goes back, although two tasks write it ("to avoid a
\* race condition on the written snapshot").
SnapshotForward ==
  [][\A s \in current_snapshot : \E t \in current_snapshot' : applied(s) <= applied(t)]_vars

Abstract == INSTANCE ReplicatedState WITH
  InitialState <- default, history <- state_at, position <- applied(sm), shown <- sm

\* The state machine shows one committed state after the other, whether it
\* applies entries or installs snapshots.
ImplementsReplicatedState == Abstract!Spec

-----------------------------------------------------------------------------
(* Liveness. *)

\* What openraft knows to be committed is applied, whatever snapshots are built
\* and installed meanwhile: no lock is waited for in a circle.
CatchesUp == \A k \in Index : known = k ~> applied(sm) >= k
=============================================================================
