----------------------------- MODULE DurableStore -----------------------------
(***************************************************************************)
(* How the topics of a cluster are kept in the durable service, and loaded *)
(* back from it: the node-wide queue of durable commands, the tasks that   *)
(* commit them (raft/proposal.rs), LoadTopic and UnloadTopic (state        *)
(* _machine/node.rs) and load_from_durable_service (node.rs).              *)
(*                                                                         *)
(* Delivery is the matter of TopicData.  Here a queue is the sequence of   *)
(* its messages in the order of their times, each with the last status     *)
(* that a SetState reported of it (only those are saved), and a message is *)
(* resolved when it is held (no endpoint wants it) or when it is reported  *)
(* Processed.  The durable service is external: a store that all nodes     *)
(* share, as the service of the tests is, with the messages of a topic in  *)
(* the order they were saved in.                                           *)
(***************************************************************************)
EXTENDS Integers, Sequences, SequencesExt, FiniteSets

CONSTANTS
  Node,
  TopicCode,
  MessageId,
  TopicOf,        \* the topic each message is sent to
  OverflowSize,   \* size of the overflow_config, its policy is DropOld
  PageSize,       \* PAGE_SIZE of load_from_durable_service
  Loaders,        \* nodes that call load_from_durable_service
  Creators,       \* nodes that call create_new_topic
  MaxLag,         \* how many entries a node may be behind the log
  MaxDisturbances \* how many elections, failures of the service, restarts of the
                  \* cluster and UnloadTopic proposals there are together

ASSUME DurableAssumption ==
  /\ TopicOf \in [MessageId -> TopicCode]
  /\ Loaders \cup Creators \subseteq Node
  /\ {OverflowSize, PageSize, MaxLag} \subseteq Nat \ {0}
  /\ MaxDisturbances \in Nat

VARIABLES
  pending,   \* pending[n]: committed entries that node n has not applied
  topics,    \* topics[n]: the topics in the NodeData of n, with their queues
  handles,   \* handles[n]: the codes in node.topics, the Topic handles of n
  durable_commands_queue,  \* durable_commands_queue[n]
  spawned,   \* spawned[n]: the topics of which commit tasks wait for the lock; of
             \* several the later ones find an empty queue, so they count as one
  running,   \* running[n][t]: the commit task that holds the lock of t
  loading,   \* loading[n][t]: the load task of t on n
  stored,    \* stored[t]: the messages the service has for t
  leader,    \* the raft leader, which may be a node that is not modelled
  sent,      \* messages that were sent
  mixed,     \* has a node ever had two topics
  unsaved,   \* messages that a queue and the service rightly disagree on
  elections, failures, restarts, unloads  \* how many there were

vars == <<pending, topics, handles, durable_commands_queue, spawned, running, loading, stored,
          leader, sent, unsaved, mixed, elections, failures, restarts, unloads>>
task_vars == <<durable_commands_queue, spawned, running>>
raft_vars == <<pending, topics, handles>>
counters == <<elections, failures, restarts, unloads>>

StatusKind == {"none", "Sent", "Processed"}

\* A message of a queue, and of the service.
DurableMessage == [id : MessageId, status : StatusKind]

DurableCommand ==
  [type : {"Create", "Archive"}, id : MessageId]
    \cup [type : {"UpdateStatus"}, id : MessageId, status : StatusKind]

Proposal ==
  [type : {"DelegateMessage"}, topic : TopicCode, id : MessageId, wanted : BOOLEAN]
    \cup [type : {"SetState"}, topic : TopicCode, id : MessageId, status : {"Sent", "Processed"}]
    \cup [type : {"LoadTopic"}, topic : TopicCode, queue : Seq(DurableMessage),
          fresh : BOOLEAN]
    \cup [type : {"UnloadTopic"}, topic : TopicCode]

\* The loop over pages, or the propose of what they brought.
Loading == [stage : {"reading"}, queue : Seq(DurableMessage), offset : Nat]
Idle == [stage |-> "idle"]

\* No message is twice in a queue.
Distinct(q) == \A i, j \in 1 .. Len(q) : q[i].id = q[j].id => i = j

\* Leads when none of the modelled nodes does.
OtherNode == "other node"

TypeOK ==
  /\ \A n \in Node :
       /\ pending[n] \in Seq(Proposal)
       /\ DOMAIN topics[n] \subseteq TopicCode
       /\ \A t \in DOMAIN topics[n] :
            topics[n][t] \in Seq(DurableMessage) /\ Distinct(topics[n][t])
       /\ handles[n] \subseteq TopicCode
       /\ durable_commands_queue[n] \in Seq(DurableCommand)
       /\ spawned[n] \subseteq TopicCode
       /\ \A t \in TopicCode :
            /\ running[n][t] = Idle \/ running[n][t] \in
                 [stage : {"asking", "executing"}, commands : Seq(DurableCommand)]
            /\ \/ loading[n][t] = Idle
               \/ loading[n][t] \in Loading /\ Distinct(loading[n][t].queue)
  /\ \A t \in TopicCode : stored[t] \in Seq(DurableMessage) /\ Distinct(stored[t])
  /\ leader \in Node \cup {OtherNode}
  /\ sent \cup unsaved \subseteq MessageId
  /\ mixed \in BOOLEAN

Empty == [t \in {} |-> <<>>]

\* The same for every node, or for every topic of every node.
each_node(v) == [n \in Node |-> v]
each_topic(v) == [n \in Node |-> [t \in TopicCode |-> v]]

Init ==
  /\ pending = each_node(<<>>)
  /\ topics = each_node(Empty)
  /\ handles = each_node({})
  /\ durable_commands_queue = each_node(<<>>)
  /\ spawned = each_node({})
  /\ running = each_topic(Idle)
  /\ loading = each_topic(Idle)
  /\ stored = [t \in TopicCode |-> <<>>]
  /\ leader \in Node
  /\ sent = {}
  /\ unsaved = {}
  /\ mixed = FALSE
  /\ elections = 0 /\ failures = 0 /\ restarts = 0 /\ unloads = 0

may_disturb == elections + failures + restarts + unloads < MaxDisturbances

-----------------------------------------------------------------------------
(* Queues and commands. *)

ids(q) == {q[i].id : i \in 1 .. Len(q)}

without(q, id) == SelectSeq(q, LAMBDA m : m.id # id)

with_status(q, id, status) ==
  [i \in 1 .. Len(q) |-> IF q[i].id = id THEN [q[i] EXCEPT !.status = status] ELSE q[i]]

create(id) == [type |-> "Create", id |-> id]
update_status(id, status) == [type |-> "UpdateStatus", id |-> id, status |-> status]
archive(id) == [type |-> "Archive", id |-> id]

\* DropOld: the oldest message makes room.
make_room(q) == IF Len(q) >= OverflowSize THEN Tail(q) ELSE q

\* hold_new_message: the queue and the commands it pushes; a message that no
\* endpoint wants is resolved at once.
hold(q, id, wanted) ==
  IF wanted
    THEN [queue |-> Append(make_room(q), [id |-> id, status |-> "none"]),
          commands |-> <<create(id), update_status(id, "none")>>]
    ELSE [queue |-> make_room(q),
          commands |-> <<create(id), update_status(id, "none"), archive(id)>>]

\* Mutant: a message that is resolved is not archived.
set_state_unarchived(q, id, status) ==
  [queue |-> IF status = "Processed" THEN without(q, id) ELSE with_status(q, id, status),
   commands |-> <<update_status(id, status)>>]

\* update_and_flush with the reported status.
set_state(q, id, status) ==
  IF status = "Processed" /\ id \in ids(q)
    THEN [queue |-> without(q, id),
          commands |-> <<update_status(id, status), archive(id)>>]
    ELSE [queue |-> with_status(q, id, status),
          commands |-> <<update_status(id, status)>>]

\* What the service does with a command filed under a topic that has these
\* messages.  Saving a message that is there replaces it.
execute(messages, command) ==
  CASE command.type = "Create" ->
         Append(without(messages, command.id), [id |-> command.id, status |-> "none"])
    [] command.type = "UpdateStatus" ->
         IF command.status = "none" THEN messages
         ELSE with_status(messages, command.id, command.status)
    [] command.type = "Archive" -> without(messages, command.id)

-----------------------------------------------------------------------------
(* Proposing. *)

propose(p) ==
  /\ \A n \in Node : Len(pending[n]) < MaxLag
  /\ pending' = [n \in Node |-> Append(pending[n], p)]

\* Topic::send_message, of a message that some endpoint wants or none does.
send_message(n, id, wanted) ==
  /\ TopicOf[id] \in handles[n]
  /\ id \notin sent
  /\ sent' = sent \cup {id}
  /\ propose([type |-> "DelegateMessage", topic |-> TopicOf[id], id |-> id, wanted |-> wanted])
  /\ UNCHANGED <<topics, handles, task_vars, loading, stored, leader, unsaved, mixed, counters>>

\* A dispatch task or an endpoint of n reports the status of a held message; a
\* message is reported Sent before it is reported Processed.
report(n, id, status) ==
  LET t == TopicOf[id]
  IN  /\ t \in DOMAIN topics[n]
      /\ \E i \in 1 .. Len(topics[n][t]) :
           /\ topics[n][t][i].id = id
           /\ topics[n][t][i].status = IF status = "Sent" THEN "none" ELSE "Sent"
      /\ ~\E i \in 1 .. Len(pending[n]) : pending[n][i].type = "SetState" /\ pending[n][i].id = id
      /\ propose([type |-> "SetState", topic |-> t, id |-> id, status |-> status])
      /\ UNCHANGED <<topics, handles, task_vars, loading, stored, leader, sent, unsaved, mixed, counters>>

unload_topic(n, t) ==
  /\ may_disturb
  /\ t \in handles[n]
  /\ unloads' = unloads + 1
  /\ propose([type |-> "UnloadTopic", topic |-> t])
  /\ UNCHANGED <<topics, handles, task_vars, loading, stored, leader, sent, unsaved, mixed,
                 elections, failures, restarts>>

\* Node::create_new_topic: load_topic without messages.
create_new_topic(n, t) ==
  /\ n \in Creators
  /\ t \notin handles[n]
  /\ propose([type |-> "LoadTopic", topic |-> t, queue |-> <<>>, fresh |-> TRUE])
  /\ UNCHANGED <<topics, handles, task_vars, loading, stored, leader, sent, unsaved, mixed, counters>>

-----------------------------------------------------------------------------
(* load_from_durable_service. *)

\* The service lists the topic and a task for it is spawned.
load_from_durable_service(n, t) ==
  /\ n \in Loaders
  /\ loading[n][t] = Idle
  /\ t \notin handles[n]
  /\ loading' = [loading EXCEPT ![n][t] = [stage |-> "reading", queue |-> <<>>, offset |-> 0]]
  /\ UNCHANGED <<raft_vars, task_vars, stored, leader, sent, unsaved, mixed, counters>>

page(t, offset) == SubSeq(stored[t], offset + 1, Min({Len(stored[t]), offset + PageSize}))

\* Mutant: the query is not moved on to the next page.
batch_retrieve_again(n, t) ==
  LET task == loading[n][t]
  IN  /\ task.stage = "reading"
      /\ Len(page(t, task.offset)) = PageSize
      /\ loading' = [loading EXCEPT ![n][t] = [task EXCEPT !.queue = @ \o page(t, task.offset)]]
      /\ UNCHANGED <<raft_vars, task_vars, stored, leader, sent, unsaved, mixed, counters>>

\* A full page: the next one is read.
batch_retrieve(n, t) ==
  LET task == loading[n][t]
  IN  /\ task.stage = "reading"
      /\ Len(page(t, task.offset)) = PageSize
      /\ loading' = [loading EXCEPT ![n][t] =
                       [task EXCEPT !.queue = @ \o page(t, task.offset), !.offset = @ + PageSize]]
      /\ UNCHANGED <<raft_vars, task_vars, stored, leader, sent, unsaved, mixed, counters>>

\* Mutant: a full page is taken for the last one.
load_topic_first_page(n, t) ==
  LET task == loading[n][t]
  IN  /\ task.stage = "reading"
      /\ loading' = [loading EXCEPT ![n][t] = Idle]
      /\ IF t \in handles[n] THEN UNCHANGED pending
         ELSE propose([type |-> "LoadTopic", topic |-> t, fresh |-> FALSE,
                       queue |-> task.queue \o page(t, task.offset)])
      /\ UNCHANGED <<topics, handles, task_vars, stored, leader, sent, unsaved, mixed, counters>>

\* The last page, and load_topic: proposed unless the topic exists on n by now.
load_topic(n, t) ==
  LET task == loading[n][t]
  IN  /\ task.stage = "reading"
      /\ Len(page(t, task.offset)) < PageSize
      /\ loading' = [loading EXCEPT ![n][t] = Idle]
      /\ IF t \in handles[n] THEN UNCHANGED pending
         ELSE propose([type |-> "LoadTopic", topic |-> t, fresh |-> FALSE,
                       queue |-> task.queue \o page(t, task.offset)])
      /\ UNCHANGED <<topics, handles, task_vars, stored, leader, sent, unsaved, mixed, counters>>

-----------------------------------------------------------------------------
(* Applying an entry on node n. *)

next_is(n, type) == pending[n] # <<>> /\ Head(pending[n]).type = type

\* Mutant: no task is started for the commands.
commit_nothing(n, t, codes, commands) ==
  /\ durable_commands_queue' = [durable_commands_queue EXCEPT ![n] = @ \o commands]
  /\ UNCHANGED <<spawned, running>>

\* The commands enter the queue of the node; commit_durable_commands spawns a task
\* if n has a handle of the topic (codes).
commit_durable_commands(n, t, codes, commands) ==
  /\ durable_commands_queue' = [durable_commands_queue EXCEPT ![n] = @ \o commands]
  /\ spawned' = [spawned EXCEPT ![n] = @ \cup ({t} \cap codes)]
  /\ UNCHANGED running

apply_delegate_message(n) ==
  /\ next_is(n, "DelegateMessage")
  /\ LET p    == Head(pending[n])
         held == hold(topics[n][p.topic], p.id, p.wanted)
     IN  /\ pending' = [pending EXCEPT ![n] = Tail(@)]
         /\ IF p.topic \in DOMAIN topics[n]
              THEN /\ topics' = [topics EXCEPT ![n][p.topic] = held.queue]
                   /\ unsaved' = IF n = leader
                        THEN unsaved \cup (ids(topics[n][p.topic]) \ ids(held.queue)) ELSE unsaved
                   /\ commit_durable_commands(n, p.topic, handles[n], held.commands)
              ELSE /\ commit_durable_commands(n, p.topic, handles[n], <<>>)
                   /\ UNCHANGED <<topics, unsaved>>
  /\ UNCHANGED <<handles, loading, stored, leader, sent, mixed, counters>>

apply_set_state(n) ==
  /\ next_is(n, "SetState")
  /\ LET p   == Head(pending[n])
         set == set_state(topics[n][p.topic], p.id, p.status)
     IN  /\ pending' = [pending EXCEPT ![n] = Tail(@)]
         /\ IF p.topic \in DOMAIN topics[n]
              THEN /\ topics' = [topics EXCEPT ![n][p.topic] = set.queue]
                   /\ commit_durable_commands(n, p.topic, handles[n], set.commands)
              ELSE /\ commit_durable_commands(n, p.topic, handles[n], <<>>)
                   /\ UNCHANGED topics
  /\ UNCHANGED <<handles, loading, stored, leader, sent, unsaved, mixed, counters>>

\* A queue with the loaded messages and a new handle.
insert_topic(n, p) ==
  /\ topics' = [topics EXCEPT ![n] = [t \in DOMAIN topics[n] \cup {p.topic} |->
                                        IF t = p.topic THEN p.queue ELSE topics[n][t]]]
  /\ handles' = [handles EXCEPT ![n] = @ \cup {p.topic}]
  /\ unsaved' = IF n # leader THEN unsaved
                 ELSE IF p.fresh THEN unsaved \cup ids(stored[p.topic])
                 ELSE unsaved \ ids(p.queue)
  /\ mixed' = (mixed \/ Cardinality(handles'[n]) > 1)
  /\ commit_durable_commands(n, p.topic, handles'[n], <<>>)

\* Mutant: a topic that is loaded already is loaded again.
apply_load_topic_again(n) ==
  /\ next_is(n, "LoadTopic")
  /\ pending' = [pending EXCEPT ![n] = Tail(@)]
  /\ insert_topic(n, Head(pending[n]))
  /\ UNCHANGED <<loading, stored, leader, sent, counters>>

\* Only a topic that is not loaded.
apply_load_topic(n) ==
  /\ next_is(n, "LoadTopic")
  /\ pending' = [pending EXCEPT ![n] = Tail(@)]
  /\ IF Head(pending[n]).topic \in DOMAIN topics[n]
       THEN UNCHANGED <<topics, handles, task_vars, unsaved, mixed>>
       ELSE insert_topic(n, Head(pending[n]))
  /\ UNCHANGED <<loading, stored, leader, sent, counters>>

\* The queue goes, the handle stays.
apply_unload_topic(n) ==
  /\ next_is(n, "UnloadTopic")
  /\ pending' = [pending EXCEPT ![n] = Tail(@)]
  /\ topics' = [topics EXCEPT ![n] = [t \in DOMAIN topics[n] \ {Head(pending[n]).topic} |-> topics[n][t]]]
  /\ UNCHANGED <<handles, task_vars, loading, stored, leader, sent, unsaved, mixed, counters>>

Apply(n) ==
  \/ apply_delegate_message(n)
  \/ apply_set_state(n)
  \/ apply_load_topic(n)
  \/ apply_unload_topic(n)

-----------------------------------------------------------------------------
(* The task of commit_durable_commands for topic t on node n. *)

task_step(n, t, task) ==
  /\ running' = [running EXCEPT ![n][t] = task]
  /\ UNCHANGED <<raft_vars, loading, leader, sent, unsaved, mixed, elections, restarts, unloads>>

\* One task of a topic at a time.
lock_free(n, t) == running[n][t] = Idle

\* With the lock of its topic the task takes all commands of the node; without
\* any it is done.
swap_out_durable_commands(n, t) ==
  /\ t \in spawned[n]
  /\ lock_free(n, t)
  /\ spawned' = [spawned EXCEPT ![n] = @ \ {t}]
  /\ durable_commands_queue' = [durable_commands_queue EXCEPT ![n] = <<>>]
  /\ task_step(n, t, IF durable_commands_queue[n] = <<>> THEN Idle
                     ELSE [stage |-> "asking", commands |-> durable_commands_queue[n]])
  /\ UNCHANGED <<stored, failures>>

\* ensure_linearizable: the commands of a node that does not lead are dropped.
ensure_linearizable(n, t) ==
  /\ running[n][t].stage = "asking"
  /\ task_step(n, t, IF n = leader THEN [running[n][t] EXCEPT !.stage = "executing"] ELSE Idle)
  /\ UNCHANGED <<spawned, durable_commands_queue, stored, failures>>

\* The task is done with the first command.
next_command(n, t) ==
  LET rest == Tail(running[n][t].commands)
  IN  task_step(n, t, IF rest = <<>> THEN Idle ELSE [running[n][t] EXCEPT !.commands = rest])

execute_command(n, t) ==
  /\ running[n][t].stage = "executing"
  /\ stored' = [stored EXCEPT ![t] = execute(@, Head(running[n][t].commands))]
  /\ next_command(n, t)
  /\ UNCHANGED <<spawned, durable_commands_queue, failures>>

\* The service fails; the error is logged and the next command follows.
fail_command(n, t) ==
  /\ running[n][t].stage = "executing"
  /\ may_disturb
  /\ failures' = failures + 1
  /\ next_command(n, t)
  /\ UNCHANGED <<spawned, durable_commands_queue, stored>>

-----------------------------------------------------------------------------
(* The cluster. *)

elect(n) ==
  /\ may_disturb
  /\ n # leader
  /\ elections' = elections + 1
  /\ leader' = n
  /\ UNCHANGED <<raft_vars, task_vars, loading, stored, sent, unsaved, mixed, failures, restarts, unloads>>

\* All nodes are started anew: the raft log and the topics were in memory.
restart ==
  /\ may_disturb
  /\ restarts' = restarts + 1
  /\ pending' = each_node(<<>>)
  /\ topics' = each_node(Empty)
  /\ handles' = each_node({})
  /\ durable_commands_queue' = each_node(<<>>)
  /\ spawned' = each_node({})
  /\ running' = each_topic(Idle)
  /\ loading' = each_topic(Idle)
  /\ UNCHANGED <<stored, leader, sent, unsaved, mixed, elections, failures, unloads>>

Task(n, t) == swap_out_durable_commands(n, t) \/ ensure_linearizable(n, t) \/ execute_command(n, t)

Next ==
  \/ \E n \in Node, id \in MessageId :
       \/ \E wanted \in BOOLEAN : send_message(n, id, wanted)
       \/ \E status \in {"Sent", "Processed"} : report(n, id, status)
  \/ \E n \in Node, t \in TopicCode :
       \/ unload_topic(n, t) \/ create_new_topic(n, t)
       \/ load_from_durable_service(n, t) \/ batch_retrieve(n, t) \/ load_topic(n, t)
       \/ Task(n, t) \/ fail_command(n, t)
  \/ \E n \in Node : Apply(n)
  \/ \E n \in Node \cup {OtherNode} : elect(n)
  \/ restart

Spec == Init /\ [][Next]_vars

\* openraft applies what is committed, and tokio runs the spawned tasks; the lock of
\* a topic is a fair one and every holder lets it go.
FairSpec ==
  /\ Spec
  /\ \A n \in Node : WF_vars(Apply(n)) /\ \A t \in TopicCode : WF_vars(Task(n, t))

-----------------------------------------------------------------------------
(* Safety. *)

\* No command is left behind: while there are commands in the queue of a node, a
\* spawned task has still to take them out (every push is followed by a commit).
CommandsServed ==
  \A n \in Node : durable_commands_queue[n] # <<>> => spawned[n] # {}

\* Nothing happened that loses commands or files them elsewhere.
undisturbed == elections = 0 /\ failures = 0 /\ unloads = 0 /\ ~mixed

at_rest(n) ==
  /\ durable_commands_queue[n] = <<>>
  /\ spawned[n] = {}
  /\ \A t \in TopicCode : running[n][t] = Idle

\* The service holds the queue of the leader: once its tasks are done, the stored
\* messages are those in the queue, in its order and with the statuses that were
\* reported, before and after a restart.  Left out are messages that DropOld took out
\* and those that create_new_topic did not ask for, which nobody archives.
StoreFollowsQueue ==
  undisturbed /\ at_rest(leader) =>
    \A t \in DOMAIN topics[leader] :
      SelectSeq(stored[t], LAMBDA m : m.id \notin unsaved) = topics[leader][t]

\* A LoadTopic that comes second changes nothing: a held message leaves its queue
\* only by being reported, dropped or unloaded, or in a restart.
LoadedOnce ==
  [][\A n \in Node : next_is(n, "LoadTopic") /\ restarts' = restarts =>
       \A t \in DOMAIN topics[n] : topics[n][t] # <<>> =>
          t \in DOMAIN topics'[n] /\ topics'[n][t] = topics[n][t]]_vars

-----------------------------------------------------------------------------
(* Liveness. *)

finished(id) ==
  /\ id \in sent
  /\ leader \in Node
  /\ TopicOf[id] \in DOMAIN topics[leader]
  /\ id \notin ids(topics[leader][TopicOf[id]])
  /\ ~\E i \in 1 .. Len(pending[leader]) :
        pending[leader][i].type = "DelegateMessage" /\ pending[leader][i].id = id

\* A message that is finished leaves the service, unless something disturbs that.
EventuallyArchived ==
  \A id \in MessageId :
    finished(id) /\ undisturbed /\ id \notin unsaved
      ~> id \notin ids(stored[TopicOf[id]]) \/ ~finished(id) \/ ~undisturbed \/ id \in unsaved

-----------------------------------------------------------------------------
(* What the tests say and the code does not keep. *)

\* The messages of a topic are stored under its code.
FiledUnderOwnTopic == \A t \in TopicCode : \A id \in ids(stored[t]) : TopicOf[id] = t
=============================================================================
