-------------------------- MODULE DurableStoreProofs --------------------------
(***************************************************************************)
(* Theorems about DurableStore, for any nodes, topics, messages and page   *)
(* size and for any number of elections, failures and restarts: no durable *)
(* command is left behind in the queue of a node, and a second LoadTopic   *)
(* takes nothing out of a queue.                                           *)
(***************************************************************************)
EXTENDS DurableStore, SequenceTheorems, TLAPS

-----------------------------------------------------------------------------
(* The inductive invariant. *)

\* What is kept per node is kept for every node.
PerNode ==
  /\ DOMAIN topics = Node
  /\ DOMAIN handles = Node
  /\ DOMAIN durable_commands_queue = Node
  /\ DOMAIN spawned = Node
  /\ restarts \in Nat

\* A sequence, of whatever.
Sequence(s) == \E S : s \in Seq(S)

\* A topic with a queue has a handle, so a command pushed for it finds one and
\* starts a task (UnloadTopic takes the queue and leaves the handle).
Handled == \A n \in Node : DOMAIN topics[n] \subseteq handles[n]

IInv ==
  /\ PerNode
  /\ \A n \in Node : Sequence(durable_commands_queue[n])
  /\ Handled
  /\ CommandsServed

-----------------------------------------------------------------------------
(* The commands of a message. *)

\* hold_new_message and update_and_flush push some commands.
LEMMA CommandSequences ==
  ASSUME NEW q, NEW id, NEW w, NEW status
  PROVE  /\ Sequence(hold(q, id, w).commands)
         /\ Sequence(set_state(q, id, status).commands)
<1> PICK c : c = create(id) OBVIOUS
<1> PICK u : u = update_status(id, "none") OBVIOUS
<1> PICK v : v = update_status(id, status) OBVIOUS
<1> PICK a : a = archive(id) OBVIOUS
<1>1. Sequence(hold(q, id, w).commands)
  <2>1. hold(q, id, w).commands = <<c, u>> \/ hold(q, id, w).commands = <<c, u, a>>
    BY DEF hold
  <2>2. <<c, u>> \in Seq({c, u, a}) /\ <<c, u, a>> \in Seq({c, u, a}) OBVIOUS
  <2> QED BY <2>1, <2>2, Zenon DEF Sequence
<1>2. Sequence(set_state(q, id, status).commands)
  <2>1. set_state(q, id, status).commands = <<v>> \/ set_state(q, id, status).commands = <<v, a>>
    BY DEF set_state
  <2>2. <<v>> \in Seq({v, a}) /\ <<v, a>> \in Seq({v, a}) OBVIOUS
  <2> QED BY <2>1, <2>2, Zenon DEF Sequence
<1> QED BY <1>1, <1>2

\* Sequences of commands may be joined, and nothing is added by no commands.
LEMMA Joined ==
  ASSUME NEW s, NEW c, Sequence(s), Sequence(c)
  PROVE  Sequence(s \o c) /\ s \o <<>> = s
<1>1. PICK S : s \in Seq(S) BY DEF Sequence
<1>2. PICK C : c \in Seq(C) BY DEF Sequence
<1>3. s \in Seq(S \cup C) /\ c \in Seq(S \cup C) BY <1>1, <1>2
<1>4. s \o c \in Seq(S \cup C) BY <1>3
<1>5. s \o <<>> = s BY <1>1
<1> QED BY <1>4, <1>5 DEF Sequence

-----------------------------------------------------------------------------
(* Steps. *)

\* A step that starts no task, takes no commands and changes no topic.
LEMMA Quiet ==
  ASSUME IInv, UNCHANGED <<topics, handles, durable_commands_queue, spawned, restarts>>
  PROVE  IInv'
BY DEF IInv, PerNode, Handled, CommandsServed, Sequence

\* commit_durable_commands: either nothing is pushed or the topic has a handle, so
\* that a task is spawned for what is pushed.
LEMMA Committing ==
  ASSUME IInv, NEW n \in Node, NEW t, NEW codes, NEW commands,
         commit_durable_commands(n, t, codes, commands),
         Sequence(commands), commands = <<>> \/ t \in codes,
         Handled', DOMAIN topics' = Node, DOMAIN handles' = Node, restarts' = restarts
  PROVE  IInv'
<1>1. PerNode' BY DEF IInv, PerNode, commit_durable_commands
<1>2. \A k \in Node : durable_commands_queue'[k] =
        IF k = n THEN durable_commands_queue[n] \o commands ELSE durable_commands_queue[k]
  BY DEF IInv, PerNode, commit_durable_commands
<1>3. \A k \in Node : spawned'[k] =
        IF k = n THEN spawned[n] \cup ({t} \cap codes) ELSE spawned[k]
  BY DEF IInv, PerNode, commit_durable_commands
<1>4. Sequence(durable_commands_queue[n]) BY DEF IInv
<1>5. /\ Sequence(durable_commands_queue[n] \o commands)
      /\ durable_commands_queue[n] \o <<>> = durable_commands_queue[n]
  BY <1>4, Joined, Zenon
<1>6. \A k \in Node : Sequence(durable_commands_queue'[k])
  BY <1>2, <1>5, Zenon DEF IInv
<1>7. CommandsServed'
  <2> SUFFICES ASSUME NEW k \in Node, durable_commands_queue'[k] # <<>>
               PROVE  spawned'[k] # {}
    BY DEF CommandsServed
  <2>1. CASE k # n BY <2>1, <1>2, <1>3 DEF IInv, CommandsServed
  <2>2. CASE k = n /\ commands = <<>>
    BY <2>2, <1>2, <1>3, <1>5 DEF IInv, CommandsServed
  <2>3. CASE k = n /\ t \in codes BY <2>3, <1>3
  <2> QED BY <2>1, <2>2, <2>3
<1>8. (\A k \in Node : Sequence(durable_commands_queue[k]))'
  BY <1>6 DEF Sequence
<1> QED BY <1>1, <1>7, <1>8 DEF IInv

\* A delegated message is held in a topic that has a handle, or nothing is pushed.
LEMMA DelegateServed ==
  ASSUME IInv, NEW n \in Node, apply_delegate_message(n)
  PROVE  IInv'
<1> PICK p : p = Head(pending[n]) OBVIOUS
<1>r. PICK held : held = hold(topics[n][p.topic], p.id, p.wanted) OBVIOUS
<1>1. Sequence(held.commands) BY <1>r, CommandSequences, Zenon
<1>2. Sequence(<<>>) BY EmptySeq DEF Sequence
<1>3. UNCHANGED <<handles, restarts>> BY DEF apply_delegate_message, counters
<1>4. CASE p.topic \in DOMAIN topics[n]
  <2>1. topics' = [topics EXCEPT ![n][p.topic] = held.queue]
    BY <1>4, <1>r DEF apply_delegate_message
  <2>2. commit_durable_commands(n, p.topic, handles[n], held.commands)
    BY <1>4, <1>r DEF apply_delegate_message
  <2>3. Handled' /\ DOMAIN topics' = Node
    BY <2>1, <1>3 DEF IInv, PerNode, Handled
  <2>4. p.topic \in handles[n] BY <1>4 DEF IInv, Handled
  <2>5. DOMAIN handles' = Node BY <1>3 DEF IInv, PerNode
  <2> QED BY <2>2, <2>3, <2>4, <2>5, <1>1, <1>3, Committing, Zenon
<1>5. CASE p.topic \notin DOMAIN topics[n]
  <2>1. topics' = topics /\ commit_durable_commands(n, p.topic, handles[n], <<>>)
    BY <1>5 DEF apply_delegate_message
  <2>2. Handled' /\ DOMAIN topics' = Node /\ DOMAIN handles' = Node
    BY <2>1, <1>3 DEF IInv, PerNode, Handled
  <2> QED BY <2>1, <2>2, <1>2, <1>3, Committing, Zenon
<1> QED BY <1>4, <1>5

\* A reported status is recorded in a topic that has a handle, or nothing is pushed.
LEMMA SetStateServed ==
  ASSUME IInv, NEW n \in Node, apply_set_state(n)
  PROVE  IInv'
<1> PICK p : p = Head(pending[n]) OBVIOUS
<1>r. PICK set : set = set_state(topics[n][p.topic], p.id, p.status) OBVIOUS
<1>1. Sequence(set.commands) BY <1>r, CommandSequences, Zenon
<1>2. Sequence(<<>>) BY EmptySeq DEF Sequence
<1>3. UNCHANGED <<handles, restarts>> BY DEF apply_set_state, counters
<1>4. CASE p.topic \in DOMAIN topics[n]
  <2>1. topics' = [topics EXCEPT ![n][p.topic] = set.queue]
    BY <1>4, <1>r DEF apply_set_state
  <2>2. commit_durable_commands(n, p.topic, handles[n], set.commands)
    BY <1>4, <1>r DEF apply_set_state
  <2>3. Handled' /\ DOMAIN topics' = Node
    BY <2>1, <1>3 DEF IInv, PerNode, Handled
  <2>4. p.topic \in handles[n] BY <1>4 DEF IInv, Handled
  <2>5. DOMAIN handles' = Node BY <1>3 DEF IInv, PerNode
  <2> QED BY <2>2, <2>3, <2>4, <2>5, <1>1, <1>3, Committing, Zenon
<1>5. CASE p.topic \notin DOMAIN topics[n]
  <2>1. topics' = topics /\ commit_durable_commands(n, p.topic, handles[n], <<>>)
    BY <1>5 DEF apply_set_state
  <2>2. Handled' /\ DOMAIN topics' = Node /\ DOMAIN handles' = Node
    BY <2>1, <1>3 DEF IInv, PerNode, Handled
  <2> QED BY <2>1, <2>2, <1>2, <1>3, Committing, Zenon
<1> QED BY <1>4, <1>5

\* LoadTopic adds the queue and the handle together.
LEMMA LoadServed ==
  ASSUME IInv, NEW n \in Node, apply_load_topic(n)
  PROVE  IInv'
<1> PICK p : p = Head(pending[n]) OBVIOUS
<1>1. Sequence(<<>>) BY EmptySeq DEF Sequence
<1>2. restarts' = restarts BY DEF apply_load_topic, counters
<1>3. CASE p.topic \in DOMAIN topics[n]
  BY <1>3, <1>2, Quiet DEF apply_load_topic, task_vars
<1>4. CASE p.topic \notin DOMAIN topics[n]
  <2>1. insert_topic(n, p) BY <1>4 DEF apply_load_topic
  <2>2. commit_durable_commands(n, p.topic, handles'[n], <<>>) BY <2>1 DEF insert_topic
  <2>3. /\ topics' = [topics EXCEPT ![n] = [t \in DOMAIN topics[n] \cup {p.topic} |->
                         IF t = p.topic THEN p.queue ELSE topics[n][t]]]
        /\ handles' = [handles EXCEPT ![n] = @ \cup {p.topic}]
    BY <2>1 DEF insert_topic
  <2>4. DOMAIN topics' = Node /\ DOMAIN handles' = Node BY <2>3 DEF IInv, PerNode
  <2>5. \A k \in Node : DOMAIN topics'[k] =
          IF k = n THEN DOMAIN topics[n] \cup {p.topic} ELSE DOMAIN topics[k]
    BY <2>3 DEF IInv, PerNode
  <2>6. \A k \in Node : handles'[k] = IF k = n THEN handles[n] \cup {p.topic} ELSE handles[k]
    BY <2>3 DEF IInv, PerNode
  <2>7. Handled' BY <2>5, <2>6 DEF IInv, Handled
  <2>8. PICK codes : codes = handles'[n] OBVIOUS
  <2>9. commit_durable_commands(n, p.topic, codes, <<>>) BY <2>2, <2>8
  <2> QED BY <2>4, <2>7, <2>9, <1>1, <1>2, Committing, Zenon
<1> QED BY <1>3, <1>4

\* UnloadTopic takes a queue and leaves handles, commands and tasks.
LEMMA UnloadServed ==
  ASSUME IInv, NEW n \in Node, apply_unload_topic(n)
  PROVE  IInv'
<1> PICK u : u = Head(pending[n]).topic OBVIOUS
<1>1. UNCHANGED <<handles, durable_commands_queue, spawned, restarts>>
  BY DEF apply_unload_topic, counters, task_vars
<1>2. topics' = [topics EXCEPT ![n] = [t \in DOMAIN topics[n] \ {u} |-> topics[n][t]]]
  BY DEF apply_unload_topic
<1>3. DOMAIN topics' = Node BY <1>2 DEF IInv, PerNode
<1>4. \A k \in Node : DOMAIN topics'[k] \subseteq DOMAIN topics[k]
  BY <1>2 DEF IInv, PerNode
<1>5. Handled' BY <1>1, <1>4 DEF IInv, Handled
<1> QED BY <1>1, <1>3, <1>5 DEF IInv, PerNode, CommandsServed, Sequence

\* The task that takes the commands out leaves none.
LEMMA SwapServed ==
  ASSUME IInv, NEW n \in Node, NEW t \in TopicCode, swap_out_durable_commands(n, t)
  PROVE  IInv'
<1>1. UNCHANGED <<topics, handles, restarts>>
  BY DEF swap_out_durable_commands, task_step, raft_vars
<1>2. /\ spawned' = [spawned EXCEPT ![n] = @ \ {t}]
      /\ durable_commands_queue' = [durable_commands_queue EXCEPT ![n] = <<>>]
  BY DEF swap_out_durable_commands
<1>3. PerNode' /\ Handled' BY <1>1, <1>2 DEF IInv, PerNode, Handled
<1>4. \A k \in Node : durable_commands_queue'[k] =
        IF k = n THEN <<>> ELSE durable_commands_queue[k]
  BY <1>2 DEF IInv, PerNode
<1>5. \A k \in Node : k # n => spawned'[k] = spawned[k]
  BY <1>2 DEF IInv, PerNode
<1>6. CommandsServed' BY <1>4, <1>5 DEF IInv, CommandsServed
<1>7. Sequence(<<>>) BY EmptySeq DEF Sequence
<1>8. (\A k \in Node : Sequence(durable_commands_queue[k]))'
  BY <1>4, <1>7 DEF IInv, Sequence
<1> QED BY <1>3, <1>6, <1>8 DEF IInv

\* A restart leaves neither topics nor commands.
LEMMA RestartServed ==
  ASSUME IInv, restart
  PROVE  IInv'
<1>1. \A k \in Node : /\ topics'[k] = Empty /\ handles'[k] = {}
                      /\ durable_commands_queue'[k] = <<>>
  BY DEF restart, each_node
<1>2. PerNode' BY DEF restart, each_node, IInv, PerNode
<1>3. Handled' BY <1>1 DEF Handled, Empty
<1>4. CommandsServed' BY <1>1 DEF CommandsServed
<1>5. Sequence(<<>>) BY EmptySeq DEF Sequence
<1>6. (\A k \in Node : Sequence(durable_commands_queue[k]))' BY <1>1, <1>5 DEF Sequence
<1> QED BY <1>2, <1>3, <1>4, <1>6 DEF IInv

\* IInv is inductive.
LEMMA Inductive ==
  ASSUME IInv, [Next]_vars
  PROVE  IInv'
<1> USE DEF raft_vars, task_vars, counters
<1>1. ASSUME NEW n \in Node, NEW id \in MessageId, NEW wanted \in BOOLEAN,
             send_message(n, id, wanted)
      PROVE  IInv'
  BY <1>1, Quiet DEF send_message
<1>2. ASSUME NEW n \in Node, NEW id \in MessageId, NEW status, report(n, id, status)
      PROVE  IInv'
  BY <1>2, Quiet DEF report
<1>3. ASSUME NEW n \in Node, NEW t \in TopicCode,
             \/ unload_topic(n, t) \/ create_new_topic(n, t)
             \/ load_from_durable_service(n, t) \/ batch_retrieve(n, t) \/ load_topic(n, t)
      PROVE  IInv'
  BY <1>3, Quiet
     DEF unload_topic, create_new_topic, load_from_durable_service, batch_retrieve, load_topic
<1>4. ASSUME NEW n \in Node, NEW t \in TopicCode,
             ensure_linearizable(n, t) \/ execute_command(n, t) \/ fail_command(n, t)
      PROVE  IInv'
  BY <1>4, Quiet DEF ensure_linearizable, execute_command, fail_command, next_command, task_step
<1>5. ASSUME NEW n \in Node, Apply(n)
      PROVE  IInv'
  BY <1>5, DelegateServed, SetStateServed, LoadServed, UnloadServed DEF Apply
<1>6. ASSUME NEW n \in Node \cup {OtherNode}, elect(n)
      PROVE  IInv'
  BY <1>6, Quiet DEF elect
<1>7. CASE UNCHANGED vars BY <1>7, Quiet DEF vars
<1> QED
  BY <1>1, <1>2, <1>3, <1>4, <1>5, <1>6, <1>7, SwapServed, RestartServed, Zenon DEF Next, Task

\* The empty cluster.
LEMMA Initially ==
  ASSUME Init
  PROVE  IInv
<1>1. \A k \in Node : /\ topics[k] = Empty /\ handles[k] = {}
                      /\ durable_commands_queue[k] = <<>>
  BY DEF Init, each_node
<1>2. PerNode BY DEF Init, each_node, PerNode
<1>3. Handled BY <1>1 DEF Handled, Empty
<1>4. CommandsServed BY <1>1 DEF CommandsServed
<1>5. \A k \in Node : Sequence(durable_commands_queue[k]) BY <1>1, EmptySeq DEF Sequence
<1> QED BY <1>2, <1>3, <1>4, <1>5 DEF IInv

-----------------------------------------------------------------------------
(* The theorems. *)

\* While the queue of a node holds durable commands, a spawned commit task has still
\* to take them out: a topic with a queue has a handle, so every push of commands is
\* followed by the spawn of a task, and a task takes out all there is.
THEOREM NoCommandLeftBehind == Spec => []CommandsServed
<1>1. Init => IInv BY Initially
<1>2. IInv /\ [Next]_vars => IInv' BY Inductive
<1>3. IInv => CommandsServed BY DEF IInv
<1> QED BY <1>1, <1>2, <1>3, PTL DEF Spec

\* What a step may do to the queues of a node whose next entry is a LoadTopic.
QueuesStay(n) ==
  \A t \in DOMAIN topics[n] : t \in DOMAIN topics'[n] /\ topics'[n][t] = topics[n][t]

\* An entry that is applied on another node leaves the queues of n alone.
LEMMA AppliedElsewhere ==
  ASSUME IInv, NEW n \in Node, NEW k \in Node, k # n, Apply(k)
  PROVE  topics'[n] = topics[n]
<1> USE DEF IInv, PerNode
<1>1. CASE apply_delegate_message(k)
  <2>1. topics' = topics \/ \E t, q : topics' = [topics EXCEPT ![k][t] = q]
    BY <1>1, Zenon DEF apply_delegate_message
  <2> QED BY <2>1
<1>2. CASE apply_set_state(k)
  <2>1. topics' = topics \/ \E t, q : topics' = [topics EXCEPT ![k][t] = q]
    BY <1>2, Zenon DEF apply_set_state
  <2> QED BY <2>1
<1>3. CASE apply_load_topic(k)
  <2>1. topics' = topics \/ \E f : topics' = [topics EXCEPT ![k] = f]
    BY <1>3, Zenon DEF apply_load_topic, insert_topic
  <2> QED BY <2>1
<1>4. CASE apply_unload_topic(k) BY <1>4 DEF apply_unload_topic
<1> QED BY <1>1, <1>2, <1>3, <1>4 DEF Apply

\* The LoadTopic itself: a topic that is there is not loaded, and another topic is
\* beside the one that is.
LEMMA AppliedHere ==
  ASSUME IInv, NEW n \in Node, next_is(n, "LoadTopic"), Apply(n)
  PROVE  QueuesStay(n)
<1>1. apply_load_topic(n)
  BY DEF Apply, next_is, apply_delegate_message, apply_set_state, apply_unload_topic
<1> PICK p : p = Head(pending[n]) OBVIOUS
<1>2. CASE p.topic \in DOMAIN topics[n]
  BY <1>1, <1>2 DEF apply_load_topic, QueuesStay
<1>3. CASE p.topic \notin DOMAIN topics[n]
  <2>1. topics' = [topics EXCEPT ![n] = [t \in DOMAIN topics[n] \cup {p.topic} |->
                                           IF t = p.topic THEN p.queue ELSE topics[n][t]]]
    BY <1>1, <1>3 DEF apply_load_topic, insert_topic
  <2>2. topics'[n] = [t \in DOMAIN topics[n] \cup {p.topic} |->
                        IF t = p.topic THEN p.queue ELSE topics[n][t]]
    BY <2>1 DEF IInv, PerNode
  <2> QED BY <2>2, <1>3 DEF QueuesStay
<1> QED BY <1>2, <1>3

\* No step takes a message from a node whose next entry is a LoadTopic.
LEMMA LoadTakesNothing ==
  ASSUME IInv, [Next]_vars, NEW n \in Node, next_is(n, "LoadTopic"), restarts' = restarts
  PROVE  QueuesStay(n)
<1> USE DEF raft_vars, task_vars, counters
<1>0. topics' = topics => QueuesStay(n) BY DEF QueuesStay
<1>1. ASSUME NEW k \in Node, NEW id \in MessageId, NEW wanted \in BOOLEAN,
             send_message(k, id, wanted)
      PROVE  topics' = topics
  BY <1>1 DEF send_message
<1>2. ASSUME NEW k \in Node, NEW id \in MessageId, NEW status, report(k, id, status)
      PROVE  topics' = topics
  BY <1>2 DEF report
<1>3. ASSUME NEW k \in Node, NEW t \in TopicCode,
             \/ unload_topic(k, t) \/ create_new_topic(k, t)
             \/ load_from_durable_service(k, t) \/ batch_retrieve(k, t) \/ load_topic(k, t)
      PROVE  topics' = topics
  BY <1>3
     DEF unload_topic, create_new_topic, load_from_durable_service, batch_retrieve, load_topic
<1>4. ASSUME NEW k \in Node, NEW t \in TopicCode, Task(k, t) \/ fail_command(k, t)
      PROVE  topics' = topics
  BY <1>4 DEF Task, swap_out_durable_commands, ensure_linearizable, execute_command,
              fail_command, next_command, task_step
<1>5. ASSUME NEW k \in Node, Apply(k)
      PROVE  QueuesStay(n)
  <2>1. CASE k = n BY <2>1, <1>5, AppliedHere
  <2>2. CASE k # n
    <3>1. topics'[n] = topics[n] BY <2>2, <1>5, AppliedElsewhere
    <3> QED BY <3>1 DEF QueuesStay
  <2> QED BY <2>1, <2>2
<1>6. ASSUME NEW k \in Node \cup {OtherNode}, elect(k)
      PROVE  topics' = topics
  BY <1>6 DEF elect
<1>7. ~restart BY DEF restart, IInv, PerNode
<1>8. CASE UNCHANGED vars BY <1>8, <1>0 DEF vars
<1> QED BY <1>0, <1>1, <1>2, <1>3, <1>4, <1>5, <1>6, <1>7, <1>8, Zenon DEF Next

\* A LoadTopic that comes second changes nothing: as long as the next entry of a node
\* is a LoadTopic, no step but a restart takes a message out of its queues.
THEOREM LoadChangesNothingLoaded == Spec => LoadedOnce
<1>1. Init => IInv BY Initially
<1>2. IInv /\ [Next]_vars => IInv' BY Inductive
<1>3. IInv /\ [Next]_vars =>
        [\A n \in Node : next_is(n, "LoadTopic") /\ restarts' = restarts =>
           \A t \in DOMAIN topics[n] : topics[n][t] # <<>> =>
              t \in DOMAIN topics'[n] /\ topics'[n][t] = topics[n][t]]_vars
  BY LoadTakesNothing DEF QueuesStay
<1> QED BY <1>1, <1>2, <1>3, PTL DEF Spec, LoadedOnce
=============================================================================
