# asteroid-mq: a TLA+ verification project

asteroid-mq is a message queue whose cluster nodes replicate every topic through
raft. Clients send messages to a topic; endpoints declare interests (globs over
subjects); the topic decides which endpoints a message goes to, hands it to them,
collects their acks and tells the sender the result. Clients outside the cluster
connect to one of its nodes as edge nodes. This directory models the topic core,
the durable store, the edge protocol, the raft storage and the raft network,
model-checks them on small instances and proves most of their safety properties
for every instance. Paths below are relative to the repository.

## 1. Inventory

| component | state | operations | talks to | module |
|---|---|---|---|---|
| message status (`model/src/message.rs`) | a kind per (message, endpoint) | `is_unsent`, `is_reached`, `is_failed`, `is_resolved` | queue | MessageStatus |
| message queue (`.../topic/message_queue.rs`, `wait_ack.rs`, `util.rs`) | `hold_messages`, `time_id`, `id_time`, `resolved`, `size` | `push`, `pop`, `remove`, `update_ack`, `poll_message`, `flush` | topic data; effects on the `ProposalContext` | MessageQueue |
| topic data (`.../state_machine/topic.rs`) | routing table, interest map, queue | `hold_new_message`, `update_and_flush`, `ep_online`, `ep_offline`, `update_ep_interest` | queue, interest map | TopicData |
| interest map (`server/src/protocol/interest.rs`, `model/src/interest.rs`) | radix tree, raw interests | `insert`, `delete`, `find`, `from_raw` | topic data, snapshots | InterestMap |
| state machine (`state_machine.rs`, `state_machine/node.rs`) | topics of the node, applied index, snapshot | `apply`, `apply_*`, `build_snapshot`, `install_snapshot` | openraft | Cluster, DurableStore, RaftStorage |
| proposals (`raft/proposal.rs`) | node-wide durable command queue | `dispatch_message` and `resolve_ack` tasks, `commit_durable_commands` | `Node::propose`, topic handle, durable service | Cluster, DurableStore |
| topic handle, local endpoints (`protocol/topic.rs`, `endpoint.rs`) | `ack_waiting_pool`, `local_endpoints`, mail boxes | `send_message`, `create_endpoint`, `delete_endpoint`, drop, acks, `update_interest` | `Node::propose` | Cluster |
| node (`protocol/node.rs`) | topics, edges, routing, auth | `propose`, `load_topic`, `load_from_durable_service`, `handle_edge_request` | all | DurableStore, Edge, RaftNet |
| edge nodes (`node/edge/*`), Rust SDK (`sdk/rust/src`) | connections, edge routing; response pool, endpoint map, mail boxes | requests, responses, pushes, clean-up | node | Edge |
| durable service (`topic/durable_message.rs`) | external store | save, update, archive, retrieve | proposals, node | DurableStore |
| raft log storage (`raft/log_storage.rs`) | log, vote, committed and purged id | `append`, `truncate`, `purge`, `get_log_state`, ... | openraft | RaftStorage |
| raft network, raft handle (`raft/network*.rs`, `raft.rs`) | connections, waiting requests, the raft once it is loaded | dial, accept, request, response, `get`, `set` | openraft, other nodes | RaftNet |
| membership listener, cluster providers, event handler, codecs, TypeScript SDK | | | | none, see section 6 |

What is hard here: everything that applying an entry starts is a spawned task, so
dispatches, their reports, acks, durable commands and the results for senders
interleave freely; replicas apply the same log at different times and with
different clocks; endpoints come and go while messages are on their way to them;
the queue keeps three indexes and a counter that must agree; a blocking queue only
moves when somebody polls its front; the commands for the durable service wait in
one queue for all topics; a connection is used while it is being lost, by callers
that wait for an answer over it; two nodes dial each other with a lock held.
`PROJECT.json` lists each hazard at its line.

What makes the components correct: the queue's indexes agree; a full queue is
never exceeded and never panics; a sender is told the truth, once its message is
resolved, and is never forgotten; an endpoint gets a message at most once; a
blocking topic works on one message at a time; replicas that applied the same
entries hold the same topic; `find` is glob matching; the durable service follows
the queue; an edge client gets the answer to its own request and is swept when it
goes; a node's stored log and snapshot always bring it back to what was committed;
no lock is waited for in a circle.

## 2. Modules

    Messaging <- (INSTANCE) Cluster
    MessageStatus <- MessageQueue <- TopicData <- Cluster <- MCCluster
                          ^           ^    ^         ^
                          |           |    +-- Edge <- MCEdge
                          +--- TopicProofs <- ClusterProofs <- DeliveryProofs <- AgreementProofs
                                    ^
                                    +-- EdgeProofs
    InterestMap <- MCInterestMap
    ReplicatedState <- (INSTANCE) RaftStorage <- MCRaftStorage
                                       ^
                               RaftStorageProofs
    DurableStore <- MCDurableStore          RaftNet <- MCRaftNet
         ^                                     ^
    DurableStoreProofs                     RaftNetProofs

- **MessageStatus**: the status kinds and the four tests of them.
- **MessageQueue**: a queue is a record, an operation a function on it. The effects
  of the operations on the `ProposalContext` are two fields, `dispatch` and `acks`,
  which `Cluster` and `Edge` turn into tasks. `Timed` compares times only, so `push`
  adds an entry to `time_id` only if none has the same time, and `remove` takes out
  the entry of the message's time. The `resolved` cache is left out: it is filled
  only when `flush` follows, and `flush` empties it again. `poll_and_flush` is the
  pair `poll_message` / `flush` for a set of ids; the front of a blocking queue is
  polled again after each pop, as `blocking_pop` does. `update_ack` has one case:
  its trailing `insert` makes the match before it immaterial.
- **TopicData**: routing table, interests and queue of one replica, and what each
  proposal does to them. An endpoint's interests are the set of subjects they
  cover (`InterestMap` shows that this is what `find` computes).
- **Cluster**: the composition, for one topic. Every action is one atomic step of
  the code between two awaits: proposing; applying the next entry on one replica;
  a dispatch task's hand-over, its report, the loss of its report; a resolve task;
  the two halves of `create_endpoint`; `delete_endpoint`, the drop of an endpoint
  and the proposal either makes; interest updates; acks; an expire time that
  passes on one node's clock. openraft is external: a proposal gets one position in
  one log, every replica applies the log in order. The log is kept as what each node
  has still to apply (`pending`), which also forgets what all nodes have applied.
- **Messaging**: what the cluster promises the clients of a topic, without raft, queues or
  replicas: a message is sent once; an endpoint gets it at most once, while it is there and
  only after it was sent; its sender gets one answer, and the answer is true of the
  endpoints it names. `Cluster` implements it (`ImplementsMessaging`): an answer is the
  kind of a waiter's result with the endpoints in its status map, an endpoint is coming
  until `create_endpoint` has registered it, gone from `delete_endpoint` or its drop on,
  and what it got is its mail box.
- **InterestMap**: the radix tree as the set of its (path, value) pairs, with
  `find_all_recursive` as it walks the tree and `Matches`, the glob reference. Texts
  are sequences of tokens, so the two segment iterators, which treat slashes
  differently, are modelled by what they return.
- **DurableStore**: what the topics of a node make of the durable service. Delivery
  is left to `TopicData`: a queue is the sequence of its messages, each with the last
  status that was reported of it. Applying an entry pushes the commands the code
  pushes and spawns the task of `commit_durable_commands`; the task takes the lock of
  its topic, swaps the commands of the node out, asks openraft whether the node leads
  (`ensure_linearizable`) and executes them one by one, each of which may fail.
  `load_from_durable_service` reads page after page and proposes a LoadTopic;
  `create_new_topic` and UnloadTopic are there, elections too, and a restart of the
  whole cluster, which loses log and topics because both are in memory. The service is
  external: a store all nodes share, as `tests/test_durable_service.rs` has one.
- **Edge**: clients of the Rust SDK at one cluster node. Client side: calls with
  sequence numbers, the request channel, the response pool, the two tasks of
  `ClientNode`, mail boxes, the acks of a received message (`ack_received_message`) and
  `ClientNode::ack` (`ack`), which sends an ack for any endpoint and any message. The drop
  of an endpoint sends an EndpointOffline, unless its node is gone (`drop_orphan`); the drop
  of a node (`drop_node`) cancels its tasks: the writing one stops, the reading one leaves
  its loop (`rx_cancelled`), awaits one more frame and only then lets go of the socket
  (`rx_close`). Server side: the
  connection task, one handler task per request with its checks (authorisation, the
  topic, the edge routing), the proposals it makes, `remove_edge_connection` and the
  EpOffline tasks it spawns, pushes to edge endpoints. In between a socket that may be
  cut and an outbound channel of bounded size. The topic is one replica of `TopicData`.
  A request carries the name of the endpoint or message whose id the server will draw;
  a response carries the request that it answers.
- **RaftNet**: cluster nodes that dial and accept TCP connections, exchange
  `RaftNodeInfo`, enter the connection in the map under its write lock, send requests
  and hand responses to their callers; `MaybeLoadingRaft` with its look, its
  notification and the wait between them; the remote branch of `Node::propose`;
  streams that are lost and RPCs that openraft times out. openraft is external: which
  node calls which is an input, what a raft answers is not looked at.
- **RaftStorage**: the `LogStorage` and the `StateMachineStore` of one node. A log id is
  `<<term, index>>`, the data of the node the sequence of applied proposals. openraft is
  external and appears as the calls it makes: its core task (votes, appends, truncation,
  commits, received snapshots, purges), its state machine worker, which applies and
  installs in order, and the task that builds a snapshot. The two `RwLock`s are the stages
  of worker and builder that hold them; that both tasks take the second lock while they
  hold the first is what `CatchesUp` is about.
- **ReplicatedState**: what a node's storage promises: the cluster commits a history of
  states, and the node shows one after the other, never an earlier one again.
  `RaftStorage` implements it with `history <- state_at`, `position <- applied(sm)`,
  `shown <- sm`.
- **TopicProofs, ClusterProofs, DeliveryProofs, AgreementProofs, EdgeProofs,
  RaftStorageProofs, RaftNetProofs, DurableStoreProofs**: theorems, see section 5.
- **MCCluster, MCInterestMap, MCDurableStore, MCEdge, MCRaftNet, MCRaftStorage**: the
  instances.

State of `Cluster` and code: `topic[n]` is the `TopicData` of node n; `dispatching`
the tasks of `ProposalContext::dispatch_message`; `resolving[n]` those of
`resolve_ack`; `waiter[n][m]` the `WaitAckHandle` with its entry in
`ack_waiting_pool`; `ep_state`, `mail_box` the `LocalEndpoint` and its channel;
`offlines[e]` the EpOffline proposals that `delete_endpoint` and the drop owe;
`acked` records what owners acked, so that `OkSound` and `ErrSound` can compare the
result a sender gets with what happened. `sends` and `updates` count against
bounds.

State of `DurableStore`: `topics[n]` is the `NodeData`, `handles[n]` the `topics` map of
the node, `running[n][t]` the task that has the topic's
`get_durable_lock`, `loading[n][t]` the load task; `unsaved` and `mixed` are history variables that
say where queue and service may differ.

State of `Edge`: `call`, `request_rx`, `response_pool`, `endpoint_map`, `mail_box` are the
SDK's; `edge_connections` and `edge_routing` the node's; `handlers` the spawned request
tasks; `cancelled` the nodes whose drop has cancelled their tasks; `stray` is a history
variable: endpoints that nothing will take offline any more, each for a reason named at `LeaversSwept`.

## 3. Runs

Passing runs (each below five minutes with two workers):

| run | instance | shows |
|---|---|---|
| broadcast | 2 nodes, 2 endpoints, 1 Online message, delete and drop, acks of three kinds | `OkSound`, `ErrSound`, `ReplicaAgreement`, `ImplementsMessaging`, types |
| blocking | two Online messages, blocking topic, 2 nodes, 2 endpoints | `BlockingOneAtATime`, `NothingForgotten`, `OkSound` |
| overflow_drop_old | an Online, a Push and a Sent-only message, queue of size 2, DropOld, non-blocking, lost reports | `QueuesConsistent`, `SizeBounded`, `NoPanic`, `WaiterAccounted`, `NothingForgotten` |
| durable | durable message with two receivers, interest updates, expiry | `DurableTargets`, `DeliveredOnce` |
| liveness | three messages, blocking queue of size 2, RejectNew, fair runtime and owners, an endpoint that may be dropped | `EventuallyResolved` |
| interests | seven interests, two values, subjects of up to four names | `FindsMatching`, `RootFromRaw` |
| storage | 2 terms, 3 log entries, appends of up to 2, a proposal and a membership | `LogContiguous`, `Recoverable`, `StatesTrue`, `SnapshotForward`, `ImplementsReplicatedState`, `CatchesUp`, types |
| durable_store | 1 node (another one may lead), 1 topic, 2 messages, queue of size 1, pages of 1, two disturbances out of elections, failing commands, restarts and unloads | `CommandsServed`, `StoreFollowsQueue`, `LoadedOnce`, `EventuallyArchived`, types |
| edge | 2 sessions (2 calls and 1 call) that may use the same peer id, 1 endpoint, 1 message, 1 fault and any EpOffline that fails, outbound channel of 2, acks of received messages and, from one session, for any endpoint; fair runtime | `OwnAnswer`, `AnswerUnderWay`, `LeaversSwept`, `OkFromOwnPeer`, `Settles`, types |
| raft_net | 3 nodes, 2 calls, 2 streams, 1 lost stream or timeout | `OwnResponse`, `CallUnderWay`, `LockReleased`, types |

Every property has a mutant of the code (a definition next to the one it replaces)
under which TLC finds it violated.

Violation runs, each a disagreement between the code and what the repository says of
it (`findings` quotes the lines):

- `v_misfiled`: with two topics on a node, the commands of one are filed in the durable
  service under the code of the other, since the queue of commands is the node's.
- `v_reconnect`: the acceptor keeps a dead connection and closes every new one that its
  peer dials.

### Disagreements without a run of their own

The models also show these; each disagrees with a sentence of the repository.

- Sending an id twice to a full DropOld queue makes `pop` find nothing and panic
  (`state_machine/topic.rs:115`, `expect("queue at least one element")`). `NeverPanics`
  has "ids are sent once" as a hypothesis for this reason.
- A dispatch task that runs after EpOnline was applied and before `create_endpoint` has
  registered the endpoint reports the endpoint unreachable, and a durable message is
  given up for a newcomer (`protocol/topic.rs:125`; README.MD:46 "所有新加入的，感兴趣的端点都会被推送").
- Replicas compare expire times with their own clocks, so one may hold a message that
  another dropped (`message_queue.rs:69`; README.MD:22 "簇节点间通过RAFT来保持一致性").
- Dispatch tasks run in any order (`raft/proposal.rs:149`; README.MD:52 "消息按顺序发送").
- With DropOld in a blocking queue, nobody polls the front that a drop uncovers until
  something else happens (`state_machine/topic.rs:115`; README.MD:40 "所有对此消息感兴趣的端点，都会收到").
- A push that reaches an SDK client before its `create_endpoint` has entered the mail box
  in `endpoint_map` is discarded, and counted as Sent (`sdk/rust/src/node.rs:51` and `:278`;
  README.MD:40).

### Behaviours of the code that the models show too

- `ep_offline` sets every status of a leaving endpoint to Unreachable, one that is
  already Processed too (`state_machine/topic.rs:239`), so a sender may be told Err
  because an endpoint left after it had done its work. `ErrSound` allows for this.
- An EpInterest applied after the EpOffline of its endpoint brings the interests back
  (`state_machine/topic.rs:160`); a Push message may then be held for an endpoint that
  is in no routing table.
- `max_receiver` is compared with the endpoints in the status map, whether the message
  reached them or not (`message_queue.rs:74`).
- `Timed` compares times alone (`util.rs:44`), so two pushes at one instant share an
  entry of `time_id`, and removing one message takes out the entry of both.
- After `**` the search looks at `Specific` children only (`interest.rs:117`): an interest
  with `*` or `**` right after `**` finds nothing. The `interests` run therefore has `**`
  followed by a name or by nothing.
- A subject with a leading slash starts with an empty segment
  (`model/src/interest.rs:91`), which an interest of the same text does not have.
- A message that DropOld takes out is not archived and comes back when its topic is
  loaded again; `create_new_topic` before the load hides what the service has for the
  topic; a loaded queue may be longer than the overflow size. `StoreFollowsQueue` leaves
  these messages out by name (`unsaved`).
- Commands that a node took out just before it lost the lead are dropped, and the new
  leader has dropped its own copy: `StoreFollowsQueue` speaks of runs without elections.
- The EpOffline of an edge endpoint carries the edge node as host, its EpOnline the
  cluster node (`protocol/node.rs:567`), so the entry of the routing table stays.
- An edge endpoint can outlive its session: routed after the session's end, committed by
  a propose that failed, not taken offline because that propose failed, brought back by a
  late EpInterest, or of a connection whose peer id another session took over. These are
  the `stray` endpoints; `LeaversSwept` says that there are no others.
- The drop of a `ClientNode` does not close its socket: the cancelled reading task awaits
  the stream once more (`sdk/rust/src/node.rs:298`), so the endpoints of a dropped client
  stay online until the server sends it something or the connection is lost. `Settles`
  promises that endpoints go offline from then on, and not before.
- `check_ep_auth` compares ids of edge nodes (`protocol/node.rs:470`), so
  sessions that connected with the same peer id may ack for each other's endpoints, and a
  sender may be told Ok without an ack of the endpoint's own session. `OkFromOwnPeer` says
  that no session of another edge node can do it.
- When the reading task of a `ClientNode` ends, callers wait until the next write fails.
- A proposal sent to the leader over a connection that dies waits without a timeout
  (`CallUnderWay` and `LockReleased` promise it nothing); RPCs have openraft's.
- `MaybeLoadingRaft::get` looks first and asks for the notification then, so a raft that
  is set in between is missed. `LockReleased` excuses it (`Missed`).

### Bounds

Two nodes tell the host of an endpoint from the other replicas; two endpoints tell
"one" from "all" and make Push choose; two messages make a queue with a front and a
rest, three overflow a queue of size two and leave it a rest. `MaxLag` lets replicas be
apart by entries and proposals race for the log. `MaxSends = 1` because
`MessageId::new_snowflake` makes ids unique. Clocks advance by 1 between pushes
(`StrictClock`). `MaxInterestUpdates`, `AckChoices`, `MayDelete`, `MayDrop`, `ExpireIds`
switch behaviours on per run.

Three log entries and two terms give a log that is purged, truncated and appended to in
one history. Pages and queues of size one overflow with two messages; two disturbances
are a failure and the restart that makes it visible. In `edge` one session has the
endpoint and acks, the other sends, or acks in its place; sharing a peer id is the case in
which one session's end sweeps what the other brought in, and in which it may ack for it.
The second session is the one that calls `ClientNode::ack` (`MayAck`); the invariants were
also checked once with both (1.6 million states). In `raft_net` node 2 both dials (3) and
accepts (from 1), so that a chain of waiting nodes can form, and two calls in both
directions over one stream show that both ends number from 0. The invariants of `raft_net`
were also checked once with three calls (6.6 million states).

`CHECK_DEADLOCK FALSE` is set except in `interests`, because the clients' budgets run out
and the system then rests, as an idle broker does.

### Fairness

- `Cluster`: weak fairness of `Runtime` (openraft applies committed entries, tokio polls
  spawned tasks and ready futures) and of `Finish` (the owner of a live endpoint acks what
  it got as processed or failed). Nothing is assumed about clients that send, create,
  change or delete endpoints, about expiry, or about lost reports.
- `DurableStore`: weak fairness of applying on each node and of each topic's commit task.
  Nobody has to load, create, send or report.
- `Edge`, `RaftNet`: weak fairness of `Runtime`, the tasks of tokio on both sides. Nothing is
  assumed about clients, faults or timeouts.
- `RaftStorage`: strong fairness of the worker and weak fairness of the builder, since
  tokio's `RwLock` serves waiters in order, so that a worker that waits for a lock which a
  builder takes again and again gets it. Nobody has to start building.

## 4. What only TLC checks

- Liveness: `EventuallyResolved`, `EventuallyArchived`, `Settles`, `LockReleased`,
  `CatchesUp`. TLAPS does not reason about fairness and ENABLED.
- `FindsMatching` and `RootFromRaw`: the tree search is recursive over data, and so is
  the reference it is compared with.
- `StoreFollowsQueue` is stated with `SelectSeq`, of which the provers know nothing, and
  `TypeOK` of `DurableStore` says that stored and queued messages are distinct, which
  holds in the checked instance (one node) and not in every one: two nodes that load the
  same topic page by page can read a message twice.

## 5. What is proved

`ClusterProofs` proves for all nodes, endpoints, messages, headers, hashes, overflow
configs and bounds, from the ASSUMEs of the modules (types of the constants,
finitely many message ids, distinct hashes, a positive overflow size):

- `TypeCorrect`: `Spec => []TypeOK`. `TypeOK` is not inductive: it needs that queues
  are finite (`TopicsFinite`) and that an endpoint which was not deleted owes no
  EpOffline (`OfflinesOwed`), or a third one could come after two.
- Under `Orderly` (ids are sent once, clocks advance between pushes, nobody uses the
  unimplemented target kind): `QueuesStayConsistent`, `SizeStaysBounded`,
  `NeverPanics` and `NoWaiterForgotten`. The hypotheses are needed: without the first
  the queue panics (section 3), without the second two messages share an entry.

The inductive invariant `IInv` has these parts. A push keeps the indexes consistent
only if the id is not held and no entry has a time as late; hence `LogFresh` (a
message still to be applied is not held and is in the log once), which in turn
needs `HeldSent` (so that sending once is enough), and `ClockAhead` (no entry is later
than the node's clock). `Sized` is the bound on the counter, which with
`QueuesConsistent` bounds the messages and makes `pop` find one. `WaiterAccounted`
rests on the fact that every operation either keeps a message or leaves a result
for it in `acks` (`Shrunk` and `Offered`).

The argument is layered: the first half of `TopicProofs` shows what each queue operation
does to the indexes (`Discarded`, `Pushed`, `Leave`) and that `poll_and_flush` keeps them
consistent (`PollAndFlushConsistent`), the second lifts this to the operations of a
topic (`Steady` for the ones that take messages out, `Offered` for
`hold_new_message`; `FrontExists` and `LeastTime` for the pop of a full queue), and the
last part says what they write, hand out and tell senders (`Polled`, `Delivers`);
`ClusterProofs` has one lemma per kind of step (`QuietStep`, `SendStep`, `ResolveStep`,
`ApplyStep`).

`DeliveryProofs` is about what endpoints and senders get. Two theorems have no
hypotheses: `OkIsSound` and `DurableMessagesCover` hold also when ids are sent again,
clocks stand still and replicas panic. Their invariant `UInv` says that every status on
record anywhere (in a queue, an entry, a task, a result on the way, a result delivered:
`Claimed`) is true: Sent means that the message is in the mail box, an ack that the owner
gave it (`Truthful`). For this every kind of step is summarised by what it may newly claim
(`NewlyClaimed`), and every operation of a topic by `Delivers`: which statuses it may
write, which tasks it may spawn, that a result it offers follows from the statuses in it
(`Justified`, `ResultsJustified`), that a durable message covers who is interested
(`Covers`). `Routes` says that an endpoint is routed to its host only, `EffectsTaken` that
the effects of an entry are taken when it was applied.

Under `Orderly`:

- `DeliversOnce`: what was handed out is `Spent` (`HandedSpent`): the host of the endpoint
  has applied the message, and if it holds it still, the status says that it was handed
  out. A task is spawned only for a pair that is not spent, and nothing takes the mark
  back. `NotThereYet` and `MailOnce` are the two halves of `DeliveredOnce`.
- `ErrIsSound`: Unreachable is on record only of an endpoint that is gone, or of a message
  that a task did not deliver and nobody will (`UnreachableTrue`, `Missed`); the
  EpOffline of an endpoint follows its end (`OfflineGone`).
- `ClusterImplementsMessaging`: the refinement of `Messaging`, with `OkIsSound`,
  `DeliversOnce` and `ErrIsSound` behind it. A send finds no waiter of the message anywhere
  and a message on its way was sent (`Asked` ties `sends` to the waiters, `HandedSpent` a
  task to `sends`); the task of `dispatch_message` finds the message not there yet
  (`NotThereYet`); the task of `resolve_ack` answers a waiter that waits, and what it says
  is true when it says it (`AnswersTrue`, from `OkSound`, `ErrSound` and, for the two
  exceptions, `ResultsJustified`). Every other step is a stutter of what clients see. An
  Ok for a durable message promises nothing of its targets, which still change.
- `NothingIsForgotten`, with the further hypothesis `DropsUnblocked`: the queue is not a
  blocking one that drops old messages (section 3 says what happens there). Every
  operation leaves a replica that had nothing to do with nothing to do (`Attends`). The
  hard case is `ep_online`, which enters a route without polling the messages that already
  have the endpoint as a target: there are none, because a replica knows nothing of an
  endpoint before its EpOnline (`OnlineFirst`, `Unborn`), which in turn holds because an
  endpoint that was not created is unknown everywhere (`NewUnknown`).

`AgreementProofs` relates replicas. `Cluster` keeps only what each node has still to
apply, so the log is brought back by a quantifier: `Explained` says that there are a log
and, for each node, a topic for every prefix of it (`History`, `Follows`) of which the
node's topic is the one for the prefix it has applied (`Leads`).

- `ReplicasAgree`, under `ClocksAgree` (clocks advance by one and the same step, and no
  durable message expires): every operation takes topics that agree to topics that agree
  (`TopicAgrees`, the lemmas named `...Agrees`, `OutcomeAgrees`). Replicas agree up to
  one difference: the host of an endpoint has a message as Sending where others have it
  as Unsent. The hypothesis is needed because a replica stamps a message with its own
  clock when it pushes it and compares expire times with its own clock when it polls.
- `BlockingTakesTurns`, under `Orderly`, `ClocksAgree`, `NoneDurable` and
  `DropsUnblocked`: a replica that is behind spawns tasks for the front of a queue that
  others have left, so the invariant speaks of the end of the log. `Steered`: an endpoint
  that was handed a message and has not acked it is `Working` on the front of the topic
  at the end of the log. This is kept because no log has an entry that ends work which is
  not over (`NoneEnding`): every status in it is true (`Truthful` and `UnreachableTrue` of
  `DeliveryProofs`), and an EpOffline follows the end of its endpoint (`OfflineGone`); so
  what is the front where the replica is still is the front at the end (`Lasting`).
  A durable message is resolved by its expiry or its number of receivers and one that is
  dropped by the policy, both while an endpoint may be at work, hence the last two
  hypotheses. `blocking.cfg` satisfies all four.

`EdgeProofs` proves for all sessions, peers, endpoints, messages and bounds `EdgeTypes`,
`AnswersOwn` and `AnswersUnderWay`, from `EdgeAssumption` (types, finitely many sessions).
The types need that a connection with a task has a peer (`PeersKnown`); that the replica
stays a topic comes from the lemmas of `TopicProofs`. A response carries the number of the
request it answers along the way client, handler, socket (`NumbersKnown`, `HandlersOwn`,
`ResponsesOwn`), and numbers of one session are never given twice; `AnswerUnderWay` also
needs that a link that is up has its connection task (`Linked`). There is one lemma per
action for the types and one for the calls.

`LeaversAreSwept` has no further hypothesis. Its argument is about the order of the
requests for one endpoint, which handlers may run in any order: a request is in one place
at a time and answered once (`InOnePlace`, `RepliedOnce`); hence a client that has an
endpoint has its creation behind it, an endpoint is created once, and when its
EndpointOffline is under way no update of its interests is (`EndpointCalls`). With this
`SweepInv` is inductive: a route is kept by a session that runs, interests are kept by a
route or an EpOffline that will be proposed, and interests do not outlive a route that the
handler of an EndpointOffline is about to remove.

`OkIsFromOwnPeer` is about what the topic says (`OkInv`): a status that reaches the
expectation of its sender, in the queue or in a result, is there because a session of the
endpoint's edge node sent a SetState (`Acked`). Clients may send acks for any endpoint, so
this rests on the server's check (`AcksChecked`): a route leads to the edge node of the
session that created the endpoint, and a SetState that is past `check_ep_auth` came from
there. It stays true after the route is gone, because sessions keep the peer they connected
as (`SamePeers`) and calls are never forgotten (`SameCalls`). Handlers carry the requests of
their calls (`HandlersOwn`), and the operations of the topic write no other status than the
one they are given (`Claims`, from `Delivers`). The hypothesis `OwnersAck` says that no
message is durable and none asks for Sent only: the first are resolved without acks, and
Sent is what the server itself reports. `edge.cfg` satisfies it. `EdgeAssumption` says that
`None`, the route of an endpoint that has none, is no peer.

`RaftNetProofs` proves for all nodes and any number of calls, streams and losses
`NetTypes`, `ResponsesOwn` and `CallsUnderWay`. Both ends of a stream number their requests
from 0, so a response is told from a request by its direction, and the numbers of one
caller on one stream are distinct and below its next one (`Numbered`); packets carry
stream, number and receiver of their call (`PacketsLabelled`). A stream that is being
dialed is used by nobody else (`DialPrivate`), and connections and listeners hold only
streams that end at their node (`StreamsHeld`).

`DurableStoreProofs` proves for all nodes, topics, messages, page sizes, elections,
failures and restarts `NoCommandLeftBehind` (a node's command queue is not empty only while
a spawned commit task has still to take it out; it rests on `Handled`, a topic with a
queue has a handle) and the action property `LoadChangesNothingLoaded`.

`RaftStorageProofs` proves for all payloads, terms, log lengths and batch sizes, from
`StorageAssumption` alone: `StorageTypeCorrect`, `LogStaysContiguous`, `AlwaysRecoverable`,
`StatesStayTrue`, the action property `SnapshotNeverBack` and the refinement
`StorageRefinesReplicatedState`. Only `CatchesUp`, which is about fairness, is left to TLC.
The theorems are about the storage under what openraft asks of it; that openraft asks
only this (it truncates only what is not committed, purges only what a snapshot covers,
installs only snapshots that are ahead) is assumed in the guards of its actions.

The invariant has four parts besides the types. `History`: `state_at` is what the chosen
entries make, and their terms do not go back (or `purge` could assert). `JobsLead`: each
job of the worker starts where the one before it ends, at a committed state, and the last
one ends at what openraft knows. An install that is under way has already replaced the
state machine, which is why the first job is a special case. `SnapshotsBehind`: the stored
snapshot is no later than the copy of a builder, and the copy no later than the state
machine. While the builder waits for the second lock it holds the read lock, so the copy
still is the state machine; this is what makes `SnapshotNeverBack` true, and the step that
would fail if `build_snapshot` released its guard early. `LogKept`: the log has no gap,
what is purged is covered by a snapshot that is stored or about to be, and what is known
and not purged is in the log as chosen. The lemmas up to `LastLogId` say what each
operation of `LogStorageInner` does to the domain of the log; then there is one lemma per
action.

## 6. Not modelled, and the plan

Not modelled:

- the membership listener of `protocol/node.rs`: it compares lists of members and calls
  openraft's `change_membership`; what openraft does then is openraft's. Worth knowing: a
  node that does not lead takes note of a change without proposing it, so a change seen
  only before it becomes leader is not proposed later.
- cluster providers: they poll DNS, the Kubernetes API or a fixed list.
- codecs and framing: serde formats and the bytes of a packet.
- the event handler: a loop that calls a handler and sends the acks that `Cluster` lets an
  owner send in any order.
- the TypeScript SDK: the protocol of the Rust SDK in another runtime; `Edge` follows
  the Rust one.

Left out of the modules: in `Cluster` a failing `propose` other than that of a dispatch
report, and that an installed snapshot replaces a node's topic handles with their waiting
pools and local endpoints; in `Edge` replicas other than the node's own; in `RaftNet` the
order of packets on one stream, which the code does not rely on since every request
has its own task.

Next:

- `BlockingOneAtATime` with durable messages, which are resolved while an endpoint still
  works on them: what is true then has to be said first.
