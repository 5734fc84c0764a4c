------------------------------- MODULE Cluster -------------------------------
(***************************************************************************)
(* One topic replicated on a cluster: clients send messages, endpoints     *)
(* come, change their interests and go, every node applies the committed   *)
(* proposals in log order, and what applying them starts (dispatch tasks,  *)
(* resolve tasks) runs concurrently and feeds new proposals back.          *)
(*                                                                         *)
(* Raft is the library openraft: a proposal that propose() hands to it is  *)
(* committed once, in one position of one log, and every node applies the  *)
(* log in order, each at its own pace.  The log is kept as the entries a   *)
(* node has still to apply.                                                *)
(***************************************************************************)
EXTENDS TopicData, Sequences

CONSTANTS
  SendNodes,           \* nodes whose clients send messages
  Host,                \* the node each endpoint is created on
  InterestChoices,     \* the interests an endpoint may ask for
  MaxSends,            \* how often a client may send one message id
  MaxInterestUpdates,  \* how often an endpoint may update its interests
  ExpireIds,           \* messages whose expire time passes during the run
  AckChoices,          \* the acks that owners of endpoints send
  MayDelete,           \* endpoints that delete_endpoint may be called for
  MayDrop,             \* endpoints whose owner may drop them
  MaxLag,              \* how many entries a node may be behind the log
  ClockStep,           \* advance of a node's clock between two pushes
  LossyReports         \* may the SetState of a dispatch task fail to be proposed

ASSUME ClusterAssumption ==
  /\ SendNodes \subseteq Node
  /\ Host \in [Endpoint -> Node]
  /\ InterestChoices \subseteq SUBSET Subject
  /\ MaxSends \in Nat
  /\ MaxInterestUpdates \in Nat
  /\ ExpireIds \subseteq MessageId
  /\ AckChoices \subseteq {"Received", "Processed", "Failed"}
  /\ MayDelete \cup MayDrop \subseteq Endpoint
  /\ MaxLag \in Nat \ {0}
  /\ ClockStep \subseteq Nat
  /\ LossyReports \in BOOLEAN

VARIABLES
  pending,    \* pending[n]: committed entries node n has not applied yet
  topic,      \* topic[n]: the TopicData of node n
  clock,      \* clock[n]: Utc::now() on node n when it last pushed a message
  expired,    \* expired[n]: messages whose expire time is past on n's clock
  dispatching,\* spawned dispatch tasks and what they are about to report
  resolving,  \* resolving[n]: results that spawned resolve_ack tasks of n carry
  waiter,     \* waiter[n][m]: the WaitAckHandle of m on n and its pool entry
  sends,      \* sends[m]: how often m was sent
  ep_state,   \* ep_state[e]: life of the LocalEndpoint e
  offlines,   \* offlines[e]: EpOffline proposals of e not handed to raft yet
  updates,    \* updates[e]: how often e updated its interests
  mail_box,   \* mail_box[e]: every message pushed to e, in order
  acked       \* acked[e][m]: the acks that e's owner sent for m

vars == <<pending, topic, clock, expired, dispatching, resolving, waiter, sends,
          ep_state, offlines, updates, mail_box, acked>>

log_vars  == <<pending, topic, clock, resolving>>
ep_vars   == <<ep_state, offlines, updates, mail_box, acked>>

AckKind == {"Received", "Processed", "Failed"}

Proposal ==
  [type : {"DelegateMessage"}, msg : MessageId]
    \cup [type : {"SetState"}, msg : MessageId, ep : Endpoint, kind : MessageStatusKind]
    \cup [type : {"EpOnline"}, ep : Endpoint, interests : SUBSET Subject, host : Node]
    \cup [type : {"EpOffline"}, ep : Endpoint, host : Node]
    \cup [type : {"EpInterest"}, ep : Endpoint, interests : SUBSET Subject]

\* A dispatch task: spawned, or done with the message and about to propose status.
Dispatch == [node : Node, msg : MessageId, ep : Endpoint,
             status : {"Spawned", "Sent", "Unreachable"}]

\* none: nobody waits; waiting: the sender half is in ack_waiting_pool.
Waiter == [kind : {"none", "waiting"} \cup ResultKind, status : StatusMap]

NoWaiter == [kind |-> "none", status |-> NoStatus]
Waiting == [kind |-> "waiting", status |-> NoStatus]

\* new: not created; proposed: create_endpoint waits for its EpOnline;
\* live: in local_endpoints; deleted: taken out by delete_endpoint while its
\* owner still has it; dropped: the last LocalEndpoint is gone.
EpState == {"new", "proposed", "live", "deleted", "dropped"}

TypeOK ==
  /\ pending \in [Node -> Seq(Proposal)]
  /\ topic \in [Node -> Topic]
  /\ clock \in [Node -> Nat \ {0}]
  /\ expired \in [Node -> SUBSET MessageId]
  /\ dispatching \subseteq Dispatch
  /\ resolving \in [Node -> SUBSET WaitAckResult]
  /\ waiter \in [Node -> [MessageId -> Waiter]]
  /\ sends \in [MessageId -> 0 .. MaxSends]
  /\ ep_state \in [Endpoint -> EpState]
  /\ offlines \in [Endpoint -> 0 .. 2]
  /\ updates \in [Endpoint -> 0 .. MaxInterestUpdates]
  /\ mail_box \in [Endpoint -> Seq(MessageId)]
  /\ acked \in [Endpoint -> [MessageId -> SUBSET AckKind]]

Init ==
  /\ pending = [n \in Node |-> <<>>]
  /\ topic = [n \in Node |-> from_durable]
  /\ clock = [n \in Node |-> 1]
  /\ expired = [n \in Node |-> {}]
  /\ dispatching = {}
  /\ resolving = [n \in Node |-> {}]
  /\ waiter = [n \in Node |-> [m \in MessageId |-> NoWaiter]]
  /\ sends = [m \in MessageId |-> 0]
  /\ ep_state = [e \in Endpoint |-> "new"]
  /\ offlines = [e \in Endpoint |-> 0]
  /\ updates = [e \in Endpoint |-> 0]
  /\ mail_box = [e \in Endpoint |-> <<>>]
  /\ acked = [e \in Endpoint |-> [m \in MessageId |-> {}]]

-----------------------------------------------------------------------------
(* Proposing. *)

\* Node::propose: the proposal is committed behind all earlier ones.
propose(p) ==
  /\ \A n \in Node : Len(pending[n]) < MaxLag
  /\ pending' = [n \in Node |-> Append(pending[n], p)]

\* Has node n applied every EpOnline of e that was proposed?
online_applied(n, e) ==
  \A i \in 1 .. Len(pending[n]) :
    ~(pending[n][i].type = "EpOnline" /\ pending[n][i].ep = e)

\* Topic::send_message: the waiter enters the pool, then the message is proposed.
send_message(n, m) ==
  /\ sends[m] < MaxSends
  /\ sends' = [sends EXCEPT ![m] = @ + 1]
  /\ waiter' = [waiter EXCEPT ![n][m] = Waiting]
  /\ propose([type |-> "DelegateMessage", msg |-> m])
  /\ UNCHANGED <<topic, clock, expired, dispatching, resolving, ep_vars>>

-----------------------------------------------------------------------------
(* Applying the next entry of the log on node n: the tasks its effects      *)
(* spawn are started and the effects are gone from the topic.               *)

next_is(n, type) ==
  /\ pending[n] # <<>>
  /\ Head(pending[n]).type = type
  /\ ~topic[n].panic

apply(n, t) ==
  /\ pending' = [pending EXCEPT ![n] = Tail(@)]
  /\ topic' = [topic EXCEPT ![n] = [t EXCEPT !.queue.dispatch = {}, !.queue.acks = {}]]
  /\ dispatching' = dispatching \cup
       {[node |-> n, msg |-> d[1], ep |-> d[2], status |-> "Spawned"] : d \in t.queue.dispatch}
  /\ resolving' = [resolving EXCEPT ![n] = @ \cup t.queue.acks]
  /\ UNCHANGED <<expired, waiter, sends, ep_vars>>

apply_delegate_message(n) ==
  /\ next_is(n, "DelegateMessage")
  /\ \E step \in ClockStep :
       /\ clock' = [clock EXCEPT ![n] = @ + step]
       /\ apply(n, hold_new_message(topic[n], n, Head(pending[n]).msg, clock[n] + step,
                                    expired[n]))

apply_set_state(n) ==
  /\ next_is(n, "SetState")
  /\ LET p == Head(pending[n])
     IN  apply(n, set_state(topic[n], n, p.msg, p.ep, p.kind, expired[n]))
  /\ UNCHANGED clock

apply_ep_online(n) ==
  /\ next_is(n, "EpOnline")
  /\ LET p == Head(pending[n])
     IN  apply(n, ep_online(topic[n], n, p.ep, p.interests, p.host, expired[n]))
  /\ UNCHANGED clock

apply_ep_offline(n) ==
  /\ next_is(n, "EpOffline")
  /\ LET p == Head(pending[n])
     IN  apply(n, ep_offline(topic[n], n, p.host, p.ep, expired[n]))
  /\ UNCHANGED clock

apply_ep_interest(n) ==
  /\ next_is(n, "EpInterest")
  /\ LET p == Head(pending[n])
     IN  apply(n, update_ep_interest(topic[n], n, p.ep, p.interests, expired[n]))
  /\ UNCHANGED clock

Apply(n) ==
  \/ apply_delegate_message(n)
  \/ apply_set_state(n)
  \/ apply_ep_online(n)
  \/ apply_ep_offline(n)
  \/ apply_ep_interest(n)

\* The expire time of a durable message passes on the clock of node n.
expire(n, m) ==
  /\ m \in ExpireIds \ expired[n]
  /\ expired' = [expired EXCEPT ![n] = @ \cup {m}]
  /\ UNCHANGED <<log_vars, dispatching, waiter, sends, ep_vars>>

-----------------------------------------------------------------------------
(* Spawned tasks. *)

\* Topic::dispatch_message inside the task: a live local endpoint gets the
\* message in its mail box.
dispatch_message(d) ==
  /\ d.status = "Spawned"
  /\ LET reached == ep_state[d.ep] = "live"
         status  == IF reached THEN "Sent" ELSE "Unreachable"
     IN  /\ mail_box' = [mail_box EXCEPT ![d.ep] = IF reached THEN Append(@, d.msg) ELSE @]
         /\ dispatching' = (dispatching \ {d}) \cup {[d EXCEPT !.status = status]}
  /\ UNCHANGED <<log_vars, expired, waiter, sends, ep_state, offlines, updates, acked>>

\* The task proposes the status.
report_dispatch(d) ==
  /\ d.status # "Spawned"
  /\ dispatching' = dispatching \ {d}
  /\ propose([type |-> "SetState", msg |-> d.msg, ep |-> d.ep, kind |-> d.status])
  /\ UNCHANGED <<topic, clock, expired, resolving, waiter, sends, ep_vars>>

\* The proposal fails; the error is only logged.
lose_report(d) ==
  /\ LossyReports
  /\ d.status # "Spawned"
  /\ dispatching' = dispatching \ {d}
  /\ UNCHANGED <<log_vars, expired, waiter, sends, ep_vars>>

\* Mutant: the result is recorded whether or not somebody waits for it.
resolve_waiter_again(n, r) ==
  /\ resolving' = [resolving EXCEPT ![n] = @ \ {r}]
  /\ waiter' = [waiter EXCEPT ![n][r.id] = [kind |-> r.kind, status |-> r.status]]
  /\ UNCHANGED <<pending, topic, clock, expired, dispatching, sends, ep_vars>>

\* The task of ProposalContext::resolve_ack: whoever waits in the pool of n is
\* sent the result.
resolve_waiter(n, r) ==
  /\ resolving' = [resolving EXCEPT ![n] = @ \ {r}]
  /\ waiter' = [waiter EXCEPT ![n][r.id] =
                  IF @.kind = "waiting" THEN [kind |-> r.kind, status |-> r.status] ELSE @]
  /\ UNCHANGED <<pending, topic, clock, expired, dispatching, sends, ep_vars>>

-----------------------------------------------------------------------------
(* Endpoints. *)

\* Topic::create_endpoint up to the propose.
create_endpoint(e, interests) ==
  /\ ep_state[e] = "new"
  /\ ep_state' = [ep_state EXCEPT ![e] = "proposed"]
  /\ propose([type |-> "EpOnline", ep |-> e, interests |-> interests, host |-> Host[e]])
  /\ UNCHANGED <<topic, clock, expired, dispatching, resolving, waiter, sends,
                 offlines, updates, mail_box, acked>>

\* The rest of it: propose returns when the host has applied the entry, and only
\* then is the endpoint put into local_endpoints.
register_endpoint(e) ==
  /\ ep_state[e] = "proposed"
  /\ online_applied(Host[e], e)
  /\ ep_state' = [ep_state EXCEPT ![e] = "live"]
  /\ UNCHANGED <<log_vars, expired, dispatching, waiter, sends, offlines, updates, mail_box, acked>>

\* Topic::delete_endpoint up to the propose.
delete_endpoint(e) ==
  /\ e \in MayDelete
  /\ ep_state[e] = "live"
  /\ ep_state' = [ep_state EXCEPT ![e] = "deleted"]
  /\ offlines' = [offlines EXCEPT ![e] = @ + 1]
  /\ UNCHANGED <<log_vars, expired, dispatching, waiter, sends, updates, mail_box, acked>>

\* Mutant: drop_endpoint runs again for an endpoint that is gone.
drop_endpoint_again(e) ==
  /\ e \in MayDrop
  /\ ep_state[e] \in {"live", "deleted", "dropped"}
  /\ ep_state' = [ep_state EXCEPT ![e] = "dropped"]
  /\ offlines' = [offlines EXCEPT ![e] = @ + 1]
  /\ UNCHANGED <<log_vars, expired, dispatching, waiter, sends, updates, mail_box, acked>>

\* LocalEndpointInner::drop spawns the task that proposes.
drop_endpoint(e) ==
  /\ e \in MayDrop
  /\ ep_state[e] \in {"live", "deleted"}
  /\ ep_state' = [ep_state EXCEPT ![e] = "dropped"]
  /\ offlines' = [offlines EXCEPT ![e] = @ + 1]
  /\ UNCHANGED <<log_vars, expired, dispatching, waiter, sends, updates, mail_box, acked>>

\* The propose of either.
propose_offline(e) ==
  /\ offlines[e] > 0
  /\ offlines' = [offlines EXCEPT ![e] = @ - 1]
  /\ propose([type |-> "EpOffline", ep |-> e, host |-> Host[e]])
  /\ UNCHANGED <<topic, clock, expired, dispatching, resolving, waiter, sends,
                 ep_state, updates, mail_box, acked>>

\* LocalEndpoint::update_interest
update_interest(e, interests) ==
  /\ ep_state[e] \in {"live", "deleted"}
  /\ updates[e] < MaxInterestUpdates
  /\ updates' = [updates EXCEPT ![e] = @ + 1]
  /\ propose([type |-> "EpInterest", ep |-> e, interests |-> interests])
  /\ UNCHANGED <<topic, clock, expired, dispatching, resolving, waiter, sends,
                 ep_state, offlines, mail_box, acked>>

\* ack_received, ack_processed and ack_failed: the owner of the endpoint acks a
\* message it took from the mail box, with each kind at most once, and either
\* as processed or as failed.  Their proposals may reach the log in any order.
single_ack(e, m, kind) ==
  /\ ep_state[e] \in {"live", "deleted"}
  /\ \E i \in 1 .. Len(mail_box[e]) : mail_box[e][i] = m
  /\ kind \notin acked[e][m]
  /\ kind = "Received" \/ acked[e][m] \subseteq {"Received"}
  /\ acked' = [acked EXCEPT ![e][m] = @ \cup {kind}]
  /\ propose([type |-> "SetState", msg |-> m, ep |-> e, kind |-> kind])
  /\ UNCHANGED <<topic, clock, expired, dispatching, resolving, waiter, sends,
                 ep_state, offlines, updates, mail_box>>

-----------------------------------------------------------------------------

Next ==
  \/ \E n \in SendNodes, m \in MessageId : send_message(n, m)
  \/ \E n \in Node : Apply(n)
  \/ \E n \in Node, m \in MessageId : expire(n, m)
  \/ \E d \in dispatching : dispatch_message(d) \/ report_dispatch(d) \/ lose_report(d)
  \/ \E n \in Node : \E r \in resolving[n] : resolve_waiter(n, r)
  \/ \E e \in Endpoint, interests \in InterestChoices :
        create_endpoint(e, interests) \/ update_interest(e, interests)
  \/ \E e \in Endpoint : register_endpoint(e) \/ delete_endpoint(e) \/ drop_endpoint(e)
                           \/ propose_offline(e)
  \/ \E e \in Endpoint, m \in MessageId, kind \in AckChoices : single_ack(e, m, kind)

Spec == Init /\ [][Next]_vars

\* What the runtime does by itself: openraft applies entries, tokio polls every
\* spawned task and every future that can go on.
Runtime ==
  \/ \E n \in Node : Apply(n)
  \/ \E d \in dispatching : dispatch_message(d) \/ report_dispatch(d)
  \/ \E n \in Node : \E r \in resolving[n] : resolve_waiter(n, r)
  \/ \E e \in Endpoint : register_endpoint(e) \/ propose_offline(e)

\* The owner of a live endpoint finishes a message it got.
Finish ==
  \E e \in Endpoint, m \in MessageId, kind \in AckChoices \ {"Received"} : single_ack(e, m, kind)

FairSpec == Spec /\ WF_vars(Runtime) /\ WF_vars(Finish)

-----------------------------------------------------------------------------
(* Safety. *)

queue(n) == topic[n].queue

in_mail_box(e, m) == \E i \in 1 .. Len(mail_box[e]) : mail_box[e][i] = m

in_log(n, m) ==
  \E i \in 1 .. Len(pending[n]) :
    pending[n][i].type = "DelegateMessage" /\ pending[n][i].msg = m

\* On every replica the three indexes of the queue and its size counter agree
\* (MessageQueue::push, pop, remove keep hold_messages, time_id, id_time, size).
QueuesConsistent == \A n \in Node : QueueConsistent(queue(n))

\* With an overflow policy a replica never holds more messages than the
\* configured size (the check of hold_new_message is made before every push).
SizeBounded ==
  OverflowPolicy # "None" => \A n \in Node : Cardinality(queue(n).held) <= OverflowSize

\* No call on the topic panics: when hold_new_message drops the oldest message,
\* pop() finds one ("queue at least one element").
NoPanic == \A n \in Node : ~topic[n].panic

\* A waiting sender is never forgotten: its message is still to be applied, or
\* held, or its result is on the way (every path that takes a message out of the
\* queue, and every early return of hold_new_message, calls resolve_ack).
WaiterAccounted ==
  \A n \in Node, m \in MessageId :
    waiter[n][m].kind = "waiting" =>
      \/ in_log(n, m)
      \/ m \in queue(n).held
      \/ \E r \in resolving[n] : r.id = m

\* What really happened at endpoint e for message m reaches the expectation.
really_reached(e, m) ==
  /\ in_mail_box(e, m)
  /\ Header[m].ack_kind # "Sent" =>
       \E kind \in acked[e][m] : is_reached(kind, Header[m].ack_kind)

\* A sender is told Ok only if every endpoint the message was addressed to got
\* it and acked it as far as the header asks (Online and Push messages).
OkSound ==
  \A n \in Node, m \in MessageId :
    /\ waiter[n][m].kind = "Ok"
    /\ Header[m].target_kind # "Durable"
    => \A e \in Endpoint : waiter[n][m].status[e] # Absent => really_reached(e, m)

\* A sender is told Err only if one of the endpoints failed the message, has
\* left, or was not registered yet when the dispatch task looked for it.
ErrSound ==
  \A n \in Node, m \in MessageId :
    waiter[n][m].kind = "Err" =>
      \E e \in Endpoint :
        /\ waiter[n][m].status[e] # Absent
        /\ \/ "Failed" \in acked[e][m]
           \/ ep_state[e] \in {"deleted", "dropped"}
           \/ ~in_mail_box(e, m)

\* No endpoint is handed a message twice: a message in its mail box is neither
\* there again nor on the way to it (send_unsent marks what it hands out).
DeliveredOnce ==
  \A e \in Endpoint :
    /\ \A i, j \in 1 .. Len(mail_box[e]) : mail_box[e][i] = mail_box[e][j] => i = j
    /\ \A d \in dispatching : d.ep = e /\ d.status = "Spawned" => ~in_mail_box(e, d.msg)

\* Endpoint e has message m and its owner still has to ack it.
awaiting(e, m) ==
  /\ ep_state[e] = "live"
  /\ in_mail_box(e, m)
  /\ Header[m].ack_kind # "Sent"
  /\ \A kind \in acked[e][m] : ~is_resolved(kind, Header[m].ack_kind)

\* In a blocking topic the endpoints of the whole cluster work on one message at
\* a time: none is handed a message while another still has to ack an earlier one.
BlockingOneAtATime ==
  Blocking =>
    \A e, f \in Endpoint, k, m \in MessageId : awaiting(e, k) /\ awaiting(f, m) => k = m

\* The messages that the queue of node n should be sending now.
sendable(n) == IF Blocking THEN get_front(queue(n)) ELSE queue(n).held

\* After every entry a replica has nothing left to do by itself: no message it
\* should be sending has an unsent endpoint of this node, and none is resolved.
NothingForgotten ==
  \A n \in Node : \A m \in sendable(n) :
    /\ \A e \in topic[n].routing[n] : ~is_unsent(queue(n).status[m][e])
    /\ ~message_is_resolved(queue(n), m, {})

\* A status as far as replicas must agree on it: only the host of an endpoint
\* knows that a message is being sent to it.
agreed_status(s) == IF s = "Sending" THEN "Unsent" ELSE s

agreed(t) ==
  [t EXCEPT !.queue.status = [m \in MessageId |-> [e \in Endpoint |->
                                agreed_status(t.queue.status[m][e])]]]

\* Replicas that have applied the same entries hold the same topic.
ReplicaAgreement ==
  \A n, k \in Node : Len(pending[n]) = Len(pending[k]) => agreed(topic[n]) = agreed(topic[k])

\* Every endpoint that is interested in a held durable message is one of its
\* targets, whenever the interest came: before the message, with the endpoint,
\* or by a later update (hold_new_message, ep_online, update_ep_interest).
DurableTargets ==
  \A n \in Node : \A m \in queue(n).held :
    Header[m].target_kind = "Durable" =>
      \A e \in collect_addr_by_subjects(topic[n], m) : queue(n).status[m][e] # Absent

-----------------------------------------------------------------------------
(* What the clients see: the answers of the waiters, named by kind and targets, *)
(* the mail boxes, the acks, and where the endpoints are.                       *)

answer(w) == [kind |-> w.kind, targets |-> {e \in Endpoint : w.status[e] # Absent}]

answers(ws) == [n \in Node |-> [m \in MessageId |-> answer(ws[n][m])]]

whereabouts(s) ==
  CASE s \in {"new", "proposed"}    -> "coming"
    [] s = "live"                   -> "here"
    [] s \in {"deleted", "dropped"} -> "gone"

places(ss) == [e \in Endpoint |-> whereabouts(ss[e])]

Promise == INSTANCE Messaging WITH
  Client  <- Node,
  Message <- MessageId,
  Enough  <- [m \in MessageId |-> {kind \in AckKind : is_reached(kind, Header[m].ack_kind)}],
  AckFree <- {m \in MessageId : Header[m].ack_kind = "Sent"},
  Settled <- {m \in MessageId : Header[m].target_kind # "Durable"},
  Picked  <- {m \in MessageId : Header[m].target_kind = "Push"},
  Bounded <- OverflowPolicy # "None",
  result  <- answers(waiter),
  place   <- places(ep_state),
  got     <- mail_box

\* To its clients the replicated topic is what Messaging promises: it delivers a
\* message at most once, to an endpoint that is there and after it was sent, and
\* gives its sender one answer, true of the endpoints when it is given.
ImplementsMessaging == Promise!Spec

-----------------------------------------------------------------------------
(* Liveness. *)

\* Every sender gets its result, as long as reports are not lost.
EventuallyResolved ==
  \A n \in SendNodes, m \in MessageId :
    waiter[n][m].kind = "waiting" ~> waiter[n][m].kind # "waiting"

=============================================================================
