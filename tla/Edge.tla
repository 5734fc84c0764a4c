--------------------------------- MODULE Edge ---------------------------------
(***************************************************************************)
(* Edge nodes: clients of the Rust SDK (sdk/rust/src) connected to one     *)
(* cluster node, and that node's side of the connections                   *)
(* (server/src/protocol/node.rs, node/edge/connection.rs).  The topic is   *)
(* the replica of TopicData at the node.                                   *)
(*                                                                         *)
(* A session is one ClientNode with its websocket.  A call of a client is  *)
(* a request with a sequence number; it goes through the request channel,  *)
(* the response pool, the socket, a handler task of the server, and back   *)
(* through the outbound channel and the socket.                            *)
(*                                                                         *)
(* The server draws the address of an endpoint and the id of a message     *)
(* when it handles the request; here the request carries the name of what  *)
(* will be drawn.  A response carries the request it answers, which fixes  *)
(* its variant and the address or id in it.                                *)
(***************************************************************************)
EXTENDS TopicData, SequencesExt

CONSTANTS
  Session,        \* client nodes, each connecting once
  Peer,           \* ids of edge nodes
  Server,         \* the cluster node
  PeerChoices,    \* the ids each session may connect with
  Denied,         \* <<peer, request type>> pairs the auth service refuses
  TopicCode,      \* topic codes
  TopicChoices,   \* the codes each session names
  Loaded,         \* the topic the server has
  InterestChoices,\* interests clients ask for
  AckChoices,     \* kinds of ack clients send
  MayAck,         \* sessions that call ClientNode::ack themselves
  Outbound,       \* capacity of the way from the server to a client
  MaxCalls,       \* bound: calls of each session
  MaxFaults       \* bound: lost links, failed requests and dropped clients

None == "None"

ASSUME EdgeAssumption ==
  /\ IsFiniteSet(Session)
  /\ Server \notin Peer /\ None \notin Peer
  /\ Node = Peer \cup {Server}
  /\ PeerChoices \in [Session -> SUBSET Peer]
  /\ Loaded \in TopicCode
  /\ TopicChoices \in [Session -> SUBSET TopicCode]
  /\ InterestChoices \subseteq SUBSET Subject
  /\ AckChoices \subseteq MessageStatusKind /\ MayAck \subseteq Session
  /\ Outbound \in Nat \ {0}
  /\ MaxCalls \in [Session -> Nat]
  /\ MaxFaults \in Nat

SeqId == 1 .. Max({MaxCalls[c] : c \in Session})

VARIABLES
  \* The client.
  call,           \* calls made, by sequence number
  request_rx,     \* the channel to the tx task
  response_pool,  \* sequence numbers whose responder is in the pool
  endpoint_map,   \* endpoints with a mailbox
  tx_on, rx_on,   \* the loops of the two tasks run
  cancelled,      \* sessions whose ClientNodeInner is gone
  dropped,        \* endpoints whose ClientEndpoint is gone
  mail_box,       \* messages each ClientEndpoint was given
  \* The socket.
  link,           \* "off", "up" or "cut"
  up, down,       \* packets under way, the outbound channel included
  \* The server.
  peer,           \* peer_id of the connection
  task,           \* the connection task: "none", "running" or "ended"
  created,        \* create_edge_connection has returned
  edge_connections,
  edge_routing,
  handlers,       \* the tasks of handle_edge_request
  offlines,       \* endpoints whose EpOffline a spawned task will propose
  dispatching,    \* dispatch tasks
  results,        \* what resolve_ack sent to the waiting handlers
  topic,
  \* History.
  stray,          \* endpoints that nothing will take offline any more
  faults          \* faults so far

client_vars == <<call, request_rx, response_pool, endpoint_map, tx_on, rx_on, cancelled,
                dropped, mail_box>>
wire_vars   == <<link, up, down>>
conn_vars   == <<peer, task, created, edge_connections, edge_routing>>
topic_vars  == <<offlines, dispatching, results, topic>>
vars == <<client_vars, wire_vars, conn_vars, handlers, topic_vars, stray, faults>>

-----------------------------------------------------------------------------

\* EdgeRequestEnum
EdgeRequest ==
  [type : {"SendMessage"}, topic : TopicCode, msg : MessageId]
    \cup [type : {"EndpointOnline"}, topic : TopicCode, ep : Endpoint, interests : SUBSET Subject]
    \cup [type : {"EndpointOffline"}, topic : TopicCode, ep : Endpoint]
    \cup [type : {"EndpointInterest"}, topic : TopicCode, ep : Endpoint, interests : SUBSET Subject]
    \cup [type : {"SetState"}, topic : TopicCode, ep : Endpoint, msg : MessageId,
          kind : MessageStatusKind]

\* EdgeErrorKind, without the Decode that nothing returns.
EdgeErrorKind == {"TopicNotFound", "EndpointNotFound", "Unauthorized", "Internal"}

\* EdgeResponse
EdgeResponse ==
  [type : {"Response"}, seq : SeqId, to : EdgeRequest,
   result : ResultKind \cup EdgeErrorKind]

\* EdgePush
EdgePush == [type : {"Push"}, ep : Endpoint, msg : MessageId]

\* state: waiting for the responder; answered, the caller not yet resumed; returned.
Call ==
  [request : EdgeRequest, state : {"waiting", "answered", "returned"},
   response : EdgeResponse
                \cup [type : {"None", "Disconnected", "NoConnection"}]]

\* pc: spawned; proposing: in Node::propose; applied: propose has returned.
Handler ==
  [conn : Session, seq : SeqId, request : EdgeRequest,
   pc : {"spawned", "proposing", "applied"}]

Dispatch == [msg : MessageId, ep : Endpoint, status : {"Spawned", "Sent", "Unreachable"}]

TypeOK ==
  /\ \A c \in Session :
       /\ Len(call[c]) <= MaxCalls[c]
       /\ \A s \in DOMAIN call[c] : call[c][s] \in Call
  /\ request_rx \in [Session -> Seq(SeqId)]
  /\ response_pool \in [Session -> SUBSET SeqId]
  /\ endpoint_map \in [Session -> SUBSET Endpoint]
  /\ tx_on \in [Session -> BOOLEAN] /\ rx_on \in [Session -> BOOLEAN]
  /\ cancelled \subseteq Session
  /\ dropped \subseteq Endpoint
  /\ mail_box \in [Endpoint -> Seq(MessageId)]
  /\ link \in [Session -> {"off", "up", "cut"}]
  /\ \A c \in Session :
       /\ \A i \in DOMAIN up[c] : up[c][i] \in SeqId
       /\ \A i \in DOMAIN down[c] : down[c][i] \in EdgeResponse \cup EdgePush
  /\ peer \in [Session -> Peer \cup {None}]
  /\ task \in [Session -> {"none", "running", "ended"}]
  /\ created \in [Session -> BOOLEAN]
  /\ edge_connections \in [Peer -> Session \cup {None}]
  /\ edge_routing \in [Endpoint -> Peer \cup {None}]
  /\ handlers \subseteq Handler
  /\ offlines \subseteq Endpoint
  /\ dispatching \subseteq Dispatch
  /\ results \subseteq WaitAckResult
  /\ topic \in Topic
  /\ stray \subseteq Endpoint
  /\ faults \in 0 .. MaxFaults

Init ==
  /\ call = [c \in Session |-> <<>>]
  /\ request_rx = [c \in Session |-> <<>>]
  /\ response_pool = [c \in Session |-> {}]
  /\ endpoint_map = [c \in Session |-> {}]
  /\ tx_on = [c \in Session |-> FALSE] /\ rx_on = [c \in Session |-> FALSE]
  /\ cancelled = {}
  /\ dropped = {}
  /\ mail_box = [e \in Endpoint |-> <<>>]
  /\ link = [c \in Session |-> "off"]
  /\ up = [c \in Session |-> <<>>] /\ down = [c \in Session |-> <<>>]
  /\ peer = [c \in Session |-> None]
  /\ task = [c \in Session |-> "none"]
  /\ created = [c \in Session |-> FALSE]
  /\ edge_connections = [p \in Peer |-> None]
  /\ edge_routing = [e \in Endpoint |-> None]
  /\ handlers = {} /\ offlines = {} /\ dispatching = {} /\ results = {}
  /\ topic = from_durable
  /\ stray = {}
  /\ faults = 0

fault ==
  /\ faults < MaxFaults
  /\ faults' = faults + 1

-----------------------------------------------------------------------------
(* Connecting, and losing the link. *)

\* EdgeConnectionInstance::init spawns the connection task.
init(c, p) ==
  /\ peer' = [peer EXCEPT ![c] = p]
  /\ task' = [task EXCEPT ![c] = "running"]

\* ClientNodeInner::connect, and create_edge_connection up to init.
connect(c, p) ==
  /\ link[c] = "off"
  /\ link' = [link EXCEPT ![c] = "up"]
  /\ tx_on' = [tx_on EXCEPT ![c] = TRUE]
  /\ rx_on' = [rx_on EXCEPT ![c] = TRUE]
  /\ init(c, p)
  /\ UNCHANGED <<call, request_rx, response_pool, endpoint_map, cancelled, dropped, mail_box,
                 up, down, created, edge_connections, edge_routing, handlers, topic_vars, stray, faults>>

\* The rest of create_edge_connection: the connection, which may have ended by
\* now, replaces the one its peer had.
create_edge_connection(c) ==
  /\ task[c] # "none" /\ ~created[c]
  /\ created' = [created EXCEPT ![c] = TRUE]
  /\ edge_connections' = [edge_connections EXCEPT ![peer[c]] = c]
  /\ UNCHANGED <<client_vars, wire_vars, peer, task, edge_routing, handlers, topic_vars,
                 stray, faults>>

\* The network loses the link, and the last packets of either way.
cut(c) ==
  /\ link[c] = "up"
  /\ link' = [link EXCEPT ![c] = "cut"]
  /\ \E i \in 0 .. Len(up[c]), j \in 0 .. Len(down[c]) :
       /\ up' = [up EXCEPT ![c] = SubSeq(@, 1, i)]
       /\ down' = [down EXCEPT ![c] = SubSeq(@, 1, j)]
  /\ fault
  /\ UNCHANGED <<client_vars, conn_vars, handlers, topic_vars, stray>>

\* Mutant: the routes go, the endpoints stay online.
remove_edge_connection_quiet(to) ==
  /\ edge_connections' = [edge_connections EXCEPT ![to] = None]
  /\ edge_routing' = [e \in Endpoint |->
       IF edge_connections[to] # None /\ edge_routing[e] = to THEN None ELSE edge_routing[e]]
  /\ UNCHANGED offlines

\* Whatever connection the peer has by now is removed; without one nothing is done.
remove_edge_connection(to) ==
  LET offline_eps == {e \in Endpoint : edge_connections[to] # None /\ edge_routing[e] = to}
  IN  /\ edge_connections' = [edge_connections EXCEPT ![to] = None]
      /\ edge_routing' = [e \in Endpoint |->
           IF e \in offline_eps THEN None ELSE edge_routing[e]]
      /\ offlines' = offlines \cup offline_eps

\* Mutant: the connection is marked dead but not removed.
end_connection_kept(c) ==
  /\ task[c] = "running" /\ link[c] = "cut"
  /\ task' = [task EXCEPT ![c] = "ended"]
  /\ up' = [up EXCEPT ![c] = <<>>]
  /\ UNCHANGED <<client_vars, link, down, peer, created, edge_connections, edge_routing,
                 handlers, topic_vars, stray, faults>>

\* The connection task meets the end of the stream, or fails to write.
end_connection(c) ==
  /\ task[c] = "running" /\ link[c] = "cut"
  /\ task' = [task EXCEPT ![c] = "ended"]
  /\ up' = [up EXCEPT ![c] = <<>>]
  /\ remove_edge_connection(peer[c])
  /\ stray' = stray \cup {e \in Endpoint : edge_routing'[e] = peer[c]}
  /\ UNCHANGED <<client_vars, link, down, peer, created, handlers, dispatching, results,
                 topic, faults>>

-----------------------------------------------------------------------------
(* The client: calls. *)

Ended(type) == [type |-> type]

\* Calls whose caller still has something to do when the response is there:
\* create_endpoint enters the mailbox, the task of drop takes it out.
resumes(request, response) ==
  \/ request.type = "EndpointOffline"
  \/ request.type = "EndpointOnline" /\ response.type = "Response" /\ response.result = "Ok"

return(c, s, response) ==
  [call[c][s] EXCEPT !.response = response,
                     !.state = IF resumes(call[c][s].request, response)
                                 THEN "answered" ELSE "returned"]

\* The responders of the calls in seqs are dropped.
disconnect(c, seqs) ==
  call' = [call EXCEPT ![c] = [s \in DOMAIN @ |->
             IF s \in seqs THEN return(c, s, Ended("Disconnected")) ELSE @[s]]]

\* ClientNodeInner::send_request.  Nobody holds the inner node of a cancelled
\* session any more: upgrade fails, and nothing is sent.
send_request(c, request) ==
  /\ link[c] # "off" /\ c \notin cancelled
  /\ Len(call[c]) < MaxCalls[c]
  /\ LET waiting == [request |-> request, state |-> "waiting", response |-> Ended("None")]
         failed  == [request |-> request, response |-> Ended("NoConnection"),
                     state |-> IF resumes(request, Ended("NoConnection"))
                                 THEN "answered" ELSE "returned"]
     IN  call' = [call EXCEPT ![c] = Append(@, IF tx_on[c] THEN waiting ELSE failed)]
  /\ request_rx' = [request_rx EXCEPT ![c] = IF tx_on[c] THEN Append(@, Len(call[c]) + 1) ELSE @]
  /\ UNCHANGED <<response_pool, endpoint_map, tx_on, rx_on, cancelled, mail_box, wire_vars,
                 conn_vars, handlers, topic_vars, stray, faults>>

send_ep_online(c, code, e, interests) ==
  send_request(c, [type |-> "EndpointOnline", topic |-> code, ep |-> e, interests |-> interests])

send_ep_offline(c, e) ==
  send_request(c, [type |-> "EndpointOffline", topic |-> Loaded, ep |-> e])

send_ep_interests(c, e, interests) ==
  send_request(c, [type |-> "EndpointInterest", topic |-> Loaded, ep |-> e,
                   interests |-> interests])

send_single_ack(c, code, e, m, kind) ==
  send_request(c, [type |-> "SetState", topic |-> code, ep |-> e, msg |-> m, kind |-> kind])

calls_of(type) == {k \in Session \X SeqId :
                     k[2] \in DOMAIN call[k[1]] /\ call[k[1]][k[2]].request.type = type}

request_of(k) == call[k[1]][k[2]].request

\* The endpoints that c has: its ClientEndpoint has been returned.
endpoints_of(c) ==
  {request_of(k).ep : k \in {k \in calls_of("EndpointOnline") :
     /\ k[1] = c
     /\ call[k[1]][k[2]].state = "returned"
     /\ call[k[1]][k[2]].response.type = "Response"
     /\ call[k[1]][k[2]].response.result = "Ok"}}

\* update_interests borrows the endpoint until it returns.
borrowed(e) ==
  \E k \in calls_of("EndpointInterest") :
    request_of(k).ep = e /\ call[k[1]][k[2]].state = "waiting"

\* ClientNode::create_endpoint up to the response.
create_endpoint(c, e, interests, code) ==
  /\ \A k \in calls_of("EndpointOnline") : request_of(k).ep # e
  /\ send_ep_online(c, code, e, interests)
  /\ UNCHANGED dropped

\* ClientNode::send_message
send_message(c, m, code) ==
  /\ \A k \in calls_of("SendMessage") : request_of(k).msg # m
  /\ send_request(c, [type |-> "SendMessage", topic |-> code, msg |-> m])
  /\ UNCHANGED dropped

\* ClientEndpoint::update_interests
update_interests(c, e, interests) ==
  /\ e \in endpoints_of(c) \ dropped
  /\ ~borrowed(e)
  /\ send_ep_interests(c, e, interests)
  /\ UNCHANGED dropped

\* ClientNode::ack sends whatever ack it is given: for any endpoint, whether it
\* is the session's or not, and any message, whether it was received or not.
ack(c, code, e, m, kind) ==
  /\ send_single_ack(c, code, e, m, kind)
  /\ UNCHANGED dropped

\* ack_received, ack_processed and ack_failed of ClientReceivedMessage, which
\* outlives its endpoint.
ack_received_message(c, e, m, kind) ==
  /\ e \in endpoints_of(c)
  /\ \E i \in DOMAIN mail_box[e] : mail_box[e][i] = m
  /\ send_single_ack(c, Loaded, e, m, kind)
  /\ UNCHANGED dropped

\* ClientEndpoint::drop spawns a task that sends the request.
drop_endpoint(c, e) ==
  /\ e \in endpoints_of(c) \ dropped
  /\ ~borrowed(e)
  /\ send_ep_offline(c, e)
  /\ dropped' = dropped \cup {e}

\* ClientEndpoint::drop after its node was dropped: there is nobody to send it.
drop_orphan(c, e) ==
  /\ e \in endpoints_of(c) \ dropped
  /\ c \in cancelled
  /\ dropped' = dropped \cup {e}
  /\ UNCHANGED <<call, request_rx, response_pool, endpoint_map, tx_on, rx_on, cancelled,
                 mail_box, wire_vars, conn_vars, handlers, topic_vars, stray, faults>>

\* create_endpoint and the task of drop go on after their response.
resume(c, s) ==
  /\ call[c][s].state = "answered"
  /\ call' = [call EXCEPT ![c][s].state = "returned"]
  /\ LET r == call[c][s].request
     IN  endpoint_map' = [endpoint_map EXCEPT ![c] =
           IF r.type = "EndpointOnline" THEN @ \cup {r.ep} ELSE @ \ {r.ep}]
  /\ UNCHANGED <<request_rx, response_pool, tx_on, rx_on, cancelled, dropped, mail_box,
                 wire_vars, conn_vars, handlers, topic_vars, stray, faults>>

-----------------------------------------------------------------------------
(* The client: its two tasks. *)

\* One turn of the tx task: the responder enters the pool, then the request is
\* written; what is written to a link that is cut may still seem to succeed.
tx_task(c) ==
  /\ tx_on[c] /\ request_rx[c] # <<>>
  /\ response_pool' = [response_pool EXCEPT ![c] = @ \cup {Head(request_rx[c])}]
  /\ request_rx' = [request_rx EXCEPT ![c] = Tail(@)]
  /\ up' = [up EXCEPT ![c] = IF link[c] = "up" THEN Append(@, Head(request_rx[c])) ELSE @]
  /\ UNCHANGED <<call, endpoint_map, tx_on, rx_on, cancelled, dropped, mail_box, link, down,
                 conn_vars, handlers, topic_vars, stray, faults>>

\* The write fails and the tx task ends: what is in the channel is dropped, and
\* the pool too when the rx task has ended before.
tx_fail(c) ==
  /\ tx_on[c] /\ request_rx[c] # <<>> /\ link[c] = "cut"
  /\ tx_on' = [tx_on EXCEPT ![c] = FALSE]
  /\ request_rx' = [request_rx EXCEPT ![c] = <<>>]
  /\ LET pool == response_pool[c] \cup {Head(request_rx[c])}
     IN  /\ response_pool' = [response_pool EXCEPT ![c] = IF rx_on[c] THEN pool ELSE {}]
         /\ disconnect(c, ToSet(Tail(request_rx[c])) \cup IF rx_on[c] THEN {} ELSE pool)
  /\ UNCHANGED <<endpoint_map, rx_on, cancelled, dropped, mail_box, wire_vars, conn_vars,
                 handlers, topic_vars, stray, faults>>

\* Mutant: responses are taken to come in the order of the requests.
responder_in_order(c, response) ==
  {s \in response_pool[c] : \A r \in response_pool[c] : s <= r}

\* The responder of a response, as a set with at most one element.
responder(c, response) == response_pool[c] \cap {response.seq}

\* One turn of the rx task.  A cancelled one may still take it: select! picks any
\* branch that is ready.
rx_task(c) ==
  /\ rx_on[c] /\ down[c] # <<>>
  /\ down' = [down EXCEPT ![c] = Tail(@)]
  /\ LET packet == Head(down[c])
     IN  \/ /\ packet.type = "Push"
            /\ mail_box' = [mail_box EXCEPT ![packet.ep] =
                 IF packet.ep \in endpoint_map[c] \ dropped THEN Append(@, packet.msg) ELSE @]
            /\ UNCHANGED <<call, response_pool>>
         \/ /\ packet.type = "Response"
            /\ LET to == responder(c, packet)
               IN  /\ response_pool' = [response_pool EXCEPT ![c] = @ \ to]
                   /\ call' = [call EXCEPT ![c] = [s \in DOMAIN @ |->
                        IF s \in to THEN return(c, s, packet) ELSE @[s]]]
            /\ UNCHANGED mail_box
  /\ UNCHANGED <<request_rx, endpoint_map, tx_on, rx_on, cancelled, dropped, link, up,
                 conn_vars, handlers, topic_vars, stray, faults>>

\* The stream is closed: the rx task ends, and drops the pool when it is the last.
rx_end(c) ==
  /\ rx_on[c] /\ link[c] = "cut" /\ down[c] = <<>>
  /\ rx_on' = [rx_on EXCEPT ![c] = FALSE]
  /\ response_pool' = [response_pool EXCEPT ![c] = IF tx_on[c] THEN @ ELSE {}]
  /\ disconnect(c, IF tx_on[c] THEN {} ELSE response_pool[c])
  /\ UNCHANGED <<request_rx, endpoint_map, tx_on, cancelled, dropped, mail_box, wire_vars,
                 conn_vars, handlers, topic_vars, stray, faults>>

\* ClientNodeInner::drop cancels both tasks; a call under way keeps it from being
\* dropped.  The tx task, with nothing in its channel, just ends: it sends no
\* close, and the socket is not closed before the rx task lets go of it too.
drop_node(c) ==
  /\ link[c] # "off" /\ c \notin cancelled
  /\ \A s \in DOMAIN call[c] : call[c][s].state = "returned"
  /\ cancelled' = cancelled \cup {c}
  /\ tx_on' = [tx_on EXCEPT ![c] = FALSE]
  /\ fault
  /\ UNCHANGED <<call, request_rx, response_pool, endpoint_map, rx_on, dropped, mail_box,
                 wire_vars, conn_vars, handlers, topic_vars, stray>>

\* The rx task leaves its loop because it is cancelled.
rx_cancelled(c) ==
  /\ rx_on[c] /\ c \in cancelled
  /\ rx_on' = [rx_on EXCEPT ![c] = FALSE]
  /\ endpoint_map' = [endpoint_map EXCEPT ![c] = {}]
  /\ UNCHANGED <<call, request_rx, response_pool, tx_on, cancelled, dropped, mail_box,
                 wire_vars, conn_vars, handlers, topic_vars, stray, faults>>

\* After its loop the rx task awaits one more item of the stream; when there is
\* one it ends, and the socket is closed with whatever else was on the way.
rx_close(c) ==
  /\ ~rx_on[c] /\ link[c] = "up" /\ down[c] # <<>>
  /\ link' = [link EXCEPT ![c] = "cut"]
  /\ down' = [down EXCEPT ![c] = <<>>]
  /\ UNCHANGED <<client_vars, up, conn_vars, handlers, topic_vars, stray, faults>>

-----------------------------------------------------------------------------
(* The server: requests. *)

\* The connection task spawns a handler for the next request.
packet_in(c) ==
  /\ task[c] = "running" /\ up[c] # <<>>
  /\ up' = [up EXCEPT ![c] = Tail(@)]
  /\ handlers' = handlers \cup
       {[conn |-> c, seq |-> Head(up[c]), request |-> call[c][Head(up[c])].request,
         pc |-> "spawned"]}
  /\ UNCHANGED <<client_vars, link, down, conn_vars, topic_vars, stray, faults>>

\* The response enters the outbound channel, while there is somebody to take it.
reply(h, result) ==
  /\ handlers' = handlers \ {h}
  /\ IF task[h.conn] = "running" /\ link[h.conn] = "up"
       THEN /\ Len(down[h.conn]) < Outbound
            /\ down' = [down EXCEPT ![h.conn] = Append(@,
                 [type |-> "Response", seq |-> h.seq, to |-> h.request, result |-> result])]
       ELSE UNCHANGED down

\* Mutant: it is enough that the endpoint is routed.
check_ep_auth_any(e, from) ==
  IF edge_routing[e] # None THEN "Ok" ELSE "EndpointNotFound"

check_ep_auth(e, from) ==
  CASE edge_routing[e] = from             -> "Ok"
    [] edge_routing[e] \notin {from, None} -> "Unauthorized"
    [] edge_routing[e] = None             -> "EndpointNotFound"

\* What handle_edge_request checks before it proposes.
checked(h) ==
  LET from == peer[h.conn]
  IN  CASE <<from, h.request.type>> \in Denied -> "Unauthorized"
        [] <<from, h.request.type>> \notin Denied /\ h.request.topic # Loaded -> "TopicNotFound"
        [] OTHER -> IF h.request.type \in {"EndpointOffline", "EndpointInterest", "SetState"}
                      THEN check_ep_auth(h.request.ep, from) ELSE "Ok"

to_pc(h, pc) == handlers' = (handlers \ {h}) \cup {[h EXCEPT !.pc = pc]}

\* Mutant: a handler that refuses returns without a response.
start_request_silent(h) ==
  /\ h.pc = "spawned"
  /\ IF checked(h) = "Ok" THEN to_pc(h, "proposing") ELSE handlers' = handlers \ {h}
  /\ UNCHANGED <<client_vars, wire_vars, conn_vars, topic_vars, stray, faults>>

\* handle_edge_request up to its proposal, or its refusal.
start_request(h) ==
  /\ h.pc = "spawned"
  /\ \/ checked(h) = "Ok" /\ to_pc(h, "proposing") /\ UNCHANGED down
     \/ checked(h) # "Ok" /\ reply(h, checked(h))
  /\ UNCHANGED <<client_vars, link, up, conn_vars, topic_vars, stray, faults>>

\* An entry is applied: what it spawns is started, next to the tasks given.
applied(t, tasks) ==
  /\ topic' = [t EXCEPT !.queue.dispatch = {}, !.queue.acks = {}]
  /\ dispatching' = tasks \cup
       {[msg |-> d[1], ep |-> d[2], status |-> "Spawned"] : d \in t.queue.dispatch}
  /\ results' = results \cup t.queue.acks

\* A time later than the one of every held message.
now == 1 + Max({0} \cup {topic.queue.id_time[m] : m \in MessageId})

\* The proposal of a request.  The host of an EpOffline is the edge node, that
\* of an EpOnline the cluster node.
outcome(h) ==
  LET r == h.request
  IN  CASE r.type = "SendMessage"      -> hold_new_message(topic, Server, r.msg, now, {})
        [] r.type = "EndpointOnline"   -> ep_online(topic, Server, r.ep, r.interests, Server, {})
        [] r.type = "EndpointOffline"  -> ep_offline(topic, Server, peer[h.conn], r.ep, {})
        [] r.type = "EndpointInterest" -> update_ep_interest(topic, Server, r.ep, r.interests, {})
        [] r.type = "SetState"         -> set_state(topic, Server, r.msg, r.ep, r.kind, {})

\* The endpoint a handler of EndpointOnline brings in.
brings_in(h) == IF h.request.type = "EndpointOnline" THEN {h.request.ep} ELSE {}

apply_request(h) ==
  /\ h.pc = "proposing"
  /\ applied(outcome(h), dispatching)
  /\ to_pc(h, "applied")
  /\ stray' = stray \cup {e \in Endpoint : /\ h.request.type = "EndpointInterest"
                                           /\ h.request.ep = e /\ edge_routing[e] = None}
  /\ UNCHANGED <<client_vars, wire_vars, conn_vars, offlines, faults>>

\* Node::propose fails, before the entry is committed or after.
fail_request(h) ==
  /\ h.pc # "spawned"
  /\ fault
  /\ reply(h, "Internal")
  /\ stray' = stray \cup (IF h.pc = "applied" THEN brings_in(h) ELSE {})
  /\ UNCHANGED <<client_vars, link, up, conn_vars, topic_vars>>

\* set_edge_routing, or the removal of the route.
route(h) ==
  edge_routing' =
    CASE h.request.type = "EndpointOnline"  -> [edge_routing EXCEPT ![h.request.ep] = peer[h.conn]]
      [] h.request.type = "EndpointOffline" -> [edge_routing EXCEPT ![h.request.ep] = None]
      [] OTHER                              -> edge_routing

\* The result a handler responds with, as a set with at most one element: a
\* SendMessage waits for its ack.
outcome_of(h) ==
  IF h.request.type = "SendMessage"
    THEN {r.kind : r \in {r \in results : r.id = h.request.msg}} ELSE {"Ok"}

\* handle_edge_request after its proposal.
finish_request(h) ==
  /\ h.pc = "applied"
  /\ \E result \in outcome_of(h) : reply(h, result)
  /\ route(h)
  /\ stray' = stray \cup (IF task[h.conn] = "ended" THEN brings_in(h) ELSE {})
  /\ UNCHANGED <<client_vars, link, up, peer, task, created, edge_connections, topic_vars, faults>>

-----------------------------------------------------------------------------
(* The server: spawned tasks. *)

\* The live connection of a peer, or None.
get_edge_connection(p) ==
  LET c == IF p = None THEN None ELSE edge_connections[p]
  IN  IF c = None THEN None ELSE IF task[c] = "running" THEN c ELSE None

\* The packet enters the outbound channel; on a link that is cut it is lost.
push_message(c, e, m) ==
  IF link[c] = "up"
    THEN /\ Len(down[c]) < Outbound
         /\ down' = [down EXCEPT ![c] = Append(@, [type |-> "Push", ep |-> e, msg |-> m])]
    ELSE UNCHANGED down

\* Topic::dispatch_message to an edge endpoint.
dispatch_message(d) ==
  /\ d.status = "Spawned"
  /\ LET c == get_edge_connection(edge_routing[d.ep])
     IN  /\ dispatching' = (dispatching \ {d}) \cup
              {[d EXCEPT !.status = IF c # None THEN "Sent" ELSE "Unreachable"]}
         /\ IF c # None THEN push_message(c, d.ep, d.msg) ELSE UNCHANGED down
  /\ UNCHANGED <<client_vars, link, up, conn_vars, handlers, offlines, results, topic, stray, faults>>

\* Mutant: the status is proposed before the message is dispatched.
report_dispatch_early(d) ==
  /\ applied(set_state(topic, Server, d.msg, d.ep, d.status, {}), dispatching \ {d})
  /\ UNCHANGED <<client_vars, wire_vars, conn_vars, handlers, offlines, stray, faults>>

\* The task proposes the status.
report_dispatch(d) ==
  /\ d.status # "Spawned"
  /\ applied(set_state(topic, Server, d.msg, d.ep, d.status, {}), dispatching \ {d})
  /\ UNCHANGED <<client_vars, wire_vars, conn_vars, handlers, offlines, stray, faults>>

\* The EpOffline that remove_edge_connection spawned is applied.
propose_offline(e) ==
  /\ offlines' = offlines \ {e}
  /\ applied(ep_offline(topic, Server, Server, e, {}), dispatching)
  /\ UNCHANGED <<client_vars, wire_vars, conn_vars, handlers, stray, faults>>

\* It fails; nobody looks at the error.  No bound is needed: a connection ends once.
lose_offline(e) ==
  /\ offlines' = offlines \ {e}
  /\ stray' = stray \cup {e}
  /\ UNCHANGED <<client_vars, wire_vars, conn_vars, handlers, dispatching, results, topic, faults>>

-----------------------------------------------------------------------------

Client(c) ==
  \/ \E p \in PeerChoices[c] : connect(c, p)
  \/ \E e \in Endpoint, interests \in InterestChoices, code \in TopicChoices[c] :
       create_endpoint(c, e, interests, code)
  \/ \E m \in MessageId, code \in TopicChoices[c] : send_message(c, m, code)
  \/ \E e \in Endpoint, interests \in InterestChoices : update_interests(c, e, interests)
  \/ \E e \in Endpoint, m \in MessageId, kind \in AckChoices :
       \/ c \in MayAck /\ \E code \in TopicChoices[c] : ack(c, code, e, m, kind)
       \/ ack_received_message(c, e, m, kind)
  \/ \E e \in Endpoint : drop_endpoint(c, e) \/ drop_orphan(c, e)
  \/ drop_node(c)

\* What the runtimes of client and server do by themselves.
Runtime ==
  \/ \E c \in Session :
       \/ create_edge_connection(c) \/ end_connection(c) \/ packet_in(c)
       \/ tx_task(c) \/ tx_fail(c) \/ rx_task(c) \/ rx_end(c) \/ rx_cancelled(c) \/ rx_close(c)
       \/ \E s \in DOMAIN call[c] : resume(c, s)
  \/ \E h \in handlers : start_request(h) \/ apply_request(h) \/ finish_request(h)
  \/ \E d \in dispatching : dispatch_message(d) \/ report_dispatch(d)
  \/ \E e \in offlines : propose_offline(e)

Fault ==
  \/ \E c \in Session : cut(c)
  \/ \E h \in handlers : fail_request(h)
  \/ \E e \in offlines : lose_offline(e)

Next == (\E c \in Session : Client(c)) \/ Runtime \/ Fault

Spec == Init /\ [][Next]_vars

FairSpec == Spec /\ WF_vars(Runtime)

-----------------------------------------------------------------------------

\* Every response a client call gets is the one to its own request, in whatever
\* order the handlers of the server finish.
OwnAnswer ==
  \A c \in Session : \A s \in DOMAIN call[c] :
    call[c][s].response.type = "Response" => call[c][s].response.to = call[c][s].request

\* As long as the link is up, a call that waits is somewhere: in the channel, or
\* in the pool with its request, its handler or its response under way.
AnswerUnderWay ==
  \A c \in Session : \A s \in DOMAIN call[c] :
    call[c][s].state = "waiting" =>
      \/ s \in ToSet(request_rx[c])
      \/ /\ s \in response_pool[c]
         /\ \/ link[c] = "cut"
            \/ s \in ToSet(up[c])
            \/ \E h \in handlers : h.conn = c /\ h.seq = s
            \/ \E i \in DOMAIN down[c] : down[c][i].type = "Response" /\ down[c][i].seq = s

\* The session an endpoint belongs to, as a set with at most one element.
owner(e) == {k[1] : k \in {k \in calls_of("EndpointOnline") : request_of(k).ep = e}}

\* An endpoint that is online in the topic, or routed, has a session whose end
\* will sweep it, or is being swept.  The only ones left behind are those that
\* were routed after the end of their session, whose EpOnline was committed by a
\* propose that failed, whose EpOffline failed, whose EpInterest was applied
\* after the route was gone, or whose connection was not in edge_connections
\* when it ended.
LeaversSwept ==
  \A e \in Endpoint :
    topic.interest[e] # {} \/ edge_routing[e] # None =>
      \/ e \in offlines \cup stray
      \/ \E h \in handlers : h.pc = "applied" /\ e \in brings_in(h)
      \/ \E c \in owner(e) : task[c] = "running" /\ edge_routing[e] = peer[c]

\* A client is told Ok only when, for every endpoint the message was for, the
\* ack it asked for was sent by a session of the edge node the endpoint belongs
\* to: any session may send an ack for any endpoint, and check_ep_auth compares
\* the ids of the edge nodes.  It need not be the endpoint's own session.
OkFromOwnPeer ==
  \A r \in results : r.kind = "Ok" =>
    \A e \in Endpoint : r.status[e] # Absent =>
      \E k \in calls_of("SetState") :
        /\ \E o \in owner(e) : peer[k[1]] = peer[o]
        /\ request_of(k).ep = e /\ request_of(k).msg = r.id
        /\ is_reached(request_of(k).kind, Header[r.id].ack_kind)

waits(c, s) ==
  /\ s \in DOMAIN call[c]
  /\ call[c][s].state = "waiting" /\ call[c][s].request.type # "SendMessage"

\* While its link is up, every call but one that waits for the acks of others is
\* answered sooner or later; and once a link is lost or closed, its endpoints go
\* offline.  Answers are final, and so is the loss of a link; the link of a client
\* that was dropped is up until the server sends something.
Settles ==
  \A c \in Session :
    /\ \A s \in SeqId : []<>(waits(c, s) => link[c] = "cut")
    /\ \A e \in Endpoint :
         []<>(link[c] = "cut" /\ c \in owner(e) => topic.interest[e] = {} \/ e \in stray)
=============================================================================
