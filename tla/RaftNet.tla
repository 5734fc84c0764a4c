------------------------------- MODULE RaftNet -------------------------------
(***************************************************************************)
(* The TCP connections between cluster nodes and the calls made over them  *)
(* (server/.../raft/network.rs, network_factory.rs), the handle on a raft  *)
(* that is still loading (raft.rs), and the remote branch of Node::propose *)
(* (node.rs).                                                              *)
(*                                                                         *)
(* Node ids are numbers: the node with the smaller id dials.  A call is an *)
(* RPC of openraft (vote, append_entries, install_snapshot) or a proposal  *)
(* sent to the leader.  What the raft of the other node answers is outside *)
(* this module; a response carries the call whose request it answers.      *)
(***************************************************************************)
EXTENDS Naturals, Sequences, FiniteSets

CONSTANTS
  Node,        \* node ids
  Calls,       \* which node may call which
  MaxCalls,    \* bound: calls
  MaxStreams,  \* bound: TCP streams
  MaxFaults    \* bound: streams the network loses and RPCs that time out

ASSUME NetAssumption ==
  /\ Node \subseteq Nat \ {0}
  /\ Calls \subseteq Node \X Node
  /\ MaxCalls \in Nat /\ MaxStreams \in Nat /\ MaxFaults \in Nat

VARIABLES
  raft,         \* is the OnceLock of MaybeLoadingRaft set?
  call,         \* the calls made
  stream,       \* the TCP streams
  backlog,      \* streams a listener has not accepted yet
  acceptor,     \* the accept loop of TcpNetworkService::run
  connections,  \* RaftTcpConnectionMap; 0: no entry
  wire,         \* packets, the packet_tx channels included
  handling,     \* tasks that the read tasks spawned
  cuts,         \* streams the network has lost
  timeouts      \* RPCs that openraft has dropped

vars == <<raft, call, stream, backlog, acceptor, connections, wire, handling, cuts, timeouts>>

Call == 1 .. MaxCalls
Stream == 1 .. MaxStreams

\* The stages of MaybeLoadingRaft::get: about to look, has seen None, waits; or
\* waits since after the raft was set.
Getting == {"get", "looked", "notified", "missed"}

\* A caller that dials holds the write lock of connections.
Dialing == Getting \cup {"hello"}

\* lock: the call waits for the lock; sent: its responder is in wait_poll.
CallState == {"lock", "sent", "ok", "err"} \cup Dialing

CallRecord ==
  [from : Node, to : Node, kind : {"rpc", "propose"}, state : CallState,
   stream : Stream \cup {0}, seq : 0 .. MaxCalls, got : Call \cup {0}]

\* An end of a stream: opening, the RaftTcpConnection with a read task that runs
\* or has ended, and dropped.
EndState == {"opening", "alive", "dead", "dropped"}

\* hello: the nodes that have written their RaftNodeInfo.  The node with the
\* smaller id dials.
StreamRecord ==
  {r \in [dialer : Node, target : Node, up : BOOLEAN, hello : SUBSET Node,
          end : [{"dialer", "target"} -> EndState]] : r.dialer < r.target}

Acceptor == [state : {"idle", "insert"} \cup Dialing, stream : Stream \cup {0}]

Packet ==
  [stream : Stream, to : Node, kind : {"Request", "Response"}, seq : 0 .. MaxCalls, call : Call]

TypeOK ==
  /\ raft \in [Node -> BOOLEAN]
  /\ Len(call) <= MaxCalls /\ \A i \in DOMAIN call : call[i] \in CallRecord
  /\ Len(stream) <= MaxStreams /\ \A s \in DOMAIN stream : stream[s] \in StreamRecord
  /\ backlog \in [Node -> SUBSET Stream]
  /\ acceptor \in [Node -> Acceptor]
  /\ connections \in [Node -> [Node -> Stream \cup {0}]]
  /\ wire \subseteq Packet
  /\ handling \subseteq Packet
  /\ cuts \subseteq Stream
  /\ timeouts \in 0 .. MaxFaults

Init ==
  /\ raft = [n \in Node |-> FALSE]
  /\ call = <<>> /\ stream = <<>>
  /\ backlog = [n \in Node |-> {}]
  /\ acceptor = [n \in Node |-> [state |-> "idle", stream |-> 0]]
  /\ connections = [n \in Node |-> [p \in Node |-> 0]]
  /\ wire = {} /\ handling = {} /\ cuts = {} /\ timeouts = 0

-----------------------------------------------------------------------------

side(n, s) == IF stream[s].dialer = n THEN "dialer" ELSE "target"

peer_of(n, s) == IF stream[s].dialer = n THEN stream[s].target ELSE stream[s].dialer

end(n, s) == stream[s].end[side(n, s)]

\* Is the lock of n held across a dial?
locked(n) == \E i \in DOMAIN call : call[i].from = n /\ call[i].state \in Dialing

to_state(i, state) == call' = [call EXCEPT ![i].state = state]

\* Mutant: the sequence number is read, not incremented.
next_seq_same(n, s) == 0

\* RaftTcpConnection::next_seq
next_seq(n, s) ==
  Cardinality({i \in DOMAIN call : call[i].from = n /\ call[i].stream = s
                                     /\ call[i].state \in {"sent", "ok", "err"}})

\* A packet enters packet_tx, from where the write task takes it.  On a stream that
\* is down it is lost.
packet_tx(s, packet) == IF stream[s].up THEN wire \cup {packet} ELSE wire

\* RaftTcpConnection::send_request: the responder enters wait_poll, then the packet
\* the channel, which may be closed when the stream is down.
send_request(i, s, calls) ==
  LET n   == calls[i].from
      seq == next_seq(n, s)
  IN  \/ /\ call' = [calls EXCEPT ![i].state = "sent", ![i].stream = s, ![i].seq = seq]
         /\ wire' = packet_tx(s, [stream |-> s, to |-> peer_of(n, s), kind |-> "Request",
                                  seq |-> seq, call |-> i])
      \/ /\ ~stream[s].up
         /\ call' = [calls EXCEPT ![i].state = "err", ![i].stream = s, ![i].seq = seq]
         /\ UNCHANGED wire

\* openraft makes an RPC, or Node::propose has found that p leads.
start(n, p, kind) ==
  /\ <<n, p>> \in Calls /\ n # p /\ Len(call) < MaxCalls
  /\ call' = Append(call, [from |-> n, to |-> p, kind |-> kind, state |-> "lock",
                           stream |-> 0, seq |-> 0, got |-> 0])
  /\ UNCHANGED <<raft, stream, backlog, acceptor, connections, wire, handling, cuts, timeouts>>

\* Is there a connection of n to p that lives?
connected(n, p) == connections[n][p] # 0 /\ end(n, connections[n][p]) = "alive"

\* TcpNetwork::send_request of an RPC over a connection that lives.
rpc_send(i) ==
  /\ call[i].kind = "rpc" /\ call[i].state = "lock" /\ ~locked(call[i].from)
  /\ connected(call[i].from, call[i].to)
  /\ send_request(i, connections[call[i].from][call[i].to], call)
  /\ UNCHANGED <<raft, stream, backlog, acceptor, connections, handling, cuts, timeouts>>

\* Without one the node with the larger id gives up, and so does the other one
\* when the peer does not listen.
rpc_unreachable(i) ==
  /\ call[i].kind = "rpc" /\ call[i].state = "lock" /\ ~locked(call[i].from)
  /\ ~connected(call[i].from, call[i].to)
  /\ to_state(i, "err")
  /\ UNCHANGED <<raft, stream, backlog, acceptor, connections, wire, handling, cuts, timeouts>>

\* The connect of a dial: the lock stays in the hands of the caller.
connect(i) ==
  /\ Len(stream) < MaxStreams
  /\ LET s == Len(stream) + 1
     IN  /\ call' = [call EXCEPT ![i].state = "get", ![i].stream = s]
         /\ stream' = Append(stream,
              [dialer |-> call[i].from, target |-> call[i].to, up |-> TRUE, hello |-> {},
               end |-> [e \in {"dialer", "target"} |-> "opening"]])
         /\ backlog' = [backlog EXCEPT ![call[i].to] = @ \cup {s}]
  /\ UNCHANGED <<raft, acceptor, connections, wire, handling, cuts, timeouts>>

\* Mutant: every node dials, whatever its id.
rpc_dial_any(i) ==
  /\ call[i].kind = "rpc" /\ call[i].state = "lock" /\ ~locked(call[i].from)
  /\ ~connected(call[i].from, call[i].to)
  /\ connect(i)

\* The node with the smaller id dials.
rpc_dial(i) ==
  /\ call[i].kind = "rpc" /\ call[i].state = "lock" /\ ~locked(call[i].from)
  /\ ~connected(call[i].from, call[i].to)
  /\ call[i].from < call[i].to
  /\ connect(i)

\* Node::propose takes whatever connection to the leader the map has.
propose_send(i) ==
  /\ call[i].kind = "propose" /\ call[i].state = "lock" /\ ~locked(call[i].from)
  /\ connections[call[i].from][call[i].to] # 0
  /\ send_request(i, connections[call[i].from][call[i].to], call)
  /\ UNCHANGED <<raft, stream, backlog, acceptor, connections, handling, cuts, timeouts>>

propose_offline(i) ==
  /\ call[i].kind = "propose" /\ call[i].state = "lock" /\ ~locked(call[i].from)
  /\ connections[call[i].from][call[i].to] = 0
  /\ to_state(i, "err")
  /\ UNCHANGED <<raft, stream, backlog, acceptor, connections, wire, handling, cuts, timeouts>>

-----------------------------------------------------------------------------
(* MaybeLoadingRaft. *)

\* One step of get: a caller that has seen None waits for the next notification,
\* which has passed when the raft was set in between.
get_step(n, state) ==
  CASE state = "get"    -> IF raft[n] THEN "hello" ELSE "looked"
    [] state = "looked" -> IF raft[n] THEN "missed" ELSE "notified"

\* Mutant: set does not notify.
set_quiet(n) ==
  /\ ~raft[n]
  /\ raft' = [raft EXCEPT ![n] = TRUE]
  /\ UNCHANGED <<call, stream, backlog, acceptor, connections, wire, handling, cuts, timeouts>>

\* set wakes who waits by now.
set(n) ==
  /\ ~raft[n]
  /\ raft' = [raft EXCEPT ![n] = TRUE]
  /\ call' = [i \in DOMAIN call |->
       IF call[i].from = n /\ call[i].state = "notified"
         THEN [call[i] EXCEPT !.state = "get"] ELSE call[i]]
  /\ acceptor' = [acceptor EXCEPT ![n].state = IF @ = "notified" THEN "get" ELSE @]
  /\ UNCHANGED <<stream, backlog, connections, wire, handling, cuts, timeouts>>

\* from_tokio_tcp_stream begins with get and writes its hello after it.
hello(n, s, state) ==
  stream' = IF state = "hello" /\ stream[s].up THEN [stream EXCEPT ![s].hello = @ \cup {n}] ELSE stream

dial_get(i) ==
  /\ call[i].state \in {"get", "looked"}
  /\ LET state == get_step(call[i].from, call[i].state)
     IN  to_state(i, state) /\ hello(call[i].from, call[i].stream, state)
  /\ UNCHANGED <<raft, backlog, acceptor, connections, wire, handling, cuts, timeouts>>

accept_get(n) ==
  /\ acceptor[n].state \in {"get", "looked"}
  /\ LET state == get_step(n, acceptor[n].state)
     IN  /\ acceptor' = [acceptor EXCEPT ![n].state = state]
         /\ hello(n, acceptor[n].stream, state)
  /\ UNCHANGED <<raft, call, backlog, connections, wire, handling, cuts, timeouts>>

-----------------------------------------------------------------------------
(* Opening a connection. *)

\* RaftTcpConnection::drop of n's end of s: the socket is closed and the
\* responders in wait_poll are dropped.  A proposal that waits keeps the connection.
kept(n, s) ==
  \E i \in DOMAIN call : /\ call[i].from = n /\ call[i].stream = s
                         /\ call[i].kind = "propose" /\ call[i].state = "sent"

dropped_streams(n, s) ==
  IF s = 0 \/ kept(n, s) THEN stream
  ELSE [stream EXCEPT ![s].up = FALSE, ![s].end[side(n, s)] = "dropped"]

dropped_calls(n, s) ==
  [i \in DOMAIN call |->
     IF s # 0 /\ ~kept(n, s) /\ call[i].from = n /\ call[i].stream = s /\ call[i].state = "sent"
       THEN [call[i] EXCEPT !.state = "err"] ELSE call[i]]

\* The hello of the peer is there: the new connection takes the place of the old
\* one, the lock is released and the request is sent.
dial_done(i) ==
  /\ call[i].state = "hello"
  /\ LET n == call[i].from
         p == call[i].to
         s == call[i].stream
         old == connections[n][p]
     IN  /\ p \in stream[s].hello
         /\ connections' = [connections EXCEPT ![n][p] = s]
         /\ stream' = [dropped_streams(n, old) EXCEPT ![s].end["dialer"] = "alive"]
         /\ send_request(i, s, dropped_calls(n, old))
  /\ UNCHANGED <<raft, backlog, acceptor, handling, cuts, timeouts>>

\* The stream is lost before that.
dial_failed(i) ==
  /\ call[i].state = "hello" /\ ~stream[call[i].stream].up
  /\ to_state(i, "err")
  /\ stream' = [stream EXCEPT ![call[i].stream].end["dialer"] = "dropped"]
  /\ UNCHANGED <<raft, backlog, acceptor, connections, wire, handling, cuts, timeouts>>

\* The accept loop takes one stream at a time.
accept(n, s) ==
  /\ acceptor[n].state = "idle" /\ s \in backlog[n]
  /\ acceptor' = [acceptor EXCEPT ![n] = [state |-> "get", stream |-> s]]
  /\ backlog' = [backlog EXCEPT ![n] = @ \ {s}]
  /\ UNCHANGED <<raft, call, stream, connections, wire, handling, cuts, timeouts>>

idle == [state |-> "idle", stream |-> 0]

\* The hello of the dialer is there; the tasks of the connection start.
accept_done(n) ==
  /\ acceptor[n].state = "hello"
  /\ stream[acceptor[n].stream].dialer \in stream[acceptor[n].stream].hello
  /\ acceptor' = [acceptor EXCEPT ![n].state = "insert"]
  /\ stream' = [stream EXCEPT ![acceptor[n].stream].end["target"] = "alive"]
  /\ UNCHANGED <<raft, call, backlog, connections, wire, handling, cuts, timeouts>>

accept_failed(n) ==
  /\ acceptor[n].state = "hello" /\ ~stream[acceptor[n].stream].up
  /\ acceptor' = [acceptor EXCEPT ![n] = idle]
  /\ stream' = [stream EXCEPT ![acceptor[n].stream].end["target"] = "dropped"]
  /\ UNCHANGED <<raft, call, backlog, connections, wire, handling, cuts, timeouts>>

\* A peer with a smaller id that has no entry gets one; every other connection
\* is dropped.
accept_insert(n) ==
  /\ acceptor[n].state = "insert" /\ ~locked(n)
  /\ LET s == acceptor[n].stream
         p == stream[s].dialer
     IN  IF p < n /\ connections[n][p] = 0
           THEN /\ connections' = [connections EXCEPT ![n][p] = s]
                /\ UNCHANGED stream
           ELSE /\ stream' = dropped_streams(n, s)
                /\ UNCHANGED connections
  /\ acceptor' = [acceptor EXCEPT ![n] = idle]
  /\ UNCHANGED <<raft, call, backlog, wire, handling, cuts, timeouts>>

-----------------------------------------------------------------------------
(* Connections at work. *)

faults == Cardinality(cuts) + timeouts

\* openraft drops an RPC that takes too long; a dial is abandoned, with its stream
\* and the lock.
rpc_timeout(i) ==
  /\ call[i].kind = "rpc" /\ call[i].state \notin {"ok", "err"} /\ faults < MaxFaults
  /\ to_state(i, "err")
  /\ stream' = IF call[i].state \in Dialing
                 THEN [stream EXCEPT ![call[i].stream].up = FALSE,
                                     ![call[i].stream].end["dialer"] = "dropped"]
                 ELSE stream
  /\ timeouts' = timeouts + 1
  /\ UNCHANGED <<raft, backlog, acceptor, connections, wire, handling, cuts>>

\* The network loses a stream and some of what is on it.
cut(s) ==
  /\ stream[s].up /\ faults < MaxFaults
  /\ stream' = [stream EXCEPT ![s].up = FALSE]
  /\ \E lost \in SUBSET {p \in wire : p.stream = s} : wire' = wire \ lost
  /\ cuts' = cuts \cup {s}
  /\ UNCHANGED <<raft, call, backlog, acceptor, connections, handling, timeouts>>

\* The read task of n ends; wait_poll keeps its responders.
read_end(n, s) ==
  /\ n \in {stream[s].dialer, stream[s].target}
  /\ ~stream[s].up /\ end(n, s) = "alive"
  /\ stream' = [stream EXCEPT ![s].end[side(n, s)] = "dead"]
  /\ UNCHANGED <<raft, call, backlog, acceptor, connections, wire, handling, cuts, timeouts>>

\* The read task spawns a task for a request.
read_request(p) ==
  /\ p.kind = "Request" /\ end(p.to, p.stream) = "alive"
  /\ wire' = wire \ {p}
  /\ handling' = handling \cup {p}
  /\ UNCHANGED <<raft, call, stream, backlog, acceptor, connections, cuts, timeouts>>

\* Mutant: a request that the raft refuses is not answered.
respond_never(p) ==
  /\ handling' = handling \ {p}
  /\ UNCHANGED <<raft, call, stream, backlog, acceptor, connections, wire, cuts, timeouts>>

\* The task sends what the raft answers.
respond(p) ==
  /\ handling' = handling \ {p}
  /\ wire' = packet_tx(p.stream,
                       [p EXCEPT !.kind = "Response", !.to = peer_of(p.to, p.stream)])
  /\ UNCHANGED <<raft, call, stream, backlog, acceptor, connections, cuts, timeouts>>

\* The calls that wait in the wait_poll of n's end of s under seq; a later one
\* has taken the place of an earlier one.
waiting(n, s, seq) ==
  {i \in DOMAIN call : /\ call[i].from = n /\ call[i].stream = s /\ call[i].seq = seq
                       /\ call[i].state = "sent"}

\* The read task hands a response to its caller.
read_response(p) ==
  /\ p.kind = "Response" /\ end(p.to, p.stream) = "alive"
  /\ wire' = wire \ {p}
  /\ LET ws == waiting(p.to, p.stream, p.seq)
     IN  call' = [i \in DOMAIN call |->
           IF i \in ws /\ \A k \in ws : k <= i
             THEN [call[i] EXCEPT !.state = "ok", !.got = p.call] ELSE call[i]]
  /\ UNCHANGED <<raft, stream, backlog, acceptor, connections, handling, cuts, timeouts>>

-----------------------------------------------------------------------------

\* What runs by itself: tokio polls the tasks, init_raft sets the raft.
Runtime ==
  \/ \E i \in DOMAIN call :
       \/ rpc_send(i) \/ rpc_unreachable(i) \/ rpc_dial(i)
       \/ propose_send(i) \/ propose_offline(i)
       \/ dial_get(i) \/ dial_done(i) \/ dial_failed(i)
  \/ \E n \in Node :
       \/ set(n) \/ accept_get(n) \/ accept_done(n) \/ accept_failed(n) \/ accept_insert(n)
       \/ \E s \in backlog[n] : accept(n, s)
  \/ \E s \in DOMAIN stream : \E n \in Node : read_end(n, s)
  \/ \E p \in wire : read_request(p) \/ read_response(p)
  \/ \E p \in handling : respond(p)

Next ==
  \/ \E n, p \in Node, kind \in {"rpc", "propose"} : start(n, p, kind)
  \/ \E s \in DOMAIN stream : cut(s)
  \/ \E i \in DOMAIN call : rpc_timeout(i)
  \/ Runtime

Spec == Init /\ [][Next]_vars

FairSpec == Spec /\ WF_vars(Runtime)

-----------------------------------------------------------------------------

\* A caller that is answered is answered for its own request, in whatever order
\* the tasks of the peer respond and though both ends number their requests from
\* 0: the unreachable!() of the RPCs is not reached.
OwnResponse == \A i \in DOMAIN call : call[i].state = "ok" => call[i].got = i

\* While its stream is up, a call that was sent has its request, its handler or
\* its response under way: nothing is lost without the stream being lost.
CallUnderWay ==
  \A i \in DOMAIN call :
    call[i].state = "sent" /\ stream[call[i].stream].up =>
      \E p \in wire \cup handling : p.stream = call[i].stream /\ p.call = i

\* A task of n that looked before the raft was set and waits since after it was.
Missed(n) ==
  \/ acceptor[n].state = "missed"
  \/ \E i \in DOMAIN call : call[i].from = n /\ call[i].state = "missed"

\* Nodes that dial each other while their rafts load do not wait for each other
\* for ever: the lock of connections, held across a dial, and the accept loop are
\* released, without the help of a timeout, unless a wake-up was missed.
LockReleased ==
  \A n \in Node :
    locked(n) \/ acceptor[n].state # "idle"
      ~> (~locked(n) /\ acceptor[n].state = "idle") \/ \E k \in Node : Missed(k)

\* Violated by the code.  The node with the smaller id creates the connection, a
\* new one when the old one is lost: what it has dialed stays up unless the
\* network loses it.
SmallerReconnects ==
  \A n, p \in Node :
    connections[n][p] # 0 /\ n < p =>
      stream[connections[n][p]].up \/ connections[n][p] \in cuts
=============================================================================
