----------------------------- MODULE EdgeProofs -----------------------------
(***************************************************************************)
(* Theorems about Edge, for any sessions, peers, endpoints and messages,   *)
(* any capacity of the outbound channel and any number of calls and        *)
(* faults.                                                                 *)
(***************************************************************************)
EXTENDS Edge, TopicProofs

-----------------------------------------------------------------------------
(* Types. *)

\* The fields of a call that its sequence number leads to.
ClientTypes ==
  /\ call \in [Session -> Seq(Call)]
  /\ \A c \in Session : Len(call[c]) <= MaxCalls[c]
  /\ request_rx \in [Session -> Seq(SeqId)]
  /\ response_pool \in [Session -> SUBSET SeqId]
  /\ endpoint_map \in [Session -> SUBSET Endpoint]
  /\ tx_on \in [Session -> BOOLEAN] /\ rx_on \in [Session -> BOOLEAN]
  /\ cancelled \subseteq Session
  /\ dropped \subseteq Endpoint
  /\ mail_box \in [Endpoint -> Seq(MessageId)]

WireTypes ==
  /\ link \in [Session -> {"off", "up", "cut"}]
  /\ up \in [Session -> Seq(SeqId)]
  /\ down \in [Session -> Seq(EdgeResponse \cup EdgePush)]

ConnTypes ==
  /\ peer \in [Session -> Peer \cup {None}]
  /\ task \in [Session -> {"none", "running", "ended"}]
  /\ created \in [Session -> BOOLEAN]
  /\ edge_connections \in [Peer -> Session \cup {None}]
  /\ edge_routing \in [Endpoint -> Peer \cup {None}]

HandlerTypes == handlers \subseteq Handler

TopicTypes ==
  /\ offlines \subseteq Endpoint
  /\ dispatching \subseteq Dispatch
  /\ results \subseteq WaitAckResult
  /\ FiniteTopic(topic)

HistoryTypes == stray \subseteq Endpoint /\ faults \in 0 .. MaxFaults

Typed ==
  ClientTypes /\ WireTypes /\ ConnTypes /\ HandlerTypes /\ TopicTypes /\ HistoryTypes

\* A connection with a task has a peer, and handlers are those of connections.
PeersKnown ==
  /\ \A c \in Session : task[c] # "none" => peer[c] \in Peer
  /\ \A h \in handlers : task[h.conn] # "none"

-----------------------------------------------------------------------------
(* Calls. *)

\* A session that is not connected has made no call; a link that is up has its
\* connection task.
Linked ==
  \A c \in Session :
    /\ link[c] = "off" => call[c] = <<>> /\ ~tx_on[c]
    /\ link[c] = "up" => task[c] = "running"

\* The calls of a session that are under way are calls it made.
NumbersKnown ==
  \A c \in Session :
    /\ \A i \in DOMAIN request_rx[c] : request_rx[c][i] \in DOMAIN call[c]
    /\ response_pool[c] \subseteq DOMAIN call[c]
    /\ \A i \in DOMAIN up[c] : up[c][i] \in DOMAIN call[c]

\* A handler has the request of its call.
HandlersOwn ==
  \A h \in handlers :
    h.seq \in DOMAIN call[h.conn] /\ h.request = call[h.conn][h.seq].request

\* A response on its way is one to the request of its call.
ResponsesOwn ==
  \A c \in Session : \A i \in DOMAIN down[c] :
    down[c][i].type = "Response" =>
      /\ down[c][i].seq \in DOMAIN call[c]
      /\ down[c][i].to = call[c][down[c][i].seq].request

IInv ==
  /\ Typed
  /\ PeersKnown
  /\ Linked
  /\ NumbersKnown
  /\ HandlersOwn
  /\ ResponsesOwn
  /\ OwnAnswer
  /\ AnswerUnderWay

-----------------------------------------------------------------------------
(* Bounds. *)

\* A finite set of numbers has a greatest one: a least counterexample, less one of
\* its elements, would have one.
LEMMA Greatest ==
  ASSUME NEW S \in SUBSET Nat, IsFiniteSet(S), S # {}
  PROVE  Max(S) \in S /\ \A y \in S : y <= Max(S)
<1> DEFINE bounded(A) == \E x \in A : \A y \in A : y <= x
           T == {k \in Nat : \E A \in SUBSET Nat :
                   IsFiniteSet(A) /\ A # {} /\ Cardinality(A) = k /\ ~bounded(A)}
<1>1. T = {}
  <2> SUFFICES ASSUME T # {} PROVE FALSE OBVIOUS
  <2>0. T \in SUBSET Nat OBVIOUS
  <2> HIDE DEF T
  <2>1. PICK k \in T : \A y \in T : k <= y BY <2>0, LeastTime
  <2> USE DEF T
  <2>2. PICK A \in SUBSET Nat :
          IsFiniteSet(A) /\ A # {} /\ Cardinality(A) = k /\ ~bounded(A)
    BY <2>1
  <2>3. PICK x \in A : TRUE BY <2>2
  <2>4. PICK B : B = A \ {x} OBVIOUS
  <2>5. IsFiniteSet(B) /\ Cardinality(B) = k - 1
    BY <2>2, <2>3, <2>4, FS_RemoveElement
  <2>6. B = {} => bounded(A) BY <2>3, <2>4
  <2>7. B # {} BY <2>2, <2>6
  <2>8. k - 1 \in Nat BY <2>5, FS_CardinalityType
  <2>9. k - 1 \notin T BY <2>1, <2>8
  <2>10. bounded(B) BY <2>4, <2>5, <2>7, <2>8, <2>9
  <2>11. PICK z \in B : \A y \in B : y <= z BY <2>10
  <2>12. bounded(A)
    <3>1. CASE x <= z BY <3>1, <2>3, <2>4, <2>11
    <3>2. CASE ~(x <= z)
      <4>1. \A y \in A : y <= x BY <3>2, <2>3, <2>4, <2>11
      <4> QED BY <4>1, <2>3
    <3> QED BY <3>1, <3>2
  <2> QED BY <2>2, <2>12
<1>2. Cardinality(S) \in Nat BY FS_CardinalityType
<1>3. bounded(S) BY <1>1, <1>2
<1>4. \E x \in S : \A y \in S : x >= y BY <1>3
<1>5. Max(S) \in S /\ \A y \in S : Max(S) >= y BY <1>4, Zenon DEF Max
<1> QED BY <1>5

\* Finitely many numbers, one for each element of a finite set, have a greatest one.
LEMMA GreatestValue ==
  ASSUME NEW D, IsFiniteSet(D), NEW f \in [D -> Nat], NEW x \in D
  PROVE  LET S == {f[y] : y \in D}
         IN  IsFiniteSet(S) /\ Max(S) \in Nat /\ f[x] <= Max(S)
<1> DEFINE S == {f[y] : y \in D}
<1>1. S \in SUBSET Nat /\ f[x] \in S OBVIOUS
<1>2. f \in Surjection(D, S) BY DEF Surjection
<1>3. IsFiniteSet(S) BY <1>2, FS_Surjection
<1> HIDE DEF S
<1>4. Max(S) \in S /\ f[x] <= Max(S) BY <1>1, <1>3, Greatest
<1>5. IsFiniteSet(S) /\ Max(S) \in Nat /\ f[x] <= Max(S) BY <1>1, <1>3, <1>4
<1> QED BY <1>5 DEF S

\* Every call a session may make has a number of SeqId.
LEMMA CallNumbers ==
  ASSUME NEW c \in Session
  PROVE  1 .. MaxCalls[c] \subseteq SeqId /\ MaxCalls[c] \in Nat /\ SeqId \subseteq Nat
<1>1. IsFiniteSet(Session) /\ MaxCalls \in [Session -> Nat] BY EdgeAssumption
<1>2. PICK x : x = Max({MaxCalls[b] : b \in Session}) OBVIOUS
<1>3. x \in Nat /\ MaxCalls[c] <= x BY <1>1, <1>2, GreatestValue, Zenon
<1>4. SeqId = 1 .. x BY <1>2 DEF SeqId
<1>5. MaxCalls[c] \in Nat BY <1>1
<1> QED BY <1>3, <1>4, <1>5

\* The time of a new message is a time.
LEMMA NowType ==
  ASSUME FiniteTopic(topic)
  PROVE  now \in Nat
<1> DEFINE f == topic.queue.id_time
           S == {f[m] : m \in MessageId}
           Z == {0} \cup S
<1>1. f \in [MessageId -> Nat] BY DEF FiniteTopic, FiniteQueue, Queue
<1>2. S \in SUBSET Nat BY <1>1
<1>3. IsFiniteSet(S)
  <2>1. f \in Surjection(MessageId, S) BY <1>1 DEF Surjection
  <2> QED BY <2>1, FS_Surjection, FiniteAssumption
<1> HIDE DEF S
<1>4. IsFiniteSet(Z) /\ Z \in SUBSET Nat /\ Z # {}
  BY <1>2, <1>3, FS_AddElement
<1>5. Max(Z) \in Z BY <1>4, Greatest
<1>6. Max(Z) \in Nat BY <1>4, <1>5
<1> QED BY <1>6 DEF now, S

-----------------------------------------------------------------------------
(* What a step does to calls. *)

\* What a call may be answered with.
Answer == EdgeResponse \cup [type : {"None", "Disconnected", "NoConnection"}]

\* Calls stay, with their requests.
SameCalls ==
  \A c \in Session :
    /\ DOMAIN call[c] \subseteq DOMAIN call'[c]
    /\ \A s \in DOMAIN call[c] : call'[c][s].request = call[c][s].request

\* The calls of c in seqs are answered, the others stay as they are.
Returned(c, seqs, response) ==
  \A b \in Session :
    /\ DOMAIN call'[b] = DOMAIN call[b]
    /\ \A s \in DOMAIN call[b] :
         IF b = c /\ s \in seqs
           THEN /\ call'[b][s].request = call[b][s].request
                /\ call'[b][s].response = response
                /\ call'[b][s].state # "waiting"
           ELSE call'[b][s] = call[b][s]

\* return answers a call.
LEMMA ReturnType ==
  ASSUME ClientTypes, NEW c \in Session, NEW s \in DOMAIN call[c], NEW response \in Answer
  PROVE  /\ return(c, s, response) \in Call
         /\ return(c, s, response).request = call[c][s].request
         /\ return(c, s, response).response = response
         /\ return(c, s, response).state # "waiting"
<1> PICK r : r = call[c][s] OBVIOUS
<1>1. r \in Call BY DEF ClientTypes
<1>2. PICK st : st = IF resumes(r.request, response) THEN "answered" ELSE "returned" OBVIOUS
<1>3. st \in {"answered", "returned"} BY <1>2
<1>4. return(c, s, response) = [r EXCEPT !.response = response, !.state = st]
  BY <1>2 DEF return
<1>5. PICK R : R = EdgeRequest OBVIOUS
<1>6. PICK A : A = Answer OBVIOUS
<1>7. Call = [request : R, state : {"waiting", "answered", "returned"}, response : A]
  BY <1>5, <1>6 DEF Call, Answer
<1>8. response \in A BY <1>6
<1>9. PICK n : n = [r EXCEPT !.response = response, !.state = st] OBVIOUS
<1>10. n \in Call BY <1>1, <1>3, <1>7, <1>8, <1>9
<1>11. n.request = r.request /\ n.response = response /\ n.state = st
  BY <1>1, <1>7, <1>9
<1> QED BY <1>3, <1>4, <1>9, <1>10, <1>11

\* Answering some calls of a session.
LEMMA ReturnedStep ==
  ASSUME ClientTypes, NEW c \in Session, NEW seqs, NEW response \in Answer,
         call' = [call EXCEPT ![c] = [s \in DOMAIN @ |->
                    IF s \in seqs THEN return(c, s, response) ELSE @[s]]]
  PROVE  /\ call' \in [Session -> Seq(Call)]
         /\ \A b \in Session : Len(call'[b]) = Len(call[b])
         /\ Returned(c, seqs, response)
         /\ SameCalls
<1>1. PICK f : f = [s \in DOMAIN call[c] |->
                      IF s \in seqs THEN return(c, s, response) ELSE call[c][s]]
  OBVIOUS
<1>2. call[c] \in Seq(Call) BY DEF ClientTypes
<1>3. DOMAIN call[c] = 1 .. Len(call[c]) /\ Len(call[c]) \in Nat BY <1>2
<1>4. \A s \in DOMAIN call[c] : f[s] \in Call BY <1>1, <1>2, ReturnType
<1>5. f \in [1 .. Len(call[c]) -> Call] BY <1>1, <1>3, <1>4
<1>6. f \in Seq(Call) /\ Len(f) = Len(call[c]) BY <1>3, <1>5
<1>7. call' = [call EXCEPT ![c] = f] BY <1>1
<1>8. \A b \in Session : call'[b] = IF b = c THEN f ELSE call[b]
  BY <1>7 DEF ClientTypes
<1>9. call' \in [Session -> Seq(Call)] BY <1>6, <1>7 DEF ClientTypes
<1>10. \A s \in DOMAIN call[c] : IF s \in seqs
           THEN /\ f[s].request = call[c][s].request
                /\ f[s].response = response
                /\ f[s].state # "waiting"
           ELSE f[s] = call[c][s]
  BY <1>1, ReturnType
<1>11. DOMAIN f = DOMAIN call[c] BY <1>1
<1>12. Returned(c, seqs, response) BY <1>8, <1>10, <1>11 DEF Returned
<1>13. SameCalls BY <1>12 DEF Returned, SameCalls
<1> QED BY <1>6, <1>8, <1>9, <1>12, <1>13

\* A new call is the last one.
LEMMA SendStep ==
  ASSUME Typed, NEW c \in Session, NEW request \in EdgeRequest, send_request(c, request)
  PROVE  \E r \in Call :
           /\ call' = [call EXCEPT ![c] = Append(@, r)]
           /\ r.request = request
           /\ r.state = "waiting" => tx_on[c]
           /\ r.response.type # "Response"
<1>1. PICK st : st = IF resumes(request, Ended("NoConnection"))
                       THEN "answered" ELSE "returned" OBVIOUS
<1>2. PICK waiting : waiting = [request |-> request, state |-> "waiting",
                                response |-> Ended("None")] OBVIOUS
<1>3. PICK failed : failed = [request |-> request, response |-> Ended("NoConnection"),
                              state |-> st] OBVIOUS
<1>4. call' = [call EXCEPT ![c] = Append(@, IF tx_on[c] THEN waiting ELSE failed)]
  BY <1>1, <1>2, <1>3 DEF send_request
<1>5. waiting \in Call /\ failed \in Call BY <1>1, <1>2, <1>3 DEF Call, Ended
<1>6. /\ waiting.request = request /\ failed.request = request
      /\ waiting.response.type # "Response" /\ failed.response.type # "Response"
      /\ failed.state # "waiting"
  BY <1>1, <1>2, <1>3 DEF Ended
<1>7. CASE tx_on[c]
  <2>1. call' = [call EXCEPT ![c] = Append(@, waiting)] BY <1>4, <1>7
  <2> QED BY <2>1, <1>5, <1>6, <1>7
<1>8. CASE ~tx_on[c]
  <2>1. call' = [call EXCEPT ![c] = Append(@, failed)] BY <1>4, <1>8
  <2> QED BY <2>1, <1>5, <1>6, <1>8
<1> QED BY <1>7, <1>8

-----------------------------------------------------------------------------
(* Types, action by action. *)

\* SDK connect keeps the types.
LEMMA ConnectType ==
  ASSUME Typed, PeersKnown, NEW c \in Session, NEW p \in PeerChoices[c], connect(c, p)
  PROVE  Typed' /\ PeersKnown'
<1>1. p \in Peer BY EdgeAssumption
<1>2. UNCHANGED <<call, request_rx, response_pool, endpoint_map, cancelled, dropped, mail_box>>
  BY DEF connect
<1>3. tx_on' \in [Session -> BOOLEAN] /\ rx_on' \in [Session -> BOOLEAN]
  BY DEF connect, Typed, ClientTypes
<1>4. ClientTypes' BY <1>2, <1>3 DEF Typed, ClientTypes
<1>5. WireTypes' BY DEF connect, Typed, WireTypes
<1>6. ConnTypes' BY <1>1 DEF connect, init, Typed, ConnTypes
<1>7. HandlerTypes' /\ TopicTypes' /\ HistoryTypes'
  BY DEF connect, topic_vars, Typed, HandlerTypes, TopicTypes, HistoryTypes
<1>8. PeersKnown'
  <2>1. /\ peer' = [peer EXCEPT ![c] = p] /\ task' = [task EXCEPT ![c] = "running"]
        /\ handlers' = handlers
    BY DEF connect, init
  <2>2. \A h \in handlers : h.conn \in Session BY DEF Typed, HandlerTypes, Handler
  <2> QED BY <2>1, <2>2, <1>1 DEF PeersKnown, Typed, ConnTypes
<1> QED BY <1>4, <1>5, <1>6, <1>7, <1>8 DEF Typed

\* create_edge_connection keeps the types.
LEMMA CreateEdgeConnectionType ==
  ASSUME Typed, PeersKnown, NEW c \in Session, create_edge_connection(c)
  PROVE  Typed' /\ PeersKnown'
<1>1. UNCHANGED <<client_vars, wire_vars, peer, task, edge_routing, handlers, topic_vars,
                  stray, faults>>
  BY DEF create_edge_connection
<1>2. created' \in [Session -> BOOLEAN] /\ edge_connections' \in [Peer -> Session \cup {None}]
  BY DEF create_edge_connection, Typed, ConnTypes
<1>3. ClientTypes' BY <1>1 DEF client_vars, Typed, ClientTypes
<1>4. WireTypes' BY <1>1 DEF wire_vars, Typed, WireTypes
<1>5. ConnTypes' BY <1>1, <1>2 DEF Typed, ConnTypes
<1>6. HandlerTypes' /\ TopicTypes' /\ HistoryTypes'
  BY <1>1 DEF topic_vars, Typed, HandlerTypes, TopicTypes, HistoryTypes
<1>7. PeersKnown' BY <1>1 DEF PeersKnown
<1> QED BY <1>3, <1>4, <1>5, <1>6, <1>7 DEF Typed

\* fault counts within its bound.
LEMMA FaultType ==
  ASSUME HistoryTypes, fault
  PROVE  faults' \in 0 .. MaxFaults
BY EdgeAssumption DEF HistoryTypes, fault

\* Cutting a connection keeps the types.
LEMMA CutType ==
  ASSUME Typed, PeersKnown, NEW c \in Session, cut(c)
  PROVE  Typed' /\ PeersKnown'
<1>1. UNCHANGED <<client_vars, conn_vars, handlers, topic_vars, stray>> BY DEF cut
<1>2. faults' \in 0 .. MaxFaults BY FaultType DEF cut, Typed
<1>3. PICK i \in 0 .. Len(up[c]), j \in 0 .. Len(down[c]) :
        /\ up' = [up EXCEPT ![c] = SubSeq(@, 1, i)]
        /\ down' = [down EXCEPT ![c] = SubSeq(@, 1, j)]
  BY DEF cut
<1>4. PICK P : P = EdgeResponse \cup EdgePush OBVIOUS
<1>5. up[c] \in Seq(SeqId) /\ down[c] \in Seq(P) BY <1>4 DEF Typed, WireTypes
<1>6. SubSeq(up[c], 1, i) \in Seq(SeqId) /\ SubSeq(down[c], 1, j) \in Seq(P)
  BY <1>3, <1>5
<1>7. up' \in [Session -> Seq(SeqId)] /\ down' \in [Session -> Seq(P)]
  BY <1>3, <1>4, <1>6 DEF Typed, WireTypes
<1>8. link' \in [Session -> {"off", "up", "cut"}] BY DEF cut, Typed, WireTypes
<1>9. WireTypes' BY <1>4, <1>7, <1>8 DEF WireTypes
<1>10. ClientTypes' BY <1>1 DEF client_vars, Typed, ClientTypes
<1>11. ConnTypes' BY <1>1 DEF conn_vars, Typed, ConnTypes
<1>12. HandlerTypes' /\ TopicTypes' /\ HistoryTypes'
  BY <1>1, <1>2 DEF topic_vars, Typed, HandlerTypes, TopicTypes, HistoryTypes
<1>13. PeersKnown' BY <1>1 DEF conn_vars, PeersKnown
<1> QED BY <1>9, <1>10, <1>11, <1>12, <1>13 DEF Typed

\* The end of a connection task keeps the types.
LEMMA EndConnectionType ==
  ASSUME Typed, PeersKnown, NEW c \in Session, end_connection(c)
  PROVE  Typed' /\ PeersKnown'
<1>1. UNCHANGED <<client_vars, link, down, peer, created, handlers, dispatching, results,
                  topic, faults>>
  BY DEF end_connection
<1>2. ClientTypes' BY <1>1 DEF client_vars, Typed, ClientTypes
<1>3. up' \in [Session -> Seq(SeqId)]
  <2>1. <<>> \in Seq(SeqId) OBVIOUS
  <2> QED BY <2>1 DEF end_connection, Typed, WireTypes
<1>4. WireTypes' BY <1>1, <1>3 DEF Typed, WireTypes
<1>5. remove_edge_connection(peer[c]) BY DEF end_connection
<1>6. edge_connections' \in [Peer -> Session \cup {None}]
  BY <1>5 DEF remove_edge_connection, Typed, ConnTypes
<1>7. edge_routing' \in [Endpoint -> Peer \cup {None}]
  <2>1. PICK O : O = {e \in Endpoint : edge_connections[peer[c]] # None /\ edge_routing[e] = peer[c]}
    OBVIOUS
  <2>2. edge_routing' = [e \in Endpoint |-> IF e \in O THEN None ELSE edge_routing[e]]
    BY <1>5, <2>1 DEF remove_edge_connection
  <2> QED BY <2>2 DEF Typed, ConnTypes
<1>8. task' \in [Session -> {"none", "running", "ended"}] BY DEF end_connection, Typed, ConnTypes
<1>9. ConnTypes' BY <1>1, <1>6, <1>7, <1>8 DEF Typed, ConnTypes
<1>10. offlines' \subseteq Endpoint BY <1>5 DEF remove_edge_connection, Typed, TopicTypes
<1>11. stray' \subseteq Endpoint BY DEF end_connection, Typed, HistoryTypes
<1>12. HandlerTypes' /\ TopicTypes' /\ HistoryTypes'
  BY <1>1, <1>10, <1>11 DEF Typed, HandlerTypes, TopicTypes, HistoryTypes
<1>13. PeersKnown'
  <2>1. task' = [task EXCEPT ![c] = "ended"] /\ task[c] = "running" BY DEF end_connection
  <2>2. \A h \in handlers : h.conn \in Session BY DEF Typed, HandlerTypes, Handler
  <2> QED BY <2>1, <2>2, <1>1 DEF PeersKnown, Typed, ConnTypes
<1> QED BY <1>2, <1>4, <1>9, <1>12, <1>13 DEF Typed

\* send_request keeps the types.
LEMMA SendRequestType ==
  ASSUME Typed, PeersKnown, NEW c \in Session, NEW request \in EdgeRequest,
         send_request(c, request), dropped' \subseteq Endpoint
  PROVE  Typed' /\ PeersKnown'
<1>1. UNCHANGED <<response_pool, endpoint_map, tx_on, rx_on, cancelled, mail_box, wire_vars,
                  conn_vars, handlers, topic_vars, stray, faults>>
  BY DEF send_request
<1>2. PICK r \in Call : call' = [call EXCEPT ![c] = Append(@, r)] BY SendStep
<1>3. call[c] \in Seq(Call) BY DEF Typed, ClientTypes
<1>4. Append(call[c], r) \in Seq(Call) /\ Len(Append(call[c], r)) = Len(call[c]) + 1
  BY <1>3
<1>5. call' \in [Session -> Seq(Call)] BY <1>2, <1>4 DEF Typed, ClientTypes
<1>6. Len(call[c]) < MaxCalls[c] /\ Len(call[c]) \in Nat /\ MaxCalls[c] \in Nat
  BY <1>3, CallNumbers DEF send_request
<1>7. \A b \in Session : call'[b] = IF b = c THEN Append(call[c], r) ELSE call[b]
  BY <1>2 DEF Typed, ClientTypes
<1>8. \A b \in Session : Len(call'[b]) <= MaxCalls[b]
  <2>1. Len(Append(call[c], r)) <= MaxCalls[c] BY <1>4, <1>6
  <2>2. \A b \in Session : Len(call[b]) <= MaxCalls[b] BY DEF Typed, ClientTypes
  <2> QED BY <2>1, <2>2, <1>7, Zenon
<1>9. Len(call[c]) + 1 \in SeqId
  <2>1. Len(call[c]) + 1 \in 1 .. MaxCalls[c] BY <1>6
  <2> QED BY <2>1, CallNumbers
<1>10. request_rx' \in [Session -> Seq(SeqId)]
  <2>1. request_rx[c] \in Seq(SeqId) BY DEF Typed, ClientTypes
  <2>2. Append(request_rx[c], Len(call[c]) + 1) \in Seq(SeqId) BY <2>1, <1>9
  <2>3. PICK q : q = IF tx_on[c] THEN Append(request_rx[c], Len(call[c]) + 1) ELSE request_rx[c]
    OBVIOUS
  <2>4. q \in Seq(SeqId) BY <2>1, <2>2, <2>3
  <2>5. request_rx' = [request_rx EXCEPT ![c] = q] BY <2>3 DEF send_request
  <2> QED BY <2>4, <2>5 DEF Typed, ClientTypes
<1>11. ClientTypes' BY <1>1, <1>5, <1>8, <1>10 DEF Typed, ClientTypes
<1>12. WireTypes' BY <1>1 DEF wire_vars, Typed, WireTypes
<1>13. ConnTypes' BY <1>1 DEF conn_vars, Typed, ConnTypes
<1>14. HandlerTypes' /\ TopicTypes' /\ HistoryTypes'
  BY <1>1 DEF topic_vars, Typed, HandlerTypes, TopicTypes, HistoryTypes
<1>15. PeersKnown' BY <1>1 DEF conn_vars, PeersKnown
<1> QED BY <1>11, <1>12, <1>13, <1>14, <1>15 DEF Typed

\* A client sends this request.
Requests(c, request) ==
  /\ send_request(c, request)
  /\ dropped' \subseteq Endpoint

\* The client neither connects nor drops its node, nor an endpoint left by it.
Calling(c) ==
  /\ ~drop_node(c)
  /\ \A p \in PeerChoices[c] : ~connect(c, p)
  /\ \A e \in Endpoint : ~drop_orphan(c, e)

\* The request of a client is one of EdgeRequestEnum.
LEMMA RequestsMade ==
  ASSUME Typed, NEW c \in Session, Client(c), Calling(c)
  PROVE  \E request \in EdgeRequest : Requests(c, request)
<1> USE EdgeAssumption
<1>0. dropped \subseteq Endpoint BY DEF Typed, ClientTypes
<1>1. ASSUME NEW e \in Endpoint, NEW interests \in InterestChoices,
             NEW code \in TopicChoices[c], create_endpoint(c, e, interests, code)
      PROVE  \E request \in EdgeRequest : Requests(c, request)
  <2>1. PICK r : r = [type |-> "EndpointOnline", topic |-> code, ep |-> e,
                      interests |-> interests] OBVIOUS
  <2>2. r \in EdgeRequest BY <2>1 DEF EdgeRequest
  <2> QED BY <1>0, <1>1, <2>1, <2>2 DEF Requests, create_endpoint, send_ep_online
<1>2. ASSUME NEW m \in MessageId, NEW code \in TopicChoices[c], send_message(c, m, code)
      PROVE  \E request \in EdgeRequest : Requests(c, request)
  <2>1. PICK r : r = [type |-> "SendMessage", topic |-> code, msg |-> m] OBVIOUS
  <2>2. r \in EdgeRequest BY <2>1 DEF EdgeRequest
  <2> QED BY <1>0, <1>2, <2>1, <2>2 DEF Requests, send_message
<1>3. ASSUME NEW e \in Endpoint, NEW interests \in InterestChoices,
             update_interests(c, e, interests)
      PROVE  \E request \in EdgeRequest : Requests(c, request)
  <2>1. PICK r : r = [type |-> "EndpointInterest", topic |-> Loaded, ep |-> e,
                      interests |-> interests] OBVIOUS
  <2>2. r \in EdgeRequest BY <2>1 DEF EdgeRequest
  <2> QED BY <1>0, <1>3, <2>1, <2>2 DEF Requests, update_interests, send_ep_interests
<1>4. ASSUME NEW e \in Endpoint, NEW m \in MessageId, NEW kind \in AckChoices,
             NEW code \in TopicCode, send_single_ack(c, code, e, m, kind), dropped' = dropped
      PROVE  \E request \in EdgeRequest : Requests(c, request)
  <2>1. PICK r : r = [type |-> "SetState", topic |-> code, ep |-> e, msg |-> m,
                      kind |-> kind] OBVIOUS
  <2>2. r \in EdgeRequest BY <2>1 DEF EdgeRequest
  <2> QED BY <1>0, <1>4, <2>1, <2>2 DEF Requests, send_single_ack
<1>5. ASSUME NEW e \in Endpoint, drop_endpoint(c, e)
      PROVE  \E request \in EdgeRequest : Requests(c, request)
  <2>1. PICK r : r = [type |-> "EndpointOffline", topic |-> Loaded, ep |-> e] OBVIOUS
  <2>2. r \in EdgeRequest BY <2>1 DEF EdgeRequest
  <2>3. dropped' \subseteq Endpoint BY <1>0, <1>5 DEF drop_endpoint
  <2> QED BY <1>5, <2>1, <2>2, <2>3 DEF Requests, drop_endpoint, send_ep_offline
<1>6. Loaded \in TopicCode /\ \A code \in TopicChoices[c] : code \in TopicCode OBVIOUS
<1> QED BY <1>1, <1>2, <1>3, <1>4, <1>5, <1>6, Zenon DEF Client, Calling, ack, ack_received_message

\* A caller that resumes keeps its request and its response.
LEMMA ResumeStep ==
  ASSUME Typed, NEW c \in Session, NEW s \in DOMAIN call[c], resume(c, s)
  PROVE  /\ call' \in [Session -> Seq(Call)]
         /\ \A b \in Session : Len(call'[b]) = Len(call[b]) /\ DOMAIN call'[b] = DOMAIN call[b]
         /\ \A b \in Session : \A i \in DOMAIN call[b] :
              /\ call'[b][i].request = call[b][i].request
              /\ call'[b][i].response = call[b][i].response
              /\ call'[b][i].state = "waiting" => call[b][i].state = "waiting"
<1>1. PICK R : R = EdgeRequest OBVIOUS
<1>2. PICK A : A = Answer OBVIOUS
<1>3. Call = [request : R, state : {"waiting", "answered", "returned"}, response : A]
  BY <1>1, <1>2 DEF Call, Answer
<1>4. PICK r : r = [call[c][s] EXCEPT !.state = "returned"] OBVIOUS
<1>5. call[c] \in Seq(Call) /\ call[c][s] \in Call BY DEF Typed, ClientTypes
<1>6. /\ r \in Call /\ r.request = call[c][s].request
      /\ r.response = call[c][s].response /\ r.state = "returned"
  BY <1>3, <1>4, <1>5
<1>7. PICK f : f = [call[c] EXCEPT ![s] = r] OBVIOUS
<1>8. f \in Seq(Call) /\ Len(f) = Len(call[c]) /\ DOMAIN f = DOMAIN call[c]
  BY <1>5, <1>6, <1>7
<1>9. call' = [call EXCEPT ![c] = f] BY <1>4, <1>7 DEF resume
<1>10. \A b \in Session : call'[b] = IF b = c THEN f ELSE call[b]
  BY <1>9 DEF Typed, ClientTypes
<1>11. call' \in [Session -> Seq(Call)] BY <1>8, <1>9 DEF Typed, ClientTypes
<1>12. \A i \in DOMAIN call[c] : f[i] = IF i = s THEN r ELSE call[c][i] BY <1>7
<1> QED BY <1>6, <1>8, <1>10, <1>11, <1>12

\* A caller that resumes keeps the types.
LEMMA ResumeType ==
  ASSUME Typed, PeersKnown, NEW c \in Session, NEW s \in DOMAIN call[c], resume(c, s)
  PROVE  Typed' /\ PeersKnown'
<1>1. UNCHANGED <<request_rx, response_pool, tx_on, rx_on, cancelled, dropped, mail_box,
                  wire_vars, conn_vars, handlers, topic_vars, stray, faults>>
  BY DEF resume
<1>2. endpoint_map' \in [Session -> SUBSET Endpoint]
  <2>1. PICK r : r = call[c][s].request OBVIOUS
  <2>2. call[c][s] \in Call /\ call[c][s].state = "answered" BY DEF Typed, ClientTypes, resume
  <2>3. r \in EdgeRequest BY <2>1, <2>2 DEF Call
  <2>4. r.type = "EndpointOnline" => r.ep \in Endpoint BY <2>3 DEF EdgeRequest
  <2>5. PICK x : x = IF r.type = "EndpointOnline" THEN endpoint_map[c] \cup {r.ep}
                                                  ELSE endpoint_map[c] \ {r.ep} OBVIOUS
  <2>6. x \in SUBSET Endpoint BY <2>4, <2>5 DEF Typed, ClientTypes
  <2>7. endpoint_map' = [endpoint_map EXCEPT ![c] = x] BY <2>1, <2>5 DEF resume
  <2> QED BY <2>6, <2>7 DEF Typed, ClientTypes
<1>3. call' \in [Session -> Seq(Call)] /\ \A b \in Session : Len(call'[b]) = Len(call[b])
  BY ResumeStep
<1>4. ClientTypes' BY <1>1, <1>2, <1>3 DEF Typed, ClientTypes
<1>5. WireTypes' BY <1>1 DEF wire_vars, Typed, WireTypes
<1>6. ConnTypes' BY <1>1 DEF conn_vars, Typed, ConnTypes
<1>7. HandlerTypes' /\ TopicTypes' /\ HistoryTypes'
  BY <1>1 DEF topic_vars, Typed, HandlerTypes, TopicTypes, HistoryTypes
<1>8. PeersKnown' BY <1>1 DEF conn_vars, PeersKnown
<1> QED BY <1>4, <1>5, <1>6, <1>7, <1>8 DEF Typed

\* A step of the client alone.
LEMMA ServerRests ==
  ASSUME Typed, PeersKnown, UNCHANGED <<conn_vars, handlers, topic_vars, stray, faults>>
  PROVE  ConnTypes' /\ HandlerTypes' /\ TopicTypes' /\ HistoryTypes' /\ PeersKnown'
<1>1. ConnTypes' BY DEF conn_vars, Typed, ConnTypes
<1>2. HandlerTypes' /\ TopicTypes' /\ HistoryTypes'
  BY DEF topic_vars, Typed, HandlerTypes, TopicTypes, HistoryTypes
<1>3. PeersKnown' BY DEF conn_vars, PeersKnown
<1> QED BY <1>1, <1>2, <1>3

\* A step of the server alone.
LEMMA ClientRests ==
  ASSUME Typed, UNCHANGED client_vars
  PROVE  ClientTypes'
BY DEF client_vars, Typed, ClientTypes

\* The rest of a queue, and its head.
LEMMA Queued ==
  ASSUME NEW S, NEW q \in Seq(S), q # <<>>
  PROVE  /\ Head(q) \in S /\ Tail(q) \in Seq(S) /\ Head(q) = q[1] /\ 1 \in DOMAIN q
         /\ \A i \in DOMAIN Tail(q) : i + 1 \in DOMAIN q /\ Tail(q)[i] = q[i + 1]
         /\ \A i \in DOMAIN q : i # 1 => i - 1 \in DOMAIN Tail(q) /\ Tail(q)[i - 1] = q[i]
<1>1. Len(q) \in Nat /\ Len(q) # 0 OBVIOUS
<1> QED BY <1>1

\* The writing task keeps the types.
LEMMA TxTaskType ==
  ASSUME Typed, PeersKnown, NEW c \in Session, tx_task(c)
  PROVE  Typed' /\ PeersKnown'
<1>1. UNCHANGED <<call, endpoint_map, tx_on, rx_on, cancelled, dropped, mail_box, link, down,
                  conn_vars, handlers, topic_vars, stray, faults>>
  BY DEF tx_task
<1>2. request_rx[c] \in Seq(SeqId) /\ request_rx[c] # <<>> BY DEF tx_task, Typed, ClientTypes
<1>3. Head(request_rx[c]) \in SeqId /\ Tail(request_rx[c]) \in Seq(SeqId) BY <1>2, Queued
<1>4. request_rx' \in [Session -> Seq(SeqId)] BY <1>3 DEF tx_task, Typed, ClientTypes
<1>5. response_pool' \in [Session -> SUBSET SeqId] BY <1>3 DEF tx_task, Typed, ClientTypes
<1>6. ClientTypes' BY <1>1, <1>4, <1>5 DEF Typed, ClientTypes
<1>7. up' \in [Session -> Seq(SeqId)]
  <2>1. up[c] \in Seq(SeqId) BY DEF Typed, WireTypes
  <2>2. Append(up[c], Head(request_rx[c])) \in Seq(SeqId) BY <2>1, <1>3
  <2>3. PICK q : q = IF link[c] = "up" THEN Append(up[c], Head(request_rx[c])) ELSE up[c]
    OBVIOUS
  <2>4. q \in Seq(SeqId) BY <2>1, <2>2, <2>3
  <2>5. up' = [up EXCEPT ![c] = q] BY <2>3 DEF tx_task
  <2> QED BY <2>4, <2>5 DEF Typed, WireTypes
<1>8. WireTypes' BY <1>1, <1>7 DEF Typed, WireTypes
<1> QED BY <1>1, <1>6, <1>8, ServerRests DEF Typed

\* The answer of a call whose responder is dropped.
LEMMA DisconnectedAnswer == Ended("Disconnected") \in Answer
BY DEF Ended, Answer

\* A failed write keeps the types.
LEMMA TxFailType ==
  ASSUME Typed, PeersKnown, NEW c \in Session, tx_fail(c)
  PROVE  Typed' /\ PeersKnown'
<1>1. UNCHANGED <<endpoint_map, rx_on, cancelled, dropped, mail_box, wire_vars, conn_vars,
                  handlers, topic_vars, stray, faults>>
  BY DEF tx_fail
<1>2. request_rx[c] \in Seq(SeqId) /\ request_rx[c] # <<>> BY DEF tx_fail, Typed, ClientTypes
<1>3. Head(request_rx[c]) \in SeqId BY <1>2, Queued
<1>4. PICK pool : pool = response_pool[c] \cup {Head(request_rx[c])} OBVIOUS
<1>5. pool \in SUBSET SeqId BY <1>3, <1>4 DEF Typed, ClientTypes
<1>6. PICK left : left = IF rx_on[c] THEN pool ELSE {} OBVIOUS
<1>7. response_pool' = [response_pool EXCEPT ![c] = left] BY <1>4, <1>6 DEF tx_fail
<1>8. response_pool' \in [Session -> SUBSET SeqId] BY <1>5, <1>6, <1>7 DEF Typed, ClientTypes
<1>9. request_rx' \in [Session -> Seq(SeqId)]
  <2>1. <<>> \in Seq(SeqId) OBVIOUS
  <2> QED BY <2>1 DEF tx_fail, Typed, ClientTypes
<1>10. \E seqs : disconnect(c, seqs) BY DEF tx_fail
<1>11. call' \in [Session -> Seq(Call)] /\ \A b \in Session : Len(call'[b]) = Len(call[b])
  BY <1>10, DisconnectedAnswer, ReturnedStep DEF disconnect, Typed
<1>12. tx_on' \in [Session -> BOOLEAN] BY DEF tx_fail, Typed, ClientTypes
<1>13. ClientTypes' BY <1>1, <1>8, <1>9, <1>11, <1>12 DEF Typed, ClientTypes
<1>14. WireTypes' BY <1>1 DEF wire_vars, Typed, WireTypes
<1> QED BY <1>1, <1>13, <1>14, ServerRests DEF Typed

\* The end of the reading task keeps the types.
LEMMA RxEndType ==
  ASSUME Typed, PeersKnown, NEW c \in Session, rx_end(c)
  PROVE  Typed' /\ PeersKnown'
<1>1. UNCHANGED <<request_rx, endpoint_map, tx_on, cancelled, dropped, mail_box, wire_vars,
                  conn_vars, handlers, topic_vars, stray, faults>>
  BY DEF rx_end
<1>2. \E seqs : disconnect(c, seqs) BY DEF rx_end
<1>3. call' \in [Session -> Seq(Call)] /\ \A b \in Session : Len(call'[b]) = Len(call[b])
  BY <1>2, DisconnectedAnswer, ReturnedStep DEF disconnect, Typed
<1>4. rx_on' \in [Session -> BOOLEAN] BY DEF rx_end, Typed, ClientTypes
<1>5. response_pool' \in [Session -> SUBSET SeqId]
  <2>1. PICK left : left = IF tx_on[c] THEN response_pool[c] ELSE {} OBVIOUS
  <2>2. response_pool' = [response_pool EXCEPT ![c] = left] BY <2>1 DEF rx_end
  <2> QED BY <2>1, <2>2 DEF Typed, ClientTypes
<1>6. ClientTypes' BY <1>1, <1>3, <1>4, <1>5 DEF Typed, ClientTypes
<1>7. WireTypes' BY <1>1 DEF wire_vars, Typed, WireTypes
<1> QED BY <1>1, <1>6, <1>7, ServerRests DEF Typed

\* Dropping the client node keeps the types.
LEMMA DropNodeType ==
  ASSUME Typed, PeersKnown, NEW c \in Session, drop_node(c)
  PROVE  Typed' /\ PeersKnown'
<1>1. UNCHANGED <<call, request_rx, response_pool, endpoint_map, rx_on, dropped, mail_box,
                  wire_vars, conn_vars, handlers, topic_vars, stray>>
  BY DEF drop_node
<1>2. tx_on' \in [Session -> BOOLEAN] /\ cancelled' \subseteq Session
  BY DEF drop_node, Typed, ClientTypes
<1>3. ClientTypes' BY <1>1, <1>2 DEF Typed, ClientTypes
<1>4. WireTypes' BY <1>1 DEF wire_vars, Typed, WireTypes
<1>5. faults' \in 0 .. MaxFaults BY FaultType DEF drop_node, Typed
<1>6. ConnTypes' BY <1>1 DEF conn_vars, Typed, ConnTypes
<1>7. HandlerTypes' /\ TopicTypes' /\ HistoryTypes'
  BY <1>1, <1>5 DEF topic_vars, Typed, HandlerTypes, TopicTypes, HistoryTypes
<1>8. PeersKnown' BY <1>1 DEF conn_vars, PeersKnown
<1> QED BY <1>3, <1>4, <1>6, <1>7, <1>8 DEF Typed

\* Dropping an endpoint whose node is gone keeps the types.
LEMMA DropOrphanType ==
  ASSUME Typed, PeersKnown, NEW c \in Session, NEW e \in Endpoint, drop_orphan(c, e)
  PROVE  Typed' /\ PeersKnown'
<1>1. UNCHANGED <<call, request_rx, response_pool, endpoint_map, tx_on, rx_on, cancelled,
                  mail_box, wire_vars, conn_vars, handlers, topic_vars, stray, faults>>
  BY DEF drop_orphan
<1>2. dropped' \subseteq Endpoint BY DEF drop_orphan, Typed, ClientTypes
<1>3. ClientTypes' BY <1>1, <1>2 DEF Typed, ClientTypes
<1>4. WireTypes' BY <1>1 DEF wire_vars, Typed, WireTypes
<1> QED BY <1>1, <1>3, <1>4, ServerRests DEF Typed

\* The reading task that is cancelled keeps the types.
LEMMA RxCancelledType ==
  ASSUME Typed, PeersKnown, NEW c \in Session, rx_cancelled(c)
  PROVE  Typed' /\ PeersKnown'
<1>1. UNCHANGED <<call, request_rx, response_pool, tx_on, cancelled, dropped, mail_box,
                  wire_vars, conn_vars, handlers, topic_vars, stray, faults>>
  BY DEF rx_cancelled
<1>2. rx_on' \in [Session -> BOOLEAN] /\ endpoint_map' \in [Session -> SUBSET Endpoint]
  BY DEF rx_cancelled, Typed, ClientTypes
<1>3. ClientTypes' BY <1>1, <1>2 DEF Typed, ClientTypes
<1>4. WireTypes' BY <1>1 DEF wire_vars, Typed, WireTypes
<1> QED BY <1>1, <1>3, <1>4, ServerRests DEF Typed

\* The socket that is closed keeps the types.
LEMMA RxCloseType ==
  ASSUME Typed, PeersKnown, NEW c \in Session, rx_close(c)
  PROVE  Typed' /\ PeersKnown'
<1>1. UNCHANGED <<client_vars, up, conn_vars, handlers, topic_vars, stray, faults>>
  BY DEF rx_close
<1>2. link' \in [Session -> {"off", "up", "cut"}] BY DEF rx_close, Typed, WireTypes
<1>3. PICK P : P = EdgeResponse \cup EdgePush OBVIOUS
<1>4. down' \in [Session -> Seq(P)]
  <2>1. <<>> \in Seq(P) OBVIOUS
  <2> QED BY <2>1, <1>3 DEF rx_close, Typed, WireTypes
<1>5. WireTypes' BY <1>1, <1>2, <1>3, <1>4 DEF Typed, WireTypes
<1> QED BY <1>1, <1>5, ServerRests, ClientRests DEF Typed

\* A packet from the server: a push for an endpoint, or a response.
LEMMA PacketType ==
  ASSUME NEW packet \in EdgeResponse \cup EdgePush
  PROVE  /\ packet.type = "Push" => packet.ep \in Endpoint /\ packet.msg \in MessageId
         /\ packet.type = "Response" => packet \in EdgeResponse /\ packet \in Answer
<1>1. \A x \in EdgePush : x.type = "Push" /\ x.ep \in Endpoint /\ x.msg \in MessageId
  BY DEF EdgePush
<1>2. \A x \in EdgeResponse : x.type = "Response" BY DEF EdgeResponse
<1> QED BY <1>1, <1>2, Zenon DEF Answer

\* The reading task keeps the types.
LEMMA RxTaskType ==
  ASSUME Typed, PeersKnown, NEW c \in Session, rx_task(c)
  PROVE  Typed' /\ PeersKnown'
<1>1. UNCHANGED <<request_rx, endpoint_map, tx_on, rx_on, cancelled, dropped, link, up,
                  conn_vars, handlers, topic_vars, stray, faults>>
  BY DEF rx_task
<1>2. PICK P : P = EdgeResponse \cup EdgePush OBVIOUS
<1>3. down[c] \in Seq(P) /\ down[c] # <<>> BY <1>2 DEF rx_task, Typed, WireTypes
<1>4. PICK packet : packet = Head(down[c]) OBVIOUS
<1>5. packet \in P /\ Tail(down[c]) \in Seq(P) BY <1>3, <1>4, Queued
<1>6. down' \in [Session -> Seq(P)]
  BY <1>2, <1>5 DEF rx_task, Typed, WireTypes
<1>7. WireTypes' BY <1>1, <1>2, <1>6 DEF Typed, WireTypes
<1>8. CASE packet.type = "Push"
  <2>1. packet.ep \in Endpoint /\ packet.msg \in MessageId
    BY <1>2, <1>5, <1>8, PacketType
  <2>2. UNCHANGED <<call, response_pool>> BY <1>4, <1>8 DEF rx_task
  <2>3. PICK box : box = IF packet.ep \in endpoint_map[c] \ dropped
                           THEN Append(mail_box[packet.ep], packet.msg)
                           ELSE mail_box[packet.ep] OBVIOUS
  <2>4. mail_box' = [mail_box EXCEPT ![packet.ep] = box]
    BY <1>4, <1>8, <2>3 DEF rx_task
  <2>5. mail_box[packet.ep] \in Seq(MessageId) BY <2>1 DEF Typed, ClientTypes
  <2>6. Append(mail_box[packet.ep], packet.msg) \in Seq(MessageId) BY <2>1, <2>5
  <2>7. box \in Seq(MessageId) BY <2>3, <2>5, <2>6
  <2>8. mail_box' \in [Endpoint -> Seq(MessageId)] BY <2>4, <2>7 DEF Typed, ClientTypes
  <2>9. ClientTypes' BY <1>1, <2>2, <2>8 DEF Typed, ClientTypes
  <2> QED BY <1>1, <1>7, <2>9, ServerRests DEF Typed
<1>9. CASE packet.type = "Response"
  <2>1. PICK to : to = responder(c, packet) OBVIOUS
  <2>2. /\ response_pool' = [response_pool EXCEPT ![c] = @ \ to]
        /\ call' = [call EXCEPT ![c] = [s \in DOMAIN @ |->
                      IF s \in to THEN return(c, s, packet) ELSE @[s]]]
        /\ mail_box' = mail_box
    BY <1>4, <1>9, <2>1 DEF rx_task
  <2>3. packet \in Answer BY <1>2, <1>5, <1>9, PacketType
  <2>4. call' \in [Session -> Seq(Call)] /\ \A b \in Session : Len(call'[b]) = Len(call[b])
    BY <2>2, <2>3, ReturnedStep DEF Typed
  <2>5. response_pool' \in [Session -> SUBSET SeqId] BY <2>2 DEF Typed, ClientTypes
  <2>6. ClientTypes' BY <1>1, <2>2, <2>4, <2>5 DEF Typed, ClientTypes
  <2> QED BY <1>1, <1>7, <2>6, ServerRests DEF Typed
<1> QED BY <1>4, <1>8, <1>9, Zenon DEF rx_task

\* A packet that reaches the server keeps the types.
LEMMA PacketInType ==
  ASSUME Typed, PeersKnown, NumbersKnown, NEW c \in Session, packet_in(c)
  PROVE  Typed' /\ PeersKnown'
<1>1. UNCHANGED <<client_vars, link, down, conn_vars, topic_vars, stray, faults>>
  BY DEF packet_in
<1>2. up[c] \in Seq(SeqId) /\ up[c] # <<>> BY DEF packet_in, Typed, WireTypes
<1>3. PICK s : s = Head(up[c]) OBVIOUS
<1>4. s \in SeqId /\ Tail(up[c]) \in Seq(SeqId) /\ s = up[c][1] /\ 1 \in DOMAIN up[c]
  BY <1>2, <1>3, Queued
<1>5. s \in DOMAIN call[c] BY <1>4 DEF NumbersKnown
<1>6. PICK h : h = [conn |-> c, seq |-> s, request |-> call[c][s].request, pc |-> "spawned"]
  OBVIOUS
<1>7. handlers' = handlers \cup {h} BY <1>3, <1>6 DEF packet_in
<1>8. call[c][s].request \in EdgeRequest
  <2>1. call[c][s] \in Call BY <1>5 DEF Typed, ClientTypes
  <2> QED BY <2>1 DEF Call
<1>9. h \in Handler BY <1>4, <1>6, <1>8 DEF Handler
<1>10. HandlerTypes' BY <1>7, <1>9 DEF Typed, HandlerTypes
<1>11. up' \in [Session -> Seq(SeqId)] BY <1>4 DEF packet_in, Typed, WireTypes
<1>12. WireTypes' BY <1>1, <1>11 DEF Typed, WireTypes
<1>13. ConnTypes' BY <1>1 DEF conn_vars, Typed, ConnTypes
<1>14. TopicTypes' /\ HistoryTypes' BY <1>1 DEF topic_vars, Typed, TopicTypes, HistoryTypes
<1>15. PeersKnown'
  <2>1. task[c] # "none" /\ h.conn = c BY <1>6 DEF packet_in
  <2> QED BY <1>1, <1>7, <2>1 DEF conn_vars, PeersKnown
<1> QED BY <1>1, <1>10, <1>12, <1>13, <1>14, <1>15, ClientRests DEF Typed

-----------------------------------------------------------------------------
(* Types of what handlers do. *)

\* A handler and what it may answer.
LEMMA ReplyType ==
  ASSUME Typed, NEW h \in handlers, NEW result \in ResultKind \cup EdgeErrorKind,
         reply(h, result)
  PROVE  /\ HandlerTypes'
         /\ down' \in [Session -> Seq(EdgeResponse \cup EdgePush)]
         /\ \A g \in handlers' : g \in handlers
<1>1. h \in Handler /\ h.conn \in Session BY DEF Typed, HandlerTypes, Handler
<1>2. handlers' = handlers \ {h} BY DEF reply
<1>3. PICK p : p = [type |-> "Response", seq |-> h.seq, to |-> h.request, result |-> result]
  OBVIOUS
<1>4. p \in EdgeResponse
  <2>1. h.seq \in SeqId /\ h.request \in EdgeRequest BY <1>1 DEF Handler
  <2> QED BY <1>3, <2>1 DEF EdgeResponse
<1>5. PICK P : P = EdgeResponse \cup EdgePush OBVIOUS
<1>6. down' = down \/ down' = [down EXCEPT ![h.conn] = Append(@, p)]
  BY <1>3 DEF reply
<1>7. down[h.conn] \in Seq(P) /\ p \in P BY <1>1, <1>4, <1>5 DEF Typed, WireTypes
<1>8. Append(down[h.conn], p) \in Seq(P) BY <1>7
<1>9. down' \in [Session -> Seq(P)] BY <1>5, <1>6, <1>8 DEF Typed, WireTypes
<1> QED BY <1>2, <1>5, <1>9 DEF Typed, HandlerTypes

\* A handler that goes on.
LEMMA ToPcType ==
  ASSUME Typed, NEW h \in handlers, NEW pc \in {"spawned", "proposing", "applied"},
         to_pc(h, pc)
  PROVE  /\ HandlerTypes'
         /\ \E g \in Handler :
              /\ handlers' = (handlers \ {h}) \cup {g}
              /\ g.conn = h.conn /\ g.seq = h.seq /\ g.request = h.request /\ g.pc = pc
<1>1. PICK R : R = EdgeRequest OBVIOUS
<1>2. Handler = [conn : Session, seq : SeqId, request : R, pc : {"spawned", "proposing", "applied"}]
  BY <1>1 DEF Handler
<1>3. h \in Handler BY DEF Typed, HandlerTypes
<1>4. PICK g : g = [h EXCEPT !.pc = pc] OBVIOUS
<1>5. g \in Handler /\ g.conn = h.conn /\ g.seq = h.seq /\ g.request = h.request /\ g.pc = pc
  BY <1>2, <1>3, <1>4
<1>6. handlers' = (handlers \ {h}) \cup {g} BY <1>4 DEF to_pc
<1> QED BY <1>5, <1>6 DEF Typed, HandlerTypes

\* An entry applied to the topic.
LEMMA AppliedType ==
  ASSUME NEW t, FiniteTopic(t), NEW tasks \in SUBSET Dispatch, results \subseteq WaitAckResult,
         applied(t, tasks)
  PROVE  /\ FiniteTopic(topic')
         /\ dispatching' \subseteq Dispatch
         /\ results' \subseteq WaitAckResult
<1>1. PICK q : q = [t.queue EXCEPT !.dispatch = {}, !.acks = {}] OBVIOUS
<1>2. t.queue \in Queue /\ IsFiniteSet(t.queue.time_id) BY DEF FiniteTopic, FiniteQueue
<1>3. q \in Queue /\ q.time_id = t.queue.time_id BY <1>1, <1>2 DEF Queue
<1>4. FiniteQueue(q) BY <1>2, <1>3 DEF FiniteQueue
<1>5. topic' = [t EXCEPT !.queue = q]
  <2>1. topic' = [t EXCEPT !.queue.dispatch = {}, !.queue.acks = {}] BY DEF applied
  <2>2. t \in Topic BY DEF FiniteTopic
  <2> QED BY <1>1, <2>1, <2>2 DEF Topic
<1>6. FiniteTopic(topic') BY <1>4, <1>5, WithQueueType
<1>7. t.queue.dispatch \subseteq MessageId \X Endpoint /\ t.queue.acks \subseteq WaitAckResult
  BY <1>2 DEF Queue
<1>8. dispatching' \subseteq Dispatch
  <2>1. \A d \in t.queue.dispatch : [msg |-> d[1], ep |-> d[2], status |-> "Spawned"] \in Dispatch
    BY <1>7 DEF Dispatch
  <2> QED BY <2>1 DEF applied
<1> QED BY <1>6, <1>7, <1>8 DEF applied

\* The checks of a handler end in Ok or an error kind.
LEMMA CheckedType ==
  ASSUME NEW h
  PROVE  checked(h) \in ResultKind \cup EdgeErrorKind
<1>1. \A e, from : check_ep_auth(e, from) \in {"Ok", "Unauthorized", "EndpointNotFound"}
  BY DEF check_ep_auth
<1>2. checked(h) \in {"Ok", "Unauthorized", "EndpointNotFound", "TopicNotFound"}
  BY <1>1 DEF checked
<1> QED BY <1>2 DEF ResultKind, EdgeErrorKind

\* A handler that starts keeps the types.
LEMMA StartRequestType ==
  ASSUME Typed, PeersKnown, NEW h \in handlers, start_request(h)
  PROVE  Typed' /\ PeersKnown'
<1>1. UNCHANGED <<client_vars, link, up, conn_vars, topic_vars, stray, faults>>
  BY DEF start_request
<1>2. CASE to_pc(h, "proposing") /\ down' = down
  <2>1. /\ HandlerTypes'
        /\ \E g \in Handler : handlers' = (handlers \ {h}) \cup {g} /\ g.conn = h.conn
    BY <1>2, ToPcType
  <2>2. \A g \in handlers' : task[g.conn] # "none" BY <2>1 DEF PeersKnown
  <2>3. WireTypes' BY <1>1, <1>2 DEF Typed, WireTypes
  <2>4. ConnTypes' BY <1>1 DEF conn_vars, Typed, ConnTypes
  <2>5. TopicTypes' /\ HistoryTypes' BY <1>1 DEF topic_vars, Typed, TopicTypes, HistoryTypes
  <2>6. PeersKnown' BY <1>1, <2>2 DEF conn_vars, PeersKnown
  <2> QED BY <1>1, <2>1, <2>3, <2>4, <2>5, <2>6, ClientRests DEF Typed
<1>3. CASE reply(h, checked(h))
  <2>1. /\ HandlerTypes'
        /\ down' \in [Session -> Seq(EdgeResponse \cup EdgePush)]
        /\ \A g \in handlers' : g \in handlers
    BY <1>3, CheckedType, ReplyType
  <2>2. \A g \in handlers' : task[g.conn] # "none" BY <2>1 DEF PeersKnown
  <2>3. WireTypes' BY <1>1, <2>1 DEF Typed, WireTypes
  <2>4. ConnTypes' BY <1>1 DEF conn_vars, Typed, ConnTypes
  <2>5. TopicTypes' /\ HistoryTypes' BY <1>1 DEF topic_vars, Typed, TopicTypes, HistoryTypes
  <2>6. PeersKnown' BY <1>1, <2>2 DEF conn_vars, PeersKnown
  <2> QED BY <1>1, <2>1, <2>3, <2>4, <2>5, <2>6, ClientRests DEF Typed
<1> QED BY <1>2, <1>3 DEF start_request

\* The parts of a request.
LEMMA RequestParts ==
  ASSUME NEW r \in EdgeRequest
  PROVE  /\ r.type \in {"SendMessage", "EndpointOnline", "EndpointOffline", "EndpointInterest",
                        "SetState"}
         /\ r.type # "SendMessage" => r.ep \in Endpoint
         /\ r.type \in {"SendMessage", "SetState"} => r.msg \in MessageId
         /\ r.type \in {"EndpointOnline", "EndpointInterest"} => r.interests \in SUBSET Subject
         /\ r.type = "SetState" => r.kind \in MessageStatusKind
BY DEF EdgeRequest

\* The proposal of a request leaves a topic.
LEMMA OutcomeType ==
  ASSUME Typed, PeersKnown, NEW h \in handlers
  PROVE  FiniteTopic(outcome(h))
<1>1. h \in Handler BY DEF Typed, HandlerTypes
<1>2. h.request \in EdgeRequest /\ h.conn \in Session BY <1>1 DEF Handler
<1>3. peer[h.conn] \in Node BY <1>2, EdgeAssumption DEF PeersKnown
<1>4. Server \in Node BY EdgeAssumption
<1>5. FiniteTopic(topic) BY DEF Typed, TopicTypes
<1>6. now \in Nat BY <1>5, NowType
<1> PICK r : r = h.request OBVIOUS
<1>7. /\ r.type \in {"SendMessage", "EndpointOnline", "EndpointOffline", "EndpointInterest",
                     "SetState"}
      /\ r.type # "SendMessage" => r.ep \in Endpoint
      /\ r.type \in {"SendMessage", "SetState"} => r.msg \in MessageId
      /\ r.type \in {"EndpointOnline", "EndpointInterest"} => r.interests \in SUBSET Subject
      /\ r.type = "SetState" => r.kind \in MessageStatusKind
  BY <1>2, RequestParts
<1>8. CASE r.type = "SendMessage"
  <2>1. FiniteTopic(hold_new_message(topic, Server, r.msg, now, {}))
    BY <1>4, <1>5, <1>6, <1>7, <1>8, HoldNewMessageType
  <2> QED BY <2>1, <1>8 DEF outcome
<1>9. CASE r.type = "EndpointOnline"
  <2>1. Steady(topic, ep_online(topic, Server, r.ep, r.interests, Server, {}))
    BY <1>4, <1>5, <1>7, <1>9, EpOnlineSteady
  <2> QED BY <2>1, <1>9 DEF outcome, Steady
<1>10. CASE r.type = "EndpointOffline"
  <2>1. Steady(topic, ep_offline(topic, Server, peer[h.conn], r.ep, {}))
    BY <1>3, <1>4, <1>5, <1>7, <1>10, EpOfflineSteady
  <2> QED BY <2>1, <1>10 DEF outcome, Steady
<1>11. CASE r.type = "EndpointInterest"
  <2>1. Steady(topic, update_ep_interest(topic, Server, r.ep, r.interests, {}))
    BY <1>4, <1>5, <1>7, <1>11, EpInterestSteady
  <2> QED BY <2>1, <1>11 DEF outcome, Steady
<1>12. CASE r.type = "SetState"
  <2>1. Steady(topic, set_state(topic, Server, r.msg, r.ep, r.kind, {}))
    BY <1>4, <1>5, <1>7, <1>12, SetStateSteady
  <2> QED BY <2>1, <1>12 DEF outcome, Steady
<1> QED BY <1>7, <1>8, <1>9, <1>10, <1>11, <1>12

\* A handler whose proposal is applied keeps the types.
LEMMA ApplyRequestType ==
  ASSUME Typed, PeersKnown, NEW h \in handlers, apply_request(h)
  PROVE  Typed' /\ PeersKnown'
<1>1. UNCHANGED <<client_vars, wire_vars, conn_vars, offlines, faults>> BY DEF apply_request
<1>2. /\ HandlerTypes'
      /\ \E g \in Handler : handlers' = (handlers \ {h}) \cup {g} /\ g.conn = h.conn
  BY ToPcType DEF apply_request
<1>3. \A g \in handlers' : task[g.conn] # "none" BY <1>2 DEF PeersKnown
<1>4. FiniteTopic(outcome(h)) BY OutcomeType
<1>5. dispatching \subseteq Dispatch /\ results \subseteq WaitAckResult BY DEF Typed, TopicTypes
<1>6. applied(outcome(h), dispatching) BY DEF apply_request
<1>7. /\ FiniteTopic(topic') /\ dispatching' \subseteq Dispatch /\ results' \subseteq WaitAckResult
  BY <1>4, <1>5, <1>6, AppliedType
<1>8. TopicTypes'
  BY <1>1, <1>7 DEF Typed, TopicTypes, FiniteTopic, FiniteQueue
<1>9. HistoryTypes' BY <1>1 DEF apply_request, Typed, HistoryTypes
<1>10. WireTypes' BY <1>1 DEF wire_vars, Typed, WireTypes
<1>11. ConnTypes' BY <1>1 DEF conn_vars, Typed, ConnTypes
<1>12. PeersKnown' BY <1>1, <1>3 DEF conn_vars, PeersKnown
<1> QED BY <1>1, <1>2, <1>8, <1>9, <1>10, <1>11, <1>12, ClientRests DEF Typed

\* A handler that fails keeps the types.
LEMMA FailRequestType ==
  ASSUME Typed, PeersKnown, NEW h \in handlers, fail_request(h)
  PROVE  Typed' /\ PeersKnown'
<1>1. UNCHANGED <<client_vars, link, up, conn_vars, topic_vars>> BY DEF fail_request
<1>2. "Internal" \in ResultKind \cup EdgeErrorKind BY DEF EdgeErrorKind
<1>3. reply(h, "Internal") BY DEF fail_request
<1>4. /\ HandlerTypes'
      /\ down' \in [Session -> Seq(EdgeResponse \cup EdgePush)]
      /\ \A g \in handlers' : g \in handlers
  BY <1>2, <1>3, ReplyType
<1>5. h.request \in EdgeRequest BY DEF Typed, HandlerTypes, Handler
<1>6. brings_in(h) \subseteq Endpoint BY <1>5, RequestParts DEF brings_in
<1>7. stray' \subseteq Endpoint BY <1>6 DEF fail_request, Typed, HistoryTypes
<1>8. faults' \in 0 .. MaxFaults BY FaultType DEF fail_request, Typed
<1>9. HistoryTypes' BY <1>7, <1>8 DEF HistoryTypes
<1>10. WireTypes' BY <1>1, <1>4 DEF Typed, WireTypes
<1>11. ConnTypes' BY <1>1 DEF conn_vars, Typed, ConnTypes
<1>12. TopicTypes' BY <1>1 DEF topic_vars, Typed, TopicTypes
<1>13. PeersKnown' BY <1>1, <1>4 DEF conn_vars, PeersKnown
<1> QED BY <1>1, <1>4, <1>9, <1>10, <1>11, <1>12, <1>13, ClientRests DEF Typed

\* A handler that answers keeps the types.
LEMMA FinishRequestType ==
  ASSUME Typed, PeersKnown, NEW h \in handlers, finish_request(h)
  PROVE  Typed' /\ PeersKnown'
<1>1. UNCHANGED <<client_vars, link, up, peer, task, created, edge_connections, topic_vars, faults>>
  BY DEF finish_request
<1>2. PICK result \in outcome_of(h) : reply(h, result) BY DEF finish_request
<1>3. result \in ResultKind
  <2>1. \A r \in results : r.kind \in ResultKind BY DEF Typed, TopicTypes, WaitAckResult
  <2>2. "Ok" \in ResultKind BY DEF ResultKind
  <2> QED BY <1>2, <2>1, <2>2 DEF outcome_of
<1>4. /\ HandlerTypes'
      /\ down' \in [Session -> Seq(EdgeResponse \cup EdgePush)]
      /\ \A g \in handlers' : g \in handlers
  BY <1>2, <1>3, ReplyType
<1>5. h.request \in EdgeRequest /\ h.conn \in Session BY DEF Typed, HandlerTypes, Handler
<1>6. brings_in(h) \subseteq Endpoint BY <1>5, RequestParts DEF brings_in
<1>7. HistoryTypes' BY <1>1, <1>6 DEF finish_request, Typed, HistoryTypes
<1>8. edge_routing' \in [Endpoint -> Peer \cup {None}]
  <2>1. route(h) BY DEF finish_request
  <2>2. peer[h.conn] \in Peer \cup {None} BY <1>5 DEF Typed, ConnTypes
  <2>3. edge_routing \in [Endpoint -> Peer \cup {None}] BY DEF Typed, ConnTypes
  <2>4. \/ edge_routing' = [edge_routing EXCEPT ![h.request.ep] = peer[h.conn]]
        \/ edge_routing' = [edge_routing EXCEPT ![h.request.ep] = None]
        \/ edge_routing' = edge_routing
    BY <2>1 DEF route
  <2> QED BY <2>2, <2>3, <2>4
<1>9. WireTypes' BY <1>1, <1>4 DEF Typed, WireTypes
<1>10. ConnTypes' BY <1>1, <1>8 DEF Typed, ConnTypes
<1>11. TopicTypes' BY <1>1 DEF topic_vars, Typed, TopicTypes
<1>12. PeersKnown' BY <1>1, <1>4 DEF PeersKnown
<1> QED BY <1>1, <1>4, <1>7, <1>9, <1>10, <1>11, <1>12, ClientRests DEF Typed

\* A push goes to a session.
LEMMA DispatchStep ==
  ASSUME Typed, NEW d \in dispatching, dispatch_message(d)
  PROVE  \/ down' = down
         \/ \E c \in Session : down' = [down EXCEPT ![c] =
              Append(@, [type |-> "Push", ep |-> d.ep, msg |-> d.msg])]
<1>1. PICK c : c = get_edge_connection(edge_routing[d.ep]) OBVIOUS
<1>2. IF c # None THEN push_message(c, d.ep, d.msg) ELSE UNCHANGED down
  BY <1>1 DEF dispatch_message
<1>3. c # None => c \in Session
  <2>1. d.ep \in Endpoint BY DEF Typed, TopicTypes, Dispatch
  <2>2. edge_routing[d.ep] \in Peer \cup {None} BY <2>1 DEF Typed, ConnTypes
  <2>3. \A p \in Peer : edge_connections[p] \in Session \cup {None} BY DEF Typed, ConnTypes
  <2> QED BY <1>1, <2>2, <2>3 DEF get_edge_connection
<1> QED BY <1>2, <1>3 DEF push_message

\* A dispatch task keeps the types.
LEMMA DispatchMessageType ==
  ASSUME Typed, PeersKnown, NEW d \in dispatching, dispatch_message(d)
  PROVE  Typed' /\ PeersKnown'
<1>1. UNCHANGED <<client_vars, link, up, conn_vars, handlers, offlines, results, topic, stray, faults>>
  BY DEF dispatch_message
<1>2. d \in Dispatch BY DEF Typed, TopicTypes
<1>3. dispatching' \subseteq Dispatch
  <2>1. \A st \in {"Sent", "Unreachable"} : [d EXCEPT !.status = st] \in Dispatch
    BY <1>2 DEF Dispatch
  <2>2. \E st \in {"Sent", "Unreachable"} :
          dispatching' = (dispatching \ {d}) \cup {[d EXCEPT !.status = st]}
    BY DEF dispatch_message
  <2> QED BY <2>1, <2>2 DEF Typed, TopicTypes
<1>4. PICK P : P = EdgeResponse \cup EdgePush OBVIOUS
<1>5. PICK p : p = [type |-> "Push", ep |-> d.ep, msg |-> d.msg] OBVIOUS
<1>6. p \in P BY <1>2, <1>4, <1>5 DEF EdgePush, Dispatch
<1>7. down \in [Session -> Seq(P)] BY <1>4 DEF Typed, WireTypes
<1>8. down' = down \/ \E c \in Session : down' = [down EXCEPT ![c] = Append(@, p)]
  BY <1>5, DispatchStep
<1>9. \A c \in Session : Append(down[c], p) \in Seq(P) BY <1>6, <1>7
<1>10. down' \in [Session -> Seq(P)] BY <1>7, <1>8, <1>9
<1>11. WireTypes' BY <1>1, <1>4, <1>10 DEF Typed, WireTypes
<1>12. TopicTypes' BY <1>1, <1>3 DEF Typed, TopicTypes
<1>13. ConnTypes' BY <1>1 DEF conn_vars, Typed, ConnTypes
<1>14. HandlerTypes' /\ HistoryTypes' BY <1>1 DEF Typed, HandlerTypes, HistoryTypes
<1>15. PeersKnown' BY <1>1 DEF conn_vars, PeersKnown
<1> QED BY <1>1, <1>11, <1>12, <1>13, <1>14, <1>15, ClientRests DEF Typed

\* A step that applies an entry of a spawned task.
LEMMA SpawnedEntryType ==
  ASSUME Typed, PeersKnown, NEW t, FiniteTopic(t), NEW tasks \in SUBSET Dispatch,
         applied(t, tasks), offlines' \subseteq offlines,
         UNCHANGED <<client_vars, wire_vars, conn_vars, handlers, stray, faults>>
  PROVE  Typed' /\ PeersKnown'
<1>1. results \subseteq WaitAckResult BY DEF Typed, TopicTypes
<1>2. /\ FiniteTopic(topic') /\ dispatching' \subseteq Dispatch /\ results' \subseteq WaitAckResult
  BY <1>1, AppliedType
<1>3. TopicTypes' BY <1>2 DEF Typed, TopicTypes, FiniteTopic, FiniteQueue
<1>4. WireTypes' BY DEF wire_vars, Typed, WireTypes
<1>5. ConnTypes' BY DEF conn_vars, Typed, ConnTypes
<1>6. HandlerTypes' /\ HistoryTypes' BY DEF Typed, HandlerTypes, HistoryTypes
<1>7. PeersKnown' BY DEF conn_vars, PeersKnown
<1> QED BY <1>3, <1>4, <1>5, <1>6, <1>7, ClientRests DEF Typed

\* The report of a dispatch task keeps the types.
LEMMA ReportDispatchType ==
  ASSUME Typed, PeersKnown, NEW d \in dispatching, report_dispatch(d)
  PROVE  Typed' /\ PeersKnown'
<1>1. dispatching \subseteq Dispatch /\ FiniteTopic(topic) BY DEF Typed, TopicTypes
<1>2. d.msg \in MessageId /\ d.ep \in Endpoint /\ d.status \in MessageStatusKind
  BY <1>1 DEF report_dispatch, Dispatch, MessageStatusKind
<1>3. Server \in Node BY EdgeAssumption
<1>4. PICK t : t = set_state(topic, Server, d.msg, d.ep, d.status, {}) OBVIOUS
<1>5. FiniteTopic(t) BY <1>1, <1>2, <1>3, <1>4, SetStateSteady DEF Steady
<1>6. applied(t, dispatching \ {d}) BY <1>4 DEF report_dispatch
<1>7. UNCHANGED <<client_vars, wire_vars, conn_vars, handlers, offlines, stray, faults>>
  BY DEF report_dispatch
<1>8. dispatching \ {d} \in SUBSET Dispatch /\ offlines' \subseteq offlines BY <1>1, <1>7
<1> QED BY <1>5, <1>6, <1>7, <1>8, SpawnedEntryType

\* Proposing an EpOffline keeps the types.
LEMMA ProposeOfflineType ==
  ASSUME Typed, PeersKnown, NEW e \in offlines, propose_offline(e)
  PROVE  Typed' /\ PeersKnown'
<1>1. dispatching \subseteq Dispatch /\ FiniteTopic(topic) /\ e \in Endpoint
  BY DEF Typed, TopicTypes
<1>2. Server \in Node BY EdgeAssumption
<1>3. PICK t : t = ep_offline(topic, Server, Server, e, {}) OBVIOUS
<1>4. FiniteTopic(t) BY <1>1, <1>2, <1>3, EpOfflineSteady DEF Steady
<1>5. applied(t, dispatching) BY <1>3 DEF propose_offline
<1>6. /\ UNCHANGED <<client_vars, wire_vars, conn_vars, handlers, stray, faults>>
      /\ offlines' \subseteq offlines
  BY DEF propose_offline
<1> QED BY <1>1, <1>4, <1>5, <1>6, SpawnedEntryType

\* Losing an EpOffline keeps the types.
LEMMA LoseOfflineType ==
  ASSUME Typed, PeersKnown, NEW e \in offlines, lose_offline(e)
  PROVE  Typed' /\ PeersKnown'
<1>1. UNCHANGED <<client_vars, wire_vars, conn_vars, handlers, dispatching, results, topic, faults>>
  BY DEF lose_offline
<1>2. TopicTypes' /\ HistoryTypes' BY <1>1 DEF lose_offline, Typed, TopicTypes, HistoryTypes
<1>3. WireTypes' BY <1>1 DEF wire_vars, Typed, WireTypes
<1>4. ConnTypes' BY <1>1 DEF conn_vars, Typed, ConnTypes
<1>5. HandlerTypes' BY <1>1 DEF Typed, HandlerTypes
<1>6. PeersKnown' BY <1>1 DEF conn_vars, PeersKnown
<1> QED BY <1>1, <1>2, <1>3, <1>4, <1>5, <1>6, ClientRests DEF Typed

-----------------------------------------------------------------------------
(* Calls, action by action. *)

\* The request of the call, its handler or its response is under way.
OnItsWay(c, s) ==
  \/ s \in ToSet(up[c])
  \/ \E h \in handlers : h.conn = c /\ h.seq = s
  \/ \E i \in DOMAIN down[c] : down[c][i].type = "Response" /\ down[c][i].seq = s

\* A call that waits is known to the client, and is under way or its link is lost.
Awaited(c, s) ==
  \/ s \in ToSet(request_rx[c])
  \/ s \in response_pool[c] /\ (link[c] = "cut" \/ OnItsWay(c, s))

\* AnswerUnderWay by these names.
LEMMA UnderWayIsAwaited ==
  /\ AnswerUnderWay <=> \A c \in Session : \A s \in DOMAIN call[c] :
       call[c][s].state = "waiting" => Awaited(c, s)
BY DEF AnswerUnderWay, Awaited, OnItsWay

\* No handler is new.
HandlersKept ==
  \A g \in handlers' : \E h \in handlers :
    g.conn = h.conn /\ g.seq = h.seq /\ g.request = h.request

\* No response is new.
ResponsesKept ==
  \A c \in Session : \A i \in DOMAIN down'[c] :
    down'[c][i].type = "Response" => \E j \in DOMAIN down[c] : down'[c][i] = down[c][j]

\* Numbers are passed from the channel to the pool and the socket.
NumbersKept ==
  \A c \in Session :
    /\ \A i \in DOMAIN request_rx'[c] : request_rx'[c][i] \in ToSet(request_rx[c])
    /\ response_pool'[c] \subseteq response_pool[c] \cup ToSet(request_rx[c])
    /\ \A i \in DOMAIN up'[c] : up'[c][i] \in ToSet(up[c]) \cup ToSet(request_rx[c])

\* Waiting is not begun.
WaitsKept ==
  \A c \in Session : \A s \in DOMAIN call'[c] :
    call'[c][s].state = "waiting" => s \in DOMAIN call[c] /\ call[c][s].state = "waiting"

\* A response is not changed.
AnswersKept ==
  \A c \in Session : \A s \in DOMAIN call'[c] :
    call'[c][s].response.type = "Response" =>
      s \in DOMAIN call[c] /\ call'[c][s].response = call[c][s].response

\* HandlersOwn when calls and handlers only lose.
LEMMA HandlersStay ==
  ASSUME Typed, HandlersOwn, SameCalls, HandlersKept
  PROVE  HandlersOwn'
<1> SUFFICES ASSUME NEW g \in handlers'
             PROVE  g.seq \in DOMAIN call'[g.conn] /\ g.request = call'[g.conn][g.seq].request
  BY DEF HandlersOwn
<1>1. PICK h \in handlers : g.conn = h.conn /\ g.seq = h.seq /\ g.request = h.request
  BY DEF HandlersKept
<1>2. h.conn \in Session BY DEF Typed, HandlerTypes, Handler
<1> QED BY <1>1, <1>2 DEF HandlersOwn, SameCalls

\* ResponsesOwn when the packets and the calls only lose.
LEMMA ResponsesStay ==
  ASSUME ResponsesOwn, SameCalls, ResponsesKept
  PROVE  ResponsesOwn'
<1> SUFFICES ASSUME NEW c \in Session, NEW i \in DOMAIN down'[c], down'[c][i].type = "Response"
             PROVE  /\ down'[c][i].seq \in DOMAIN call'[c]
                    /\ down'[c][i].to = call'[c][down'[c][i].seq].request
  BY DEF ResponsesOwn
<1>1. PICK j \in DOMAIN down[c] : down'[c][i] = down[c][j] BY DEF ResponsesKept
<1>2. PICK p : p = down[c][j] OBVIOUS
<1>3. p.seq \in DOMAIN call[c] /\ p.to = call[c][p.seq].request BY <1>1, <1>2 DEF ResponsesOwn
<1> QED BY <1>1, <1>2, <1>3 DEF SameCalls

\* NumbersKnown when nothing it is about gains.
LEMMA NumbersStay ==
  ASSUME NumbersKnown, SameCalls, NumbersKept
  PROVE  NumbersKnown'
<1> SUFFICES ASSUME NEW c \in Session
             PROVE  /\ \A i \in DOMAIN request_rx'[c] : request_rx'[c][i] \in DOMAIN call'[c]
                    /\ response_pool'[c] \subseteq DOMAIN call'[c]
                    /\ \A i \in DOMAIN up'[c] : up'[c][i] \in DOMAIN call'[c]
  BY DEF NumbersKnown
<1>1. /\ ToSet(request_rx[c]) \subseteq DOMAIN call'[c]
      /\ ToSet(up[c]) \subseteq DOMAIN call'[c]
      /\ response_pool[c] \subseteq DOMAIN call'[c]
  BY DEF NumbersKnown, SameCalls, ToSet
<1> QED BY <1>1 DEF NumbersKept

\* OwnAnswer when the calls stay.
LEMMA AnswersStay ==
  ASSUME OwnAnswer, SameCalls, AnswersKept
  PROVE  OwnAnswer'
BY DEF OwnAnswer, SameCalls, AnswersKept

\* Nothing of the calls changes.
LEMMA CallsRest ==
  ASSUME call' = call
  PROVE  SameCalls /\ WaitsKept /\ AnswersKept
BY DEF SameCalls, WaitsKept, AnswersKept

\* The channel, the pool and the socket rest.
LEMMA NumbersRest ==
  ASSUME UNCHANGED <<request_rx, response_pool, up>>
  PROVE  NumbersKept
BY DEF NumbersKept, ToSet

\* All the parts at once.
LEMMA StepKeeps ==
  ASSUME IInv, Typed', PeersKnown', Linked', SameCalls, HandlersKept, ResponsesKept,
         NumbersKept, AnswersKept, AnswerUnderWay'
  PROVE  IInv'
BY HandlersStay, ResponsesStay, NumbersStay, AnswersStay DEF IInv

\* A step that leaves calls, channels and handlers alone.
LEMMA CallsCalm ==
  ASSUME IInv, Typed', PeersKnown',
         UNCHANGED <<call, request_rx, response_pool, tx_on, link, up, down, task, handlers>>
  PROVE  IInv'
<1>1. Linked' BY DEF IInv, Linked
<1>2. HandlersKept /\ ResponsesKept BY DEF HandlersKept, ResponsesKept
<1>3. AnswerUnderWay' BY DEF IInv, AnswerUnderWay
<1> QED BY <1>1, <1>2, <1>3, CallsRest, NumbersRest, StepKeeps

\* SDK connect keeps the calls and their answers.
LEMMA ConnectCalls ==
  ASSUME IInv, NEW c \in Session, NEW p \in PeerChoices[c], connect(c, p)
  PROVE  IInv'
<1>1. Typed' /\ PeersKnown' BY ConnectType DEF IInv
<1>2. UNCHANGED <<call, request_rx, response_pool, up, down, handlers>> BY DEF connect
<1>3. \A b \in Session : b # c => link'[b] = link[b] /\ task'[b] = task[b] /\ tx_on'[b] = tx_on[b]
  BY DEF connect, init, IInv, Typed, WireTypes, ConnTypes, ClientTypes
<1>4. link'[c] = "up" /\ task'[c] = "running"
  BY DEF connect, init, IInv, Typed, WireTypes, ConnTypes
<1>5. Linked' BY <1>2, <1>3, <1>4 DEF IInv, Linked
<1>6. HandlersKept /\ ResponsesKept BY <1>2 DEF HandlersKept, ResponsesKept
<1>7. call[c] = <<>> BY DEF IInv, Linked, connect
<1>8. DOMAIN call[c] = {} BY <1>7
<1>9. AnswerUnderWay' BY <1>2, <1>3, <1>8 DEF IInv, AnswerUnderWay
<1> QED BY <1>1, <1>2, <1>5, <1>6, <1>9, CallsRest, NumbersRest, StepKeeps

\* create_edge_connection keeps the calls and their answers.
LEMMA CreateEdgeConnectionCalls ==
  ASSUME IInv, NEW c \in Session, create_edge_connection(c)
  PROVE  IInv'
<1>1. Typed' /\ PeersKnown' BY CreateEdgeConnectionType DEF IInv
<1> QED BY <1>1, CallsCalm DEF create_edge_connection, client_vars, wire_vars

\* What is lost with the link was there before.
LEMMA Prefix ==
  ASSUME NEW S, NEW q \in Seq(S), NEW i \in 0 .. Len(q)
  PROVE  \A j \in DOMAIN SubSeq(q, 1, i) : j \in DOMAIN q /\ SubSeq(q, 1, i)[j] = q[j]
OBVIOUS

\* Cutting a connection keeps the calls and their answers.
LEMMA CutCalls ==
  ASSUME IInv, NEW c \in Session, cut(c)
  PROVE  IInv'
<1>1. Typed' /\ PeersKnown' BY CutType DEF IInv
<1>2. UNCHANGED <<call, request_rx, response_pool, tx_on, task, handlers>>
  BY DEF cut, client_vars, conn_vars
<1>3. PICK i \in 0 .. Len(up[c]), j \in 0 .. Len(down[c]) :
        /\ up' = [up EXCEPT ![c] = SubSeq(@, 1, i)]
        /\ down' = [down EXCEPT ![c] = SubSeq(@, 1, j)]
  BY DEF cut
<1>4. \A b \in Session : b # c => up'[b] = up[b] /\ down'[b] = down[b] /\ link'[b] = link[b]
  BY <1>3 DEF cut, IInv, Typed, WireTypes
<1>5. up'[c] = SubSeq(up[c], 1, i) /\ down'[c] = SubSeq(down[c], 1, j) /\ link'[c] = "cut"
  BY <1>3 DEF cut, IInv, Typed, WireTypes
<1>6. up[c] \in Seq(SeqId) /\ down[c] \in Seq(EdgeResponse \cup EdgePush)
  BY DEF IInv, Typed, WireTypes
<1>7. \A k \in DOMAIN up'[c] : k \in DOMAIN up[c] /\ up'[c][k] = up[c][k]
  BY <1>3, <1>5, <1>6, Prefix
<1>8. \A k \in DOMAIN down'[c] : k \in DOMAIN down[c] /\ down'[c][k] = down[c][k]
  BY <1>3, <1>5, <1>6, Prefix
<1>9. Linked' BY <1>2, <1>4, <1>5 DEF IInv, Linked
<1>10. HandlersKept BY <1>2 DEF HandlersKept
<1>11. ResponsesKept BY <1>4, <1>8, Zenon DEF ResponsesKept
<1>12. NumbersKept BY <1>2, <1>4, <1>7 DEF NumbersKept, ToSet
<1>13. AnswerUnderWay' BY <1>2, <1>4, <1>5 DEF IInv, AnswerUnderWay
<1> QED BY <1>1, <1>2, <1>9, <1>10, <1>11, <1>12, <1>13, CallsRest, StepKeeps

\* The end of a connection task keeps the calls and their answers.
LEMMA EndConnectionCalls ==
  ASSUME IInv, NEW c \in Session, end_connection(c)
  PROVE  IInv'
<1>1. Typed' /\ PeersKnown' BY EndConnectionType DEF IInv
<1>2. UNCHANGED <<call, request_rx, response_pool, tx_on, link, down, handlers>>
  BY DEF end_connection, client_vars
<1>3. link[c] = "cut" BY DEF end_connection
<1>4. \A b \in Session : b # c => up'[b] = up[b] /\ task'[b] = task[b]
  BY DEF end_connection, IInv, Typed, WireTypes, ConnTypes
<1>5. up'[c] = <<>> BY DEF end_connection, IInv, Typed, WireTypes
<1>6. Linked' BY <1>2, <1>3, <1>4 DEF IInv, Linked
<1>7. HandlersKept /\ ResponsesKept BY <1>2 DEF HandlersKept, ResponsesKept
<1>8. DOMAIN up'[c] = {} BY <1>5
<1>9. NumbersKept BY <1>2, <1>4, <1>8 DEF NumbersKept, ToSet
<1>10. AnswerUnderWay' BY <1>2, <1>3, <1>4 DEF IInv, AnswerUnderWay
<1> QED BY <1>1, <1>2, <1>6, <1>7, <1>9, <1>10, CallsRest, StepKeeps

\* send_request keeps the calls and their answers.
LEMMA SendRequestCalls ==
  ASSUME IInv, NEW c \in Session, NEW request \in EdgeRequest,
         send_request(c, request), dropped' \subseteq Endpoint
  PROVE  IInv'
<1>1. Typed' /\ PeersKnown' BY SendRequestType DEF IInv
<1>2. UNCHANGED <<response_pool, tx_on, link, up, down, task, handlers>>
  BY DEF send_request, wire_vars, conn_vars
<1>3. PICK r \in Call :
        /\ call' = [call EXCEPT ![c] = Append(@, r)]
        /\ r.request = request /\ r.response.type # "Response"
        /\ r.state = "waiting" => tx_on[c]
  BY SendStep DEF IInv
<1>4. PICK s : s = Len(call[c]) + 1 OBVIOUS
<1>5. call[c] \in Seq(Call) /\ Len(call[c]) \in Nat BY DEF IInv, Typed, ClientTypes
<1>6. \A b \in Session : call'[b] = IF b = c THEN Append(call[c], r) ELSE call[b]
  BY <1>3 DEF IInv, Typed, ClientTypes
<1>7. /\ DOMAIN Append(call[c], r) = DOMAIN call[c] \cup {s} /\ s \notin DOMAIN call[c]
      /\ Append(call[c], r)[s] = r
      /\ \A i \in DOMAIN call[c] : Append(call[c], r)[i] = call[c][i]
  BY <1>4, <1>5
<1>8. SameCalls BY <1>6, <1>7 DEF SameCalls
<1>9. AnswersKept BY <1>3, <1>6, <1>7 DEF AnswersKept
<1>10. request_rx[c] \in Seq(SeqId) BY DEF IInv, Typed, ClientTypes
<1>11. \A b \in Session : request_rx'[b] =
         IF b = c /\ tx_on[c] THEN Append(request_rx[c], s) ELSE request_rx[b]
  BY <1>4 DEF send_request, IInv, Typed, ClientTypes
<1>12. s \in Nat BY <1>4, <1>5
<1>13. ToSet(Append(request_rx[c], s)) = ToSet(request_rx[c]) \cup {s}
  <2>1. request_rx[c] \in Seq(SeqId \cup {s}) BY <1>10
  <2>2. Len(request_rx[c]) \in Nat /\ DOMAIN request_rx[c] = 1 .. Len(request_rx[c])
    BY <1>10
  <2>3. /\ DOMAIN Append(request_rx[c], s) = DOMAIN request_rx[c] \cup {Len(request_rx[c]) + 1}
        /\ \A i \in DOMAIN request_rx[c] : Append(request_rx[c], s)[i] = request_rx[c][i]
        /\ Append(request_rx[c], s)[Len(request_rx[c]) + 1] = s
    BY <2>1, <2>2
  <2> QED BY <2>3 DEF ToSet
<1>14. Linked'
  <2>1. link[c] # "off" BY DEF send_request
  <2> QED BY <1>2, <1>6, <2>1 DEF IInv, Linked
<1>15. HandlersKept /\ ResponsesKept BY <1>2 DEF HandlersKept, ResponsesKept
<1>16. HandlersOwn' /\ ResponsesOwn' /\ OwnAnswer'
  BY <1>8, <1>9, <1>15, HandlersStay, ResponsesStay, AnswersStay DEF IInv
<1>17. NumbersKnown'
  <2> SUFFICES ASSUME NEW b \in Session
               PROVE  /\ ToSet(request_rx'[b]) \subseteq DOMAIN call'[b]
                      /\ response_pool'[b] \subseteq DOMAIN call'[b]
                      /\ \A i \in DOMAIN up'[b] : up'[b][i] \in DOMAIN call'[b]
    BY DEF NumbersKnown, ToSet
  <2>1. ToSet(request_rx[b]) \subseteq DOMAIN call[b] BY DEF IInv, NumbersKnown, ToSet
  <2>2. DOMAIN call[b] \subseteq DOMAIN call'[b] BY <1>8 DEF SameCalls
  <2>3. ToSet(request_rx'[b]) \subseteq DOMAIN call'[b]
    BY <1>6, <1>7, <1>11, <1>13, <2>1, <2>2
  <2> QED BY <1>2, <2>2, <2>3 DEF IInv, NumbersKnown
<1>18. AnswerUnderWay'
  <2> SUFFICES ASSUME NEW b \in Session, NEW i \in DOMAIN call'[b],
                      call'[b][i].state = "waiting"
               PROVE  Awaited(b, i)'
    BY UnderWayIsAwaited DEF AnswerUnderWay, Awaited, OnItsWay
  <2>1. CASE b = c /\ i = s
    <3>1. tx_on[c] BY <2>1, <1>3, <1>6, <1>7
    <3> QED BY <2>1, <3>1, <1>11, <1>13 DEF Awaited
  <2>2. CASE ~(b = c /\ i = s)
    <3>1. i \in DOMAIN call[b] /\ call[b][i].state = "waiting" BY <2>2, <1>6, <1>7
    <3>2. Awaited(b, i) BY <3>1, UnderWayIsAwaited DEF IInv
    <3>3. ToSet(request_rx[b]) \subseteq ToSet(request_rx'[b]) BY <1>11, <1>13
    <3> QED BY <3>2, <3>3, <1>2 DEF Awaited, OnItsWay
  <2> QED BY <2>1, <2>2
<1> QED BY <1>1, <1>14, <1>16, <1>17, <1>18 DEF IInv

\* A caller that resumes keeps the calls and their answers.
LEMMA ResumeCalls ==
  ASSUME IInv, NEW c \in Session, NEW s \in DOMAIN call[c], resume(c, s)
  PROVE  IInv'
<1>1. Typed' /\ PeersKnown' BY ResumeType DEF IInv
<1>2. UNCHANGED <<request_rx, response_pool, tx_on, link, up, down, task, handlers>>
  BY DEF resume, wire_vars, conn_vars
<1>3. \A b \in Session :
        /\ DOMAIN call'[b] = DOMAIN call[b]
        /\ \A i \in DOMAIN call[b] :
             /\ call'[b][i].request = call[b][i].request
             /\ call'[b][i].response = call[b][i].response
             /\ call'[b][i].state = "waiting" => call[b][i].state = "waiting"
  BY ResumeStep DEF IInv
<1>4. SameCalls /\ AnswersKept BY <1>3 DEF SameCalls, AnswersKept
<1>5. HandlersKept /\ ResponsesKept BY <1>2 DEF HandlersKept, ResponsesKept
<1>6. Linked'
  <2>1. \A b \in Session : call[b] = <<>> => call'[b] = <<>>
    <3>1. \A b \in Session : call'[b] \in Seq(Call) /\ call[b] \in Seq(Call)
      BY <1>1 DEF IInv, Typed, ClientTypes
    <3>2. \A b \in Session : Len(call'[b]) = Len(call[b]) BY ResumeStep DEF IInv
    <3> QED BY <3>1, <3>2
  <2> QED BY <1>2, <2>1 DEF IInv, Linked
<1>7. AnswerUnderWay'
  <2> SUFFICES ASSUME NEW b \in Session, NEW i \in DOMAIN call'[b],
                      call'[b][i].state = "waiting"
               PROVE  Awaited(b, i)'
    BY UnderWayIsAwaited DEF AnswerUnderWay, Awaited, OnItsWay
  <2>1. i \in DOMAIN call[b] /\ call[b][i].state = "waiting" BY <1>3
  <2>2. Awaited(b, i) BY <2>1, UnderWayIsAwaited DEF IInv
  <2> QED BY <2>2, <1>2 DEF Awaited, OnItsWay
<1> QED BY <1>1, <1>2, <1>4, <1>5, <1>6, <1>7, NumbersRest, StepKeeps

\* The elements of a queue are its head and those of its tail.
LEMMA HeadAndTail ==
  ASSUME NEW S, NEW q \in Seq(S), q # <<>>
  PROVE  /\ ToSet(q) = {Head(q)} \cup ToSet(Tail(q))
         /\ ToSet(Tail(q)) \subseteq ToSet(q)
<1>1. /\ Head(q) = q[1] /\ 1 \in DOMAIN q
      /\ \A i \in DOMAIN Tail(q) : i + 1 \in DOMAIN q /\ Tail(q)[i] = q[i + 1]
      /\ \A i \in DOMAIN q : i # 1 => i - 1 \in DOMAIN Tail(q) /\ Tail(q)[i - 1] = q[i]
  BY Queued
<1>2. ToSet(Tail(q)) \subseteq ToSet(q)
  <2> SUFFICES ASSUME NEW i \in DOMAIN Tail(q) PROVE Tail(q)[i] \in ToSet(q)
    BY DEF ToSet
  <2> QED BY <1>1 DEF ToSet
<1>3. Head(q) \in ToSet(q) BY <1>1 DEF ToSet
<1>4. ToSet(q) \subseteq {Head(q)} \cup ToSet(Tail(q))
  <2> SUFFICES ASSUME NEW i \in DOMAIN q PROVE q[i] \in {Head(q)} \cup ToSet(Tail(q))
    BY DEF ToSet
  <2>1. CASE i = 1 BY <2>1, <1>1
  <2>2. CASE i # 1
    <3>1. i - 1 \in DOMAIN Tail(q) /\ Tail(q)[i - 1] = q[i] BY <2>2, <1>1
    <3> QED BY <3>1 DEF ToSet
  <2> QED BY <2>1, <2>2
<1> QED BY <1>2, <1>3, <1>4

\* The elements of a queue with one more.
LEMMA AppendedSet ==
  ASSUME NEW S, NEW q \in Seq(S), NEW x \in S
  PROVE  /\ ToSet(Append(q, x)) = ToSet(q) \cup {x}
         /\ DOMAIN Append(q, x) = DOMAIN q \cup {Len(q) + 1}
         /\ \A i \in DOMAIN q : Append(q, x)[i] = q[i]
         /\ Append(q, x)[Len(q) + 1] = x
<1>1. Len(q) \in Nat /\ DOMAIN q = 1 .. Len(q) OBVIOUS
<1>2. /\ DOMAIN Append(q, x) = DOMAIN q \cup {Len(q) + 1}
      /\ \A i \in DOMAIN q : Append(q, x)[i] = q[i]
      /\ Append(q, x)[Len(q) + 1] = x
  BY <1>1
<1> QED BY <1>2 DEF ToSet

\* The writing task keeps the calls and their answers.
LEMMA TxTaskCalls ==
  ASSUME IInv, NEW c \in Session, tx_task(c)
  PROVE  IInv'
<1>1. Typed' /\ PeersKnown' BY TxTaskType DEF IInv
<1>2. UNCHANGED <<call, tx_on, link, down, task, handlers>> BY DEF tx_task, conn_vars
<1>3. PICK s : s = Head(request_rx[c]) OBVIOUS
<1>4. request_rx[c] \in Seq(SeqId) /\ request_rx[c] # <<>>
  BY DEF tx_task, IInv, Typed, ClientTypes
<1>5. /\ ToSet(request_rx[c]) = {s} \cup ToSet(Tail(request_rx[c])) /\ s \in SeqId
  BY <1>3, <1>4, HeadAndTail, Queued
<1>6. \A b \in Session :
        /\ request_rx'[b] = IF b = c THEN Tail(request_rx[c]) ELSE request_rx[b]
        /\ response_pool'[b] = IF b = c THEN response_pool[c] \cup {s} ELSE response_pool[b]
  BY <1>3 DEF tx_task, IInv, Typed, ClientTypes
<1>7. \A b \in Session : up'[b] = IF b = c /\ link[c] = "up" THEN Append(up[c], s) ELSE up[b]
  BY <1>3 DEF tx_task, IInv, Typed, WireTypes
<1>8. ToSet(Append(up[c], s)) = ToSet(up[c]) \cup {s}
  BY <1>5, AppendedSet DEF IInv, Typed, WireTypes
<1>9. Linked' BY <1>2 DEF IInv, Linked
<1>10. HandlersKept /\ ResponsesKept BY <1>2 DEF HandlersKept, ResponsesKept
<1>11. NumbersKept
  <2> SUFFICES ASSUME NEW b \in Session
               PROVE  /\ ToSet(request_rx'[b]) \subseteq ToSet(request_rx[b])
                      /\ response_pool'[b] \subseteq response_pool[b] \cup ToSet(request_rx[b])
                      /\ ToSet(up'[b]) \subseteq ToSet(up[b]) \cup ToSet(request_rx[b])
    BY DEF NumbersKept, ToSet
  <2> QED BY <1>5, <1>6, <1>7, <1>8
<1>12. AnswerUnderWay'
  <2> SUFFICES ASSUME NEW b \in Session, NEW i \in DOMAIN call[b],
                      call[b][i].state = "waiting"
               PROVE  Awaited(b, i)'
    BY <1>2, UnderWayIsAwaited DEF AnswerUnderWay, Awaited, OnItsWay
  <2>1. Awaited(b, i) BY UnderWayIsAwaited DEF IInv
  <2>2. OnItsWay(b, i) => OnItsWay(b, i)'
    <3>1. ToSet(up[b]) \subseteq ToSet(up'[b]) BY <1>7, <1>8
    <3> QED BY <3>1, <1>2 DEF OnItsWay
  <2>3. CASE b # c BY <2>1, <2>2, <2>3, <1>2, <1>6 DEF Awaited
  <2>4. CASE b = c /\ i # s BY <2>1, <2>2, <2>4, <1>2, <1>5, <1>6 DEF Awaited
  <2>5. CASE b = c /\ i = s
    <3>1. i \in response_pool'[b] BY <2>5, <1>6
    <3>2. link[c] \in {"up", "cut"}
      BY DEF tx_task, IInv, Linked, Typed, WireTypes
    <3>3. link[c] = "up" => i \in ToSet(up'[b]) BY <2>5, <1>7, <1>8
    <3> QED BY <3>1, <3>2, <3>3, <2>5, <1>2 DEF Awaited, OnItsWay
  <2> QED BY <2>3, <2>4, <2>5
<1> QED BY <1>1, <1>2, <1>9, <1>10, <1>11, <1>12, CallsRest, StepKeeps

\* Calls whose responders are dropped wait no more.
LEMMA DisconnectStep ==
  ASSUME IInv, NEW c \in Session, NEW seqs, disconnect(c, seqs)
  PROVE  /\ SameCalls /\ AnswersKept /\ WaitsKept
         /\ \A s \in DOMAIN call'[c] : call'[c][s].state = "waiting" => s \notin seqs
         /\ \A b \in Session : call[b] = <<>> => call'[b] = <<>>
<1>1. ClientTypes BY DEF IInv, Typed
<1>2. /\ call' \in [Session -> Seq(Call)]
      /\ \A b \in Session : Len(call'[b]) = Len(call[b])
      /\ Returned(c, seqs, Ended("Disconnected"))
      /\ SameCalls
  BY <1>1, DisconnectedAnswer, ReturnedStep DEF disconnect
<1>3. Ended("Disconnected").type # "Response" BY DEF Ended
<1>4. AnswersKept BY <1>2, <1>3 DEF AnswersKept, Returned
<1>5. WaitsKept BY <1>2 DEF WaitsKept, Returned
<1>6. \A s \in DOMAIN call'[c] : call'[c][s].state = "waiting" => s \notin seqs
  BY <1>2 DEF Returned
<1>7. \A b \in Session : call[b] = <<>> => call'[b] = <<>>
  BY <1>1, <1>2 DEF ClientTypes
<1> QED BY <1>2, <1>4, <1>5, <1>6, <1>7

\* A failed write keeps the calls and their answers.
LEMMA TxFailCalls ==
  ASSUME IInv, NEW c \in Session, tx_fail(c)
  PROVE  IInv'
<1>1. Typed' /\ PeersKnown' BY TxFailType DEF IInv
<1>2. UNCHANGED <<link, up, down, task, handlers>> BY DEF tx_fail, wire_vars, conn_vars
<1>3. PICK s : s = Head(request_rx[c]) OBVIOUS
<1>4. request_rx[c] \in Seq(SeqId) /\ request_rx[c] # <<>>
  BY DEF tx_fail, IInv, Typed, ClientTypes
<1>5. ToSet(request_rx[c]) = {s} \cup ToSet(Tail(request_rx[c])) BY <1>3, <1>4, HeadAndTail
<1>6. PICK pool : pool = response_pool[c] \cup {s} OBVIOUS
<1>7. PICK seqs : seqs = ToSet(Tail(request_rx[c])) \cup IF rx_on[c] THEN {} ELSE pool OBVIOUS
<1>8. disconnect(c, seqs) BY <1>3, <1>6, <1>7 DEF tx_fail
<1>9. /\ SameCalls /\ AnswersKept /\ WaitsKept
      /\ \A i \in DOMAIN call'[c] : call'[c][i].state = "waiting" => i \notin seqs
      /\ \A b \in Session : call[b] = <<>> => call'[b] = <<>>
  BY <1>8, DisconnectStep
<1>10. \A b \in Session :
        /\ request_rx'[b] = IF b = c THEN <<>> ELSE request_rx[b]
        /\ response_pool'[b] = IF b = c THEN (IF rx_on[c] THEN pool ELSE {}) ELSE response_pool[b]
        /\ tx_on'[b] = IF b = c THEN FALSE ELSE tx_on[b]
  BY <1>3, <1>6 DEF tx_fail, IInv, Typed, ClientTypes
<1>11. Linked' BY <1>2, <1>9, <1>10 DEF IInv, Linked
<1>12. HandlersKept /\ ResponsesKept BY <1>2 DEF HandlersKept, ResponsesKept
<1>13. NumbersKept
  <2> SUFFICES ASSUME NEW b \in Session
               PROVE  /\ ToSet(request_rx'[b]) \subseteq ToSet(request_rx[b])
                      /\ response_pool'[b] \subseteq response_pool[b] \cup ToSet(request_rx[b])
                      /\ ToSet(up'[b]) \subseteq ToSet(up[b]) \cup ToSet(request_rx[b])
    BY DEF NumbersKept, ToSet
  <2>1. ToSet(<<>>) = {} BY DEF ToSet
  <2> QED BY <2>1, <1>2, <1>5, <1>6, <1>10
<1>14. AnswerUnderWay'
  <2> SUFFICES ASSUME NEW b \in Session, NEW i \in DOMAIN call'[b],
                      call'[b][i].state = "waiting"
               PROVE  Awaited(b, i)'
    BY UnderWayIsAwaited DEF AnswerUnderWay, Awaited, OnItsWay
  <2>1. i \in DOMAIN call[b] /\ call[b][i].state = "waiting" BY <1>9 DEF WaitsKept
  <2>2. Awaited(b, i) BY <2>1, UnderWayIsAwaited DEF IInv
  <2>3. CASE b # c BY <2>2, <2>3, <1>2, <1>10 DEF Awaited, OnItsWay
  <2>4. CASE b = c
    <3>1. i \notin seqs BY <2>4, <1>9
    <3>2. i \in pool BY <2>2, <2>4, <3>1, <1>5, <1>6, <1>7 DEF Awaited
    <3>3. i \in response_pool'[c] BY <3>1, <3>2, <1>7, <1>10
    <3>4. link'[c] = "cut" BY <1>2 DEF tx_fail
    <3> QED BY <2>4, <3>3, <3>4 DEF Awaited
  <2> QED BY <2>3, <2>4
<1> QED BY <1>1, <1>9, <1>11, <1>12, <1>13, <1>14, StepKeeps

\* The end of the reading task keeps the calls and their answers.
LEMMA RxEndCalls ==
  ASSUME IInv, NEW c \in Session, rx_end(c)
  PROVE  IInv'
<1>1. Typed' /\ PeersKnown' BY RxEndType DEF IInv
<1>2. UNCHANGED <<request_rx, tx_on, link, up, down, task, handlers>>
  BY DEF rx_end, wire_vars, conn_vars
<1>3. PICK seqs : seqs = IF tx_on[c] THEN {} ELSE response_pool[c] OBVIOUS
<1>4. disconnect(c, seqs) BY <1>3 DEF rx_end
<1>5. /\ SameCalls /\ AnswersKept /\ WaitsKept
      /\ \A i \in DOMAIN call'[c] : call'[c][i].state = "waiting" => i \notin seqs
      /\ \A b \in Session : call[b] = <<>> => call'[b] = <<>>
  BY <1>4, DisconnectStep
<1>6. \A b \in Session : response_pool'[b] =
        IF b = c THEN (IF tx_on[c] THEN response_pool[c] ELSE {}) ELSE response_pool[b]
  BY DEF rx_end, IInv, Typed, ClientTypes
<1>7. Linked' BY <1>2, <1>5 DEF IInv, Linked
<1>8. HandlersKept /\ ResponsesKept BY <1>2 DEF HandlersKept, ResponsesKept
<1>9. NumbersKept BY <1>2, <1>6 DEF NumbersKept, ToSet
<1>10. AnswerUnderWay'
  <2> SUFFICES ASSUME NEW b \in Session, NEW i \in DOMAIN call'[b],
                      call'[b][i].state = "waiting"
               PROVE  Awaited(b, i)'
    BY UnderWayIsAwaited DEF AnswerUnderWay, Awaited, OnItsWay
  <2>1. i \in DOMAIN call[b] /\ call[b][i].state = "waiting" BY <1>5 DEF WaitsKept
  <2>2. Awaited(b, i) BY <2>1, UnderWayIsAwaited DEF IInv
  <2>3. i \in response_pool[b] \ (IF b = c THEN seqs ELSE {}) => i \in response_pool'[b]
    BY <1>3, <1>6
  <2>4. b = c => i \notin seqs BY <1>5
  <2> QED BY <2>2, <2>3, <2>4, <1>2 DEF Awaited, OnItsWay
<1> QED BY <1>1, <1>5, <1>7, <1>8, <1>9, <1>10, StepKeeps

\* Dropping the client node keeps the calls and their answers.
LEMMA DropNodeCalls ==
  ASSUME IInv, NEW c \in Session, drop_node(c)
  PROVE  IInv'
<1>1. Typed' /\ PeersKnown' BY DropNodeType DEF IInv
<1>2. UNCHANGED <<call, request_rx, response_pool, link, up, down, task, handlers>>
  BY DEF drop_node, conn_vars, wire_vars
<1>3. \A b \in Session : tx_on'[b] = IF b = c THEN FALSE ELSE tx_on[b]
  BY DEF drop_node, IInv, Typed, ClientTypes
<1>4. Linked' BY <1>2, <1>3 DEF IInv, Linked
<1>5. HandlersKept /\ ResponsesKept BY <1>2 DEF HandlersKept, ResponsesKept
<1>6. AnswerUnderWay' BY <1>2 DEF IInv, AnswerUnderWay
<1> QED BY <1>1, <1>2, <1>4, <1>5, <1>6, CallsRest, NumbersRest, StepKeeps

\* Dropping an endpoint whose node is gone, and leaving the loop of the reading task,
\* keep the calls and their answers.
LEMMA CancelledCalls ==
  ASSUME IInv, NEW c \in Session,
         rx_cancelled(c) \/ \E e \in Endpoint : drop_orphan(c, e)
  PROVE  IInv'
<1>1. Typed' /\ PeersKnown' BY RxCancelledType, DropOrphanType DEF IInv
<1> QED BY <1>1, CallsCalm DEF rx_cancelled, drop_orphan, conn_vars, wire_vars

\* Closing the socket keeps the calls and their answers.
LEMMA RxCloseCalls ==
  ASSUME IInv, NEW c \in Session, rx_close(c)
  PROVE  IInv'
<1>1. Typed' /\ PeersKnown' BY RxCloseType DEF IInv
<1>2. UNCHANGED <<call, request_rx, response_pool, tx_on, up, task, handlers>>
  BY DEF rx_close, conn_vars, client_vars
<1>3. \A b \in Session :
        /\ link'[b] = IF b = c THEN "cut" ELSE link[b]
        /\ down'[b] = IF b = c THEN <<>> ELSE down[b]
  BY DEF rx_close, IInv, Typed, WireTypes
<1>4. Linked' BY <1>2, <1>3 DEF IInv, Linked
<1>5. HandlersKept BY <1>2 DEF HandlersKept
<1>6. ResponsesKept
  <2>1. DOMAIN <<>> = {} OBVIOUS
  <2> QED BY <1>3, <2>1 DEF ResponsesKept
<1>7. AnswerUnderWay'
  <2> SUFFICES ASSUME NEW b \in Session, NEW i \in DOMAIN call[b],
                      call[b][i].state = "waiting"
               PROVE  Awaited(b, i)'
    BY <1>2, UnderWayIsAwaited DEF AnswerUnderWay, Awaited, OnItsWay
  <2>1. Awaited(b, i) BY UnderWayIsAwaited DEF IInv
  <2> QED BY <2>1, <1>2, <1>3 DEF Awaited, OnItsWay
<1> QED BY <1>1, <1>2, <1>4, <1>5, <1>6, <1>7, CallsRest, NumbersRest, StepKeeps

\* The reading task keeps the calls and their answers.
LEMMA RxTaskCalls ==
  ASSUME IInv, NEW c \in Session, rx_task(c)
  PROVE  IInv'
<1>1. Typed' /\ PeersKnown' BY RxTaskType DEF IInv
<1>2. UNCHANGED <<request_rx, tx_on, link, up, task, handlers>> BY DEF rx_task, conn_vars
<1>3. PICK P : P = EdgeResponse \cup EdgePush OBVIOUS
<1>4. down[c] \in Seq(P) /\ down[c] # <<>> BY <1>3 DEF rx_task, IInv, Typed, WireTypes
<1>5. PICK packet : packet = Head(down[c]) OBVIOUS
<1>6. /\ packet \in P /\ packet = down[c][1] /\ 1 \in DOMAIN down[c]
      /\ \A i \in DOMAIN Tail(down[c]) : i + 1 \in DOMAIN down[c] /\ Tail(down[c])[i] = down[c][i + 1]
      /\ \A i \in DOMAIN down[c] : i # 1 =>
           i - 1 \in DOMAIN Tail(down[c]) /\ Tail(down[c])[i - 1] = down[c][i]
  BY <1>4, <1>5, Queued
<1>7. \A b \in Session : down'[b] = IF b = c THEN Tail(down[c]) ELSE down[b]
  BY DEF rx_task, IInv, Typed, WireTypes
<1>8. HandlersKept BY <1>2 DEF HandlersKept
<1>9. ResponsesKept
  <2> SUFFICES ASSUME NEW b \in Session, NEW i \in DOMAIN down'[b]
               PROVE  \E j \in DOMAIN down[b] : down'[b][i] = down[b][j]
    BY DEF ResponsesKept
  <2>1. CASE b = c
    <3>1. down'[b] = Tail(down[c]) BY <2>1, <1>7
    <3>2. i + 1 \in DOMAIN down[c] /\ down'[b][i] = down[c][i + 1] BY <3>1, <1>6
    <3> QED BY <2>1, <3>2
  <2>2. CASE b # c BY <2>2, <1>7
  <2> QED BY <2>1, <2>2
<1>10. \A b \in Session : \A s : OnItsWay(b, s) =>
         OnItsWay(b, s)' \/ (b = c /\ packet.type = "Response" /\ packet.seq = s)
  <2> SUFFICES ASSUME NEW b \in Session, NEW s, OnItsWay(b, s),
                      ~(b = c /\ packet.type = "Response" /\ packet.seq = s)
               PROVE  OnItsWay(b, s)'
    OBVIOUS
  <2>1. CASE s \in ToSet(up[b]) \/ \E h \in handlers : h.conn = b /\ h.seq = s
    BY <2>1, <1>2 DEF OnItsWay
  <2>2. CASE \E i \in DOMAIN down[b] : down[b][i].type = "Response" /\ down[b][i].seq = s
    <3>1. PICK i \in DOMAIN down[b] : down[b][i].type = "Response" /\ down[b][i].seq = s
      BY <2>2
    <3>2. CASE b # c
      <4>1. down'[b] = down[b] BY <3>2, <1>7
      <4> QED BY <3>1, <4>1 DEF OnItsWay
    <3>3. CASE b = c
      <4>1. i # 1 BY <3>1, <3>3, <1>6
      <4>2. i - 1 \in DOMAIN down'[b] /\ down'[b][i - 1] = down[b][i]
        BY <3>1, <3>3, <4>1, <1>6, <1>7
      <4> QED BY <3>1, <4>2 DEF OnItsWay
    <3> QED BY <3>2, <3>3
  <2> QED BY <2>1, <2>2 DEF OnItsWay
<1>11. CASE packet.type = "Push"
  <2>1. UNCHANGED <<call, response_pool>> BY <1>5, <1>11 DEF rx_task
  <2>2. Linked' BY <1>2, <2>1 DEF IInv, Linked
  <2>3. AnswerUnderWay'
    <3> SUFFICES ASSUME NEW b \in Session, NEW i \in DOMAIN call[b],
                        call[b][i].state = "waiting"
                 PROVE  Awaited(b, i)'
      BY <2>1, UnderWayIsAwaited DEF AnswerUnderWay, Awaited, OnItsWay
    <3>1. Awaited(b, i) BY UnderWayIsAwaited DEF IInv
    <3>2. OnItsWay(b, i) => OnItsWay(b, i)' BY <1>10, <1>11
    <3> QED BY <3>1, <3>2, <1>2, <2>1 DEF Awaited
  <2> QED BY <1>1, <1>2, <1>8, <1>9, <2>1, <2>2, <2>3, CallsRest, NumbersRest, StepKeeps
<1>12. CASE packet.type = "Response"
  <2>1. PICK to : to = responder(c, packet) OBVIOUS
  <2>2. /\ response_pool' = [response_pool EXCEPT ![c] = @ \ to]
        /\ call' = [call EXCEPT ![c] = [s \in DOMAIN @ |->
                      IF s \in to THEN return(c, s, packet) ELSE @[s]]]
    BY <1>5, <1>12, <2>1 DEF rx_task
  <2>3. packet \in Answer BY <1>3, <1>6, <1>12, PacketType
  <2>4. /\ call' \in [Session -> Seq(Call)]
        /\ \A b \in Session : Len(call'[b]) = Len(call[b])
        /\ Returned(c, to, packet)
        /\ SameCalls
    BY <2>2, <2>3, ReturnedStep DEF IInv, Typed
  <2>5. to = response_pool[c] \cap {packet.seq} BY <2>1 DEF responder
  <2>6. \A b \in Session : response_pool'[b] =
          IF b = c THEN response_pool[c] \ {packet.seq} ELSE response_pool[b]
    <3>1. response_pool[c] \ to = response_pool[c] \ {packet.seq} BY <2>5
    <3> QED BY <2>2, <3>1 DEF IInv, Typed, ClientTypes
  <2>7. Linked'
    <3>1. \A b \in Session : call[b] = <<>> => call'[b] = <<>>
      BY <2>4 DEF IInv, Typed, ClientTypes
    <3> QED BY <1>2, <3>1 DEF IInv, Linked
  <2>8. packet.to = call[c][packet.seq].request BY <1>6, <1>12 DEF IInv, ResponsesOwn
  <2>9. OwnAnswer'
    <3> SUFFICES ASSUME NEW b \in Session, NEW s \in DOMAIN call'[b],
                        call'[b][s].response.type = "Response"
                 PROVE  call'[b][s].response.to = call'[b][s].request
      BY DEF OwnAnswer
    <3>1. s \in DOMAIN call[b] BY <2>4 DEF Returned
    <3>2. CASE b = c /\ s \in to
      <4>1. call'[b][s].response = packet /\ call'[b][s].request = call[b][s].request
        BY <3>1, <3>2, <2>4 DEF Returned
      <4>2. s = packet.seq BY <3>2, <2>5
      <4> QED BY <3>2, <4>1, <4>2, <2>8
    <3>3. CASE ~(b = c /\ s \in to)
      <4>1. call'[b][s] = call[b][s] BY <3>1, <3>3, <2>4, Zenon DEF Returned
      <4> QED BY <3>1, <4>1 DEF IInv, OwnAnswer
    <3> QED BY <3>2, <3>3
  <2>10. NumbersKept
    <3>1. \A b \in Session : response_pool'[b] \subseteq response_pool[b] BY <2>6
    <3> QED BY <3>1, <1>2 DEF NumbersKept, ToSet
  <2>11. AnswerUnderWay'
    <3> SUFFICES ASSUME NEW b \in Session, NEW i \in DOMAIN call'[b],
                        call'[b][i].state = "waiting"
                 PROVE  Awaited(b, i)'
      BY UnderWayIsAwaited DEF AnswerUnderWay, Awaited, OnItsWay
    <3>1. /\ i \in DOMAIN call[b] /\ call[b][i].state = "waiting"
          /\ ~(b = c /\ i \in to)
      BY <2>4 DEF Returned
    <3>2. Awaited(b, i) BY <3>1, UnderWayIsAwaited DEF IInv
    <3>3. CASE i \in ToSet(request_rx[b]) BY <3>3, <1>2 DEF Awaited
    <3>4. CASE i \in response_pool[b] /\ (link[b] = "cut" \/ OnItsWay(b, i))
      <4>1. ~(b = c /\ i = packet.seq) BY <3>1, <3>4, <2>5
      <4>2. i \in response_pool'[b] BY <3>4, <4>1, <2>6
      <4>3. OnItsWay(b, i) => OnItsWay(b, i)' BY <4>1, <1>10
      <4> QED BY <3>4, <4>2, <4>3, <1>2 DEF Awaited
    <3> QED BY <3>2, <3>3, <3>4 DEF Awaited
  <2>12. HandlersOwn' /\ ResponsesOwn' /\ NumbersKnown'
    BY <1>8, <1>9, <2>4, <2>10, HandlersStay, ResponsesStay, NumbersStay DEF IInv
  <2> QED BY <1>1, <2>7, <2>9, <2>11, <2>12 DEF IInv
<1> QED BY <1>5, <1>11, <1>12, Zenon DEF rx_task

\* A packet that reaches the server keeps the calls and their answers.
LEMMA PacketInCalls ==
  ASSUME IInv, NEW c \in Session, packet_in(c)
  PROVE  IInv'
<1>1. Typed' /\ PeersKnown' BY PacketInType DEF IInv
<1>2. UNCHANGED <<call, request_rx, response_pool, tx_on, link, down, task>>
  BY DEF packet_in, client_vars, conn_vars
<1>3. PICK s : s = Head(up[c]) OBVIOUS
<1>4. up[c] \in Seq(SeqId) /\ up[c] # <<>> BY DEF packet_in, IInv, Typed, WireTypes
<1>5. ToSet(up[c]) = {s} \cup ToSet(Tail(up[c])) BY <1>3, <1>4, HeadAndTail
<1>6. \A b \in Session : up'[b] = IF b = c THEN Tail(up[c]) ELSE up[b]
  BY DEF packet_in, IInv, Typed, WireTypes
<1>7. PICK h : h = [conn |-> c, seq |-> s, request |-> call[c][s].request, pc |-> "spawned"]
  OBVIOUS
<1>8. handlers' = handlers \cup {h} BY <1>3, <1>7 DEF packet_in
<1>9. h.conn = c /\ h.seq = s /\ h.request = call[c][s].request BY <1>7
<1>10. \A b \in Session : ToSet(up[b]) \subseteq DOMAIN call[b] BY DEF IInv, NumbersKnown, ToSet
<1>11. Linked' BY <1>2 DEF IInv, Linked
<1>12. ResponsesKept BY <1>2 DEF ResponsesKept
<1>13. NumbersKept
  <2> SUFFICES ASSUME NEW b \in Session
               PROVE  /\ ToSet(request_rx'[b]) \subseteq ToSet(request_rx[b])
                      /\ response_pool'[b] \subseteq response_pool[b] \cup ToSet(request_rx[b])
                      /\ ToSet(up'[b]) \subseteq ToSet(up[b]) \cup ToSet(request_rx[b])
    BY DEF NumbersKept, ToSet
  <2> QED BY <1>2, <1>5, <1>6
<1>14. HandlersOwn'
  <2>1. s \in DOMAIN call[c] BY <1>5, <1>10
  <2> QED BY <2>1, <1>2, <1>8, <1>9 DEF IInv, HandlersOwn
<1>15. ResponsesOwn' /\ NumbersKnown' /\ OwnAnswer'
  BY <1>2, <1>12, <1>13, CallsRest, ResponsesStay, NumbersStay, AnswersStay DEF IInv
<1>16. AnswerUnderWay'
  <2> SUFFICES ASSUME NEW b \in Session, NEW i \in DOMAIN call[b],
                      call[b][i].state = "waiting"
               PROVE  Awaited(b, i)'
    BY <1>2, UnderWayIsAwaited DEF AnswerUnderWay, Awaited, OnItsWay
  <2>1. Awaited(b, i) BY UnderWayIsAwaited DEF IInv
  <2>2. OnItsWay(b, i) => OnItsWay(b, i)'
    <3>1. i \in ToSet(up[b]) => i \in ToSet(up'[b]) \/ (b = c /\ i = s) BY <1>5, <1>6
    <3>2. h \in handlers' /\ handlers \subseteq handlers' BY <1>8
    <3> QED BY <3>1, <3>2, <1>2, <1>9 DEF OnItsWay
  <2> QED BY <2>1, <2>2, <1>2 DEF Awaited
<1> QED BY <1>1, <1>11, <1>14, <1>15, <1>16 DEF IInv

\* A handler goes on: it is still there for its call.
LEMMA ToPcCalls ==
  ASSUME IInv, NEW h \in handlers, NEW pc \in {"spawned", "proposing", "applied"},
         to_pc(h, pc), Typed', PeersKnown',
         UNCHANGED <<call, request_rx, response_pool, tx_on, link, up, down, task>>
  PROVE  IInv'
<1>1. PICK g \in Handler :
        /\ handlers' = (handlers \ {h}) \cup {g}
        /\ g.conn = h.conn /\ g.seq = h.seq /\ g.request = h.request
  BY ToPcType DEF IInv
<1>2. Linked' BY DEF IInv, Linked
<1>3. HandlersKept BY <1>1 DEF HandlersKept
<1>4. ResponsesKept BY DEF ResponsesKept
<1>5. AnswerUnderWay'
  <2> SUFFICES ASSUME NEW b \in Session, NEW i \in DOMAIN call[b],
                      call[b][i].state = "waiting"
               PROVE  Awaited(b, i)'
    BY UnderWayIsAwaited DEF AnswerUnderWay, Awaited, OnItsWay
  <2>1. Awaited(b, i) BY UnderWayIsAwaited DEF IInv
  <2>2. (\E f \in handlers : f.conn = b /\ f.seq = i) => \E f \in handlers' : f.conn = b /\ f.seq = i
    BY <1>1
  <2> QED BY <2>1, <2>2 DEF Awaited, OnItsWay
<1> QED BY <1>2, <1>3, <1>4, <1>5, CallsRest, NumbersRest, StepKeeps

\* A handler is done: its response is on the way, or there is nobody to take it.
LEMMA ReplyCalls ==
  ASSUME IInv, NEW h \in handlers, NEW result, reply(h, result), Typed', PeersKnown',
         UNCHANGED <<call, request_rx, response_pool, tx_on, link, up, task>>
  PROVE  IInv'
<1>1. h \in Handler /\ h.conn \in Session BY DEF IInv, Typed, HandlerTypes, Handler
<1>2. handlers' = handlers \ {h} BY DEF reply
<1>3. PICK p : p = [type |-> "Response", seq |-> h.seq, to |-> h.request, result |-> result]
  OBVIOUS
<1>4. p.type = "Response" /\ p.seq = h.seq /\ p.to = h.request BY <1>3
<1>5. PICK P : P = EdgeResponse \cup EdgePush \cup {p} OBVIOUS
<1>6. \A b \in Session : down[b] \in Seq(P)
  <2>1. \A b \in Session : down[b] \in Seq(EdgeResponse \cup EdgePush)
    BY DEF IInv, Typed, WireTypes
  <2>2. EdgeResponse \cup EdgePush \subseteq P BY <1>5
  <2> HIDE DEF EdgeResponse, EdgePush
  <2> QED BY <2>1, <2>2
<1>7. PICK q : q = Append(down[h.conn], p) OBVIOUS
<1>8. /\ DOMAIN q = DOMAIN down[h.conn] \cup {Len(down[h.conn]) + 1}
      /\ \A i \in DOMAIN down[h.conn] : q[i] = down[h.conn][i]
      /\ q[Len(down[h.conn]) + 1] = p
  <2>1. p \in P BY <1>5
  <2> QED BY <1>1, <1>6, <1>7, <2>1, AppendedSet
<1>9. \A b \in Session : down'[b] = IF b = h.conn /\ task[b] = "running" /\ link[b] = "up"
                                      THEN q ELSE down[b]
  BY <1>1, <1>3, <1>7 DEF reply, IInv, Typed, WireTypes
<1>10. Linked' BY DEF IInv, Linked
<1>11. HandlersOwn' BY <1>2 DEF IInv, HandlersOwn
<1>12. NumbersKnown' BY DEF IInv, NumbersKnown
<1>13. OwnAnswer' BY DEF IInv, OwnAnswer
<1>14. ResponsesOwn'
  <2> SUFFICES ASSUME NEW b \in Session, NEW i \in DOMAIN down'[b],
                      down'[b][i].type = "Response"
               PROVE  /\ down'[b][i].seq \in DOMAIN call[b]
                      /\ down'[b][i].to = call[b][down'[b][i].seq].request
    BY DEF ResponsesOwn
  <2>1. CASE i \in DOMAIN down[b] /\ down'[b][i] = down[b][i]
    BY <2>1 DEF IInv, ResponsesOwn
  <2>2. CASE b = h.conn /\ down'[b][i] = p
    BY <2>2, <1>4 DEF IInv, HandlersOwn
  <2> QED BY <2>1, <2>2, <1>8, <1>9
<1>15. AnswerUnderWay'
  <2> SUFFICES ASSUME NEW b \in Session, NEW i \in DOMAIN call[b],
                      call[b][i].state = "waiting"
               PROVE  Awaited(b, i)'
    BY UnderWayIsAwaited DEF AnswerUnderWay, Awaited, OnItsWay
  <2>1. Awaited(b, i) BY UnderWayIsAwaited DEF IInv
  <2>2. CASE i \in ToSet(request_rx[b]) \/ link[b] = "cut" BY <2>1, <2>2 DEF Awaited
  <2>3. CASE i \in response_pool[b] /\ OnItsWay(b, i) /\ link[b] # "cut"
    <3>1. link[b] = "up" /\ task[b] = "running"
      <4>1. DOMAIN call[b] # {} OBVIOUS
      <4>2. call[b] # <<>> BY <4>1
      <4> QED BY <2>3, <4>2 DEF IInv, Linked, Typed, WireTypes
    <3>2. \A j \in DOMAIN down[b] : j \in DOMAIN down'[b] /\ down'[b][j] = down[b][j]
      BY <1>8, <1>9
    <3>3. CASE b = h.conn /\ i = h.seq
      <4>1. down'[b] = q BY <3>1, <3>3, <1>9
      <4>2. \E j \in DOMAIN down'[b] : down'[b][j] = p BY <4>1, <1>8
      <4>3. OnItsWay(b, i)' BY <4>2, <3>3, <1>4 DEF OnItsWay
      <4> QED BY <2>3, <4>3 DEF Awaited
    <3>4. CASE ~(b = h.conn /\ i = h.seq)
      <4>1. (\E f \in handlers : f.conn = b /\ f.seq = i) =>
              \E f \in handlers' : f.conn = b /\ f.seq = i
        BY <3>4, <1>2
      <4>2. OnItsWay(b, i)' BY <2>3, <3>2, <4>1 DEF OnItsWay
      <4> QED BY <2>3, <4>2 DEF Awaited
    <3> QED BY <3>3, <3>4
  <2> QED BY <2>1, <2>2, <2>3 DEF Awaited
<1> QED BY <1>10, <1>11, <1>12, <1>13, <1>14, <1>15 DEF IInv

\* handle_edge_request up to its end.
LEMMA HandlerCalls ==
  ASSUME IInv, NEW h \in handlers,
         start_request(h) \/ apply_request(h) \/ finish_request(h) \/ fail_request(h)
  PROVE  IInv'
<1>1. Typed' /\ PeersKnown'
  BY StartRequestType, ApplyRequestType, FinishRequestType, FailRequestType DEF IInv
<1>2. UNCHANGED <<call, request_rx, response_pool, tx_on, link, up, task>>
  BY DEF start_request, apply_request, finish_request, fail_request, client_vars, wire_vars,
         conn_vars
<1>3. CASE start_request(h)
  <2>1. CASE to_pc(h, "proposing") /\ down' = down BY <2>1, <1>1, <1>2, ToPcCalls
  <2>2. CASE reply(h, checked(h)) BY <2>2, <1>1, <1>2, ReplyCalls
  <2> QED BY <1>3, <2>1, <2>2 DEF start_request
<1>4. CASE apply_request(h)
  <2>1. to_pc(h, "applied") /\ down' = down BY <1>4 DEF apply_request, wire_vars
  <2> QED BY <2>1, <1>1, <1>2, ToPcCalls
<1>5. CASE finish_request(h)
  <2>1. PICK result : reply(h, result) BY <1>5 DEF finish_request
  <2> QED BY <2>1, <1>1, <1>2, ReplyCalls
<1>6. CASE fail_request(h)
  <2>1. reply(h, "Internal") BY <1>6 DEF fail_request
  <2> QED BY <2>1, <1>1, <1>2, ReplyCalls
<1> QED BY <1>3, <1>4, <1>5, <1>6

\* A push takes nothing out of the outbound channel.
LEMMA DispatchCalls ==
  ASSUME IInv, NEW d \in dispatching, dispatch_message(d)
  PROVE  IInv'
<1>1. Typed' /\ PeersKnown' BY DispatchMessageType DEF IInv
<1>2. UNCHANGED <<call, request_rx, response_pool, tx_on, link, up, task, handlers>>
  BY DEF dispatch_message, client_vars, conn_vars
<1>3. PICK p : p = [type |-> "Push", ep |-> d.ep, msg |-> d.msg] OBVIOUS
<1>4. p.type # "Response" BY <1>3
<1>5. down' = down \/ \E c \in Session : down' = [down EXCEPT ![c] = Append(@, p)]
  BY <1>3, DispatchStep DEF IInv
<1>6. CASE down' = down BY <1>1, <1>2, <1>6, CallsCalm
<1>7. ASSUME NEW c \in Session, down' = [down EXCEPT ![c] = Append(@, p)]
      PROVE  IInv'
  <2>1. PICK P : P = EdgeResponse \cup EdgePush \cup {p} OBVIOUS
  <2>2. down[c] \in Seq(P) /\ p \in P
    <3>1. down[c] \in Seq(EdgeResponse \cup EdgePush) BY DEF IInv, Typed, WireTypes
    <3>2. EdgeResponse \cup EdgePush \subseteq P /\ p \in P BY <2>1
    <3> QED BY <3>1, <3>2
  <2>3. PICK q : q = Append(down[c], p) OBVIOUS
  <2>4. /\ DOMAIN q = DOMAIN down[c] \cup {Len(down[c]) + 1}
        /\ \A i \in DOMAIN down[c] : q[i] = down[c][i]
        /\ q[Len(down[c]) + 1] = p
    BY <2>2, <2>3, AppendedSet
  <2>5. \A b \in Session : down'[b] = IF b = c THEN q ELSE down[b]
    BY <1>7, <2>3 DEF IInv, Typed, WireTypes
  <2>6. ResponsesKept BY <1>4, <2>4, <2>5 DEF ResponsesKept
  <2>7. \A b \in Session : \A j \in DOMAIN down[b] : j \in DOMAIN down'[b] /\ down'[b][j] = down[b][j]
    BY <2>4, <2>5
  <2>8. AnswerUnderWay'
    <3> SUFFICES ASSUME NEW b \in Session, NEW i \in DOMAIN call[b],
                        call[b][i].state = "waiting"
                 PROVE  Awaited(b, i)'
      BY <1>2, UnderWayIsAwaited DEF AnswerUnderWay, Awaited, OnItsWay
    <3>1. Awaited(b, i) BY UnderWayIsAwaited DEF IInv
    <3>2. OnItsWay(b, i) => OnItsWay(b, i)' BY <1>2, <2>7 DEF OnItsWay
    <3> QED BY <3>1, <3>2, <1>2 DEF Awaited
  <2>9. Linked' /\ HandlersKept BY <1>2 DEF IInv, Linked, HandlersKept
  <2> QED BY <1>1, <1>2, <2>6, <2>8, <2>9, CallsRest, NumbersRest, StepKeeps
<1> QED BY <1>5, <1>6, <1>7

\* Entries of spawned tasks concern no call.
LEMMA SpawnedCalls ==
  ASSUME IInv,
         \/ \E d \in dispatching : report_dispatch(d)
         \/ \E e \in offlines : propose_offline(e) \/ lose_offline(e)
  PROVE  IInv'
<1>1. Typed' /\ PeersKnown'
  BY ReportDispatchType, ProposeOfflineType, LoseOfflineType DEF IInv
<1>2. UNCHANGED <<call, request_rx, response_pool, tx_on, link, up, down, task, handlers>>
  BY DEF report_dispatch, propose_offline, lose_offline, client_vars, wire_vars, conn_vars
<1> QED BY <1>1, <1>2, CallsCalm

\* IInv is inductive.
LEMMA Inductive ==
  ASSUME IInv, [Next]_vars
  PROVE  IInv'
<1>1. ASSUME NEW c \in Session, Client(c)
      PROVE  IInv'
  <2>1. CASE \E p \in PeerChoices[c] : connect(c, p) BY <2>1, ConnectCalls
  <2>2. CASE drop_node(c) BY <2>2, DropNodeCalls
  <2>3. CASE \E e \in Endpoint : drop_orphan(c, e) BY <2>3, CancelledCalls
  <2>4. CASE Calling(c)
    <3>1. PICK request \in EdgeRequest : Requests(c, request)
      BY <1>1, <2>4, RequestsMade DEF IInv
    <3> QED BY <3>1, SendRequestCalls DEF Requests
  <2> QED BY <2>1, <2>2, <2>3, <2>4 DEF Calling
<1>2. CASE Runtime
  BY <1>2, CreateEdgeConnectionCalls, EndConnectionCalls, PacketInCalls, TxTaskCalls,
     TxFailCalls, RxTaskCalls, RxEndCalls, CancelledCalls, RxCloseCalls, ResumeCalls, HandlerCalls, DispatchCalls,
     SpawnedCalls, Zenon
     DEF Runtime
<1>3. CASE Fault BY <1>3, CutCalls, HandlerCalls, SpawnedCalls, Zenon DEF Fault
<1>4. CASE UNCHANGED vars
  <2>1. Typed' /\ PeersKnown'
    <3>1. ConnTypes' /\ HandlerTypes' /\ TopicTypes' /\ HistoryTypes' /\ PeersKnown'
      BY <1>4, ServerRests DEF vars, IInv
    <3>2. ClientTypes' BY <1>4, ClientRests DEF vars, IInv
    <3>3. WireTypes' BY <1>4 DEF vars, wire_vars, IInv, Typed, WireTypes
    <3> QED BY <3>1, <3>2, <3>3 DEF Typed
  <2> QED BY <2>1, <1>4, CallsCalm DEF vars, client_vars, wire_vars, conn_vars
<1> QED BY <1>1, <1>2, <1>3, <1>4 DEF Next

\* Before anybody is connected.
LEMMA Initially ==
  ASSUME Init
  PROVE  IInv
<1>1. ClientTypes
  <2>1. call \in [Session -> Seq(Call)] BY DEF Init
  <2>2. \A c \in Session : Len(call[c]) <= MaxCalls[c]
    <3>1. \A c \in Session : call[c] = <<>> /\ MaxCalls[c] \in Nat BY EdgeAssumption DEF Init
    <3> QED BY <3>1
  <2> QED BY <2>1, <2>2 DEF Init, ClientTypes
<1>2. WireTypes BY DEF Init, WireTypes
<1>3. ConnTypes BY DEF Init, ConnTypes
<1>4. HandlerTypes BY DEF Init, HandlerTypes
<1>5. TopicTypes BY FromDurableType DEF Init, TopicTypes
<1>6. HistoryTypes BY EdgeAssumption DEF Init, HistoryTypes
<1>7. \A c \in Session : /\ call[c] = <<>> /\ request_rx[c] = <<>> /\ response_pool[c] = {}
                         /\ up[c] = <<>> /\ down[c] = <<>> /\ link[c] = "off" /\ ~tx_on[c]
                         /\ task[c] = "none"
  BY DEF Init
<1>8. handlers = {} BY DEF Init
<1>9. PeersKnown BY <1>7, <1>8 DEF PeersKnown
<1>10. Linked BY <1>7 DEF Linked
<1>11. NumbersKnown /\ HandlersOwn /\ ResponsesOwn
  BY <1>7, <1>8 DEF NumbersKnown, HandlersOwn, ResponsesOwn
<1>12. OwnAnswer /\ AnswerUnderWay BY <1>7 DEF OwnAnswer, AnswerUnderWay
<1> QED BY <1>1, <1>2, <1>3, <1>4, <1>5, <1>6, <1>9, <1>10, <1>11, <1>12 DEF IInv, Typed

-----------------------------------------------------------------------------
(* The theorems. *)

\* The type invariant of Edge: among others the edge routing names only peers, the
\* replica at the server stays a topic whatever requests are applied to it, and the
\* numbers of calls stay within their bound.
THEOREM EdgeTypes == Spec => []TypeOK
<1>1. Init => IInv BY Initially
<1>2. IInv /\ [Next]_vars => IInv' BY Inductive
<1>3. IInv => TypeOK
  <2> SUFFICES ASSUME Typed PROVE TypeOK BY DEF IInv
  <2>1. \A c \in Session : \A s \in DOMAIN call[c] : call[c][s] \in Call
    BY DEF Typed, ClientTypes
  <2>2. \A c \in Session :
          /\ \A i \in DOMAIN up[c] : up[c][i] \in SeqId
          /\ \A i \in DOMAIN down[c] : down[c][i] \in EdgeResponse \cup EdgePush
    BY DEF Typed, WireTypes
  <2> QED BY <2>1, <2>2 DEF TypeOK, Typed, ClientTypes, WireTypes, ConnTypes, HandlerTypes,
                            TopicTypes, HistoryTypes, FiniteTopic
<1> QED BY <1>1, <1>2, <1>3, PTL DEF Spec

\* Every response a call of a client gets is the one to its own request, in whatever
\* order the handlers of the server finish and whatever connections are lost.
THEOREM AnswersOwn == Spec => []OwnAnswer
<1>1. Init => IInv BY Initially
<1>2. IInv /\ [Next]_vars => IInv' BY Inductive
<1>3. IInv => OwnAnswer BY DEF IInv
<1> QED BY <1>1, <1>2, <1>3, PTL DEF Spec

\* As long as its link is up, a call that waits is in the channel, or its request, its
\* handler or its response is under way and its responder is in the pool.
THEOREM AnswersUnderWay == Spec => []AnswerUnderWay
<1>1. Init => IInv BY Initially
<1>2. IInv /\ [Next]_vars => IInv' BY Inductive
<1>3. IInv => AnswerUnderWay BY DEF IInv
<1> QED BY <1>1, <1>2, <1>3, PTL DEF Spec

-----------------------------------------------------------------------------
(* Requests are handled once, and answered once. *)

\* The tail of a sequence without repetitions lacks its head.
LEMMA TailInjective ==
  ASSUME NEW S, NEW q \in Seq(S), q # <<>>, IsInjective(q)
  PROVE  IsInjective(Tail(q)) /\ Head(q) \notin ToSet(Tail(q))
<1>1. /\ Head(q) = q[1] /\ 1 \in DOMAIN q
      /\ \A i \in DOMAIN Tail(q) : i + 1 \in DOMAIN q /\ Tail(q)[i] = q[i + 1]
  BY Queued
<1>2. DOMAIN Tail(q) \subseteq Nat \ {0}
  <2>1. Tail(q) \in Seq(S) BY Queued
  <2> QED BY <2>1
<1>3. ASSUME NEW i \in DOMAIN Tail(q), NEW j \in DOMAIN Tail(q), Tail(q)[i] = Tail(q)[j]
      PROVE  i = j
  <2>1. i + 1 = j + 1 BY <1>1, <1>3 DEF IsInjective
  <2> QED BY <1>2, <2>1
<1>4. ASSUME NEW i \in DOMAIN Tail(q), Tail(q)[i] = Head(q)
      PROVE  FALSE
  <2>1. i + 1 = 1 BY <1>1, <1>4 DEF IsInjective
  <2> QED BY <1>2, <2>1
<1> QED BY <1>3, <1>4 DEF IsInjective, ToSet

\* A sequence without repetitions gets something new.
LEMMA GrownInjective ==
  ASSUME NEW S, NEW q \in Seq(S), NEW x \in S, x \notin ToSet(q), IsInjective(q)
  PROVE  IsInjective(Append(q, x))
<1>1. /\ DOMAIN Append(q, x) = DOMAIN q \cup {Len(q) + 1}
      /\ \A i \in DOMAIN q : Append(q, x)[i] = q[i]
      /\ Append(q, x)[Len(q) + 1] = x
  BY AppendedSet
<1>2. \A i \in DOMAIN q : q[i] # x BY DEF ToSet
<1>3. ASSUME NEW i \in DOMAIN Append(q, x), NEW j \in DOMAIN Append(q, x),
             Append(q, x)[i] = Append(q, x)[j]
      PROVE  i = j
  BY <1>1, <1>2, <1>3 DEF IsInjective
<1> QED BY <1>3, Zenon DEF IsInjective

\* The front part of a sequence without repetitions.
LEMMA PrefixInjective ==
  ASSUME NEW S, NEW q \in Seq(S), NEW i \in 0 .. Len(q), IsInjective(q)
  PROVE  IsInjective(SubSeq(q, 1, i)) /\ ToSet(SubSeq(q, 1, i)) \subseteq ToSet(q)
<1>1. \A j \in DOMAIN SubSeq(q, 1, i) : j \in DOMAIN q /\ SubSeq(q, 1, i)[j] = q[j] BY Prefix
<1> QED BY <1>1 DEF IsInjective, ToSet

\* A request that the server may still handle, or handles.
underway(c, s) ==
  \/ s \in ToSet(request_rx[c])
  \/ s \in ToSet(up[c])
  \/ \E h \in handlers : h.conn = c /\ h.seq = s

\* A request is at one place.
InOnePlace ==
  /\ \A c \in Session :
       /\ IsInjective(request_rx[c]) /\ IsInjective(up[c])
       /\ ToSet(request_rx[c]) \cap ToSet(up[c]) = {}
  /\ \A h \in handlers :
       /\ h.seq \notin ToSet(request_rx[h.conn]) \cup ToSet(up[h.conn])
       /\ \A g \in handlers : g.conn = h.conn /\ g.seq = h.seq => g = h

\* The response to request s of c is on its way, or there.
replied(c, s) ==
  \/ \E i \in DOMAIN down[c] : down[c][i].type = "Response" /\ down[c][i].seq = s
  \/ s \in DOMAIN call[c] /\ call[c][s].response.type = "Response"

\* A request that was replied to is not under way any more.
RepliedOnce == \A c \in Session : \A s \in SeqId : replied(c, s) => ~underway(c, s)

\* A call ends without a response only when the tx task has ended.
EndedCalls ==
  \A c \in Session : \A s \in DOMAIN call[c] :
    call[c][s].state # "waiting" /\ call[c][s].response.type # "Response" => ~tx_on[c]

\* Nothing is new under way.
NoneBegun == \A c \in Session : \A s \in SeqId : underway(c, s)' => underway(c, s)

\* No reply is new.
NoneReplied == \A c \in Session : \A s \in SeqId : replied(c, s)' => replied(c, s)

\* RepliedOnce when neither requests nor responses are new.
LEMMA RepliesStay ==
  ASSUME RepliedOnce, NoneBegun, NoneReplied
  PROVE  RepliedOnce'
BY DEF RepliedOnce, NoneBegun, NoneReplied

\* What is known of requests and their answers.
OnceInv == InOnePlace /\ RepliedOnce /\ EndedCalls

\* A step that sends no request: it begins none, and keeps the calls.
NoCall ==
  /\ NoneBegun
  /\ SameCalls
  /\ \A c \in Session : DOMAIN call'[c] = DOMAIN call[c]

\* Responses and answers that are kept are no new replies.
LEMMA RepliesKept ==
  ASSUME ResponsesKept, AnswersKept
  PROVE  NoneReplied
<1> SUFFICES ASSUME NEW c \in Session, NEW s \in SeqId, replied(c, s)'
             PROVE  replied(c, s)
  BY DEF NoneReplied
<1>1. CASE \E i \in DOMAIN down'[c] : down'[c][i].type = "Response" /\ down'[c][i].seq = s
  BY <1>1 DEF ResponsesKept, replied
<1>2. CASE s \in DOMAIN call'[c] /\ call'[c][s].response.type = "Response"
  BY <1>2 DEF AnswersKept, replied
<1> QED BY <1>1, <1>2 DEF replied

\* Channels and handlers that only lose requests.
LEMMA PlacesShrink ==
  ASSUME InOnePlace,
         \A c \in Session : /\ IsInjective(request_rx'[c]) /\ IsInjective(up'[c])
                            /\ ToSet(request_rx'[c]) \subseteq ToSet(request_rx[c])
                            /\ ToSet(up'[c]) \subseteq ToSet(up[c]),
         \A g \in handlers' : g.conn \in Session /\ \E h \in handlers : g.conn = h.conn /\ g.seq = h.seq,
         \A g, h \in handlers' : g.conn = h.conn /\ g.seq = h.seq => g = h
  PROVE  InOnePlace' /\ NoneBegun
<1>1. \A c \in Session : ToSet(request_rx'[c]) \cap ToSet(up'[c]) = {} BY DEF InOnePlace
<1>2. \A g \in handlers' : g.seq \notin ToSet(request_rx'[g.conn]) \cup ToSet(up'[g.conn])
  BY DEF InOnePlace
<1>3. NoneBegun BY DEF NoneBegun, underway
<1> QED BY <1>1, <1>2, <1>3 DEF InOnePlace

\* The same when the handlers stay.
LEMMA ChannelsShrink ==
  ASSUME Typed, InOnePlace, handlers' = handlers,
         \A c \in Session : /\ IsInjective(request_rx'[c]) /\ IsInjective(up'[c])
                            /\ ToSet(request_rx'[c]) \subseteq ToSet(request_rx[c])
                            /\ ToSet(up'[c]) \subseteq ToSet(up[c])
  PROVE  InOnePlace' /\ NoneBegun
<1>1. \A g \in handlers : g.conn \in Session BY DEF Typed, HandlerTypes, Handler
<1>2. \A g, h \in handlers : g.conn = h.conn /\ g.seq = h.seq => g = h BY DEF InOnePlace
<1> QED BY <1>1, <1>2, PlacesShrink

\* The same when all stay.
LEMMA PlacesRest ==
  ASSUME Typed, InOnePlace, UNCHANGED <<request_rx, up, handlers>>
  PROVE  InOnePlace' /\ NoneBegun
<1>1. \A c \in Session : IsInjective(request_rx[c]) /\ IsInjective(up[c]) BY DEF InOnePlace
<1> QED BY <1>1, ChannelsShrink

\* Calls that rest are kept, and end when no tx task is started with them.
LEMMA CallsUntouched ==
  ASSUME OnceInv, call' = call, \A c \in Session : tx_on'[c] => tx_on[c] \/ call[c] = <<>>
  PROVE  EndedCalls' /\ SameCalls /\ AnswersKept
         /\ \A c \in Session : DOMAIN call'[c] = DOMAIN call[c]
<1>1. EndedCalls'
  <2> SUFFICES ASSUME NEW c \in Session, NEW s \in DOMAIN call[c], call[c][s].state # "waiting",
                      call[c][s].response.type # "Response", tx_on'[c]
               PROVE  FALSE
    BY DEF EndedCalls
  <2>1. call[c] # <<>> OBVIOUS
  <2> QED BY <2>1 DEF OnceInv, EndedCalls
<1> QED BY <1>1, CallsRest

\* Steps that move no request and no response.
LEMMA UnmovedOnce ==
  ASSUME IInv, OnceInv, UNCHANGED <<call, request_rx, up, down, handlers>>,
         \A c \in Session : tx_on'[c] => tx_on[c] \/ call[c] = <<>>
  PROVE  OnceInv' /\ NoCall
<1>1. InOnePlace' /\ NoneBegun BY PlacesRest DEF IInv, OnceInv
<1>2. /\ EndedCalls' /\ SameCalls /\ AnswersKept
      /\ \A c \in Session : DOMAIN call'[c] = DOMAIN call[c]
  BY CallsUntouched
<1>3. ResponsesKept BY DEF ResponsesKept
<1>4. RepliedOnce' BY <1>1, <1>2, <1>3, RepliesKept, RepliesStay DEF OnceInv
<1> QED BY <1>1, <1>2, <1>4 DEF OnceInv, NoCall

\* A session that connects has no calls.
LEMMA ConnectOnce ==
  ASSUME IInv, OnceInv, NEW c \in Session, NEW p \in PeerChoices[c], connect(c, p)
  PROVE  OnceInv' /\ NoCall
<1>1. UNCHANGED <<call, request_rx, up, down, handlers>> BY DEF connect
<1>2. \A b \in Session : tx_on'[b] => tx_on[b] \/ call[b] = <<>>
  <2>1. call[c] = <<>> BY DEF connect, IInv, Linked
  <2> QED BY <2>1 DEF connect, IInv, Typed, ClientTypes
<1> QED BY <1>1, <1>2, UnmovedOnce

\* Steps of the server that concern no request.
LEMMA ServerOnce ==
  ASSUME IInv, OnceInv,
         \/ \E c \in Session : create_edge_connection(c)
         \/ \E d \in dispatching : report_dispatch(d)
         \/ \E e \in offlines : propose_offline(e) \/ lose_offline(e)
         \/ UNCHANGED vars
  PROVE  OnceInv' /\ NoCall
<1>1. UNCHANGED <<call, request_rx, up, down, handlers, tx_on>>
  BY DEF create_edge_connection, report_dispatch, propose_offline, lose_offline, vars,
         client_vars, wire_vars
<1> QED BY <1>1, UnmovedOnce

\* A link that is lost loses requests and responses.
LEMMA CutOnce ==
  ASSUME IInv, OnceInv, NEW c \in Session, cut(c)
  PROVE  OnceInv' /\ NoCall
<1>1. UNCHANGED <<call, request_rx, handlers, tx_on>> BY DEF cut, client_vars
<1>2. PICK i \in 0 .. Len(up[c]), j \in 0 .. Len(down[c]) :
        /\ up' = [up EXCEPT ![c] = SubSeq(@, 1, i)]
        /\ down' = [down EXCEPT ![c] = SubSeq(@, 1, j)]
  BY DEF cut
<1>3. up[c] \in Seq(SeqId) /\ down[c] \in Seq(EdgeResponse \cup EdgePush)
  BY DEF IInv, Typed, WireTypes
<1>4. \A b \in Session : IsInjective(request_rx[b]) /\ IsInjective(up[b]) BY DEF OnceInv, InOnePlace
<1>5. IsInjective(SubSeq(up[c], 1, i)) /\ ToSet(SubSeq(up[c], 1, i)) \subseteq ToSet(up[c])
  BY <1>3, <1>4, PrefixInjective
<1>6. \A b \in Session : up'[b] = IF b = c THEN SubSeq(up[c], 1, i) ELSE up[b]
  BY <1>2 DEF IInv, Typed, WireTypes
<1>7. InOnePlace' /\ NoneBegun
  <2>1. \A b \in Session : IsInjective(up'[b]) /\ ToSet(up'[b]) \subseteq ToSet(up[b])
    BY <1>4, <1>5, <1>6
  <2> QED BY <1>1, <1>4, <2>1, ChannelsShrink DEF IInv, OnceInv
<1>8. ResponsesKept
  <2>1. \A k \in DOMAIN SubSeq(down[c], 1, j) : /\ k \in DOMAIN down[c]
                                                /\ SubSeq(down[c], 1, j)[k] = down[c][k]
    BY <1>3, Prefix
  <2>2. \A b \in Session : down'[b] = IF b = c THEN SubSeq(down[c], 1, j) ELSE down[b]
    BY <1>2 DEF IInv, Typed, WireTypes
  <2> QED BY <2>1, <2>2 DEF ResponsesKept
<1>9. /\ EndedCalls' /\ SameCalls /\ AnswersKept
      /\ \A b \in Session : DOMAIN call'[b] = DOMAIN call[b]
  BY <1>1, CallsUntouched
<1>10. RepliedOnce' BY <1>7, <1>8, <1>9, RepliesKept, RepliesStay DEF OnceInv
<1> QED BY <1>7, <1>9, <1>10 DEF OnceInv, NoCall

\* A connection that ends loses the requests that were not read.
LEMMA EndConnectionOnce ==
  ASSUME IInv, OnceInv, NEW c \in Session, end_connection(c)
  PROVE  OnceInv' /\ NoCall
<1>1. UNCHANGED <<call, request_rx, handlers, tx_on, down>> BY DEF end_connection, client_vars
<1>2. \A b \in Session : up'[b] = IF b = c THEN <<>> ELSE up[b]
  BY DEF end_connection, IInv, Typed, WireTypes
<1>3. IsInjective(<<>>) /\ ToSet(<<>>) = {} BY DEF IsInjective, ToSet
<1>4. \A b \in Session : IsInjective(request_rx[b]) /\ IsInjective(up[b]) BY DEF OnceInv, InOnePlace
<1>5. InOnePlace' /\ NoneBegun
  <2>1. \A b \in Session : IsInjective(up'[b]) /\ ToSet(up'[b]) \subseteq ToSet(up[b])
    BY <1>2, <1>3, <1>4
  <2> QED BY <1>1, <1>4, <2>1, ChannelsShrink DEF IInv, OnceInv
<1>6. ResponsesKept BY <1>1 DEF ResponsesKept
<1>7. /\ EndedCalls' /\ SameCalls /\ AnswersKept
      /\ \A b \in Session : DOMAIN call'[b] = DOMAIN call[b]
  BY <1>1, CallsUntouched
<1>8. RepliedOnce' BY <1>5, <1>6, <1>7, RepliesKept, RepliesStay DEF OnceInv
<1> QED BY <1>5, <1>7, <1>8 DEF OnceInv, NoCall

\* A client that is dropped sends no more requests.
LEMMA DropNodeOnce ==
  ASSUME IInv, OnceInv, NEW c \in Session,
         drop_node(c) \/ rx_cancelled(c) \/ \E e \in Endpoint : drop_orphan(c, e)
  PROVE  OnceInv' /\ NoCall
<1>1. UNCHANGED <<call, request_rx, up, down, handlers>>
  BY DEF drop_node, rx_cancelled, drop_orphan, wire_vars
<1>2. \A b \in Session : tx_on'[b] => tx_on[b]
  BY DEF drop_node, rx_cancelled, drop_orphan, IInv, Typed, ClientTypes
<1> QED BY <1>1, <1>2, UnmovedOnce

\* A socket that is closed loses the responses that were not read.
LEMMA RxCloseOnce ==
  ASSUME IInv, OnceInv, NEW c \in Session, rx_close(c)
  PROVE  OnceInv' /\ NoCall
<1>1. UNCHANGED <<call, request_rx, up, handlers, tx_on>> BY DEF rx_close, client_vars
<1>2. \A b \in Session : tx_on'[b] => tx_on[b] BY <1>1
<1>3. \A b \in Session : down'[b] = IF b = c THEN <<>> ELSE down[b]
  BY DEF rx_close, IInv, Typed, WireTypes
<1>4. ResponsesKept BY <1>3 DEF ResponsesKept
<1>5. InOnePlace' /\ NoneBegun BY <1>1, PlacesRest DEF IInv, OnceInv
<1>6. /\ EndedCalls' /\ SameCalls /\ AnswersKept
      /\ \A b \in Session : DOMAIN call'[b] = DOMAIN call[b]
  BY <1>1, <1>2, CallsUntouched
<1>7. RepliedOnce' BY <1>4, <1>5, <1>6, RepliesKept, RepliesStay DEF OnceInv
<1> QED BY <1>5, <1>6, <1>7 DEF OnceInv, NoCall

\* A push is no response.
LEMMA DispatchOnce ==
  ASSUME IInv, OnceInv, NEW d \in dispatching, dispatch_message(d)
  PROVE  OnceInv' /\ NoCall
<1>1. UNCHANGED <<call, request_rx, up, handlers, tx_on>> BY DEF dispatch_message, client_vars
<1>2. PICK p : p = [type |-> "Push", ep |-> d.ep, msg |-> d.msg] OBVIOUS
<1>3. ResponsesKept
  <2>1. ASSUME NEW c \in Session, down' = [down EXCEPT ![c] = Append(@, p)]
        PROVE  ResponsesKept
    <3>1. p.type # "Response" BY <1>2
    <3>2. PICK P : P = EdgeResponse \cup EdgePush \cup {p} OBVIOUS
    <3>3. down[c] \in Seq(P) /\ p \in P
      <4>1. down[c] \in Seq(EdgeResponse \cup EdgePush) BY DEF IInv, Typed, WireTypes
      <4>2. EdgeResponse \cup EdgePush \subseteq P /\ p \in P BY <3>2
      <4> QED BY <4>1, <4>2
    <3>4. PICK q : q = Append(down[c], p) OBVIOUS
    <3>5. /\ DOMAIN q = DOMAIN down[c] \cup {Len(down[c]) + 1}
          /\ \A i \in DOMAIN down[c] : q[i] = down[c][i]
          /\ q[Len(down[c]) + 1] = p
      BY <3>3, <3>4, AppendedSet
    <3>6. \A b \in Session : down'[b] = IF b = c THEN q ELSE down[b]
      BY <2>1, <3>4 DEF IInv, Typed, WireTypes
    <3> QED BY <3>1, <3>5, <3>6 DEF ResponsesKept
  <2>2. CASE down' = down BY <2>2 DEF ResponsesKept
  <2> QED BY <1>2, <2>1, <2>2, DispatchStep DEF IInv
<1>4. InOnePlace' /\ NoneBegun BY <1>1, PlacesRest DEF IInv, OnceInv
<1>5. /\ EndedCalls' /\ SameCalls /\ AnswersKept
      /\ \A b \in Session : DOMAIN call'[b] = DOMAIN call[b]
  BY <1>1, CallsUntouched
<1>6. RepliedOnce' BY <1>3, <1>4, <1>5, RepliesKept, RepliesStay DEF OnceInv
<1> QED BY <1>4, <1>5, <1>6 DEF OnceInv, NoCall

\* A caller that resumes changes no answer.
LEMMA ResumeOnce ==
  ASSUME IInv, OnceInv, NEW c \in Session, NEW s \in DOMAIN call[c], resume(c, s)
  PROVE  OnceInv' /\ NoCall
<1>1. UNCHANGED <<request_rx, up, down, handlers, tx_on>> BY DEF resume, wire_vars
<1>2. \A b \in Session :
        /\ DOMAIN call'[b] = DOMAIN call[b]
        /\ \A i \in DOMAIN call[b] : /\ call'[b][i].request = call[b][i].request
                                     /\ call'[b][i].response = call[b][i].response
  BY ResumeStep DEF IInv
<1>3. \A b \in Session : \A i \in DOMAIN call[b] :
        call'[b][i].state # "waiting" => call[b][i].state # "waiting"
  <2>1. call[c] \in Seq(Call) BY DEF IInv, Typed, ClientTypes
  <2>2. call[c][s].state # "waiting" BY DEF resume
  <2>3. call' = [call EXCEPT ![c][s].state = "returned"] BY DEF resume
  <2>4. \A b \in Session : \A i \in DOMAIN call[b] :
          b # c \/ i # s => call'[b][i] = call[b][i]
    BY <2>1, <2>3 DEF IInv, Typed, ClientTypes
  <2> QED BY <2>2, <2>4
<1>4. InOnePlace' /\ NoneBegun BY <1>1, PlacesRest DEF IInv, OnceInv
<1>5. SameCalls /\ AnswersKept BY <1>2 DEF SameCalls, AnswersKept
<1>6. ResponsesKept BY <1>1 DEF ResponsesKept
<1>7. RepliedOnce' BY <1>4, <1>5, <1>6, RepliesKept, RepliesStay DEF OnceInv
<1>8. EndedCalls' BY <1>1, <1>2, <1>3 DEF OnceInv, EndedCalls
<1> QED BY <1>2, <1>4, <1>5, <1>7, <1>8 DEF OnceInv, NoCall

\* A request goes from the channel to the socket.
LEMMA TxTaskOnce ==
  ASSUME IInv, OnceInv, NEW c \in Session, tx_task(c)
  PROVE  OnceInv' /\ NoCall
<1>1. UNCHANGED <<call, handlers, tx_on, down>> BY DEF tx_task
<1>2. PICK s : s = Head(request_rx[c]) OBVIOUS
<1>3. request_rx[c] \in Seq(SeqId) /\ request_rx[c] # <<>> /\ up[c] \in Seq(SeqId)
  BY DEF tx_task, IInv, Typed, ClientTypes, WireTypes
<1>4. /\ ToSet(request_rx[c]) = {s} \cup ToSet(Tail(request_rx[c]))
      /\ s \in SeqId
  BY <1>2, <1>3, HeadAndTail, Queued
<1>5. \A b \in Session : /\ IsInjective(request_rx[b]) /\ IsInjective(up[b])
                         /\ ToSet(request_rx[b]) \cap ToSet(up[b]) = {}
  BY DEF OnceInv, InOnePlace
<1>6. IsInjective(Tail(request_rx[c])) /\ s \notin ToSet(Tail(request_rx[c]))
  BY <1>2, <1>3, <1>5, TailInjective
<1>7. ToSet(Append(up[c], s)) = ToSet(up[c]) \cup {s} BY <1>3, <1>4, AppendedSet
<1>8. IsInjective(Append(up[c], s))
  <2>1. s \notin ToSet(up[c]) BY <1>4, <1>5
  <2> QED BY <1>3, <1>4, <1>5, <2>1, GrownInjective
<1>9. \A b \in Session :
        /\ request_rx'[b] = IF b = c THEN Tail(request_rx[c]) ELSE request_rx[b]
        /\ up'[b] = IF b = c /\ link[c] = "up" THEN Append(up[c], s) ELSE up[b]
  BY <1>2 DEF tx_task, IInv, Typed, ClientTypes, WireTypes
<1>10. \A b \in Session :
         /\ IsInjective(request_rx'[b]) /\ IsInjective(up'[b])
         /\ ToSet(request_rx'[b]) \cap ToSet(up'[b]) = {}
         /\ ToSet(request_rx'[b]) \cup ToSet(up'[b]) \subseteq ToSet(request_rx[b]) \cup ToSet(up[b])
  <2> TAKE b \in Session
  <2>1. CASE b # c BY <2>1, <1>5, <1>9
  <2>2. CASE b = c BY <2>2, <1>4, <1>5, <1>6, <1>7, <1>8, <1>9
  <2> QED BY <2>1, <2>2
<1>11. InOnePlace'
  <2>1. \A h \in handlers : h.conn \in Session BY DEF IInv, Typed, HandlerTypes, Handler
  <2> QED BY <1>1, <1>10, <2>1 DEF OnceInv, InOnePlace
<1>12. NoneBegun BY <1>1, <1>10 DEF NoneBegun, underway
<1>13. /\ EndedCalls' /\ SameCalls /\ AnswersKept
       /\ \A b \in Session : DOMAIN call'[b] = DOMAIN call[b]
  BY <1>1, CallsUntouched
<1>14. ResponsesKept BY <1>1 DEF ResponsesKept
<1>15. RepliedOnce' BY <1>12, <1>13, <1>14, RepliesKept, RepliesStay DEF OnceInv
<1> QED BY <1>11, <1>12, <1>13, <1>15 DEF OnceInv, NoCall

\* Calls that end without a response, when the tx task has ended.
LEMMA DisconnectOnce ==
  ASSUME IInv, OnceInv, NEW c \in Session, NEW seqs, disconnect(c, seqs),
         seqs = {} \/ ~tx_on'[c], \A b \in Session : tx_on'[b] => tx_on[b]
  PROVE  EndedCalls' /\ SameCalls /\ AnswersKept
         /\ \A b \in Session : DOMAIN call'[b] = DOMAIN call[b]
<1>1. SameCalls /\ AnswersKept BY DisconnectStep
<1>2. Returned(c, seqs, Ended("Disconnected"))
  BY DisconnectedAnswer, ReturnedStep DEF disconnect, IInv, Typed
<1>3. \A b \in Session : DOMAIN call'[b] = DOMAIN call[b] BY <1>2 DEF Returned
<1>4. EndedCalls'
  <2> SUFFICES ASSUME NEW b \in Session, NEW s \in DOMAIN call'[b], call'[b][s].state # "waiting",
                      call'[b][s].response.type # "Response", tx_on'[b]
               PROVE  FALSE
    BY DEF EndedCalls
  <2>1. ~(b = c /\ s \in seqs) OBVIOUS
  <2>2. s \in DOMAIN call[b] BY <1>3
  <2>3. call'[b][s] = call[b][s] BY <1>2, <2>1, <2>2, Zenon DEF Returned
  <2> QED BY <2>2, <2>3 DEF OnceInv, EndedCalls
<1> QED BY <1>1, <1>3, <1>4

\* The tx task ends, and with it what is in the channel.
LEMMA TxFailOnce ==
  ASSUME IInv, OnceInv, NEW c \in Session, tx_fail(c)
  PROVE  OnceInv' /\ NoCall
<1>1. UNCHANGED <<up, down, handlers>> BY DEF tx_fail, wire_vars
<1>2. \A b \in Session : request_rx'[b] = IF b = c THEN <<>> ELSE request_rx[b]
  BY DEF tx_fail, IInv, Typed, ClientTypes
<1>3. ~tx_on'[c] /\ \A b \in Session : tx_on'[b] => tx_on[b]
  BY DEF tx_fail, IInv, Typed, ClientTypes
<1>4. PICK seqs : disconnect(c, seqs) BY DEF tx_fail
<1>5. /\ EndedCalls' /\ SameCalls /\ AnswersKept
      /\ \A b \in Session : DOMAIN call'[b] = DOMAIN call[b]
  BY <1>3, <1>4, DisconnectOnce
<1>6. InOnePlace' /\ NoneBegun
  <2>1. IsInjective(<<>>) /\ ToSet(<<>>) = {} BY DEF IsInjective, ToSet
  <2>2. \A b \in Session : IsInjective(request_rx[b]) /\ IsInjective(up[b])
    BY DEF OnceInv, InOnePlace
  <2>3. \A b \in Session : /\ IsInjective(request_rx'[b])
                           /\ ToSet(request_rx'[b]) \subseteq ToSet(request_rx[b])
    BY <1>2, <2>1, <2>2
  <2> QED BY <1>1, <2>2, <2>3, ChannelsShrink DEF IInv, OnceInv
<1>7. ResponsesKept BY <1>1 DEF ResponsesKept
<1>8. RepliedOnce' BY <1>5, <1>6, <1>7, RepliesKept, RepliesStay DEF OnceInv
<1> QED BY <1>5, <1>6, <1>8 DEF OnceInv, NoCall

\* The rx task ends: calls end when the tx task has.
LEMMA RxEndOnce ==
  ASSUME IInv, OnceInv, NEW c \in Session, rx_end(c)
  PROVE  OnceInv' /\ NoCall
<1>1. UNCHANGED <<up, down, handlers, request_rx, tx_on>> BY DEF rx_end, wire_vars
<1>2. PICK seqs : disconnect(c, seqs) /\ (seqs = {} \/ ~tx_on[c]) BY DEF rx_end
<1>3. /\ EndedCalls' /\ SameCalls /\ AnswersKept
      /\ \A b \in Session : DOMAIN call'[b] = DOMAIN call[b]
  BY <1>1, <1>2, DisconnectOnce
<1>4. InOnePlace' /\ NoneBegun BY <1>1, PlacesRest DEF IInv, OnceInv
<1>5. ResponsesKept BY <1>1 DEF ResponsesKept
<1>6. RepliedOnce' BY <1>3, <1>4, <1>5, RepliesKept, RepliesStay DEF OnceInv
<1> QED BY <1>3, <1>4, <1>6 DEF OnceInv, NoCall

\* A response is taken out of the socket, for its call or for nobody.
LEMMA RxTaskOnce ==
  ASSUME IInv, OnceInv, NEW c \in Session, rx_task(c)
  PROVE  OnceInv' /\ NoCall
<1>1. UNCHANGED <<request_rx, up, handlers, tx_on>> BY DEF rx_task
<1>2. down[c] \in Seq(EdgeResponse \cup EdgePush) /\ down[c] # <<>>
  BY DEF rx_task, IInv, Typed, WireTypes
<1>3. PICK packet : packet = Head(down[c]) OBVIOUS
<1>4. /\ packet \in EdgeResponse \cup EdgePush /\ packet = down[c][1] /\ 1 \in DOMAIN down[c]
      /\ \A i \in DOMAIN Tail(down[c]) : i + 1 \in DOMAIN down[c] /\ Tail(down[c])[i] = down[c][i + 1]
  BY <1>2, <1>3, Queued
<1>5. \A b \in Session : down'[b] = IF b = c THEN Tail(down[c]) ELSE down[b]
  BY DEF rx_task, IInv, Typed, WireTypes
<1>6. ResponsesKept
  <2> SUFFICES ASSUME NEW b \in Session, NEW i \in DOMAIN down'[b]
               PROVE  \E j \in DOMAIN down[b] : down'[b][i] = down[b][j]
    BY DEF ResponsesKept
  <2>1. CASE b = c
    <3>1. i + 1 \in DOMAIN down[c] /\ down'[b][i] = down[c][i + 1] BY <2>1, <1>4, <1>5
    <3> QED BY <2>1, <3>1
  <2>2. CASE b # c BY <2>2, <1>5
  <2> QED BY <2>1, <2>2
<1>7. InOnePlace' /\ NoneBegun BY <1>1, PlacesRest DEF IInv, OnceInv
<1>8. CASE packet.type = "Push"
  <2>1. call' = call BY <1>3, <1>8 DEF rx_task
  <2>2. /\ EndedCalls' /\ SameCalls /\ AnswersKept
        /\ \A b \in Session : DOMAIN call'[b] = DOMAIN call[b]
    BY <1>1, <2>1, CallsUntouched
  <2>3. RepliedOnce' BY <1>6, <1>7, <2>2, RepliesKept, RepliesStay DEF OnceInv
  <2> QED BY <1>7, <2>2, <2>3 DEF OnceInv, NoCall
<1>9. CASE packet.type = "Response"
  <2>1. PICK to : to = responder(c, packet) OBVIOUS
  <2>2. packet \in Answer BY <1>4, <1>9, PacketType
  <2>3. SameCalls /\ Returned(c, to, packet)
    <3>1. call' = [call EXCEPT ![c] = [s \in DOMAIN @ |->
                     IF s \in to THEN return(c, s, packet) ELSE @[s]]]
      BY <1>3, <1>9, <2>1 DEF rx_task
    <3> QED BY <2>2, <3>1, ReturnedStep DEF IInv, Typed
  <2>4. \A b \in Session : DOMAIN call'[b] = DOMAIN call[b] BY <2>3 DEF Returned
  <2>5. \A s \in to : s = packet.seq BY <2>1 DEF responder
  <2>6. NoneReplied
    <3> SUFFICES ASSUME NEW b \in Session, NEW s \in SeqId, replied(b, s)'
                 PROVE  replied(b, s)
      BY DEF NoneReplied
    <3>1. CASE \E i \in DOMAIN down'[b] : down'[b][i].type = "Response" /\ down'[b][i].seq = s
      BY <3>1, <1>6 DEF ResponsesKept, replied
    <3>2. CASE s \in DOMAIN call'[b] /\ call'[b][s].response.type = "Response"
      <4>1. CASE b = c /\ s \in to BY <4>1, <1>4, <1>9, <2>5 DEF replied
      <4>2. CASE ~(b = c /\ s \in to)
        <5>1. s \in DOMAIN call[b] BY <3>2, <2>4
        <5>2. call'[b][s] = call[b][s] BY <4>2, <5>1, <2>3, Zenon DEF Returned
        <5> QED BY <3>2, <5>1, <5>2 DEF replied
      <4> QED BY <4>1, <4>2
    <3> QED BY <3>1, <3>2 DEF replied
  <2>7. EndedCalls'
    <3> SUFFICES ASSUME NEW b \in Session, NEW s \in DOMAIN call'[b], call'[b][s].state # "waiting",
                        call'[b][s].response.type # "Response", tx_on[b]
                 PROVE  FALSE
      BY <1>1 DEF EndedCalls
    <3>1. s \in DOMAIN call[b] BY <2>4
    <3>2. ~(b = c /\ s \in to) BY <3>1, <1>9, <2>3 DEF Returned
    <3>3. call'[b][s] = call[b][s] BY <3>1, <3>2, <2>3, Zenon DEF Returned
    <3> QED BY <3>1, <3>3 DEF OnceInv, EndedCalls
  <2>8. RepliedOnce' BY <1>7, <2>6, RepliesStay DEF OnceInv
  <2> QED BY <1>7, <2>3, <2>4, <2>7, <2>8 DEF OnceInv, NoCall
<1> QED BY <1>3, <1>8, <1>9, Zenon DEF rx_task

\* A request goes from the socket to its handler.
LEMMA PacketInOnce ==
  ASSUME IInv, OnceInv, NEW c \in Session, packet_in(c)
  PROVE  OnceInv' /\ NoCall
<1>1. UNCHANGED <<call, request_rx, tx_on, down>> BY DEF packet_in, client_vars
<1>2. PICK s : s = Head(up[c]) OBVIOUS
<1>3. up[c] \in Seq(SeqId) /\ up[c] # <<>> BY DEF packet_in, IInv, Typed, WireTypes
<1>4. ToSet(up[c]) = {s} \cup ToSet(Tail(up[c])) BY <1>2, <1>3, HeadAndTail
<1>5. \A b \in Session : /\ IsInjective(request_rx[b]) /\ IsInjective(up[b])
                         /\ ToSet(request_rx[b]) \cap ToSet(up[b]) = {}
  BY DEF OnceInv, InOnePlace
<1>6. IsInjective(Tail(up[c])) /\ s \notin ToSet(Tail(up[c])) BY <1>2, <1>3, <1>5, TailInjective
<1>7. \A b \in Session : up'[b] = IF b = c THEN Tail(up[c]) ELSE up[b]
  BY DEF packet_in, IInv, Typed, WireTypes
<1>8. PICK h : h = [conn |-> c, seq |-> s, request |-> call[c][s].request, pc |-> "spawned"]
  OBVIOUS
<1>9. handlers' = handlers \cup {h} /\ h.conn = c /\ h.seq = s BY <1>2, <1>8 DEF packet_in
<1>10. \A b \in Session : /\ IsInjective(up'[b]) /\ ToSet(up'[b]) \subseteq ToSet(up[b])
                          /\ ToSet(request_rx[b]) \cap ToSet(up'[b]) = {}
  BY <1>4, <1>5, <1>6, <1>7
<1>11. s \notin ToSet(request_rx[c]) \cup ToSet(up'[c])
  <2>1. s \in ToSet(up[c]) /\ up'[c] = Tail(up[c]) BY <1>4, <1>7
  <2> QED BY <2>1, <1>5, <1>6
<1>12. \A g \in handlers : /\ g.conn \in Session
                           /\ g.seq \notin ToSet(request_rx[g.conn]) \cup ToSet(up[g.conn])
                           /\ \A f \in handlers : f.conn = g.conn /\ f.seq = g.seq => f = g
  BY DEF IInv, Typed, HandlerTypes, Handler, OnceInv, InOnePlace
<1>13. \A g \in handlers : ~(g.conn = c /\ g.seq = s) BY <1>4, <1>12
<1>14. InOnePlace'
  <2>1. \A g \in handlers' : g.seq \notin ToSet(request_rx[g.conn]) \cup ToSet(up'[g.conn])
    BY <1>9, <1>10, <1>11, <1>12
  <2>2. \A g, f \in handlers' : f.conn = g.conn /\ f.seq = g.seq => f = g
    BY <1>9, <1>12, <1>13
  <2> QED BY <1>1, <1>5, <1>10, <2>1, <2>2 DEF InOnePlace
<1>15. NoneBegun
  <2> SUFFICES ASSUME NEW b \in Session, NEW i \in SeqId, underway(b, i)'
               PROVE  underway(b, i)
    BY DEF NoneBegun
  <2>1. CASE i \in ToSet(request_rx'[b]) \/ i \in ToSet(up'[b]) BY <2>1, <1>1, <1>10 DEF underway
  <2>2. CASE \E g \in handlers' : g.conn = b /\ g.seq = i
    <3>1. PICK g \in handlers' : g.conn = b /\ g.seq = i BY <2>2
    <3> QED BY <3>1, <1>4, <1>9 DEF underway
  <2> QED BY <2>1, <2>2 DEF underway
<1>16. /\ EndedCalls' /\ SameCalls /\ AnswersKept
       /\ \A b \in Session : DOMAIN call'[b] = DOMAIN call[b]
  BY <1>1, CallsUntouched
<1>17. ResponsesKept BY <1>1 DEF ResponsesKept
<1>18. RepliedOnce' BY <1>15, <1>16, <1>17, RepliesKept, RepliesStay DEF OnceInv
<1> QED BY <1>14, <1>15, <1>16, <1>18 DEF OnceInv, NoCall

\* A handler goes on, for the same request.
LEMMA ToPcOnce ==
  ASSUME IInv, OnceInv, NEW h \in handlers, NEW pc \in {"spawned", "proposing", "applied"},
         to_pc(h, pc), UNCHANGED <<call, request_rx, tx_on, up, down>>
  PROVE  OnceInv' /\ NoCall
<1>1. PICK g \in Handler : /\ handlers' = (handlers \ {h}) \cup {g}
                           /\ g.conn = h.conn /\ g.seq = h.seq
  BY ToPcType DEF IInv
<1>2. \A f \in handlers : f.conn \in Session BY DEF IInv, Typed, HandlerTypes, Handler
<1>3. \A f, k \in handlers' : f.conn = k.conn /\ f.seq = k.seq => f = k
  BY <1>1 DEF OnceInv, InOnePlace
<1>4. \A f \in handlers' : /\ f.conn \in Session
                           /\ \E k \in handlers : f.conn = k.conn /\ f.seq = k.seq
  BY <1>1, <1>2
<1>5. \A c \in Session : IsInjective(request_rx[c]) /\ IsInjective(up[c]) BY DEF OnceInv, InOnePlace
<1>6. InOnePlace' /\ NoneBegun BY <1>3, <1>4, <1>5, PlacesShrink DEF OnceInv
<1>7. /\ EndedCalls' /\ SameCalls /\ AnswersKept
      /\ \A c \in Session : DOMAIN call'[c] = DOMAIN call[c]
  BY CallsUntouched
<1>8. ResponsesKept BY DEF ResponsesKept
<1>9. RepliedOnce' BY <1>6, <1>7, <1>8, RepliesKept, RepliesStay DEF OnceInv
<1> QED BY <1>6, <1>7, <1>9 DEF OnceInv, NoCall

\* A handler is done: its request is nowhere any more.
LEMMA ReplyOnce ==
  ASSUME IInv, OnceInv, NEW h \in handlers, NEW result, reply(h, result),
         UNCHANGED <<call, request_rx, tx_on, up>>
  PROVE  OnceInv' /\ NoCall
<1>1. h \in Handler /\ h.conn \in Session BY DEF IInv, Typed, HandlerTypes, Handler
<1>2. handlers' = handlers \ {h} BY DEF reply
<1>3. PICK p : p = [type |-> "Response", seq |-> h.seq, to |-> h.request, result |-> result]
  OBVIOUS
<1>4. PICK P : P = EdgeResponse \cup EdgePush \cup {p} OBVIOUS
<1>5. down[h.conn] \in Seq(P) /\ p \in P
  <2>1. down[h.conn] \in Seq(EdgeResponse \cup EdgePush) BY <1>1 DEF IInv, Typed, WireTypes
  <2>2. EdgeResponse \cup EdgePush \subseteq P /\ p \in P BY <1>4
  <2> HIDE DEF EdgeResponse, EdgePush
  <2> QED BY <2>1, <2>2
<1>6. PICK q : q = Append(down[h.conn], p) OBVIOUS
<1>7. /\ DOMAIN q = DOMAIN down[h.conn] \cup {Len(down[h.conn]) + 1}
      /\ \A i \in DOMAIN down[h.conn] : q[i] = down[h.conn][i]
      /\ q[Len(down[h.conn]) + 1] = p
  BY <1>5, <1>6, AppendedSet
<1>8. \A b \in Session : down'[b] = down[b] \/ (b = h.conn /\ down'[b] = q)
  BY <1>1, <1>3, <1>6 DEF reply, IInv, Typed, WireTypes
<1>9. \A f \in handlers : f.conn \in Session BY DEF IInv, Typed, HandlerTypes, Handler
<1>10. \A f, k \in handlers : f.conn = k.conn /\ f.seq = k.seq => f = k BY DEF OnceInv, InOnePlace
<1>11. \A c \in Session : IsInjective(request_rx[c]) /\ IsInjective(up[c]) BY DEF OnceInv, InOnePlace
<1>12. InOnePlace' /\ NoneBegun
  <2>1. \A f \in handlers' : /\ f.conn \in Session
                             /\ \E k \in handlers : f.conn = k.conn /\ f.seq = k.seq
    BY <1>2, <1>9
  <2>2. \A f, k \in handlers' : f.conn = k.conn /\ f.seq = k.seq => f = k BY <1>2, <1>10
  <2> QED BY <1>11, <2>1, <2>2, PlacesShrink DEF OnceInv
<1>13. ~underway(h.conn, h.seq)'
  <2>1. h.seq \notin ToSet(request_rx[h.conn]) /\ h.seq \notin ToSet(up[h.conn])
    BY DEF OnceInv, InOnePlace
  <2>2. \A f \in handlers' : ~(f.conn = h.conn /\ f.seq = h.seq) BY <1>2, <1>10
  <2> QED BY <2>1, <2>2 DEF underway
<1>14. RepliedOnce'
  <2> SUFFICES ASSUME NEW b \in Session, NEW s \in SeqId, replied(b, s)', underway(b, s)'
               PROVE  FALSE
    BY DEF RepliedOnce
  <2>1. underway(b, s) BY <1>12 DEF NoneBegun
  <2>2. ~replied(b, s) BY <2>1 DEF OnceInv, RepliedOnce
  <2>3. PICK i \in DOMAIN down'[b] : down'[b][i].type = "Response" /\ down'[b][i].seq = s
    BY <2>2 DEF replied
  <2>4. b = h.conn /\ down'[b][i] = p
    <3>1. CASE i \in DOMAIN down[b] /\ down'[b][i] = down[b][i] BY <3>1, <2>2, <2>3 DEF replied
    <3> QED BY <3>1, <1>7, <1>8
  <2>5. s = h.seq BY <2>3, <2>4, <1>3
  <2> QED BY <2>4, <2>5, <1>13
<1>15. /\ EndedCalls' /\ SameCalls /\ AnswersKept
       /\ \A c \in Session : DOMAIN call'[c] = DOMAIN call[c]
  BY CallsUntouched
<1> QED BY <1>12, <1>14, <1>15 DEF OnceInv, NoCall

\* handle_edge_request up to its end.
LEMMA HandlerOnce ==
  ASSUME IInv, OnceInv, NEW h \in handlers,
         start_request(h) \/ apply_request(h) \/ finish_request(h) \/ fail_request(h)
  PROVE  OnceInv' /\ NoCall
<1>1. UNCHANGED <<call, request_rx, tx_on, up>>
  BY DEF start_request, apply_request, finish_request, fail_request, client_vars, wire_vars
<1>2. CASE start_request(h)
  <2>1. CASE to_pc(h, "proposing") /\ down' = down BY <2>1, <1>1, ToPcOnce
  <2>2. CASE reply(h, checked(h)) BY <2>2, <1>1, ReplyOnce
  <2> QED BY <1>2, <2>1, <2>2 DEF start_request
<1>3. CASE apply_request(h)
  <2>1. to_pc(h, "applied") /\ down' = down BY <1>3 DEF apply_request, wire_vars
  <2> QED BY <2>1, <1>1, ToPcOnce
<1>4. CASE finish_request(h)
  <2>1. PICK result : reply(h, result) BY <1>4 DEF finish_request
  <2> QED BY <2>1, <1>1, ReplyOnce
<1>5. CASE fail_request(h)
  <2>1. reply(h, "Internal") BY <1>5 DEF fail_request
  <2> QED BY <2>1, <1>1, ReplyOnce
<1> QED BY <1>2, <1>3, <1>4, <1>5

\* Request s of c is sent.
Sends(c, s, request) ==
  /\ s \in SeqId /\ s \notin DOMAIN call[c]
  /\ \A b \in Session : \A i : i \in DOMAIN call'[b] <=> i \in DOMAIN call[b] \/ (b = c /\ i = s)
  /\ \A b \in Session : \A i \in DOMAIN call[b] : call'[b][i] = call[b][i]
  /\ call'[c][s].request = request
  /\ ~underway(c, s)
  /\ \A b \in Session : \A i \in SeqId :
       underway(b, i)' => underway(b, i) \/ (b = c /\ i = s /\ tx_on[c])

\* A request that is sent is new.
LEMMA SendOnce ==
  ASSUME IInv, OnceInv, NEW c \in Session, NEW request \in EdgeRequest, send_request(c, request)
  PROVE  OnceInv' /\ \E s : Sends(c, s, request)
<1>1. UNCHANGED <<tx_on, up, down, handlers>> BY DEF send_request, wire_vars
<1>2. PICK r \in Call :
        /\ call' = [call EXCEPT ![c] = Append(@, r)]
        /\ r.request = request /\ r.response.type # "Response"
        /\ r.state = "waiting" => tx_on[c]
  BY SendStep DEF IInv
<1>3. PICK s : s = Len(call[c]) + 1 OBVIOUS
<1>4. call[c] \in Seq(Call) /\ Len(call[c]) \in Nat BY DEF IInv, Typed, ClientTypes
<1>5. \A b \in Session : call'[b] = IF b = c THEN Append(call[c], r) ELSE call[b]
  BY <1>2 DEF IInv, Typed, ClientTypes
<1>6. /\ DOMAIN Append(call[c], r) = DOMAIN call[c] \cup {s} /\ s \notin DOMAIN call[c]
      /\ Append(call[c], r)[s] = r
      /\ \A i \in DOMAIN call[c] : Append(call[c], r)[i] = call[c][i]
  BY <1>3, <1>4
<1>7. s \in SeqId
  <2>1. s \in 1 .. MaxCalls[c] BY <1>3, <1>4, CallNumbers DEF send_request
  <2> QED BY <2>1, CallNumbers
<1>8. request_rx[c] \in Seq(SeqId) BY DEF IInv, Typed, ClientTypes
<1>9. \A b \in Session : request_rx'[b] =
        IF b = c /\ tx_on[c] THEN Append(request_rx[c], s) ELSE request_rx[b]
  BY <1>3 DEF send_request, IInv, Typed, ClientTypes
<1>10. ToSet(Append(request_rx[c], s)) = ToSet(request_rx[c]) \cup {s} BY <1>7, <1>8, AppendedSet
<1>11. \A b \in Session : ToSet(request_rx[b]) \cup ToSet(up[b]) \subseteq DOMAIN call[b]
  BY DEF IInv, NumbersKnown, ToSet
<1>12. \A h \in handlers : h.conn \in Session /\ h.seq \in DOMAIN call[h.conn]
  BY DEF IInv, HandlersOwn, Typed, HandlerTypes, Handler
<1>13. ~underway(c, s) BY <1>6, <1>11, <1>12 DEF underway
<1>14. ~replied(c, s)
  <2>1. \A i \in DOMAIN down[c] : down[c][i].type = "Response" => down[c][i].seq \in DOMAIN call[c]
    BY DEF IInv, ResponsesOwn
  <2> QED BY <1>6, <2>1 DEF replied
<1>15. \A b \in Session : \A i \in SeqId :
         underway(b, i)' => underway(b, i) \/ (b = c /\ i = s /\ tx_on[c])
  BY <1>1, <1>9, <1>10 DEF underway
<1>16. Sends(c, s, request)
  <2>1. \A b \in Session : \A i : i \in DOMAIN call'[b] <=> i \in DOMAIN call[b] \/ (b = c /\ i = s)
    BY <1>5, <1>6
  <2>2. \A b \in Session : \A i \in DOMAIN call[b] : call'[b][i] = call[b][i] BY <1>5, <1>6
  <2>3. call'[c][s].request = request BY <1>2, <1>5, <1>6
  <2> QED BY <1>6, <1>7, <1>13, <1>15, <2>1, <2>2, <2>3 DEF Sends
<1>17. \A b \in Session : /\ IsInjective(request_rx[b]) /\ IsInjective(up[b])
                          /\ ToSet(request_rx[b]) \cap ToSet(up[b]) = {}
  BY DEF OnceInv, InOnePlace
<1>18. s \notin ToSet(request_rx[c]) /\ s \notin ToSet(up[c]) BY <1>13 DEF underway
<1>19. IsInjective(Append(request_rx[c], s)) BY <1>7, <1>8, <1>17, <1>18, GrownInjective
<1>20. InOnePlace'
  <2>1. \A b \in Session : /\ IsInjective(request_rx'[b])
                           /\ ToSet(request_rx'[b]) \cap ToSet(up[b]) = {}
    BY <1>9, <1>10, <1>17, <1>18, <1>19
  <2>2. \A h \in handlers : h.seq \notin ToSet(request_rx'[h.conn]) \cup ToSet(up[h.conn])
    <3>1. \A h \in handlers : h.seq \notin ToSet(request_rx[h.conn]) \cup ToSet(up[h.conn])
      BY DEF OnceInv, InOnePlace
    <3>2. \A h \in handlers : ~(h.conn = c /\ h.seq = s) BY <1>6, <1>12
    <3> QED BY <1>9, <1>10, <1>12, <3>1, <3>2
  <2> QED BY <1>1, <1>17, <2>1, <2>2 DEF OnceInv, InOnePlace
<1>21. RepliedOnce'
  <2> SUFFICES ASSUME NEW b \in Session, NEW i \in SeqId, replied(b, i)', underway(b, i)'
               PROVE  FALSE
    BY DEF RepliedOnce
  <2>1. replied(b, i)
    <3>1. CASE \E j \in DOMAIN down'[b] : down'[b][j].type = "Response" /\ down'[b][j].seq = i
      BY <3>1, <1>1 DEF replied
    <3>2. CASE i \in DOMAIN call'[b] /\ call'[b][i].response.type = "Response"
      <4>1. ~(b = c /\ i = s) BY <3>2, <1>2, <1>5, <1>6
      <4>2. i \in DOMAIN call[b] /\ call'[b][i] = call[b][i] BY <3>2, <4>1, <1>5, <1>6
      <4> QED BY <3>2, <4>2 DEF replied
    <3> QED BY <3>1, <3>2 DEF replied
  <2>2. ~underway(b, i) BY <2>1 DEF OnceInv, RepliedOnce
  <2> QED BY <1>14, <1>15, <2>1, <2>2
<1>22. EndedCalls'
  <2> SUFFICES ASSUME NEW b \in Session, NEW i \in DOMAIN call'[b], call'[b][i].state # "waiting",
                      call'[b][i].response.type # "Response", tx_on[b]
               PROVE  FALSE
    BY <1>1 DEF EndedCalls
  <2>1. ~(b = c /\ i = s)
    <3>1. ASSUME b = c, i = s PROVE FALSE
      <4>1. link[c] # "off" /\ call' = [call EXCEPT ![c] = Append(@,
              [request |-> request, state |-> "waiting", response |-> Ended("None")])]
        BY <3>1 DEF send_request
      <4>2. call'[c] = Append(call[c],
              [request |-> request, state |-> "waiting", response |-> Ended("None")])
        BY <4>1 DEF IInv, Typed, ClientTypes
      <4>3. call'[c][s].state = "waiting" BY <1>3, <1>4, <4>2
      <4> QED BY <3>1, <4>3
    <3> QED BY <3>1
  <2>2. i \in DOMAIN call[b] /\ call'[b][i] = call[b][i] BY <2>1, <1>5, <1>6
  <2> QED BY <2>2 DEF OnceInv, EndedCalls
<1> QED BY <1>16, <1>20, <1>21, <1>22 DEF OnceInv

-----------------------------------------------------------------------------
(* The calls about an endpoint. *)

\* Call s of c is a request of that type for endpoint e.
asks(c, s, type, e) ==
  /\ s \in DOMAIN call[c]
  /\ call[c][s].request.type = type
  /\ call[c][s].request.ep = e

\* An endpoint is created by one call.
OnlineOnce ==
  \A b, c \in Session, r, s \in SeqId, e \in Endpoint :
    asks(b, r, "EndpointOnline", e) /\ asks(c, s, "EndpointOnline", e) => b = c /\ r = s

\* Only a client that has the endpoint asks for it: its creation is over.
OwnedCalls ==
  \A c \in Session, s \in SeqId, e \in Endpoint :
    asks(c, s, "EndpointInterest", e) \/ asks(c, s, "EndpointOffline", e) =>
      \E r \in SeqId : asks(c, r, "EndpointOnline", e) /\ ~underway(c, r)

\* An endpoint that was asked offline is dropped, and by then its last update of
\* interests is over.
OfflineLast ==
  \A c \in Session, s \in SeqId, e \in Endpoint :
    asks(c, s, "EndpointOffline", e) =>
      /\ e \in dropped
      /\ underway(c, s) => \A b \in Session, r \in SeqId :
                             asks(b, r, "EndpointInterest", e) => ~underway(b, r)

EndpointCalls == OnlineOnce /\ OwnedCalls /\ OfflineLast

\* A step that sends no request.
LEMMA EndpointCallsStay ==
  ASSUME EndpointCalls, NoCall, dropped \subseteq dropped'
  PROVE  EndpointCalls'
<1>1. \A type : \A c \in Session, s \in SeqId, e \in Endpoint :
        asks(c, s, type, e)' <=> asks(c, s, type, e)
  BY DEF NoCall, SameCalls, asks
<1>2. \A c \in Session, s \in SeqId : underway(c, s)' => underway(c, s)
  BY DEF NoCall, NoneBegun
<1>3. OnlineOnce' BY <1>1 DEF EndpointCalls, OnlineOnce
<1>4. OwnedCalls' BY <1>1, <1>2 DEF EndpointCalls, OwnedCalls
<1>5. OfflineLast' BY <1>1, <1>2 DEF EndpointCalls, OfflineLast
<1> QED BY <1>3, <1>4, <1>5 DEF EndpointCalls

\* A call is one of the calls of its type.
LEMMA CallListed ==
  ASSUME Typed, NEW c \in Session, NEW s \in DOMAIN call[c]
  PROVE  /\ s \in SeqId
         /\ <<c, s>> \in calls_of(call[c][s].request.type)
         /\ request_of(<<c, s>>) = call[c][s].request
<1>1. s \in SeqId
  <2>1. call[c] \in Seq(Call) /\ Len(call[c]) <= MaxCalls[c] BY DEF Typed, ClientTypes
  <2>2. s \in 1 .. MaxCalls[c] BY <2>1, CallNumbers
  <2> QED BY <2>2, CallNumbers
<1> QED BY <1>1 DEF calls_of, request_of

\* A client has the endpoints whose creation was answered.
LEMMA EndpointHad ==
  ASSUME NEW c \in Session, NEW e \in endpoints_of(c)
  PROVE  \E r \in SeqId : /\ asks(c, r, "EndpointOnline", e)
                          /\ call[c][r].response.type = "Response"
<1>1. PICK k \in calls_of("EndpointOnline") :
        k[1] = c /\ call[k[1]][k[2]].response.type = "Response" /\ request_of(k).ep = e
  BY DEF endpoints_of
<1>2. /\ k[2] \in SeqId /\ k[2] \in DOMAIN call[c]
      /\ call[c][k[2]].request.type = "EndpointOnline"
  BY <1>1 DEF calls_of
<1>3. call[c][k[2]].response.type = "Response" /\ call[c][k[2]].request.ep = e
  BY <1>1 DEF request_of
<1> QED BY <1>2, <1>3 DEF asks

\* The endpoints of a client were created by calls that are over.
LEMMA EndpointCreated ==
  ASSUME OnceInv, NEW c \in Session, NEW e \in endpoints_of(c)
  PROVE  \E r \in SeqId : asks(c, r, "EndpointOnline", e) /\ ~underway(c, r)
<1>1. PICK r \in SeqId : /\ asks(c, r, "EndpointOnline", e)
                         /\ call[c][r].response.type = "Response"
  BY EndpointHad
<1>2. replied(c, r) BY <1>1 DEF replied, asks
<1>3. ~underway(c, r) BY <1>2 DEF OnceInv, RepliedOnce
<1> QED BY <1>1, <1>3

\* What calls ask for after a request is sent.
LEMMA AsksSent ==
  ASSUME NEW c \in Session, NEW s, NEW request, Sends(c, s, request)
  PROVE  \A type : \A b \in Session, i \in SeqId, e \in Endpoint :
           asks(b, i, type, e)' <=>
             asks(b, i, type, e) \/ (b = c /\ i = s /\ request.type = type /\ request.ep = e)
BY DEF Sends, asks

\* Requests that bring in no endpoint, update no interests and drop none.
LEMMA OtherSent ==
  ASSUME EndpointCalls, NEW c \in Session, NEW s, NEW request, Sends(c, s, request),
         request.type \notin {"EndpointOnline", "EndpointInterest", "EndpointOffline"},
         dropped' = dropped
  PROVE  EndpointCalls'
<1>1. \A type \in {"EndpointOnline", "EndpointInterest", "EndpointOffline"} :
        \A b \in Session, i \in SeqId, e \in Endpoint :
          asks(b, i, type, e)' <=> asks(b, i, type, e)
  BY AsksSent
<1>2. \A type : \A b \in Session, i \in SeqId, e \in Endpoint :
        asks(b, i, type, e) => (underway(b, i)' => underway(b, i))
  BY DEF Sends, asks
<1>3. OnlineOnce' BY <1>1 DEF EndpointCalls, OnlineOnce
<1>4. OwnedCalls'
  <2> SUFFICES ASSUME NEW b \in Session, NEW i \in SeqId, NEW e \in Endpoint,
                      asks(b, i, "EndpointInterest", e)' \/ asks(b, i, "EndpointOffline", e)'
               PROVE  \E r \in SeqId : asks(b, r, "EndpointOnline", e)' /\ ~underway(b, r)'
    BY DEF OwnedCalls
  <2>1. PICK r \in SeqId : asks(b, r, "EndpointOnline", e) /\ ~underway(b, r)
    BY <1>1 DEF EndpointCalls, OwnedCalls
  <2> QED BY <2>1, <1>1, <1>2
<1>5. OfflineLast'
  <2> SUFFICES ASSUME NEW b \in Session, NEW i \in SeqId, NEW e \in Endpoint,
                      asks(b, i, "EndpointOffline", e)'
               PROVE  /\ e \in dropped
                      /\ underway(b, i)' => \A a \in Session, r \in SeqId :
                           asks(a, r, "EndpointInterest", e)' => ~underway(a, r)'
    BY DEF OfflineLast
  <2>1. asks(b, i, "EndpointOffline", e) BY <1>1
  <2>2. underway(b, i)' => underway(b, i) BY <2>1, <1>2
  <2> QED BY <2>1, <2>2, <1>1, <1>2 DEF EndpointCalls, OfflineLast
<1> QED BY <1>3, <1>4, <1>5 DEF EndpointCalls

\* A creation is the only one of its endpoint, and the first call about it.
LEMMA OnlineSent ==
  ASSUME Typed, EndpointCalls, NEW c \in Session, NEW s, NEW request, Sends(c, s, request),
         request.type = "EndpointOnline", NEW e \in Endpoint, request.ep = e,
         \A k \in calls_of("EndpointOnline") : request_of(k).ep # e, dropped' = dropped
  PROVE  EndpointCalls'
<1>1. \A b \in Session, i \in SeqId : ~asks(b, i, "EndpointOnline", e)
  <2> SUFFICES ASSUME NEW b \in Session, NEW i \in SeqId, asks(b, i, "EndpointOnline", e)
               PROVE  FALSE
    OBVIOUS
  <2>1. <<b, i>> \in calls_of("EndpointOnline") /\ request_of(<<b, i>>).ep = e
    BY CallListed DEF asks
  <2> QED BY <2>1
<1>2. \A b \in Session, i \in SeqId : /\ ~asks(b, i, "EndpointInterest", e)
                                      /\ ~asks(b, i, "EndpointOffline", e)
  BY <1>1 DEF EndpointCalls, OwnedCalls
<1>3. /\ \A b \in Session, i \in SeqId, f \in Endpoint : asks(b, i, "EndpointOnline", f)' <=>
           asks(b, i, "EndpointOnline", f) \/ (b = c /\ i = s /\ f = e)
      /\ \A b \in Session, i \in SeqId, f \in Endpoint :
           /\ asks(b, i, "EndpointInterest", f)' <=> asks(b, i, "EndpointInterest", f)
           /\ asks(b, i, "EndpointOffline", f)' <=> asks(b, i, "EndpointOffline", f)
  BY AsksSent
<1>4. \A type : \A b \in Session, i \in SeqId, f \in Endpoint :
        asks(b, i, type, f) => (underway(b, i)' => underway(b, i))
  BY DEF Sends, asks
<1>5. OnlineOnce' BY <1>1, <1>3 DEF EndpointCalls, OnlineOnce
<1>6. OwnedCalls'
  <2> SUFFICES ASSUME NEW b \in Session, NEW i \in SeqId, NEW f \in Endpoint,
                      asks(b, i, "EndpointInterest", f)' \/ asks(b, i, "EndpointOffline", f)'
               PROVE  \E r \in SeqId : asks(b, r, "EndpointOnline", f)' /\ ~underway(b, r)'
    BY DEF OwnedCalls
  <2>1. PICK r \in SeqId : asks(b, r, "EndpointOnline", f) /\ ~underway(b, r)
    BY <1>3 DEF EndpointCalls, OwnedCalls
  <2> QED BY <2>1, <1>3, <1>4
<1>7. OfflineLast'
  <2> SUFFICES ASSUME NEW b \in Session, NEW i \in SeqId, NEW f \in Endpoint,
                      asks(b, i, "EndpointOffline", f)'
               PROVE  /\ f \in dropped
                      /\ underway(b, i)' => \A a \in Session, r \in SeqId :
                           asks(a, r, "EndpointInterest", f)' => ~underway(a, r)'
    BY DEF OfflineLast
  <2>1. asks(b, i, "EndpointOffline", f) BY <1>3
  <2>2. underway(b, i)' => underway(b, i) BY <2>1, <1>4
  <2> QED BY <2>1, <2>2, <1>3, <1>4 DEF EndpointCalls, OfflineLast
<1> QED BY <1>5, <1>6, <1>7 DEF EndpointCalls

\* update_interests needs an endpoint that is not dropped, so nobody asked it offline.
LEMMA InterestSent ==
  ASSUME OnceInv, EndpointCalls, NEW c \in Session, NEW s, NEW request, Sends(c, s, request),
         request.type = "EndpointInterest", NEW e \in Endpoint, request.ep = e,
         e \in endpoints_of(c) \ dropped, dropped' = dropped
  PROVE  EndpointCalls'
<1>1. \A b \in Session, i \in SeqId : ~asks(b, i, "EndpointOffline", e)
  BY DEF EndpointCalls, OfflineLast
<1>2. /\ \A b \in Session, i \in SeqId, f \in Endpoint : asks(b, i, "EndpointInterest", f)' <=>
           asks(b, i, "EndpointInterest", f) \/ (b = c /\ i = s /\ f = e)
      /\ \A b \in Session, i \in SeqId, f \in Endpoint :
           /\ asks(b, i, "EndpointOnline", f)' <=> asks(b, i, "EndpointOnline", f)
           /\ asks(b, i, "EndpointOffline", f)' <=> asks(b, i, "EndpointOffline", f)
  BY AsksSent
<1>3. \A type : \A b \in Session, i \in SeqId, f \in Endpoint :
        asks(b, i, type, f) => (underway(b, i)' => underway(b, i))
  BY DEF Sends, asks
<1>4. OnlineOnce' BY <1>2 DEF EndpointCalls, OnlineOnce
<1>5. OwnedCalls'
  <2> SUFFICES ASSUME NEW b \in Session, NEW i \in SeqId, NEW f \in Endpoint,
                      asks(b, i, "EndpointInterest", f)' \/ asks(b, i, "EndpointOffline", f)'
               PROVE  \E r \in SeqId : asks(b, r, "EndpointOnline", f)' /\ ~underway(b, r)'
    BY DEF OwnedCalls
  <2>1. PICK r \in SeqId : asks(b, r, "EndpointOnline", f) /\ ~underway(b, r)
    <3>1. CASE asks(b, i, "EndpointInterest", f) \/ asks(b, i, "EndpointOffline", f)
      BY <3>1 DEF EndpointCalls, OwnedCalls
    <3>2. CASE b = c /\ f = e BY <3>2, EndpointCreated
    <3> QED BY <1>2, <3>1, <3>2
  <2> QED BY <2>1, <1>2, <1>3
<1>6. OfflineLast'
  <2> SUFFICES ASSUME NEW b \in Session, NEW i \in SeqId, NEW f \in Endpoint,
                      asks(b, i, "EndpointOffline", f)'
               PROVE  /\ f \in dropped
                      /\ underway(b, i)' => \A a \in Session, r \in SeqId :
                           asks(a, r, "EndpointInterest", f)' => ~underway(a, r)'
    BY DEF OfflineLast
  <2>1. asks(b, i, "EndpointOffline", f) /\ f # e BY <1>1, <1>2
  <2>2. underway(b, i)' => underway(b, i) BY <2>1, <1>3
  <2> QED BY <2>1, <2>2, <1>2, <1>3 DEF EndpointCalls, OfflineLast
<1> QED BY <1>4, <1>5, <1>6 DEF EndpointCalls

\* drop waits for update_interests, unless the tx task has ended and the request is
\* not sent.
LEMMA OfflineSent ==
  ASSUME Typed, OnceInv, EndpointCalls, NEW c \in Session, NEW s, NEW request,
         Sends(c, s, request), request.type = "EndpointOffline", NEW e \in Endpoint,
         request.ep = e, e \in endpoints_of(c), ~borrowed(e), dropped' = dropped \cup {e}
  PROVE  EndpointCalls'
<1>1. PICK q \in SeqId : asks(c, q, "EndpointOnline", e) /\ ~underway(c, q) BY EndpointCreated
<1>2. /\ \A b \in Session, i \in SeqId, f \in Endpoint : asks(b, i, "EndpointOffline", f)' <=>
           asks(b, i, "EndpointOffline", f) \/ (b = c /\ i = s /\ f = e)
      /\ \A b \in Session, i \in SeqId, f \in Endpoint :
           /\ asks(b, i, "EndpointOnline", f)' <=> asks(b, i, "EndpointOnline", f)
           /\ asks(b, i, "EndpointInterest", f)' <=> asks(b, i, "EndpointInterest", f)
  BY AsksSent
<1>3. \A type : \A b \in Session, i \in SeqId, f \in Endpoint :
        asks(b, i, type, f) => (underway(b, i)' => underway(b, i))
  BY DEF Sends, asks
<1>4. OnlineOnce' BY <1>2 DEF EndpointCalls, OnlineOnce
<1>5. OwnedCalls'
  <2> SUFFICES ASSUME NEW b \in Session, NEW i \in SeqId, NEW f \in Endpoint,
                      asks(b, i, "EndpointInterest", f)' \/ asks(b, i, "EndpointOffline", f)'
               PROVE  \E r \in SeqId : asks(b, r, "EndpointOnline", f)' /\ ~underway(b, r)'
    BY DEF OwnedCalls
  <2>1. PICK r \in SeqId : asks(b, r, "EndpointOnline", f) /\ ~underway(b, r)
    <3>1. CASE asks(b, i, "EndpointInterest", f) \/ asks(b, i, "EndpointOffline", f)
      BY <3>1 DEF EndpointCalls, OwnedCalls
    <3>2. CASE b = c /\ f = e BY <3>2, <1>1
    <3> QED BY <1>2, <3>1, <3>2
  <2> QED BY <2>1, <1>2, <1>3
<1>6. ASSUME NEW b \in Session, NEW r \in SeqId, asks(b, r, "EndpointInterest", e), tx_on[c]
      PROVE  ~underway(b, r)
  <2>1. b = c
    <3>1. PICK i \in SeqId : asks(b, i, "EndpointOnline", e)
      BY <1>6 DEF EndpointCalls, OwnedCalls
    <3> QED BY <3>1, <1>1 DEF EndpointCalls, OnlineOnce
  <2>2. call[b][r].state # "waiting"
    <3>1. <<b, r>> \in calls_of("EndpointInterest") /\ request_of(<<b, r>>).ep = e
      BY <1>6, CallListed DEF asks
    <3> QED BY <3>1 DEF borrowed
  <2>3. call[b][r].response.type = "Response"
    BY <1>6, <2>1, <2>2 DEF OnceInv, EndedCalls, asks
  <2>4. replied(b, r) BY <1>6, <2>3 DEF replied, asks
  <2> QED BY <2>4 DEF OnceInv, RepliedOnce
<1>7. OfflineLast'
  <2> SUFFICES ASSUME NEW b \in Session, NEW i \in SeqId, NEW f \in Endpoint,
                      asks(b, i, "EndpointOffline", f)'
               PROVE  /\ f \in dropped'
                      /\ underway(b, i)' => \A a \in Session, r \in SeqId :
                           asks(a, r, "EndpointInterest", f)' => ~underway(a, r)'
    BY DEF OfflineLast
  <2>1. CASE asks(b, i, "EndpointOffline", f)
    <3>1. underway(b, i)' => underway(b, i) BY <2>1, <1>3
    <3> QED BY <2>1, <3>1, <1>2, <1>3 DEF EndpointCalls, OfflineLast
  <2>2. CASE b = c /\ i = s /\ f = e
    <3>1. underway(b, i)' => tx_on[c] BY <2>2 DEF Sends
    <3> QED BY <2>2, <3>1, <1>2, <1>3, <1>6
  <2> QED BY <1>2, <2>1, <2>2
<1> QED BY <1>4, <1>5, <1>7 DEF EndpointCalls

-----------------------------------------------------------------------------
(* What requests do to the interests. *)

\* The interests are no part of the queue.
LEMMA InterestKept ==
  ASSUME NEW t \in Topic, NEW q
  PROVE  /\ [t EXCEPT !.queue = q].interest = t.interest
         /\ \A p : [[t EXCEPT !.queue = q] EXCEPT !.queue = p].interest = t.interest
BY DEF Topic

\* An operation leaves the interests it was given.
LEMMA OperatesInterest ==
  ASSUME NEW t, FiniteTopic(t), NEW r, NEW n \in Node, NEW routing, NEW interest, NEW st,
         NEW ms, NEW past, Operates(t, r, n, routing, interest, st, ms, past)
  PROVE  r.interest = interest
<1>1. PICK u : u = WithParts(t, routing, interest, st) OBVIOUS
<1>2. u \in Topic BY <1>1, StatusChange DEF Operates, SameQueue, FiniteTopic
<1>3. u.interest = interest
  <2>1. t \in Topic BY DEF FiniteTopic
  <2> QED BY <1>1, <2>1 DEF WithParts, Topic
<1>4. r = update_and_flush(u, n, ms, past) BY <1>1 DEF Operates
<1>5. PICK q : r = [u EXCEPT !.queue = q] BY <1>4 DEF update_and_flush
<1> QED BY <1>2, <1>3, <1>5, InterestKept

\* A message that is held changes no interests.
LEMMA HoldInterest ==
  ASSUME NEW t, FiniteTopic(t), NEW n, NEW m, NEW eps, NEW time, NEW past
  PROVE  hold(t, n, m, eps, time, past).interest = t.interest
<1>1. t \in Topic BY DEF FiniteTopic
<1>2. PICK q : q = push(t.queue, m, wait_ack(eps), time) OBVIOUS
<1>3. PICK p : hold(t, n, m, eps, time, past) = [[t EXCEPT !.queue = q] EXCEPT !.queue = p]
  BY <1>2 DEF hold, update_and_flush
<1> QED BY <1>1, <1>3, InterestKept

\* A message that is offered to the queue changes no interests.
LEMMA PutInQueueInterest ==
  ASSUME NEW t, FiniteTopic(t), NEW n, NEW m \in MessageId, NEW eps, NEW time, NEW past
  PROVE  put_in_queue(t, n, m, eps, time, past).interest = t.interest
<1>1. t \in Topic BY DEF FiniteTopic
<1>2. fail(t, m, "Overflow").interest = t.interest BY <1>1, InterestKept DEF fail
<1>3. PICK room : room = drop_old(t) OBVIOUS
<1>4. FiniteTopic(room) BY <1>3, DropOldType
<1>5. room.interest = t.interest
  <2>1. [t EXCEPT !.panic = TRUE].interest = t.interest BY <1>1 DEF Topic
  <2> QED BY <1>1, <1>3, <2>1, InterestKept DEF drop_old
<1>6. hold(room, n, m, eps, time, past).interest = t.interest BY <1>4, <1>5, HoldInterest
<1>7. hold(t, n, m, eps, time, past).interest = t.interest BY HoldInterest
<1> QED BY <1>2, <1>3, <1>5, <1>6, <1>7 DEF put_in_queue

\* apply_delegate_message changes no interests.
LEMMA NewMessageInterest ==
  ASSUME NEW t, FiniteTopic(t), NEW n, NEW m \in MessageId, NEW time, NEW past
  PROVE  hold_new_message(t, n, m, time, past).interest = t.interest
<1> DEFINE all == collect_addr_by_subjects(t, m)
<1>1. t \in Topic BY DEF FiniteTopic
<1>2. [t EXCEPT !.panic = TRUE].interest = t.interest BY <1>1 DEF Topic
<1>3. fail(t, m, "NoAvailableTarget").interest = t.interest BY <1>1, InterestKept DEF fail
<1>4. put_in_queue(t, n, m, all, time, past).interest = t.interest BY PutInQueueInterest
<1>5. put_in_queue(t, n, m, select_ep(m, all), time, past).interest = t.interest
  BY PutInQueueInterest
<1>6. Header[m].target_kind \in {"Durable", "Online", "Available", "Push"}
  BY HeaderAssumption DEF MessageHeader, MessageTargetKind
<1> HIDE DEF all
<1> QED BY <1>2, <1>3, <1>4, <1>5, <1>6 DEF hold_new_message, all

\* apply_set_state changes no interests.
LEMMA SetStateInterest ==
  ASSUME NEW t, FiniteTopic(t), NEW n \in Node, NEW m \in MessageId, NEW e \in Endpoint,
         NEW kind \in MessageStatusKind, NEW past
  PROVE  set_state(t, n, m, e, kind, past).interest = t.interest
<1>1. PICK r : r = set_state(t, n, m, e, kind, past) OBVIOUS
<1>2. Operates(t, r, n, t.routing, t.interest, acked_by(t.queue, m, e, kind), {m}, past)
  BY <1>1, SetStateOperates
<1> QED BY <1>1, <1>2, OperatesInterest

\* The interests after a request.
LEMMA OutcomeInterest ==
  ASSUME Typed, PeersKnown, NEW h \in handlers
  PROVE  /\ h.request.type \in {"SendMessage", "SetState"} =>
              outcome(h).interest = topic.interest
         /\ h.request.type = "EndpointOffline" =>
              outcome(h).interest = [topic.interest EXCEPT ![h.request.ep] = {}]
         /\ h.request.type \in {"EndpointOnline", "EndpointInterest"} =>
              \A f \in Endpoint : f # h.request.ep => outcome(h).interest[f] = topic.interest[f]
<1>1. h \in Handler BY DEF Typed, HandlerTypes
<1>2. h.request \in EdgeRequest /\ h.conn \in Session BY <1>1 DEF Handler
<1>3. peer[h.conn] \in Node BY <1>2, EdgeAssumption DEF PeersKnown
<1>4. Server \in Node BY EdgeAssumption
<1>5. FiniteTopic(topic) BY DEF Typed, TopicTypes
<1>6. topic.interest \in [Endpoint -> SUBSET Subject] BY <1>5 DEF FiniteTopic, Topic
<1> PICK r : r = h.request OBVIOUS
<1>7. /\ r.type \in {"SendMessage", "EndpointOnline", "EndpointOffline", "EndpointInterest",
                     "SetState"}
      /\ r.type # "SendMessage" => r.ep \in Endpoint
      /\ r.type \in {"SendMessage", "SetState"} => r.msg \in MessageId
      /\ r.type \in {"EndpointOnline", "EndpointInterest"} => r.interests \in SUBSET Subject
      /\ r.type = "SetState" => r.kind \in MessageStatusKind
  BY <1>2, RequestParts
<1>8. CASE r.type = "SendMessage"
  <2>1. outcome(h) = hold_new_message(topic, Server, r.msg, now, {}) BY <1>8 DEF outcome
  <2>2. outcome(h).interest = topic.interest BY <1>5, <1>7, <1>8, <2>1, NewMessageInterest
  <2> QED BY <2>2, <1>8
<1>9. CASE r.type = "EndpointOnline"
  <2>1. PICK ms : ms = {m \in durable_about(topic, topic.interest[r.ep] \cup r.interests) :
                          topic.queue.status[m][r.ep] = Absent} OBVIOUS
  <2>2. outcome(h) = ep_online(topic, Server, r.ep, r.interests, Server, {}) BY <1>9 DEF outcome
  <2>3. Operates(topic, outcome(h), Server, [topic.routing EXCEPT ![Server] = @ \cup {r.ep}],
                 [topic.interest EXCEPT ![r.ep] = @ \cup r.interests],
                 offered_to(topic.queue.status, r.ep, ms), ms, {})
    BY <1>4, <1>5, <1>7, <1>9, <2>1, <2>2, EpOnlineOperates
  <2>4. outcome(h).interest = [topic.interest EXCEPT ![r.ep] = @ \cup r.interests]
    BY <1>4, <1>5, <2>3, OperatesInterest
  <2> QED BY <2>4, <1>6, <1>9
<1>10. CASE r.type = "EndpointOffline"
  <2>1. PICK ms : ms = {m \in topic.queue.held : topic.queue.status[m][r.ep] # Absent} OBVIOUS
  <2>2. outcome(h) = ep_offline(topic, Server, peer[h.conn], r.ep, {}) BY <1>10 DEF outcome
  <2>3. Operates(topic, outcome(h), Server, [topic.routing EXCEPT ![peer[h.conn]] = @ \ {r.ep}],
                 [topic.interest EXCEPT ![r.ep] = {}],
                 lost_by(topic.queue.status, r.ep, ms), ms, {})
    BY <1>3, <1>4, <1>5, <1>7, <1>10, <2>1, <2>2, EpOfflineOperates
  <2>4. outcome(h).interest = [topic.interest EXCEPT ![r.ep] = {}]
    BY <1>4, <1>5, <2>3, OperatesInterest
  <2> QED BY <2>4, <1>10
<1>11. CASE r.type = "EndpointInterest"
  <2>1. PICK ms : ms = durable_about(topic, r.interests) OBVIOUS
  <2>2. outcome(h) = update_ep_interest(topic, Server, r.ep, r.interests, {}) BY <1>11 DEF outcome
  <2>3. Operates(topic, outcome(h), Server, topic.routing,
                 [topic.interest EXCEPT ![r.ep] = r.interests],
                 offered_to(topic.queue.status, r.ep, ms), ms, {})
    BY <1>4, <1>5, <1>7, <1>11, <2>1, <2>2, EpInterestOperates
  <2>4. outcome(h).interest = [topic.interest EXCEPT ![r.ep] = r.interests]
    BY <1>4, <1>5, <2>3, OperatesInterest
  <2> QED BY <2>4, <1>6, <1>11
<1>12. CASE r.type = "SetState"
  <2>1. outcome(h) = set_state(topic, Server, r.msg, r.ep, r.kind, {}) BY <1>12 DEF outcome
  <2>2. outcome(h).interest = topic.interest
    BY <1>4, <1>5, <1>7, <1>12, <2>1, SetStateInterest
  <2> QED BY <2>2, <1>12
<1> QED BY <1>7, <1>8, <1>9, <1>10, <1>11, <1>12

\* The effects of an entry are no interests.
LEMMA AppliedInterest ==
  ASSUME NEW t, FiniteTopic(t), NEW tasks, applied(t, tasks)
  PROVE  topic'.interest = t.interest
<1>1. t \in Topic BY DEF FiniteTopic
<1>2. topic' = [t EXCEPT !.queue.dispatch = {}, !.queue.acks = {}] BY DEF applied
<1> QED BY <1>1, <1>2 DEF Topic

-----------------------------------------------------------------------------
(* Endpoints whose session ends. *)

\* Something is there that will take e offline, or what will not was noticed.
Kept(e) ==
  \/ e \in stray
  \/ \E h \in handlers : h.pc = "applied" /\ e \in brings_in(h)
  \/ \E c \in owner(e) : task[c] = "running" /\ edge_routing[e] = peer[c]

\* An EndpointOffline of e was applied and not yet finished.
leaving(e) ==
  \E h \in handlers : /\ h.pc = "applied"
                      /\ h.request.type = "EndpointOffline" /\ h.request.ep = e

\* A route is kept; interests are kept or are being removed; and interests are not
\* kept only by a route that is about to be removed.
SweepInv ==
  \A e \in Endpoint :
    /\ edge_routing[e] # None => Kept(e)
    /\ topic.interest[e] # {} => e \in offlines \/ Kept(e)
    /\ topic.interest[e] # {} /\ leaving(e) => e \in offlines \cup stray

\* The owner of an endpoint made the call that created it.
LEMMA OwnerCalls ==
  ASSUME Typed, NEW e \in Endpoint, NEW c
  PROVE  c \in owner(e) <=> c \in Session /\ \E s \in SeqId : asks(c, s, "EndpointOnline", e)
<1>1. ASSUME c \in owner(e)
      PROVE  c \in Session /\ \E s \in SeqId : asks(c, s, "EndpointOnline", e)
  <2>1. PICK k \in calls_of("EndpointOnline") : request_of(k).ep = e /\ c = k[1]
    BY <1>1 DEF owner
  <2>2. /\ k[1] \in Session /\ k[2] \in SeqId /\ k[2] \in DOMAIN call[k[1]]
        /\ call[k[1]][k[2]].request.type = "EndpointOnline"
    BY DEF calls_of
  <2> QED BY <2>1, <2>2 DEF asks, request_of
<1>2. ASSUME c \in Session, NEW s \in SeqId, asks(c, s, "EndpointOnline", e)
      PROVE  c \in owner(e)
  <2>1. <<c, s>> \in calls_of("EndpointOnline") /\ request_of(<<c, s>>).ep = e
    BY <1>2, CallListed DEF asks
  <2>2. c = <<c, s>>[1] OBVIOUS
  <2> QED BY <2>1, <2>2 DEF owner
<1> QED BY <1>1, <1>2

\* Calls stay, and so do owners.
LEMMA OwnersStay ==
  ASSUME Typed, SameCalls, NEW e \in Endpoint, NEW c \in owner(e)
  PROVE  c \in Session /\ c \in owner(e)' /\ call[c] # <<>>
<1>1. PICK s \in SeqId : c \in Session /\ asks(c, s, "EndpointOnline", e) BY OwnerCalls
<1>2. asks(c, s, "EndpointOnline", e)' BY <1>1 DEF asks, SameCalls
<1>3. c \in owner(e)'
  <2>1. PICK k : k = <<c, s>> OBVIOUS
  <2>2. k \in Session \X SeqId /\ k[1] = c /\ k[2] = s BY <1>1, <2>1
  <2>3. k \in calls_of("EndpointOnline")' /\ request_of(k)'.ep = e
    BY <1>2, <2>2 DEF asks, calls_of, request_of
  <2> QED BY <2>2, <2>3 DEF owner
<1>4. call[c] # <<>> BY <1>1 DEF asks
<1> QED BY <1>1, <1>3, <1>4

\* What keeps e goes on keeping it.
LEMMA KeptStays ==
  ASSUME Typed, SameCalls, NEW e \in Endpoint, Kept(e), stray \subseteq stray',
         \A h \in handlers : h.pc = "applied" /\ e \in brings_in(h) => h \in handlers' \/ e \in stray',
         edge_routing'[e] = edge_routing[e],
         \A c \in Session : call[c] # <<>> => task'[c] = task[c] /\ peer'[c] = peer[c]
  PROVE  Kept(e)'
<1>1. CASE e \in stray BY <1>1 DEF Kept
<1>2. CASE \E h \in handlers : h.pc = "applied" /\ e \in brings_in(h)
  <2>1. PICK h \in handlers : h.pc = "applied" /\ e \in brings_in(h) BY <1>2
  <2>2. e \in brings_in(h)' BY <2>1 DEF brings_in
  <2> QED BY <2>1, <2>2 DEF Kept
<1>3. CASE \E c \in owner(e) : task[c] = "running" /\ edge_routing[e] = peer[c]
  <2>1. PICK c \in owner(e) : task[c] = "running" /\ edge_routing[e] = peer[c] BY <1>3
  <2>2. c \in Session /\ c \in owner(e)' /\ call[c] # <<>> BY OwnersStay
  <2> QED BY <2>1, <2>2 DEF Kept
<1> QED BY <1>1, <1>2, <1>3 DEF Kept

\* Steps that apply no entry, end no connection and finish no handler.
LEMMA SweepStays ==
  ASSUME Typed, SweepInv, SameCalls, UNCHANGED <<edge_routing, offlines, stray>>,
         topic'.interest = topic.interest,
         \A c \in Session : call[c] # <<>> => task'[c] = task[c] /\ peer'[c] = peer[c],
         \A h : h.pc = "applied" => (h \in handlers' <=> h \in handlers)
  PROVE  SweepInv'
<1> SUFFICES ASSUME NEW e \in Endpoint
             PROVE  /\ edge_routing[e] # None => Kept(e)'
                    /\ topic.interest[e] # {} => e \in offlines \/ Kept(e)'
                    /\ topic.interest[e] # {} /\ leaving(e)' => e \in offlines \cup stray
  BY DEF SweepInv
<1>1. Kept(e) => Kept(e)' BY KeptStays
<1>2. leaving(e)' => leaving(e) BY DEF leaving
<1> QED BY <1>1, <1>2 DEF SweepInv

\* A connection that ends sweeps what is routed to its peer, or leaves it stray.
LEMMA EndConnectionSweeps ==
  ASSUME IInv, SweepInv, NEW c \in Session, end_connection(c)
  PROVE  SweepInv'
<1>1. UNCHANGED <<call, peer, handlers, topic>> BY DEF end_connection, client_vars
<1>2. \A b \in Session : b # c => task'[b] = task[b]
  BY DEF end_connection, IInv, Typed, ConnTypes
<1>3. /\ offlines \subseteq offlines' /\ stray \subseteq stray'
      /\ \A e \in Endpoint : edge_routing'[e] = peer[c] => e \in stray'
  BY DEF end_connection, remove_edge_connection
<1>4. \A e \in Endpoint : \/ edge_routing'[e] = edge_routing[e]
                          \/ edge_routing'[e] = None /\ e \in offlines'
  BY DEF end_connection, remove_edge_connection
<1>5. SameCalls BY <1>1, CallsRest
<1>6. ASSUME NEW e \in Endpoint, edge_routing'[e] = edge_routing[e], Kept(e)
      PROVE  Kept(e)'
  <2>1. CASE e \in stray BY <2>1, <1>3 DEF Kept
  <2>2. CASE \E h \in handlers : h.pc = "applied" /\ e \in brings_in(h)
    <3>1. PICK h \in handlers : h.pc = "applied" /\ e \in brings_in(h) BY <2>2
    <3>2. e \in brings_in(h)' BY <3>1 DEF brings_in
    <3> QED BY <3>1, <3>2, <1>1 DEF Kept
  <2>3. CASE \E b \in owner(e) : task[b] = "running" /\ edge_routing[e] = peer[b]
    <3>1. PICK b \in owner(e) : task[b] = "running" /\ edge_routing[e] = peer[b] BY <2>3
    <3>2. b \in Session /\ b \in owner(e)' BY <1>5, OwnersStay DEF IInv
    <3>3. CASE b = c BY <3>1, <3>3, <1>3, <1>6 DEF Kept
    <3>4. CASE b # c BY <3>1, <3>2, <3>4, <1>1, <1>2, <1>6 DEF Kept
    <3> QED BY <3>3, <3>4
  <2> QED BY <1>6, <2>1, <2>2, <2>3 DEF Kept
<1> SUFFICES ASSUME NEW e \in Endpoint
             PROVE  /\ edge_routing'[e] # None => Kept(e)'
                    /\ topic.interest[e] # {} => e \in offlines' \/ Kept(e)'
                    /\ topic.interest[e] # {} /\ leaving(e)' => e \in offlines' \cup stray'
  BY <1>1 DEF SweepInv
<1>7. leaving(e)' => leaving(e) BY <1>1 DEF leaving
<1> QED BY <1>3, <1>4, <1>6, <1>7 DEF SweepInv

\* An EpOffline of a spawned task removes the interests; one that fails leaves a stray.
LEMMA OfflinesSweep ==
  ASSUME IInv, SweepInv, NEW e \in offlines, propose_offline(e) \/ lose_offline(e)
  PROVE  SweepInv'
<1>1. UNCHANGED <<call, peer, task, handlers, edge_routing>>
  BY DEF propose_offline, lose_offline, client_vars, conn_vars
<1>2. e \in Endpoint /\ FiniteTopic(topic) BY DEF IInv, Typed, TopicTypes
<1>3. topic.interest \in [Endpoint -> SUBSET Subject] BY <1>2 DEF FiniteTopic, Topic
<1>4. offlines' = offlines \ {e} /\ stray \subseteq stray'
  BY DEF propose_offline, lose_offline
<1>5. \A f \in Endpoint : Kept(f) => Kept(f)'
  BY <1>1, <1>4, CallsRest, KeptStays DEF IInv
<1>6. \A f \in Endpoint : topic'.interest[f] # {} =>
        topic.interest[f] # {} /\ (f # e \/ f \in stray')
  <2>1. CASE propose_offline(e)
    <3>1. PICK t : t = ep_offline(topic, Server, Server, e, {}) OBVIOUS
    <3>2. Server \in Node BY EdgeAssumption
    <3>3. PICK ms : ms = {m \in topic.queue.held : topic.queue.status[m][e] # Absent} OBVIOUS
    <3>4. Operates(topic, t, Server, [topic.routing EXCEPT ![Server] = @ \ {e}],
                   [topic.interest EXCEPT ![e] = {}],
                   lost_by(topic.queue.status, e, ms), ms, {})
      BY <1>2, <3>1, <3>2, <3>3, EpOfflineOperates
    <3>5. t.interest = [topic.interest EXCEPT ![e] = {}] BY <1>2, <3>2, <3>4, OperatesInterest
    <3>6. FiniteTopic(t) BY <1>2, <3>2, <3>4, OperatesSteady DEF Steady
    <3>7. topic'.interest = t.interest
      BY <2>1, <3>1, <3>6, AppliedInterest DEF propose_offline
    <3> QED BY <1>3, <3>5, <3>7
  <2>2. CASE lose_offline(e) BY <2>2 DEF lose_offline
  <2> QED BY <2>1, <2>2
<1> SUFFICES ASSUME NEW f \in Endpoint
             PROVE  /\ edge_routing[f] # None => Kept(f)'
                    /\ topic'.interest[f] # {} => f \in offlines' \/ Kept(f)'
                    /\ topic'.interest[f] # {} /\ leaving(f)' => f \in offlines' \cup stray'
  BY <1>1 DEF SweepInv
<1>7. leaving(f)' => leaving(f) BY <1>1 DEF leaving
<1>8. f \in stray' => Kept(f)' BY DEF Kept
<1> QED BY <1>4, <1>5, <1>6, <1>7, <1>8 DEF SweepInv

\* No handler creates an endpoint or updates its interests next to one that takes it
\* offline.
LEMMA OfflineAlone ==
  ASSUME IInv, EndpointCalls, NEW h \in handlers, NEW f \in handlers,
         f.request.type = "EndpointOffline",
         h.request.type \in {"EndpointOnline", "EndpointInterest"}, h.request.ep = f.request.ep
  PROVE  FALSE
<1>1. /\ h.conn \in Session /\ h.seq \in SeqId /\ f.conn \in Session /\ f.seq \in SeqId
      /\ f.request \in EdgeRequest
  BY DEF IInv, Typed, HandlerTypes, Handler
<1>2. PICK e : e = f.request.ep OBVIOUS
<1>3. e \in Endpoint BY <1>1, <1>2, RequestParts
<1>4. asks(f.conn, f.seq, "EndpointOffline", e) /\ asks(h.conn, h.seq, h.request.type, e)
  BY <1>2 DEF IInv, HandlersOwn, asks
<1>5. underway(f.conn, f.seq) /\ underway(h.conn, h.seq) BY DEF underway
<1>6. CASE h.request.type = "EndpointOnline"
  <2>1. PICK r \in SeqId : asks(f.conn, r, "EndpointOnline", e) /\ ~underway(f.conn, r)
    BY <1>1, <1>3, <1>4 DEF EndpointCalls, OwnedCalls
  <2>2. f.conn = h.conn /\ r = h.seq
    BY <1>1, <1>3, <1>4, <1>6, <2>1 DEF EndpointCalls, OnlineOnce
  <2> QED BY <1>5, <2>1, <2>2
<1>7. CASE h.request.type = "EndpointInterest"
  BY <1>1, <1>3, <1>4, <1>5, <1>7 DEF EndpointCalls, OfflineLast
<1> QED BY <1>6, <1>7

\* An entry that brings in interests is followed by its handler, or finds the route; an
\* entry that comes after the route is gone leaves a stray.
LEMMA ApplySweeps ==
  ASSUME IInv, EndpointCalls, SweepInv, NEW h \in handlers, apply_request(h)
  PROVE  SweepInv'
<1>1. UNCHANGED <<call, peer, task, edge_routing, offlines>>
  BY DEF apply_request, client_vars, conn_vars
<1>2. PICK g \in Handler : /\ handlers' = (handlers \ {h}) \cup {g}
                           /\ g.request = h.request /\ g.pc = "applied"
  BY ToPcType DEF apply_request, IInv
<1>3. h \in Handler /\ h.request \in EdgeRequest /\ h.pc = "proposing"
  BY DEF IInv, Typed, HandlerTypes, Handler, apply_request
<1>4. PICK r : r = h.request OBVIOUS
<1>5. /\ r.type \in {"SendMessage", "EndpointOnline", "EndpointOffline", "EndpointInterest",
                     "SetState"}
      /\ r.type # "SendMessage" => r.ep \in Endpoint
  BY <1>3, <1>4, RequestParts
<1>6. /\ stray \subseteq stray'
      /\ \A e \in Endpoint : r.type = "EndpointInterest" /\ r.ep = e /\ edge_routing[e] = None =>
           e \in stray'
  BY <1>4 DEF apply_request
<1>7. topic'.interest = outcome(h).interest
  BY OutcomeType, AppliedInterest DEF apply_request, IInv
<1>8. topic.interest \in [Endpoint -> SUBSET Subject]
  BY DEF IInv, Typed, TopicTypes, FiniteTopic, Topic
<1>9. \A e \in Endpoint :
        /\ r.type = "EndpointOffline" /\ r.ep = e => topic'.interest[e] = {}
        /\ topic'.interest[e] # topic.interest[e] =>
             r.type \in {"EndpointOnline", "EndpointInterest", "EndpointOffline"} /\ r.ep = e
  <2>1. /\ r.type \in {"SendMessage", "SetState"} => topic'.interest = topic.interest
        /\ r.type = "EndpointOffline" =>
             topic'.interest = [topic.interest EXCEPT ![r.ep] = {}]
        /\ r.type \in {"EndpointOnline", "EndpointInterest"} =>
             \A f \in Endpoint : f # r.ep => topic'.interest[f] = topic.interest[f]
    BY <1>4, <1>7, OutcomeInterest DEF IInv
  <2> QED BY <1>5, <1>8, <2>1
<1>10. \A e \in Endpoint : Kept(e) => Kept(e)'
  <2>1. \A f \in handlers : f.pc = "applied" => f \in handlers' BY <1>2, <1>3
  <2> QED BY <1>1, <1>6, <2>1, CallsRest, KeptStays DEF IInv
<1>11. ASSUME NEW e \in Endpoint, topic'.interest[e] # {}
       PROVE  e \in offlines \/ Kept(e)'
  <2>1. CASE topic'.interest[e] = topic.interest[e] BY <1>10, <1>11, <2>1 DEF SweepInv
  <2>2. CASE r.type = "EndpointOnline" /\ r.ep = e
    <3>1. e \in brings_in(g)' BY <1>2, <1>4, <2>2 DEF brings_in
    <3> QED BY <1>2, <3>1 DEF Kept
  <2>3. CASE r.type = "EndpointInterest" /\ r.ep = e
    <3>1. CASE edge_routing[e] = None BY <1>6, <2>3, <3>1 DEF Kept
    <3>2. CASE edge_routing[e] # None BY <1>10, <3>2 DEF SweepInv
    <3> QED BY <3>1, <3>2
  <2> QED BY <1>9, <1>11, <2>1, <2>2, <2>3
<1>12. ASSUME NEW e \in Endpoint, topic'.interest[e] # {}, leaving(e)'
       PROVE  e \in offlines \cup stray'
  <2>1. PICK f \in handlers' : /\ f.pc = "applied"
                               /\ f.request.type = "EndpointOffline" /\ f.request.ep = e
    BY <1>12 DEF leaving
  <2>2. f \in handlers
    <3>1. f # g BY <1>2, <1>4, <1>9, <1>12, <2>1
    <3> QED BY <1>2, <2>1, <3>1
  <2>3. leaving(e) BY <2>1, <2>2 DEF leaving
  <2>4. topic'.interest[e] = topic.interest[e]
    <3>1. ~(r.type \in {"EndpointOnline", "EndpointInterest"} /\ r.ep = e)
      BY <1>4, <2>1, <2>2, OfflineAlone
    <3> QED BY <1>9, <1>12, <3>1
  <2> QED BY <1>6, <1>12, <2>3, <2>4 DEF SweepInv
<1> QED BY <1>1, <1>10, <1>11, <1>12 DEF SweepInv

\* A handler that ends has set the route of its connection, or removed one that keeps
\* no interests.
LEMMA FinishSweeps ==
  ASSUME IInv, SweepInv, NEW h \in handlers, finish_request(h)
  PROVE  SweepInv'
<1>1. UNCHANGED <<call, peer, task, offlines, topic>> BY DEF finish_request, client_vars, topic_vars
<1>2. handlers' = handlers \ {h} BY DEF finish_request, reply
<1>3. h \in Handler /\ h.request \in EdgeRequest /\ h.conn \in Session /\ h.seq \in SeqId
  BY DEF IInv, Typed, HandlerTypes, Handler
<1>4. PICK r : r = h.request OBVIOUS
<1>5. r.type # "SendMessage" => r.ep \in Endpoint BY <1>3, <1>4, RequestParts
<1>6. stray \subseteq stray' /\ (task[h.conn] = "ended" => brings_in(h) \subseteq stray')
  BY DEF finish_request
<1>7. \A e \in Endpoint :
        edge_routing'[e] = IF r.type = "EndpointOnline" /\ e = r.ep THEN peer[h.conn]
                           ELSE IF r.type = "EndpointOffline" /\ e = r.ep THEN None
                           ELSE edge_routing[e]
  BY <1>4, <1>5 DEF finish_request, route, IInv, Typed, ConnTypes
<1>8. SameCalls BY <1>1, CallsRest
<1>9. ASSUME NEW e \in Endpoint, r.type = "EndpointOnline", e = r.ep
      PROVE  Kept(e)'
  <2>1. CASE task[h.conn] = "ended"
    <3>1. e \in brings_in(h) BY <1>4, <1>9 DEF brings_in
    <3> QED BY <1>6, <2>1, <3>1 DEF Kept
  <2>2. CASE task[h.conn] = "running"
    <3>1. asks(h.conn, h.seq, "EndpointOnline", e) BY <1>4, <1>9 DEF IInv, HandlersOwn, asks
    <3>2. h.conn \in owner(e) BY <1>3, <3>1, OwnerCalls DEF IInv
    <3>3. h.conn \in owner(e)' BY <1>8, <3>2, OwnersStay DEF IInv
    <3>4. edge_routing'[e] = peer'[h.conn] /\ task'[h.conn] = "running" BY <1>1, <1>7, <1>9, <2>2
    <3> QED BY <3>3, <3>4 DEF Kept
  <2> QED BY <1>3, <2>1, <2>2 DEF IInv, PeersKnown, Typed, ConnTypes
<1>10. ASSUME NEW e \in Endpoint, Kept(e),
              ~(r.type \in {"EndpointOnline", "EndpointOffline"} /\ e = r.ep)
       PROVE  Kept(e)'
  <2>1. \A f \in handlers : e \in brings_in(f) => f \in handlers'
    BY <1>2, <1>4, <1>10 DEF brings_in
  <2>2. edge_routing'[e] = edge_routing[e] BY <1>7, <1>10
  <2> QED BY <1>1, <1>6, <1>8, <1>10, <2>1, <2>2, KeptStays DEF IInv
<1>11. ASSUME NEW e \in Endpoint, r.type = "EndpointOffline", e = r.ep
       PROVE  leaving(e)
  BY <1>4, <1>11 DEF finish_request, leaving
<1> SUFFICES ASSUME NEW e \in Endpoint
             PROVE  /\ edge_routing'[e] # None => Kept(e)'
                    /\ topic.interest[e] # {} => e \in offlines \/ Kept(e)'
                    /\ topic.interest[e] # {} /\ leaving(e)' => e \in offlines \cup stray'
  BY <1>1 DEF SweepInv
<1>12. leaving(e)' => leaving(e) BY <1>2 DEF leaving
<1>13. e \in stray => Kept(e)' BY <1>6 DEF Kept
<1>14. edge_routing'[e] # None => Kept(e)' BY <1>7, <1>9, <1>10 DEF SweepInv
<1>15. topic.interest[e] # {} => e \in offlines \/ Kept(e)'
  <2>1. CASE r.type = "EndpointOffline" /\ e = r.ep BY <1>11, <1>13, <2>1 DEF SweepInv
  <2>2. CASE ~(r.type = "EndpointOffline" /\ e = r.ep) BY <1>9, <1>10, <2>2 DEF SweepInv
  <2> QED BY <2>1, <2>2
<1> QED BY <1>6, <1>12, <1>14, <1>15 DEF SweepInv

\* A propose that fails after its entry was committed leaves a stray.
LEMMA FailSweeps ==
  ASSUME IInv, SweepInv, NEW h \in handlers, fail_request(h)
  PROVE  SweepInv'
<1>1. UNCHANGED <<call, peer, task, edge_routing, offlines, topic>>
  BY DEF fail_request, client_vars, conn_vars, topic_vars
<1>2. handlers' = handlers \ {h} BY DEF fail_request, reply
<1>3. stray \subseteq stray' /\ (h.pc = "applied" => brings_in(h) \subseteq stray')
  BY DEF fail_request
<1> SUFFICES ASSUME NEW e \in Endpoint
             PROVE  /\ edge_routing[e] # None => Kept(e)'
                    /\ topic.interest[e] # {} => e \in offlines \/ Kept(e)'
                    /\ topic.interest[e] # {} /\ leaving(e)' => e \in offlines \cup stray'
  BY <1>1 DEF SweepInv
<1>4. Kept(e) => Kept(e)'
  <2>1. \A f \in handlers : f.pc = "applied" /\ e \in brings_in(f) => f \in handlers' \/ e \in stray'
    BY <1>2, <1>3
  <2> QED BY <1>1, <1>3, <2>1, CallsRest, KeptStays DEF IInv
<1>5. leaving(e)' => leaving(e) BY <1>2 DEF leaving
<1> QED BY <1>3, <1>4, <1>5 DEF SweepInv

\* Steps of clients and of the socket concern no route and no interests.
LEMMA QuietSweeps ==
  ASSUME Typed, SweepInv, SameCalls,
         UNCHANGED <<edge_routing, offlines, stray, topic, task, peer, handlers>>
  PROVE  SweepInv'
BY SweepStays

\* A session that connects owns no endpoint.
LEMMA ConnectSweeps ==
  ASSUME IInv, SweepInv, NEW c \in Session, NEW p \in PeerChoices[c], connect(c, p)
  PROVE  SweepInv'
<1>1. UNCHANGED <<call, edge_routing, offlines, stray, topic, handlers>>
  BY DEF connect, topic_vars
<1>2. \A b \in Session : call[b] # <<>> => task'[b] = task[b] /\ peer'[b] = peer[b]
  <2>1. call[c] = <<>> BY DEF connect, IInv, Linked
  <2> QED BY <2>1 DEF connect, init, IInv, Typed, ConnTypes
<1> QED BY <1>1, <1>2, CallsRest, SweepStays DEF IInv

\* A handler that is spawned, goes on to propose, or refuses, has applied nothing.
LEMMA SpawnSweeps ==
  ASSUME IInv, SweepInv,
         \/ \E c \in Session : packet_in(c)
         \/ \E h \in handlers : start_request(h)
  PROVE  SweepInv'
<1>1. UNCHANGED <<call, edge_routing, offlines, stray, topic, task, peer>>
  BY DEF packet_in, start_request, client_vars, conn_vars, topic_vars
<1>2. \A h : h.pc = "applied" => (h \in handlers' <=> h \in handlers)
  <2>1. ASSUME NEW c \in Session, packet_in(c)
        PROVE  \A h : h.pc = "applied" => (h \in handlers' <=> h \in handlers)
    <3>1. PICK g : /\ g = [conn |-> c, seq |-> Head(up[c]), pc |-> "spawned",
                           request |-> call[c][Head(up[c])].request]
      OBVIOUS
    <3>2. g.pc = "spawned" /\ handlers' = handlers \cup {g} BY <2>1, <3>1 DEF packet_in
    <3> QED BY <3>2
  <2>2. ASSUME NEW h \in handlers, start_request(h)
        PROVE  \A f : f.pc = "applied" => (f \in handlers' <=> f \in handlers)
    <3>1. h.pc = "spawned" BY <2>2 DEF start_request
    <3>2. CASE to_pc(h, "proposing")
      <4>1. PICK g \in Handler : handlers' = (handlers \ {h}) \cup {g} /\ g.pc = "proposing"
        BY <3>2, ToPcType DEF IInv
      <4> QED BY <3>1, <4>1
    <3>3. CASE reply(h, checked(h)) BY <3>1, <3>3 DEF reply
    <3> QED BY <2>2, <3>2, <3>3 DEF start_request
  <2> QED BY <2>1, <2>2
<1> QED BY <1>1, <1>2, CallsRest, SweepStays DEF IInv

\* The report of a dispatch task changes no interests.
LEMMA ReportSweeps ==
  ASSUME IInv, SweepInv, NEW d \in dispatching, report_dispatch(d)
  PROVE  SweepInv'
<1>1. UNCHANGED <<call, edge_routing, offlines, stray, task, peer, handlers>>
  BY DEF report_dispatch, client_vars, conn_vars
<1>2. topic'.interest = topic.interest
  <2>1. /\ d.msg \in MessageId /\ d.ep \in Endpoint /\ Server \in Node /\ FiniteTopic(topic)
        /\ d.status \in MessageStatusKind
    <3>1. d \in Dispatch BY DEF IInv, Typed, TopicTypes
    <3>2. d.status \in {"Sent", "Unreachable"} BY <3>1 DEF Dispatch, report_dispatch
    <3> QED BY <3>1, <3>2, EdgeAssumption DEF Dispatch, MessageStatusKind, IInv, Typed, TopicTypes
  <2>2. PICK t : t = set_state(topic, Server, d.msg, d.ep, d.status, {}) OBVIOUS
  <2>3. FiniteTopic(t) /\ t.interest = topic.interest
    BY <2>1, <2>2, SetStateSteady, SetStateInterest DEF Steady
  <2> QED BY <2>2, <2>3, AppliedInterest DEF report_dispatch
<1> QED BY <1>1, <1>2, CallsRest, SweepStays DEF IInv

\* What keeps the promise of LeaversSwept.
LInv == OnceInv /\ EndpointCalls /\ SweepInv

\* A request of a client.
LEMMA RequestLeaves ==
  ASSUME IInv, LInv, NEW c \in Session, Client(c), Calling(c)
  PROVE  LInv'
<1>1. ASSUME NEW request \in EdgeRequest, send_request(c, request)
      PROVE  OnceInv' /\ SweepInv' /\ \E s : Sends(c, s, request)
  <2>1. OnceInv' /\ \E s : Sends(c, s, request) BY <1>1, SendOnce DEF LInv
  <2>2. SameCalls BY <2>1 DEF Sends, SameCalls
  <2>3. UNCHANGED <<edge_routing, offlines, stray, topic, task, peer, handlers>>
    BY <1>1 DEF send_request, conn_vars, topic_vars
  <2>4. SweepInv' BY <2>2, <2>3, QuietSweeps DEF IInv, LInv
  <2> QED BY <2>1, <2>4
<1>2. \A code \in TopicChoices[c] : code \in TopicCode BY EdgeAssumption
<1>3. ASSUME NEW e \in Endpoint, NEW interests \in InterestChoices,
             NEW code \in TopicChoices[c], create_endpoint(c, e, interests, code)
      PROVE  LInv'
  <2>1. PICK r : r = [type |-> "EndpointOnline", topic |-> code, ep |-> e,
                      interests |-> interests] OBVIOUS
  <2>2. r \in EdgeRequest BY <1>2, <2>1, EdgeAssumption DEF EdgeRequest
  <2>3. send_request(c, r) BY <1>3, <2>1 DEF create_endpoint, send_ep_online
  <2>4. PICK s : Sends(c, s, r) BY <1>1, <2>2, <2>3
  <2>5. r.type = "EndpointOnline" /\ r.ep = e BY <2>1
  <2>6. EndpointCalls'
    BY <1>3, <2>4, <2>5, OnlineSent DEF create_endpoint, IInv, LInv
  <2> QED BY <1>1, <2>2, <2>3, <2>6 DEF LInv
<1>4. ASSUME NEW m \in MessageId, NEW code \in TopicChoices[c], send_message(c, m, code)
      PROVE  LInv'
  <2>1. PICK r : r = [type |-> "SendMessage", topic |-> code, msg |-> m] OBVIOUS
  <2>2. r \in EdgeRequest BY <1>2, <2>1 DEF EdgeRequest
  <2>3. send_request(c, r) BY <1>4, <2>1 DEF send_message
  <2>4. PICK s : Sends(c, s, r) BY <1>1, <2>2, <2>3
  <2>5. r.type = "SendMessage" BY <2>1
  <2>6. EndpointCalls' BY <1>4, <2>4, <2>5, OtherSent DEF send_message, LInv
  <2> QED BY <1>1, <2>2, <2>3, <2>6 DEF LInv
<1>5. ASSUME NEW e \in Endpoint, NEW interests \in InterestChoices,
             update_interests(c, e, interests)
      PROVE  LInv'
  <2>1. PICK r : r = [type |-> "EndpointInterest", topic |-> Loaded, ep |-> e,
                      interests |-> interests] OBVIOUS
  <2>2. r \in EdgeRequest BY <2>1, EdgeAssumption DEF EdgeRequest
  <2>3. send_request(c, r) BY <1>5, <2>1 DEF update_interests, send_ep_interests
  <2>4. PICK s : Sends(c, s, r) BY <1>1, <2>2, <2>3
  <2>5. r.type = "EndpointInterest" /\ r.ep = e BY <2>1
  <2>6. EndpointCalls' BY <1>5, <2>4, <2>5, InterestSent DEF update_interests, LInv
  <2> QED BY <1>1, <2>2, <2>3, <2>6 DEF LInv
<1>6. ASSUME NEW e \in Endpoint, NEW m \in MessageId, NEW kind \in AckChoices,
             NEW code \in TopicCode, send_single_ack(c, code, e, m, kind), dropped' = dropped
      PROVE  LInv'
  <2>1. PICK r : r = [type |-> "SetState", topic |-> code, ep |-> e, msg |-> m,
                      kind |-> kind] OBVIOUS
  <2>2. r \in EdgeRequest BY <2>1, EdgeAssumption DEF EdgeRequest
  <2>3. send_request(c, r) BY <1>6, <2>1 DEF send_single_ack
  <2>4. PICK s : Sends(c, s, r) BY <1>1, <2>2, <2>3
  <2>5. r.type = "SetState" BY <2>1
  <2>6. EndpointCalls' BY <1>6, <2>4, <2>5, OtherSent DEF LInv
  <2> QED BY <1>1, <2>2, <2>3, <2>6 DEF LInv
<1>7. ASSUME NEW e \in Endpoint, drop_endpoint(c, e)
      PROVE  LInv'
  <2>1. PICK r : r = [type |-> "EndpointOffline", topic |-> Loaded, ep |-> e] OBVIOUS
  <2>2. r \in EdgeRequest BY <2>1, EdgeAssumption DEF EdgeRequest
  <2>3. send_request(c, r) BY <1>7, <2>1 DEF drop_endpoint, send_ep_offline
  <2>4. PICK s : Sends(c, s, r) BY <1>1, <2>2, <2>3
  <2>5. r.type = "EndpointOffline" /\ r.ep = e BY <2>1
  <2>6. EndpointCalls' BY <1>7, <2>4, <2>5, OfflineSent DEF drop_endpoint, IInv, LInv
  <2> QED BY <1>1, <2>2, <2>3, <2>6 DEF LInv
<1>8. Loaded \in TopicCode BY EdgeAssumption
<1> QED BY <1>2, <1>3, <1>4, <1>5, <1>6, <1>7, <1>8, Zenon
       DEF Client, Calling, ack, ack_received_message

\* Steps of the client's tasks and of the socket.
LEMMA QuietLeaves ==
  ASSUME IInv, LInv, NEW c \in Session,
         \/ create_edge_connection(c) \/ tx_task(c) \/ tx_fail(c) \/ rx_task(c) \/ rx_end(c)
         \/ cut(c) \/ drop_node(c) \/ rx_cancelled(c) \/ rx_close(c)
         \/ \E e \in Endpoint : drop_orphan(c, e)
         \/ \E s \in DOMAIN call[c] : resume(c, s)
  PROVE  LInv'
<1>1. OnceInv' /\ NoCall
  BY ServerOnce, TxTaskOnce, TxFailOnce, RxTaskOnce, RxEndOnce, CutOnce, DropNodeOnce,
     RxCloseOnce, ResumeOnce, Zenon DEF LInv
<1>2. /\ UNCHANGED <<edge_routing, offlines, stray, topic, task, peer, handlers>>
      /\ dropped \subseteq dropped'
  BY DEF create_edge_connection, tx_task, tx_fail, rx_task, rx_end, cut, drop_node, rx_cancelled,
         rx_close, drop_orphan, resume, client_vars, conn_vars, topic_vars
<1>3. SweepInv' BY <1>1, <1>2, QuietSweeps DEF NoCall, IInv, LInv
<1>4. EndpointCalls' BY <1>1, <1>2, EndpointCallsStay DEF LInv
<1> QED BY <1>1, <1>3, <1>4 DEF LInv

\* LInv is inductive, next to IInv.
LEMMA LeaversInductive ==
  ASSUME IInv, LInv, [Next]_vars
  PROVE  LInv'
<1>1. ASSUME NEW c \in Session, Client(c)
      PROVE  LInv'
  <2>1. ASSUME NEW p \in PeerChoices[c], connect(c, p)
        PROVE  LInv'
    <3>1. OnceInv' /\ NoCall BY <2>1, ConnectOnce DEF LInv
    <3>2. dropped' = dropped BY <2>1 DEF connect
    <3>3. EndpointCalls' BY <3>1, <3>2, EndpointCallsStay DEF LInv
    <3>4. SweepInv' BY <2>1, ConnectSweeps DEF LInv
    <3> QED BY <3>1, <3>3, <3>4 DEF LInv
  <2>2. CASE drop_node(c) \/ \E e \in Endpoint : drop_orphan(c, e) BY <2>2, QuietLeaves
  <2>3. CASE Calling(c) BY <1>1, <2>3, RequestLeaves
  <2> QED BY <2>1, <2>2, <2>3 DEF Calling
<1>2. ASSUME NEW c \in Session, end_connection(c) \/ packet_in(c)
      PROVE  LInv'
  <2>1. OnceInv' /\ NoCall BY <1>2, EndConnectionOnce, PacketInOnce DEF LInv
  <2>2. dropped' = dropped BY <1>2 DEF end_connection, packet_in, client_vars
  <2>3. EndpointCalls' BY <2>1, <2>2, EndpointCallsStay DEF LInv
  <2>4. SweepInv' BY <1>2, EndConnectionSweeps, SpawnSweeps DEF LInv
  <2> QED BY <2>1, <2>3, <2>4 DEF LInv
<1>3. ASSUME NEW h \in handlers,
             start_request(h) \/ apply_request(h) \/ finish_request(h) \/ fail_request(h)
      PROVE  LInv'
  <2>1. OnceInv' /\ NoCall BY <1>3, HandlerOnce DEF LInv
  <2>2. dropped' = dropped
    BY <1>3 DEF start_request, apply_request, finish_request, fail_request, client_vars
  <2>3. EndpointCalls' BY <2>1, <2>2, EndpointCallsStay DEF LInv
  <2>4. SweepInv' BY <1>3, SpawnSweeps, ApplySweeps, FinishSweeps, FailSweeps DEF LInv
  <2> QED BY <2>1, <2>3, <2>4 DEF LInv
<1>4. CASE \/ \E d \in dispatching : report_dispatch(d)
           \/ \E e \in offlines : propose_offline(e) \/ lose_offline(e)
  <2>1. OnceInv' /\ NoCall BY <1>4, ServerOnce DEF LInv
  <2>2. dropped' = dropped
    BY <1>4 DEF report_dispatch, propose_offline, lose_offline, client_vars
  <2>3. EndpointCalls' BY <2>1, <2>2, EndpointCallsStay DEF LInv
  <2>4. SweepInv' BY <1>4, ReportSweeps, OfflinesSweep DEF LInv
  <2> QED BY <2>1, <2>3, <2>4 DEF LInv
<1>5. ASSUME NEW d \in dispatching, dispatch_message(d)
      PROVE  LInv'
  <2>1. OnceInv' /\ NoCall BY <1>5, DispatchOnce DEF LInv
  <2>2. UNCHANGED <<edge_routing, offlines, stray, topic, task, peer, handlers, dropped>>
    BY <1>5 DEF dispatch_message, client_vars, conn_vars
  <2>3. EndpointCalls' BY <2>1, <2>2, EndpointCallsStay DEF LInv
  <2>4. SweepInv' BY <2>1, <2>2, QuietSweeps DEF NoCall, IInv, LInv
  <2> QED BY <2>1, <2>3, <2>4 DEF LInv
<1>6. CASE UNCHANGED vars
  <2>1. OnceInv' /\ NoCall BY <1>6, ServerOnce DEF LInv
  <2>2. UNCHANGED <<edge_routing, offlines, stray, topic, task, peer, handlers, dropped>>
    BY <1>6 DEF vars, client_vars, conn_vars, topic_vars
  <2>3. EndpointCalls' BY <2>1, <2>2, EndpointCallsStay DEF LInv
  <2>4. SweepInv' BY <2>1, <2>2, QuietSweeps DEF NoCall, IInv, LInv
  <2> QED BY <2>1, <2>3, <2>4 DEF LInv
<1>7. CASE Runtime BY <1>2, <1>3, <1>4, <1>5, <1>7, QuietLeaves, Zenon DEF Runtime
<1>8. CASE Fault BY <1>3, <1>4, <1>8, QuietLeaves, Zenon DEF Fault
<1> QED BY <1>1, <1>6, <1>7, <1>8 DEF Next

\* Before anybody is connected nothing is under way, online or routed.
LEMMA LeaversInitially ==
  ASSUME Init
  PROVE  LInv
<1>1. \A c \in Session : /\ call[c] = <<>> /\ request_rx[c] = <<>>
                         /\ up[c] = <<>> /\ down[c] = <<>>
  BY DEF Init
<1>2. handlers = {} /\ \A e \in Endpoint : edge_routing[e] = None /\ topic.interest[e] = {}
  BY DEF Init, from_durable
<1>3. InOnePlace
  <2>1. IsInjective(<<>>) /\ ToSet(<<>>) = {} BY DEF IsInjective, ToSet
  <2> QED BY <1>1, <1>2, <2>1 DEF InOnePlace
<1>4. RepliedOnce /\ EndedCalls BY <1>1 DEF RepliedOnce, replied, EndedCalls
<1>5. EndpointCalls BY <1>1 DEF EndpointCalls, OnlineOnce, OwnedCalls, OfflineLast, asks
<1>6. SweepInv BY <1>2 DEF SweepInv
<1> QED BY <1>3, <1>4, <1>5, <1>6 DEF LInv, OnceInv

\* An endpoint that is online in the topic, or routed, has a session whose end will
\* sweep it or is being swept, but for the strays that LeaversSwept names: however
\* creations, updates, drops and lost connections interleave, remove_edge_connection
\* and the handlers of handle_edge_request leave no other endpoint behind.
THEOREM LeaversAreSwept == Spec => []LeaversSwept
<1>1. Init => IInv /\ LInv BY Initially, LeaversInitially
<1>2. IInv /\ LInv /\ [Next]_vars => IInv' /\ LInv' BY Inductive, LeaversInductive
<1>3. LInv => LeaversSwept BY DEF LInv, SweepInv, Kept, LeaversSwept
<1> QED BY <1>1, <1>2, <1>3, PTL DEF Spec

-----------------------------------------------------------------------------
(* Who acked what. *)

\* e belongs to a session of edge node p.
OfPeer(e, p) == \E o \in owner(e) : p = peer[o]

\* A session of the edge node of e acked m for e as its sender asked.
Acked(e, m) ==
  \E k \in calls_of("SetState") :
    /\ OfPeer(e, peer[k[1]])
    /\ request_of(k).ep = e /\ request_of(k).msg = m
    /\ is_reached(request_of(k).kind, Header[m].ack_kind)

\* A route leads to the edge node of its endpoint, and an ack that was let through
\* comes from there.
AcksChecked ==
  /\ \A e \in Endpoint : edge_routing[e] # None => OfPeer(e, edge_routing[e])
  /\ \A h \in handlers :
       h.request.type = "SetState" /\ h.pc # "spawned" => OfPeer(h.request.ep, peer[h.conn])

\* Sessions with calls keep the edge node they connected as.
SamePeers == \A c \in Session : call[c] # <<>> => peer'[c] = peer[c]

\* Whatever happens, calls stay.
LEMMA CallsStay ==
  ASSUME IInv, LInv, [Next]_vars
  PROVE  SameCalls
<1>0. OnceInv BY DEF LInv
<1>1. ASSUME NEW c \in Session, Client(c)
      PROVE  SameCalls
  <2>1. ASSUME NEW p \in PeerChoices[c], connect(c, p)
        PROVE  NoCall
    BY <1>0, <2>1, ConnectOnce
  <2>2. CASE drop_node(c) \/ \E e \in Endpoint : drop_orphan(c, e)
    BY <1>0, <2>2, DropNodeOnce DEF NoCall
  <2>3. CASE Calling(c)
    <3>1. PICK request \in EdgeRequest : Requests(c, request)
      BY <1>1, <2>3, RequestsMade DEF IInv
    <3>2. PICK s : Sends(c, s, request) BY <1>0, <3>1, SendOnce DEF Requests
    <3> QED BY <3>2 DEF Sends, SameCalls
  <2> QED BY <2>1, <2>2, <2>3 DEF NoCall, Calling
<1>2. ASSUME NEW c \in Session,
             \/ end_connection(c) \/ packet_in(c) \/ tx_task(c) \/ tx_fail(c) \/ rx_task(c)
             \/ rx_end(c) \/ rx_cancelled(c) \/ rx_close(c) \/ cut(c)
             \/ \E s \in DOMAIN call[c] : resume(c, s)
      PROVE  NoCall
  BY <1>0, <1>2, EndConnectionOnce, PacketInOnce, TxTaskOnce, TxFailOnce, RxTaskOnce, RxEndOnce,
     DropNodeOnce, RxCloseOnce, CutOnce, ResumeOnce, Zenon
<1>3. ASSUME NEW h \in handlers,
             start_request(h) \/ apply_request(h) \/ finish_request(h) \/ fail_request(h)
      PROVE  NoCall
  BY <1>0, <1>3, HandlerOnce
<1>4. ASSUME NEW d \in dispatching, dispatch_message(d)
      PROVE  NoCall
  BY <1>0, <1>4, DispatchOnce
<1>5. CASE \/ \E c \in Session : create_edge_connection(c)
           \/ \E d \in dispatching : report_dispatch(d)
           \/ \E e \in offlines : propose_offline(e) \/ lose_offline(e)
           \/ UNCHANGED vars
  BY <1>0, <1>5, ServerOnce DEF NoCall
<1>6. NoCall => SameCalls BY DEF NoCall
<1>7. CASE Runtime BY <1>2, <1>3, <1>4, <1>5, <1>6, <1>7, Zenon DEF Runtime
<1>8. CASE Fault BY <1>2, <1>3, <1>5, <1>6, <1>8, Zenon DEF Fault
<1> QED BY <1>1, <1>5, <1>7, <1>8 DEF Next

\* What a client does, the server learns of by a frame: connections apart, its own
\* state stays.
LEMMA ServerStays ==
  ASSUME IInv, NEW c \in Session, Client(c)
  PROVE  /\ UNCHANGED <<edge_routing, handlers, topic, results>>
         /\ (\A p \in PeerChoices[c] : ~connect(c, p)) => peer' = peer
<1>1. ASSUME NEW p \in PeerChoices[c], connect(c, p)
      PROVE  UNCHANGED <<edge_routing, handlers, topic, results>>
  BY <1>1 DEF connect, topic_vars
<1>2. ASSUME drop_node(c) \/ \E e \in Endpoint : drop_orphan(c, e)
      PROVE  UNCHANGED <<edge_routing, handlers, topic, results, peer>>
  BY <1>2 DEF drop_node, drop_orphan, conn_vars, topic_vars
<1>3. ASSUME Calling(c)
      PROVE  UNCHANGED <<edge_routing, handlers, topic, results, peer>>
  <2>1. PICK request \in EdgeRequest : Requests(c, request) BY <1>3, RequestsMade DEF IInv
  <2> QED BY <2>1 DEF Requests, send_request, conn_vars, topic_vars
<1> QED BY <1>1, <1>2, <1>3 DEF Calling

\* The connection of a handler is one of a session with calls.
LEMMA HandlerKnown ==
  ASSUME IInv, NEW h \in handlers
  PROVE  h \in Handler /\ h.conn \in Session /\ call[h.conn] # <<>> /\ peer[h.conn] \in Peer
<1>1. h \in Handler BY DEF IInv, Typed, HandlerTypes
<1>2. h.conn \in Session BY <1>1 DEF Handler
<1>3. h.seq \in DOMAIN call[h.conn] BY DEF IInv, HandlersOwn
<1>4. call[h.conn] # <<>> BY <1>3
<1>5. peer[h.conn] \in Peer BY <1>2 DEF IInv, PeersKnown
<1> QED BY <1>1, <1>2, <1>4, <1>5

\* AcksChecked when no route is new and no handler has come through its check.
LEMMA ChecksStay ==
  ASSUME IInv, AcksChecked, SameCalls, SamePeers,
         \A e \in Endpoint : edge_routing'[e] # None => edge_routing'[e] = edge_routing[e],
         \A g \in handlers' : g.pc # "spawned" =>
           \E h \in handlers : h.pc # "spawned" /\ h.conn = g.conn /\ h.request = g.request
  PROVE  AcksChecked'
<1>1. \A e \in Endpoint : edge_routing'[e] # None => OfPeer(e, edge_routing[e])'
  <2> SUFFICES ASSUME NEW e \in Endpoint, edge_routing'[e] # None
               PROVE  OfPeer(e, edge_routing[e])'
    OBVIOUS
  <2>1. PICK p : p = edge_routing[e] /\ p = edge_routing'[e] OBVIOUS
  <2>2. OfPeer(e, p) BY <2>1 DEF AcksChecked
  <2>3. PICK o \in owner(e) : p = peer[o] BY <2>2 DEF OfPeer
  <2>4. o \in Session /\ o \in owner(e)' /\ call[o] # <<>> BY OwnersStay DEF IInv
  <2>5. edge_routing'[e] = peer'[o] BY <2>1, <2>3, <2>4 DEF SamePeers
  <2> QED BY <2>4, <2>5 DEF OfPeer
<1>2. ASSUME NEW g \in handlers', g.request.type = "SetState", g.pc # "spawned"
      PROVE  OfPeer(g.request.ep, peer[g.conn])'
  <2>1. PICK h \in handlers : h.pc # "spawned" /\ h.conn = g.conn /\ h.request = g.request
    BY <1>2
  <2>2. h.conn \in Session /\ call[h.conn] # <<>> /\ h \in Handler BY HandlerKnown
  <2>3. h.request.ep \in Endpoint
    <3>1. h.request \in EdgeRequest BY <2>2 DEF Handler
    <3> QED BY <1>2, <2>1, <3>1, RequestParts
  <2>4. OfPeer(h.request.ep, peer[h.conn]) BY <1>2, <2>1 DEF AcksChecked
  <2>5. PICK o \in owner(h.request.ep) : peer[h.conn] = peer[o] BY <2>4 DEF OfPeer
  <2>6. o \in Session /\ o \in owner(h.request.ep)' /\ call[o] # <<>>
    BY <2>3, OwnersStay DEF IInv
  <2>7. peer'[g.conn] = peer'[o] BY <2>1, <2>2, <2>5, <2>6 DEF SamePeers
  <2>8. o \in owner(g.request.ep)' BY <2>1, <2>6
  <2> QED BY <2>7, <2>8 DEF OfPeer
<1> QED BY <1>1, <1>2 DEF AcksChecked

\* The check itself: an ack goes on only when the route of its endpoint leads to the
\* edge node it came from.
LEMMA StartChecks ==
  ASSUME IInv, AcksChecked, NEW h \in handlers, start_request(h)
  PROVE  AcksChecked'
<1>1. UNCHANGED <<call, peer, edge_routing>> BY DEF start_request, client_vars, conn_vars
<1>2. h \in Handler /\ h.conn \in Session /\ peer[h.conn] \in Peer BY HandlerKnown
<1>3. \A e : owner(e)' = owner(e) BY <1>1 DEF owner, calls_of, request_of
<1>4. \A e, p : OfPeer(e, p)' <=> OfPeer(e, p) BY <1>1, <1>3 DEF OfPeer
<1>5. \A e \in Endpoint : edge_routing'[e] # None => OfPeer(e, edge_routing[e])
  BY <1>1 DEF AcksChecked
<1>6. CASE checked(h) = "Ok" /\ to_pc(h, "proposing")
  <2>1. PICK g \in Handler :
          /\ handlers' = (handlers \ {h}) \cup {g} /\ g.pc = "proposing"
          /\ g.conn = h.conn /\ g.request = h.request
    BY <1>6, ToPcType DEF IInv
  <2>2. ASSUME h.request.type = "SetState"
        PROVE  OfPeer(h.request.ep, peer[h.conn])
    <3>1. h.request.ep \in Endpoint
      <4>1. h.request \in EdgeRequest BY <1>2 DEF Handler
      <4> QED BY <2>2, <4>1, RequestParts
    <3>2. check_ep_auth(h.request.ep, peer[h.conn]) = "Ok" BY <1>6, <2>2 DEF checked
    <3>3. edge_routing[h.request.ep] = peer[h.conn] BY <3>2 DEF check_ep_auth
    <3>4. peer[h.conn] # None BY <1>2, EdgeAssumption
    <3> QED BY <3>1, <3>3, <3>4 DEF AcksChecked
  <2>3. \A f \in handlers' : f.request.type = "SetState" /\ f.pc # "spawned" =>
                              OfPeer(f.request.ep, peer[f.conn])
    BY <2>1, <2>2 DEF AcksChecked
  <2> QED BY <1>1, <1>3, <1>5, <2>3 DEF AcksChecked, OfPeer
<1>7. CASE reply(h, checked(h))
  <2>1. handlers' \subseteq handlers BY <1>7 DEF reply
  <2> QED BY <1>1, <1>3, <1>5, <2>1 DEF AcksChecked, OfPeer
<1> QED BY <1>6, <1>7 DEF start_request

\* A handler that ends has set the route to its own edge node, or removed it.
LEMMA FinishChecks ==
  ASSUME IInv, AcksChecked, NEW h \in handlers, finish_request(h)
  PROVE  AcksChecked'
<1>1. UNCHANGED <<call, peer>> BY DEF finish_request, client_vars
<1>2. handlers' \subseteq handlers BY DEF finish_request, reply
<1>3. \A e : owner(e)' = owner(e) BY <1>1 DEF owner, calls_of, request_of
<1>4. h \in Handler /\ h.conn \in Session BY HandlerKnown
<1>5. h.request \in EdgeRequest /\ h.seq \in SeqId BY <1>4 DEF Handler
<1>6. PICK r : r = h.request OBVIOUS
<1>7. r.type # "SendMessage" => r.ep \in Endpoint BY <1>5, <1>6, RequestParts
<1>8. \A e \in Endpoint :
        edge_routing'[e] = IF r.type = "EndpointOnline" /\ e = r.ep THEN peer[h.conn]
                           ELSE IF r.type = "EndpointOffline" /\ e = r.ep THEN None
                           ELSE edge_routing[e]
  BY <1>6, <1>7 DEF finish_request, route, IInv, Typed, ConnTypes
<1>9. ASSUME r.type = "EndpointOnline"
      PROVE  OfPeer(r.ep, peer[h.conn])
  <2>1. asks(h.conn, h.seq, "EndpointOnline", r.ep) BY <1>6, <1>9 DEF IInv, HandlersOwn, asks
  <2>2. h.conn \in owner(r.ep) BY <1>4, <1>5, <1>7, <1>9, <2>1, OwnerCalls DEF IInv
  <2> QED BY <2>2 DEF OfPeer
<1>10. \A e \in Endpoint : edge_routing'[e] # None => OfPeer(e, edge_routing'[e])
  BY <1>8, <1>9 DEF AcksChecked
<1> QED BY <1>1, <1>2, <1>3, <1>10 DEF AcksChecked, OfPeer

\* Acks that were sent stay sent.
LEMMA AckedStays ==
  ASSUME Typed, SameCalls, SamePeers, NEW e \in Endpoint, NEW m \in MessageId, Acked(e, m)
  PROVE  Acked(e, m)'
<1>1. PICK k \in calls_of("SetState") :
        /\ OfPeer(e, peer[k[1]])
        /\ request_of(k).ep = e /\ request_of(k).msg = m
        /\ is_reached(request_of(k).kind, Header[m].ack_kind)
  BY DEF Acked
<1>2. k \in Session \X SeqId /\ k[2] \in DOMAIN call[k[1]] /\ request_of(k).type = "SetState"
  BY DEF calls_of, request_of
<1>3. k[2] \in DOMAIN call'[k[1]] /\ request_of(k)' = request_of(k)
  BY <1>2 DEF SameCalls, request_of
<1>4. k \in calls_of("SetState")' BY <1>2, <1>3 DEF calls_of, request_of
<1>5. OfPeer(e, peer[k[1]])'
  <2>1. PICK o \in owner(e) : peer[k[1]] = peer[o] BY <1>1 DEF OfPeer
  <2>2. o \in Session /\ o \in owner(e)' /\ call[o] # <<>> BY OwnersStay
  <2>3. call[k[1]] # <<>> BY <1>2
  <2>4. peer'[k[1]] = peer'[o] BY <1>2, <2>1, <2>2, <2>3 DEF SamePeers
  <2> QED BY <2>2, <2>4 DEF OfPeer
<1> QED BY <1>1, <1>3, <1>4, <1>5 DEF Acked

\* The SetState of a handler that was let through is an ack of the edge node of its
\* endpoint.
LEMMA HandlerAcks ==
  ASSUME IInv, AcksChecked, NEW h \in handlers, h.request.type = "SetState", h.pc # "spawned",
         is_reached(h.request.kind, Header[h.request.msg].ack_kind)
  PROVE  Acked(h.request.ep, h.request.msg)
<1>1. h.conn \in Session BY HandlerKnown
<1>2. h.seq \in DOMAIN call[h.conn] /\ h.request = call[h.conn][h.seq].request
  BY DEF IInv, HandlersOwn
<1>3. PICK k : k = <<h.conn, h.seq>> OBVIOUS
<1>4. k \in calls_of("SetState") /\ request_of(k) = h.request
  BY <1>1, <1>2, <1>3, CallListed DEF IInv
<1>5. k[1] = h.conn BY <1>3
<1>6. OfPeer(h.request.ep, peer[h.conn]) BY DEF AcksChecked
<1> QED BY <1>4, <1>5, <1>6 DEF Acked

-----------------------------------------------------------------------------
(* What the topic says of acks. *)

\* r is t after an operation that told senders only what is justified and wrote,
\* beside statuses of messages not delivered yet, those said.
Claims(t, r, said) ==
  /\ FiniteTopic(r)
  /\ \A a \in r.queue.acks \ t.queue.acks : Justified(a.id, a)
  /\ \A m \in MessageId, e \in Endpoint, s \in MessageStatusKind :
       Says(r.queue, m, e, s) =>
         Says(t.queue, m, e, s) \/ s \in {"Unsent", "Sending"} \/ <<m, e, s>> \in said

\* An operation that delivers claims no more than it was told.
LEMMA DeliversClaims ==
  ASSUME NEW t, NEW r, NEW n, NEW fresh, NEW said, Delivers(t, r, n, fresh, said)
  PROVE  Claims(t, r, said)
BY DEF Delivers, Claims

\* Nor does a SetState, of whatever kind.
LEMMA SetStateClaims ==
  ASSUME NEW t, FiniteTopic(t), NEW n \in Node, NEW m \in MessageId, NEW e \in Endpoint,
         NEW kind \in MessageStatusKind, NEW past, NEW r, r = set_state(t, n, m, e, kind, past)
  PROVE  Claims(t, r, {<<m, e, kind>>})
<1>1. PICK st : st = acked_by(t.queue, m, e, kind) OBVIOUS
<1>2. Operates(t, r, n, t.routing, t.interest, st, {m}, past) BY <1>1, SetStateOperates
<1>3. PICK u : u = WithParts(t, t.routing, t.interest, st) OBVIOUS
<1>4. Parted(t, u, t.routing, t.interest, st) BY <1>2, <1>3, PartsOf DEF Operates
<1>5. FiniteTopic(u) /\ u.queue.status = st /\ u.queue.held = t.queue.held
        /\ u.queue.acks = t.queue.acks
  BY <1>4 DEF Parted
<1>6. Polled(u.queue, r.queue, u.routing[n]) /\ FiniteTopic(r)
  BY <1>2, <1>3, <1>5, UpdateAndFlushPolled DEF Operates
<1>7. t.queue.status \in [MessageId -> StatusMap] /\ t.queue.held \subseteq MessageId
  BY DEF FiniteTopic, FiniteQueue, Queue
<1>8. \A k \in t.queue.held, f \in Endpoint :
        st[k][f] = t.queue.status[k][f] \/ (k = m /\ f = e /\ st[k][f] = kind)
  BY <1>1, <1>7 DEF acked_by, StatusMap
<1>9. \A a \in r.queue.acks \ t.queue.acks : Justified(a.id, a) BY <1>5, <1>6 DEF Polled
<1>10. ASSUME NEW k \in MessageId, NEW f \in Endpoint, NEW s \in MessageStatusKind,
              Says(r.queue, k, f, s)
       PROVE  \/ Says(t.queue, k, f, s)
              \/ s \in {"Unsent", "Sending"}
              \/ <<k, f, s>> \in {<<m, e, kind>>}
  <2>1. CASE k \in r.queue.held /\ r.queue.status[k][f] = s
    <3>1. k \in t.queue.held /\ PolledStatus(st[k][f], s) BY <1>5, <1>6, <2>1 DEF Polled
    <3> QED BY <3>1, <1>8 DEF PolledStatus, Says
  <2>2. CASE \E a \in r.queue.acks : a.id = k /\ a.status[f] = s
    <3>1. PICK a \in r.queue.acks : a.id = k /\ a.status[f] = s BY <2>2
    <3>2. CASE a \in t.queue.acks BY <3>1, <3>2 DEF Says
    <3>3. CASE a \notin t.queue.acks
      <4>1. k \in t.queue.held /\ PolledStatus(st[k][f], s) BY <1>5, <1>6, <3>1, <3>3 DEF Polled
      <4> QED BY <4>1, <1>8 DEF PolledStatus, Says
    <3> QED BY <3>2, <3>3
  <2> QED BY <1>10, <2>1, <2>2 DEF Says
<1> QED BY <1>6, <1>9, <1>10 DEF Claims

\* What a request says of the statuses.
said_in(r) ==
  IF r.type = "SetState" THEN {<<r.msg, r.ep, r.kind>>}
  ELSE IF r.type = "EndpointOffline" THEN {<<m, r.ep, "Unreachable">> : m \in MessageId}
  ELSE {}

\* The proposal of a request claims what the request says.
LEMMA OutcomeClaims ==
  ASSUME Typed, PeersKnown, NEW h \in handlers
  PROVE  Claims(topic, outcome(h), said_in(h.request))
<1>1. h \in Handler BY DEF Typed, HandlerTypes
<1>2. h.request \in EdgeRequest /\ h.conn \in Session BY <1>1 DEF Handler
<1>3. peer[h.conn] \in Node BY <1>2, EdgeAssumption DEF PeersKnown
<1>4. Server \in Node BY EdgeAssumption
<1>5. FiniteTopic(topic) BY DEF Typed, TopicTypes
<1>6. now \in Nat BY <1>5, NowType
<1> PICK r : r = h.request OBVIOUS
<1>7. /\ r.type \in {"SendMessage", "EndpointOnline", "EndpointOffline", "EndpointInterest",
                     "SetState"}
      /\ r.type # "SendMessage" => r.ep \in Endpoint
      /\ r.type \in {"SendMessage", "SetState"} => r.msg \in MessageId
      /\ r.type \in {"EndpointOnline", "EndpointInterest"} => r.interests \in SUBSET Subject
      /\ r.type = "SetState" => r.kind \in MessageStatusKind
  BY <1>2, RequestParts
<1>8. CASE r.type = "SendMessage"
  <2>1. outcome(h) = hold_new_message(topic, Server, r.msg, now, {}) BY <1>8 DEF outcome
  <2>2. Delivers(topic, outcome(h), Server, {r.msg}, {})
    BY <1>4, <1>5, <1>6, <1>7, <1>8, <2>1, HoldNewMessageDelivers
  <2> QED BY <2>2, <1>8, DeliversClaims DEF said_in
<1>9. CASE r.type = "EndpointOnline"
  <2>1. outcome(h) = ep_online(topic, Server, r.ep, r.interests, Server, {}) BY <1>9 DEF outcome
  <2>2. Delivers(topic, outcome(h), Server, {}, {})
    BY <1>4, <1>5, <1>7, <1>9, <2>1, EpOnlineDelivers
  <2> QED BY <2>2, <1>9, DeliversClaims DEF said_in
<1>10. CASE r.type = "EndpointOffline"
  <2>1. outcome(h) = ep_offline(topic, Server, peer[h.conn], r.ep, {}) BY <1>10 DEF outcome
  <2>2. Delivers(topic, outcome(h), Server, {}, {<<m, r.ep, "Unreachable">> : m \in MessageId})
    BY <1>3, <1>4, <1>5, <1>7, <1>10, <2>1, EpOfflineDelivers
  <2> QED BY <2>2, <1>10, DeliversClaims DEF said_in
<1>11. CASE r.type = "EndpointInterest"
  <2>1. outcome(h) = update_ep_interest(topic, Server, r.ep, r.interests, {})
    BY <1>11 DEF outcome
  <2>2. Delivers(topic, outcome(h), Server, {}, {})
    BY <1>4, <1>5, <1>7, <1>11, <2>1, EpInterestDelivers
  <2> QED BY <2>2, <1>11, DeliversClaims DEF said_in
<1>12. CASE r.type = "SetState"
  <2>1. outcome(h) = set_state(topic, Server, r.msg, r.ep, r.kind, {}) BY <1>12 DEF outcome
  <2>2. Claims(topic, outcome(h), {<<r.msg, r.ep, r.kind>>})
    BY <1>4, <1>5, <1>7, <1>12, <2>1, SetStateClaims
  <2> QED BY <2>2, <1>12 DEF said_in
<1> QED BY <1>7, <1>8, <1>9, <1>10, <1>11, <1>12

\* Senders ask for an ack of the receiver, and no message is durable: a durable one
\* is resolved by expiry or by the number of its receivers, and the server itself
\* reports what it has sent.
OwnersAck ==
  \A m \in MessageId : Header[m].target_kind # "Durable" /\ Header[m].ack_kind # "Sent"

\* What the topic says or has told is justified by acks from the edge nodes.
OkInv ==
  /\ AcksChecked
  /\ topic.queue.acks = {}
  /\ \A m \in MessageId, e \in Endpoint, s \in MessageStatusKind :
       Says(topic.queue, m, e, s) /\ is_reached(s, Header[m].ack_kind) => Acked(e, m)
  /\ \A r \in results :
       /\ Justified(r.id, r)
       /\ \A e \in Endpoint :
            is_reached(r.status[e], Header[r.id].ack_kind) => Acked(e, r.id)

\* An entry is applied whose claims are such acks.
LEMMA AppliedOk ==
  ASSUME IInv, OkInv, AcksChecked', SameCalls, SamePeers, NEW t, NEW said,
         Claims(topic, t, said), NEW tasks, applied(t, tasks),
         \A m \in MessageId, e \in Endpoint, s \in MessageStatusKind :
           <<m, e, s>> \in said /\ is_reached(s, Header[m].ack_kind) => Acked(e, m)
  PROVE  OkInv'
<1>1. t \in Topic /\ t.queue \in Queue BY DEF Claims, FiniteTopic, FiniteQueue
<1>2. /\ topic'.queue.acks = {} /\ topic'.queue.held = t.queue.held
      /\ topic'.queue.status = t.queue.status
  <2>1. topic' = [t EXCEPT !.queue.dispatch = {}, !.queue.acks = {}] BY DEF applied
  <2>2. PICK q : q = [t.queue EXCEPT !.dispatch = {}, !.acks = {}] OBVIOUS
  <2>3. q.acks = {} /\ q.held = t.queue.held /\ q.status = t.queue.status
    BY <1>1, <2>2 DEF Queue
  <2>4. topic'.queue = q BY <1>1, <2>1, <2>2 DEF Topic
  <2> QED BY <2>3, <2>4
<1>3. \A m \in MessageId, e \in Endpoint : Acked(e, m) => Acked(e, m)'
  BY AckedStays DEF IInv
<1>4. ASSUME NEW m \in MessageId, NEW e \in Endpoint, NEW s \in MessageStatusKind,
             Says(t.queue, m, e, s), is_reached(s, Header[m].ack_kind)
      PROVE  Acked(e, m)'
  <2>1. s \notin {"Unsent", "Sending"} BY <1>4 DEF is_reached
  <2> QED BY <1>3, <1>4, <2>1 DEF Claims, OkInv
<1>5. \A m \in MessageId, e \in Endpoint, s \in MessageStatusKind :
        Says(topic'.queue, m, e, s) => Says(t.queue, m, e, s)
  BY <1>2 DEF Says
<1>6. t.queue.acks \subseteq WaitAckResult BY <1>1 DEF Queue
<1>7. ASSUME NEW r \in results'
      PROVE  /\ Justified(r.id, r)
             /\ \A e \in Endpoint :
                  is_reached(r.status[e], Header[r.id].ack_kind) => Acked(e, r.id)'
  <2>1. results' = results \cup t.queue.acks BY DEF applied
  <2>2. r \in WaitAckResult BY <1>6, <2>1 DEF IInv, Typed, TopicTypes
  <2>3. r.id \in MessageId /\ r.status \in StatusMap BY <2>2 DEF WaitAckResult
  <2>4. CASE r \in results BY <1>3, <2>3, <2>4 DEF OkInv
  <2>5. CASE r \in t.queue.acks
    <3>1. Justified(r.id, r) BY <2>5 DEF Claims, OkInv
    <3>2. ASSUME NEW e \in Endpoint, is_reached(r.status[e], Header[r.id].ack_kind)
          PROVE  Acked(e, r.id)'
      <4>1. r.status[e] \in MessageStatusKind BY <3>2 DEF is_reached, MessageStatusKind
      <4>2. Says(t.queue, r.id, e, r.status[e]) BY <2>5 DEF Says
      <4> QED BY <1>4, <2>3, <3>2, <4>1, <4>2
    <3> QED BY <3>1, <3>2
  <2> QED BY <2>1, <2>4, <2>5
<1> QED BY <1>2, <1>4, <1>5, <1>7 DEF OkInv

\* Steps that apply no entry.
LEMMA UnappliedOk ==
  ASSUME IInv, OkInv, AcksChecked', SameCalls, SamePeers, UNCHANGED <<topic, results>>
  PROVE  OkInv'
<1>1. \A m \in MessageId, e \in Endpoint : Acked(e, m) => Acked(e, m)'
  BY AckedStays DEF IInv
<1>2. \A r \in results : r.id \in MessageId BY DEF IInv, Typed, TopicTypes, WaitAckResult
<1> QED BY <1>1, <1>2 DEF OkInv

\* The requests of clients: a status is reached only by an ack.
LEMMA ApplyOk ==
  ASSUME IInv, OkInv, AcksChecked', SameCalls, SamePeers, NEW h \in handlers, apply_request(h)
  PROVE  OkInv'
<1>1. Claims(topic, outcome(h), said_in(h.request)) BY OutcomeClaims DEF IInv
<1>2. ASSUME NEW m \in MessageId, NEW e \in Endpoint, NEW s \in MessageStatusKind,
             <<m, e, s>> \in said_in(h.request), is_reached(s, Header[m].ack_kind)
      PROVE  Acked(e, m)
  <2>1. s # "Unreachable" BY <1>2 DEF is_reached
  <2>2. /\ h.request.type = "SetState"
        /\ m = h.request.msg /\ e = h.request.ep /\ s = h.request.kind
    BY <1>2, <2>1 DEF said_in
  <2>3. h.pc = "proposing" BY DEF apply_request
  <2> QED BY <1>2, <2>2, <2>3, HandlerAcks DEF OkInv
<1>3. applied(outcome(h), dispatching) BY DEF apply_request
<1> QED BY <1>1, <1>2, <1>3, AppliedOk

\* The reports of dispatch tasks and the EpOfflines of lost connections reach no
\* expectation.
LEMMA ReportOk ==
  ASSUME OwnersAck, IInv, OkInv, AcksChecked', SameCalls, SamePeers,
         \/ \E d \in dispatching : report_dispatch(d)
         \/ \E e \in offlines : propose_offline(e)
  PROVE  OkInv'
<1>1. Server \in Node /\ FiniteTopic(topic)
  BY EdgeAssumption DEF IInv, Typed, TopicTypes
<1>2. ASSUME NEW d \in dispatching, report_dispatch(d)
      PROVE  OkInv'
  <2>1. d \in Dispatch BY DEF IInv, Typed, TopicTypes
  <2>2. d.msg \in MessageId /\ d.ep \in Endpoint /\ d.status \in {"Sent", "Unreachable"}
    BY <1>2, <2>1 DEF Dispatch, report_dispatch
  <2>3. PICK t : t = set_state(topic, Server, d.msg, d.ep, d.status, {}) OBVIOUS
  <2>4. Claims(topic, t, {<<d.msg, d.ep, d.status>>})
    BY <1>1, <2>2, <2>3, SetStateClaims DEF MessageStatusKind
  <2>5. ~is_reached(d.status, Header[d.msg].ack_kind)
    BY <2>2 DEF OwnersAck, is_reached
  <2>6. applied(t, dispatching \ {d}) BY <1>2, <2>3 DEF report_dispatch
  <2>7. \A m \in MessageId, e \in Endpoint, s \in MessageStatusKind :
          <<m, e, s>> \in {<<d.msg, d.ep, d.status>>} /\ is_reached(s, Header[m].ack_kind) =>
            Acked(e, m)
    BY <2>5
  <2> QED BY <2>4, <2>6, <2>7, AppliedOk
<1>3. ASSUME NEW f \in offlines, propose_offline(f)
      PROVE  OkInv'
  <2>1. f \in Endpoint BY DEF IInv, Typed, TopicTypes
  <2>2. PICK t : t = ep_offline(topic, Server, Server, f, {}) OBVIOUS
  <2>3. PICK said : said = {<<m, f, "Unreachable">> : m \in MessageId} OBVIOUS
  <2>4. Delivers(topic, t, Server, {}, said) BY <1>1, <2>1, <2>2, <2>3, EpOfflineDelivers
  <2>5. Claims(topic, t, said) BY <2>4, DeliversClaims
  <2>6. applied(t, dispatching) BY <1>3, <2>2 DEF propose_offline
  <2>7. \A m \in MessageId, e \in Endpoint, s \in MessageStatusKind :
          <<m, e, s>> \in said /\ is_reached(s, Header[m].ack_kind) => Acked(e, m)
    BY <2>3 DEF is_reached
  <2> QED BY <2>5, <2>6, <2>7, AppliedOk
<1> QED BY <1>2, <1>3

\* Sessions with calls stay with their edge node: only connect sets it.
LEMMA PeersStay ==
  ASSUME IInv, [Next]_vars
  PROVE  SamePeers
<1>1. ASSUME NEW c \in Session, NEW p \in PeerChoices[c], connect(c, p)
      PROVE  SamePeers
  <2>1. call[c] = <<>> BY <1>1 DEF connect, IInv, Linked
  <2> QED BY <1>1, <2>1 DEF connect, init, SamePeers, IInv, Typed, ConnTypes
<1>2. ASSUME NEW c \in Session, Client(c), \A p \in PeerChoices[c] : ~connect(c, p)
      PROVE  peer' = peer
  BY <1>2, ServerStays
<1>3. ASSUME NEW c \in Session,
             \/ create_edge_connection(c) \/ end_connection(c) \/ packet_in(c)
             \/ tx_task(c) \/ tx_fail(c) \/ rx_task(c) \/ rx_end(c) \/ rx_cancelled(c)
             \/ rx_close(c) \/ cut(c)
             \/ \E s \in DOMAIN call[c] : resume(c, s)
      PROVE  peer' = peer
  BY <1>3 DEF create_edge_connection, end_connection, packet_in, tx_task, tx_fail, rx_task,
              rx_end, rx_cancelled, rx_close, cut, resume, conn_vars
<1>4. ASSUME NEW h \in handlers,
             start_request(h) \/ apply_request(h) \/ finish_request(h) \/ fail_request(h)
      PROVE  peer' = peer
  BY <1>4 DEF start_request, apply_request, finish_request, fail_request, conn_vars
<1>5. CASE \/ \E d \in dispatching : dispatch_message(d) \/ report_dispatch(d)
           \/ \E e \in offlines : propose_offline(e) \/ lose_offline(e)
           \/ UNCHANGED vars
  <2>1. peer' = peer
    BY <1>5 DEF dispatch_message, report_dispatch, propose_offline, lose_offline, vars, conn_vars
  <2> QED BY <2>1 DEF SamePeers
<1>6. peer' = peer => SamePeers BY DEF SamePeers
<1>7. CASE Runtime BY <1>3, <1>4, <1>5, <1>6, <1>7, Zenon DEF Runtime
<1>8. CASE Fault BY <1>3, <1>4, <1>5, <1>6, <1>8, Zenon DEF Fault
<1> QED BY <1>1, <1>2, <1>5, <1>6, <1>7, <1>8, Zenon DEF Next

\* AcksChecked is inductive, next to IInv and LInv.
LEMMA ChecksInductive ==
  ASSUME IInv, LInv, AcksChecked, [Next]_vars
  PROVE  AcksChecked'
<1>0. SameCalls /\ SamePeers BY CallsStay, PeersStay
<1>1. ASSUME UNCHANGED <<edge_routing, handlers>>
      PROVE  AcksChecked'
  BY <1>0, <1>1, ChecksStay
<1>2. ASSUME NEW c \in Session, Client(c)
      PROVE  UNCHANGED <<edge_routing, handlers>>
  BY <1>2, ServerStays
<1>3. ASSUME NEW c \in Session,
             \/ create_edge_connection(c) \/ tx_task(c) \/ tx_fail(c) \/ rx_task(c)
             \/ rx_end(c) \/ rx_cancelled(c) \/ rx_close(c) \/ cut(c)
             \/ \E s \in DOMAIN call[c] : resume(c, s)
      PROVE  UNCHANGED <<edge_routing, handlers>>
  BY <1>3 DEF create_edge_connection, tx_task, tx_fail, rx_task, rx_end, rx_cancelled, rx_close,
              cut, resume, conn_vars
<1>4. ASSUME NEW c \in Session, end_connection(c)
      PROVE  AcksChecked'
  <2>1. handlers' = handlers BY <1>4 DEF end_connection
  <2>2. \A e \in Endpoint : edge_routing'[e] # None => edge_routing'[e] = edge_routing[e]
    BY <1>4 DEF end_connection, remove_edge_connection
  <2> QED BY <1>0, <2>1, <2>2, ChecksStay
<1>5. ASSUME NEW c \in Session, packet_in(c)
      PROVE  AcksChecked'
  <2>1. edge_routing' = edge_routing BY <1>5 DEF packet_in, conn_vars
  <2>2. PICK g : g = [conn |-> c, seq |-> Head(up[c]), pc |-> "spawned",
                      request |-> call[c][Head(up[c])].request]
    OBVIOUS
  <2>3. g.pc = "spawned" /\ handlers' = handlers \cup {g} BY <1>5, <2>2 DEF packet_in
  <2> QED BY <1>0, <2>1, <2>3, ChecksStay
<1>6. ASSUME NEW h \in handlers, apply_request(h)
      PROVE  AcksChecked'
  <2>1. edge_routing' = edge_routing /\ h.pc = "proposing"
    BY <1>6 DEF apply_request, conn_vars
  <2>2. PICK g \in Handler :
          /\ handlers' = (handlers \ {h}) \cup {g} /\ g.pc = "applied"
          /\ g.conn = h.conn /\ g.request = h.request
    BY <1>6, ToPcType DEF apply_request, IInv
  <2> QED BY <1>0, <2>1, <2>2, ChecksStay
<1>7. ASSUME NEW h \in handlers, fail_request(h)
      PROVE  AcksChecked'
  <2>1. edge_routing' = edge_routing /\ handlers' \subseteq handlers
    BY <1>7 DEF fail_request, reply, conn_vars
  <2> QED BY <1>0, <2>1, ChecksStay
<1>8. CASE \/ \E d \in dispatching : dispatch_message(d) \/ report_dispatch(d)
           \/ \E e \in offlines : propose_offline(e) \/ lose_offline(e)
           \/ UNCHANGED vars
  <2>1. UNCHANGED <<edge_routing, handlers>>
    BY <1>8 DEF dispatch_message, report_dispatch, propose_offline, lose_offline, vars, conn_vars
  <2> QED BY <1>1, <2>1
<1>9. CASE Runtime
  BY <1>1, <1>3, <1>4, <1>5, <1>6, <1>8, <1>9, StartChecks, FinishChecks, Zenon DEF Runtime
<1>10. CASE Fault BY <1>1, <1>3, <1>7, <1>8, <1>10, Zenon DEF Fault
<1> QED BY <1>1, <1>2, <1>8, <1>9, <1>10, Zenon DEF Next

\* OkInv is inductive, next to IInv and LInv.
LEMMA OkInductive ==
  ASSUME OwnersAck, IInv, LInv, OkInv, [Next]_vars
  PROVE  OkInv'
<1>1. AcksChecked' /\ SameCalls /\ SamePeers BY ChecksInductive, CallsStay, PeersStay DEF OkInv
<1>2. ASSUME NEW c \in Session, Client(c)
      PROVE  UNCHANGED <<topic, results>>
  BY <1>2, ServerStays
<1>3. ASSUME NEW c \in Session,
             \/ create_edge_connection(c) \/ end_connection(c) \/ packet_in(c)
             \/ tx_task(c) \/ tx_fail(c) \/ rx_task(c) \/ rx_end(c) \/ rx_cancelled(c)
             \/ rx_close(c) \/ cut(c)
             \/ \E s \in DOMAIN call[c] : resume(c, s)
      PROVE  UNCHANGED <<topic, results>>
  BY <1>3 DEF create_edge_connection, end_connection, packet_in, tx_task, tx_fail, rx_task,
              rx_end, rx_cancelled, rx_close, cut, resume, topic_vars
<1>4. ASSUME NEW h \in handlers, start_request(h) \/ finish_request(h) \/ fail_request(h)
      PROVE  UNCHANGED <<topic, results>>
  BY <1>4 DEF start_request, finish_request, fail_request, topic_vars
<1>5. CASE \/ \E d \in dispatching : dispatch_message(d)
           \/ \E e \in offlines : lose_offline(e)
           \/ UNCHANGED vars
  <2>1. UNCHANGED <<topic, results>>
    BY <1>5 DEF dispatch_message, lose_offline, vars, topic_vars
  <2> QED BY <1>1, <2>1, UnappliedOk
<1>6. CASE Runtime
  BY <1>1, <1>3, <1>4, <1>5, <1>6, UnappliedOk, ApplyOk, ReportOk, Zenon DEF Runtime
<1>7. CASE Fault BY <1>1, <1>3, <1>4, <1>5, <1>7, UnappliedOk, Zenon DEF Fault
<1> QED BY <1>1, <1>2, <1>5, <1>6, <1>7, UnappliedOk DEF Next

\* Before anybody is connected nobody is told anything.
LEMMA OkInitially ==
  ASSUME Init
  PROVE  OkInv
<1>1. handlers = {} /\ \A e \in Endpoint : edge_routing[e] = None BY DEF Init
<1>2. AcksChecked BY <1>1 DEF AcksChecked
<1>3. topic.queue.acks = {} /\ topic.queue.held = {} /\ results = {}
  BY DEF Init, from_durable, new
<1> QED BY <1>2, <1>3 DEF OkInv, Says

\* A client is told Ok only when, for every endpoint the message was for, a session of
\* the edge node the endpoint belongs to has sent the ack it asked for: check_ep_auth
\* lets no other through, though any client may send an ack for any endpoint, and no
\* report of the server and no loss of a connection is taken for one, whatever becomes
\* of the links and the routes between.  For messages that wait for an ack of the
\* receiver and are not durable.
THEOREM OkIsFromOwnPeer ==
  ASSUME OwnersAck
  PROVE  Spec => []OkFromOwnPeer
<1>1. Init => IInv /\ LInv /\ OkInv BY Initially, LeaversInitially, OkInitially
<1>2. IInv /\ LInv /\ OkInv /\ [Next]_vars => IInv' /\ LInv' /\ OkInv'
  BY Inductive, LeaversInductive, OkInductive
<1>3. IInv /\ OkInv => OkFromOwnPeer
  <2> SUFFICES ASSUME IInv, OkInv, NEW r \in results, r.kind = "Ok",
                      NEW e \in Endpoint, r.status[e] # Absent
               PROVE  Acked(e, r.id)
    BY DEF OkFromOwnPeer, Acked, OfPeer
  <2>1. r.id \in MessageId BY DEF IInv, Typed, TopicTypes, WaitAckResult
  <2>2. is_reached(r.status[e], Header[r.id].ack_kind)
    BY <2>1 DEF OkInv, Justified, OwnersAck
  <2> QED BY <2>2 DEF OkInv
<1> QED BY <1>1, <1>2, <1>3, PTL DEF Spec
=============================================================================
