---------------------------- MODULE RaftNetProofs ----------------------------
(***************************************************************************)
(* Theorems about RaftNet, for every set of node ids and every number of   *)
(* calls, streams and faults: a caller gets the response to its own        *)
(* request, and a call over a stream that is up is under way.              *)
(***************************************************************************)
EXTENDS RaftNet, FiniteSetTheorems, SequenceTheorems, TLAPS

-----------------------------------------------------------------------------
(* The inductive invariant. *)

\* The variables have their types, and the calls and streams are sequences.
Typed ==
  /\ TypeOK
  /\ call \in Seq(CallRecord)
  /\ stream \in Seq(StreamRecord)

\* The calls whose responder is or was in wait_poll have a sequence number.
Counted == {"sent", "ok", "err"}

numbered(n, s) ==
  {i \in DOMAIN call : call[i].from = n /\ call[i].stream = s /\ call[i].state \in Counted}

\* A call waits for the lock without a stream; one that dials, or has sent, has a
\* stream of its caller, and one that dials has dialed it.
CallStreams ==
  \A i \in DOMAIN call :
    /\ call[i].stream \in DOMAIN stream \cup {0}
    /\ call[i].state \notin Counted => call[i].seq = 0
    /\ call[i].state = "lock" => call[i].stream = 0
    /\ call[i].state \in Dialing \cup {"sent", "ok"} => call[i].stream # 0
    /\ call[i].stream # 0 =>
         call[i].from \in {stream[call[i].stream].dialer, stream[call[i].stream].target}
    /\ call[i].state \in Dialing =>
         /\ stream[call[i].stream].dialer = call[i].from
         /\ stream[call[i].stream].target = call[i].to

\* Nobody else uses a stream that is being dialed.
DialPrivate ==
  \A i \in DOMAIN call :
    call[i].state \in Dialing =>
      /\ \A j \in DOMAIN call \ {i} :
           ~(call[j].from = call[i].from /\ call[j].stream = call[i].stream)
      /\ \A p \in Node : connections[call[i].from][p] # call[i].stream

\* The streams that a listener and a connection map hold end at their node.
StreamsHeld ==
  \A n \in Node :
    /\ \A s \in backlog[n] : s \in DOMAIN stream /\ stream[s].target = n
    /\ acceptor[n].state # "idle" =>
         acceptor[n].stream \in DOMAIN stream /\ stream[acceptor[n].stream].target = n
    /\ \A p \in Node : connections[n][p] # 0 =>
         /\ connections[n][p] \in DOMAIN stream
         /\ {stream[connections[n][p]].dialer, stream[connections[n][p]].target} = {n, p}

\* The sequence numbers of a caller on a stream are below the next one and differ.
Numbered ==
  \A i \in DOMAIN call :
    call[i].state \in Counted /\ call[i].stream # 0 =>
      /\ call[i].seq < next_seq(call[i].from, call[i].stream)
      /\ \A j \in numbered(call[i].from, call[i].stream) \ {i} : call[j].seq # call[i].seq

\* A packet carries the stream and the number of the call it belongs to, a request
\* to the peer of the caller and a response to the caller.
Labelled(p) ==
  /\ p.call \in DOMAIN call /\ p.stream \in DOMAIN stream
  /\ call[p.call].state \in Counted
  /\ p.stream = call[p.call].stream
  /\ p.seq = call[p.call].seq
  /\ p.to = IF p.kind = "Request" THEN peer_of(call[p.call].from, p.stream) ELSE call[p.call].from

PacketsLabelled ==
  /\ \A p \in wire : Labelled(p)
  /\ \A p \in handling : Labelled(p) /\ p.kind = "Request"

IInv ==
  /\ Typed
  /\ CallStreams /\ DialPrivate /\ StreamsHeld
  /\ Numbered /\ PacketsLabelled
  /\ OwnResponse /\ CallUnderWay

-----------------------------------------------------------------------------
(* Calls and streams that keep their places. *)

\* A step of the calls that are there: a call keeps its caller, its stream and its
\* number, a dial goes on, a call that was sent ends, and call i may fail.
CallStep(i) ==
  /\ call' \in Seq(CallRecord) /\ Len(call') = Len(call)
  /\ \A j \in DOMAIN call :
       /\ call'[j].from = call[j].from /\ call'[j].to = call[j].to
       /\ call'[j].stream = call[j].stream /\ call'[j].seq = call[j].seq
       /\ \/ call'[j].state = call[j].state
          \/ call[j].state \in Dialing /\ call'[j].state \in Dialing
          \/ j = i /\ call'[j].state = "err"
          \/ call[j].state = "sent" /\ call'[j].state \in {"ok", "err"}
       /\ call'[j].state = "ok" => call'[j].got = j \/ call'[j] = call[j]

\* A step of the streams that are there: no end moves and no stream comes up.
StreamStep ==
  /\ stream' \in Seq(StreamRecord) /\ Len(stream') = Len(stream)
  /\ \A s \in DOMAIN stream :
       /\ stream'[s].dialer = stream[s].dialer /\ stream'[s].target = stream[s].target
       /\ stream'[s].up => stream[s].up

\* A function on the places of a sequence, with values of a set, is a sequence.
LEMMA MapSeq ==
  ASSUME NEW S, NEW q \in Seq(S), NEW c, c = [j \in DOMAIN q |-> c[j]],
         \A j \in DOMAIN q : c[j] \in S
  PROVE  c \in Seq(S) /\ Len(c) = Len(q) /\ DOMAIN c = DOMAIN q
<1>1. DOMAIN q = 1 .. Len(q) /\ Len(q) \in Nat
  OBVIOUS
<1>2. c \in [1 .. Len(q) -> S]
  BY <1>1
<1>3. c \in Seq(S)
  BY <1>1, <1>2
<1> QED
  BY <1>1, <1>2, <1>3

\* The streams d are the streams c with their ends, none of which has come up.
Narrowed(c, d) ==
  /\ d \in Seq(StreamRecord) /\ Len(d) = Len(c) /\ DOMAIN d = DOMAIN c
  /\ \A k \in DOMAIN c :
       /\ d[k].dialer = c[k].dialer /\ d[k].target = c[k].target
       /\ d[k].up => c[k].up

\* Streams with another value of one of them.
LEMMA EditNarrowed ==
  ASSUME NEW c \in Seq(StreamRecord), NEW k \in DOMAIN c, NEW r \in StreamRecord,
         r.dialer = c[k].dialer, r.target = c[k].target, r.up => c[k].up
  PROVE  Narrowed(c, [c EXCEPT ![k] = r])
<1> PICK d : d = [c EXCEPT ![k] = r]
  OBVIOUS
<1>1. d \in Seq(StreamRecord) /\ Len(d) = Len(c) /\ DOMAIN d = DOMAIN c
  OBVIOUS
<1>2. \A j \in DOMAIN c : d[j] = IF j = k THEN r ELSE c[j]
  OBVIOUS
<1> QED
  BY <1>1, <1>2 DEF Narrowed

\* What a step that keeps all places needs of the steps of calls and streams.
LEMMA SameCalls ==
  ASSUME Typed, UNCHANGED call
  PROVE  \A i : CallStep(i)
BY DEF Typed, CallStep

\* The streams may stay as they are.
LEMMA SameStreams ==
  ASSUME Typed, UNCHANGED stream
  PROVE  StreamStep
BY DEF Typed, StreamStep

\* The places of calls and streams are numbers.
LEMMA Places ==
  ASSUME Typed
  PROVE  /\ DOMAIN call = 1 .. Len(call) /\ Len(call) \in Nat
         /\ DOMAIN stream = 1 .. Len(stream) /\ Len(stream) \in Nat
         /\ \A i \in DOMAIN call : call[i] \in CallRecord
         /\ \A s \in DOMAIN stream : stream[s] \in StreamRecord
BY DEF Typed

\* Places stay in the next state.
LEMMA PlacesStep ==
  ASSUME Typed, NEW i, CallStep(i), StreamStep
  PROVE  /\ DOMAIN call' = DOMAIN call /\ DOMAIN stream' = DOMAIN stream
         /\ \A j \in DOMAIN call : call'[j] \in CallRecord
         /\ \A s \in DOMAIN stream : stream'[s] \in StreamRecord
BY Places DEF Typed, CallStep, StreamStep

\* The calls keep their streams.
LEMMA CallStreamsStep ==
  ASSUME Typed, CallStreams, NEW i, CallStep(i), StreamStep
  PROVE  CallStreams'
<1> SUFFICES ASSUME NEW j \in DOMAIN call
             PROVE  /\ call'[j].stream \in DOMAIN stream' \cup {0}
                    /\ call'[j].state \notin Counted => call'[j].seq = 0
                    /\ call'[j].state = "lock" => call'[j].stream = 0
                    /\ call'[j].state \in Dialing \cup {"sent", "ok"} => call'[j].stream # 0
                    /\ call'[j].stream # 0 =>
                         call'[j].from \in {stream'[call'[j].stream].dialer,
                                            stream'[call'[j].stream].target}
                    /\ call'[j].state \in Dialing =>
                         /\ stream'[call'[j].stream].dialer = call'[j].from
                         /\ stream'[call'[j].stream].target = call'[j].to
  BY PlacesStep DEF CallStreams
<1>1. call[j].stream \in DOMAIN stream =>
        /\ stream'[call[j].stream].dialer = stream[call[j].stream].dialer
        /\ stream'[call[j].stream].target = stream[call[j].stream].target
  BY DEF StreamStep
<1>2. /\ call'[j].from = call[j].from /\ call'[j].to = call[j].to
      /\ call'[j].stream = call[j].stream /\ call'[j].seq = call[j].seq
  BY DEF CallStep
<1>3. /\ call'[j].state \notin Counted => call[j].state \notin Counted
      /\ call'[j].state = "lock" => call[j].state = "lock"
      /\ call'[j].state \in Dialing \cup {"sent", "ok"} =>
           call[j].state \in Dialing \cup {"sent", "ok"}
      /\ call'[j].state \in Dialing => call[j].state \in Dialing
  BY DEF CallStep, Counted, Dialing, Getting
<1>4. DOMAIN stream' = DOMAIN stream
  BY PlacesStep
<1>5. /\ call[j].stream \in DOMAIN stream \cup {0}
      /\ call[j].state \notin Counted => call[j].seq = 0
      /\ call[j].state = "lock" => call[j].stream = 0
      /\ call[j].state \in Dialing \cup {"sent", "ok"} => call[j].stream # 0
      /\ call[j].stream # 0 =>
           call[j].from \in {stream[call[j].stream].dialer, stream[call[j].stream].target}
      /\ call[j].state \in Dialing =>
           /\ stream[call[j].stream].dialer = call[j].from
           /\ stream[call[j].stream].target = call[j].to
  BY DEF CallStreams
<1> QED
  BY <1>1, <1>2, <1>3, <1>4, <1>5

\* A packet stays labelled.
LEMMA LabelledStep ==
  ASSUME Typed, NEW i, CallStep(i), StreamStep, NEW p, Labelled(p)
  PROVE  Labelled(p)'
<1>1. stream'[p.stream].dialer = stream[p.stream].dialer
      /\ stream'[p.stream].target = stream[p.stream].target
  BY DEF Labelled, StreamStep
<1>2. peer_of(call[p.call].from, p.stream)' = peer_of(call[p.call].from, p.stream)
  BY <1>1 DEF peer_of, CallStep, Labelled
<1>3. p.call \in DOMAIN call' /\ p.stream \in DOMAIN stream'
  BY PlacesStep DEF Labelled
<1>5. call'[p.call].state \in Counted
  BY DEF Labelled, CallStep, Counted, Dialing, Getting
<1>4. call'[p.call].stream = call[p.call].stream /\ call'[p.call].seq = call[p.call].seq
      /\ call'[p.call].from = call[p.call].from
  BY DEF Labelled, CallStep
<1> QED
  BY <1>2, <1>3, <1>4, <1>5 DEF Labelled

-----------------------------------------------------------------------------
(* Sequence numbers. *)

\* The calls with a number are finitely many, and next_seq counts them.
LEMMA NextSeq ==
  ASSUME Typed, NEW n, NEW s
  PROVE  /\ IsFiniteSet(numbered(n, s)) /\ next_seq(n, s) = Cardinality(numbered(n, s))
         /\ next_seq(n, s) \in Nat /\ next_seq(n, s) <= Len(call)
<1>0. DOMAIN call = 1 .. Len(call) /\ Len(call) \in Nat
  BY Places
<1>1. IsFiniteSet(DOMAIN call) /\ Cardinality(DOMAIN call) = Len(call)
  <2>1. /\ IsFiniteSet(1 .. Len(call))
        /\ Cardinality(1 .. Len(call)) = IF 1 > Len(call) THEN 0 ELSE Len(call) - 1 + 1
    BY <1>0, FS_Interval
  <2> QED
    BY <1>0, <2>1
<1>2. numbered(n, s) \subseteq DOMAIN call
  BY DEF numbered
<1>3. IsFiniteSet(numbered(n, s)) /\ Cardinality(numbered(n, s)) <= Len(call)
  BY <1>1, <1>2, FS_Subset
<1>4. next_seq(n, s) = Cardinality(numbered(n, s))
  BY DEF next_seq, numbered, Counted
<1> QED
  BY <1>3, <1>4, FS_CardinalityType

\* The same, one step later.
LEMMA NextSeqNext ==
  ASSUME Typed', NEW n, NEW s
  PROVE  /\ IsFiniteSet(numbered(n, s)') /\ next_seq(n, s)' = Cardinality(numbered(n, s)')
         /\ next_seq(n, s)' \in Nat
<1>0. DOMAIN call' = 1 .. Len(call') /\ Len(call') \in Nat
  BY DEF Typed
<1>1. IsFiniteSet(DOMAIN call')
  BY <1>0, FS_Interval
<1>2. numbered(n, s)' \subseteq DOMAIN call'
  BY DEF numbered
<1>3. IsFiniteSet(numbered(n, s)')
  BY <1>1, <1>2, FS_Subset
<1>4. next_seq(n, s)' = Cardinality(numbered(n, s)')
  BY DEF next_seq, numbered, Counted
<1> QED
  BY <1>3, <1>4, FS_CardinalityType

\* The calls that have a number keep it.
NumbersKept ==
  \A j \in DOMAIN call : call[j].state \in Counted =>
    /\ j \in DOMAIN call' /\ call'[j].state \in Counted
    /\ call'[j].from = call[j].from /\ call'[j].stream = call[j].stream
    /\ call'[j].seq = call[j].seq

\* No call but i gets a number, and i gets the next one of its stream.
NumbersAdded(i) ==
  \A j \in DOMAIN call' : call'[j].state \in Counted /\ call'[j].stream # 0 =>
    \/ j \in DOMAIN call /\ call[j].state \in Counted
    \/ j = i /\ call'[j].seq = next_seq(call'[j].from, call'[j].stream)

\* Numbers stay below the next one and differ when numbered calls stay as they are
\* and at most one more call gets a number, the next one of its stream.
LEMMA NumberedStep ==
  ASSUME Typed, Typed', Numbered, NEW i,
         NumbersKept, NumbersAdded(i)
  PROVE  Numbered'
<1> USE DEF NumbersKept, NumbersAdded
<1> DEFINE Old(j) == j \in DOMAIN call /\ call[j].state \in Counted
<1> SUFFICES ASSUME NEW j \in DOMAIN call', call'[j].state \in Counted, call'[j].stream # 0
             PROVE  /\ call'[j].seq < next_seq(call[j].from, call[j].stream)'
                    /\ \A k \in numbered(call[j].from, call[j].stream)' \ {j} :
                         call'[k].seq # call'[j].seq
  BY DEF Numbered
<1> PICK n, s : n = call'[j].from /\ s = call'[j].stream
  OBVIOUS
<1>0. next_seq(call[j].from, call[j].stream)' = next_seq(n, s)'
      /\ numbered(call[j].from, call[j].stream)' = numbered(n, s)'
  BY DEF next_seq, numbered
<1>1. numbered(n, s) \subseteq numbered(n, s)'
  BY DEF numbered
<1>2. next_seq(n, s) <= next_seq(n, s)' /\ next_seq(n, s) \in Nat /\ next_seq(n, s)' \in Nat
  BY <1>1, NextSeq, NextSeqNext, FS_Subset
<1>3. ASSUME NEW k \in numbered(n, s)', Old(k)
      PROVE  k \in numbered(n, s) /\ call'[k].seq = call[k].seq
             /\ call[k].seq < next_seq(n, s) /\ call[k].seq \in Nat
  BY <1>3, Places DEF numbered, Numbered, CallRecord
<1>4. ASSUME NEW k \in numbered(n, s)', ~Old(k)
      PROVE  k = i /\ call'[k].seq = next_seq(n, s)
  BY <1>4 DEF numbered
<1>5. j \in numbered(n, s)'
  BY DEF numbered
<1>6. ASSUME NEW k \in numbered(n, s)', ~Old(k)
      PROVE  next_seq(n, s) < next_seq(n, s)'
  <2>1. k \notin numbered(n, s) /\ numbered(n, s) \cup {k} \subseteq numbered(n, s)'
    BY <1>1, <1>6 DEF numbered
  <2>2. Cardinality(numbered(n, s) \cup {k}) = next_seq(n, s) + 1
    <3>1. IsFiniteSet(numbered(n, s)) /\ next_seq(n, s) = Cardinality(numbered(n, s))
      BY NextSeq
    <3>2. Cardinality(numbered(n, s) \cup {k})
            = IF k \in numbered(n, s) THEN Cardinality(numbered(n, s))
              ELSE Cardinality(numbered(n, s)) + 1
      BY <3>1, FS_AddElement, Zenon
    <3>3. k \notin numbered(n, s)
      BY <2>1
    <3> QED
      BY <3>1, <3>2, <3>3, Zenon
  <2>3. Cardinality(numbered(n, s) \cup {k}) <= next_seq(n, s)'
    BY <2>1, NextSeqNext, FS_Subset
  <2> QED
    BY <1>2, <2>2, <2>3
<1>7. call'[j].seq < next_seq(n, s)'
  <2>1. CASE Old(j)
    BY <2>1, <1>2, <1>3, <1>5
  <2>2. CASE ~Old(j)
    BY <2>2, <1>2, <1>4, <1>5, <1>6
  <2> QED
    BY <2>1, <2>2
<1>8. ASSUME NEW k \in numbered(n, s)' \ {j}
      PROVE  call'[k].seq # call'[j].seq
  <2>1. CASE Old(j) /\ Old(k)
    <3>1. k \in numbered(n, s) \ {j} /\ j \in numbered(n, s)
      BY <2>1, <1>3, <1>5
    <3>2. call[k].seq # call[j].seq
      BY <3>1 DEF Numbered, numbered
    <3> QED
      BY <2>1, <1>3, <1>5, <3>2
  <2>2. CASE Old(j) /\ ~Old(k)
    BY <2>2, <1>2, <1>3, <1>4, <1>5
  <2>3. CASE ~Old(j) /\ Old(k)
    BY <2>3, <1>2, <1>3, <1>4, <1>5
  <2>4. CASE ~Old(j) /\ ~Old(k)
    BY <2>4, <1>4, <1>5
  <2> QED
    BY <2>1, <2>2, <2>3, <2>4
<1> QED
  BY <1>0, <1>7, <1>8

\* A step of calls and streams that are there keeps the numbers.
LEMMA QuietNumbered ==
  ASSUME Typed, Typed', CallStreams, DialPrivate, Numbered, NEW i, CallStep(i)
  PROVE  Numbered'
<1>1. DOMAIN call' = DOMAIN call
  BY Places DEF CallStep, Typed
<1>2. NumbersKept
  BY <1>1 DEF NumbersKept, CallStep, Counted, Dialing, Getting
<1>3. ASSUME NEW j \in DOMAIN call, call'[j].state \in Counted, call'[j].stream # 0,
             call[j].state \notin Counted
      PROVE  j = i /\ call'[j].seq = next_seq(call'[j].from, call'[j].stream)
  <2>1. /\ call'[j].from = call[j].from /\ call'[j].stream = call[j].stream
        /\ call'[j].seq = call[j].seq
    BY DEF CallStep
  <2>2. j = i
    BY <1>3 DEF CallStep, Counted, Dialing, Getting
  <2>3. call[j].state \in Dialing
    <3>1. call[j].state \in CallState
      BY Places DEF CallRecord
    <3> QED
      BY <1>3, <2>1, <3>1 DEF CallStreams, CallState, Counted
  <2>4. call[j].seq = 0
    BY <1>3 DEF CallStreams
  <2>5. numbered(call[j].from, call[j].stream) = {}
    BY <2>3, <1>3 DEF DialPrivate, numbered
  <2>6. next_seq(call[j].from, call[j].stream) = 0
    BY <2>5, NextSeq, FS_EmptySet
  <2> QED
    BY <2>1, <2>2, <2>4, <2>6
<1>4. NumbersAdded(i)
  BY <1>1, <1>3 DEF NumbersAdded
<1> QED
  BY <1>2, <1>4, NumberedStep

\* A stream that is dialed stays private when the connection maps take in, beyond
\* what they have, streams that were dialed by others.
LEMMA QuietPrivate ==
  ASSUME Typed, CallStreams, DialPrivate, NEW i, CallStep(i),
         \A n, p \in Node : connections'[n][p] # connections[n][p] =>
           connections'[n][p] \in DOMAIN stream /\ stream[connections'[n][p]].target = n
  PROVE  DialPrivate'
<1>1. DOMAIN call' = DOMAIN call
  BY Places DEF CallStep, Typed
<1> SUFFICES ASSUME NEW j \in DOMAIN call, call'[j].state \in Dialing
             PROVE  /\ \A k \in DOMAIN call \ {j} :
                         ~(call'[k].from = call'[j].from /\ call'[k].stream = call'[j].stream)
                    /\ \A p \in Node : connections'[call'[j].from][p] # call'[j].stream
  BY <1>1 DEF DialPrivate
<1>2. \A k \in DOMAIN call : call'[k].from = call[k].from /\ call'[k].stream = call[k].stream
  BY DEF CallStep
<1>3. call[j].state \in Dialing
  BY DEF CallStep, Dialing, Getting
<1>4. \A k \in DOMAIN call \ {j} :
        ~(call'[k].from = call'[j].from /\ call'[k].stream = call'[j].stream)
  BY <1>2, <1>3 DEF DialPrivate
<1>5. ASSUME NEW p \in Node
      PROVE  connections'[call'[j].from][p] # call'[j].stream
  <2>1. call[j].from \in Node /\ call[j].stream \in DOMAIN stream
    BY <1>3, Places DEF CallRecord, CallStreams
  <2>2. stream[call[j].stream].dialer = call[j].from
        /\ stream[call[j].stream].target # call[j].from
    <3>1. stream[call[j].stream] \in StreamRecord
      BY <2>1, Places
    <3>2. stream[call[j].stream].dialer < stream[call[j].stream].target
      BY <3>1 DEF StreamRecord
    <3>3. stream[call[j].stream].dialer = call[j].from
      BY <1>3 DEF CallStreams
    <3>4. call[j].from \in Nat
      BY <2>1, NetAssumption
    <3> QED
      BY <3>2, <3>3, <3>4
  <2>3. connections[call[j].from][p] # call[j].stream
    BY <1>3 DEF DialPrivate
  <2> QED
    BY <1>2, <2>1, <2>2, <2>3
<1> QED
  BY <1>4, <1>5

\* The streams that are held stay held: a listener and an accept loop take streams
\* from what they have, a connection map a stream between its node and the peer.
LEMMA QuietHeld ==
  ASSUME Typed, StreamsHeld, StreamStep,
         \A n \in Node : backlog'[n] \subseteq backlog[n],
         \A n \in Node : acceptor'[n].state # "idle" =>
           \/ acceptor'[n].stream = acceptor[n].stream /\ acceptor[n].state # "idle"
           \/ acceptor'[n].stream \in backlog[n],
         \A n, p \in Node : connections'[n][p] # connections[n][p] =>
           /\ connections'[n][p] \in DOMAIN stream
           /\ {stream[connections'[n][p]].dialer, stream[connections'[n][p]].target} = {n, p}
  PROVE  StreamsHeld'
<1>1. DOMAIN stream' = DOMAIN stream
  BY Places DEF StreamStep, Typed
<1>2. \A s \in DOMAIN stream : stream'[s].dialer = stream[s].dialer /\ stream'[s].target = stream[s].target
  BY DEF StreamStep
<1> SUFFICES ASSUME NEW n \in Node
             PROVE  /\ \A s \in backlog'[n] : s \in DOMAIN stream' /\ stream'[s].target = n
                    /\ acceptor'[n].state # "idle" =>
                         acceptor'[n].stream \in DOMAIN stream' /\ stream'[acceptor'[n].stream].target = n
                    /\ \A p \in Node : connections'[n][p] # 0 =>
                         /\ connections'[n][p] \in DOMAIN stream'
                         /\ {stream'[connections'[n][p]].dialer, stream'[connections'[n][p]].target} = {n, p}
  BY DEF StreamsHeld
<1>3. \A s \in backlog'[n] : s \in DOMAIN stream' /\ stream'[s].target = n
  BY <1>1, <1>2 DEF StreamsHeld
<1>4. acceptor'[n].state # "idle" =>
        acceptor'[n].stream \in DOMAIN stream' /\ stream'[acceptor'[n].stream].target = n
  BY <1>1, <1>2 DEF StreamsHeld
<1>5. \A p \in Node : connections'[n][p] # 0 =>
        /\ connections'[n][p] \in DOMAIN stream
        /\ {stream[connections'[n][p]].dialer, stream[connections'[n][p]].target} = {n, p}
  <2> SUFFICES ASSUME NEW p \in Node, connections'[n][p] # 0
               PROVE  /\ connections'[n][p] \in DOMAIN stream
                      /\ {stream[connections'[n][p]].dialer, stream[connections'[n][p]].target} = {n, p}
    BY Zenon
  <2>1. CASE connections'[n][p] # connections[n][p]
    BY <2>1
  <2>2. CASE connections'[n][p] = connections[n][p]
    <3>1. connections[n][p] # 0
      BY <2>2
    <3>2. /\ connections[n][p] \in DOMAIN stream
          /\ {stream[connections[n][p]].dialer, stream[connections[n][p]].target} = {n, p}
      BY <3>1 DEF StreamsHeld
    <3> QED
      BY <2>2, <3>2
  <2> QED
    BY <2>1, <2>2
<1> QED
  BY <1>1, <1>2, <1>3, <1>4, <1>5

-----------------------------------------------------------------------------
(* Steps that make no call and send nothing. *)

\* The types of what is neither a call nor a stream.
RestTyped ==
  /\ raft \in [Node -> BOOLEAN]
  /\ backlog \in [Node -> SUBSET Stream]
  /\ acceptor \in [Node -> Acceptor]
  /\ connections \in [Node -> [Node -> Stream \cup {0}]]
  /\ wire \subseteq Packet /\ handling \subseteq Packet
  /\ cuts \subseteq Stream /\ timeouts \in 0 .. MaxFaults

\* Types are kept when calls and streams keep their places.
LEMMA QuietTyped ==
  ASSUME Typed, NEW i, CallStep(i), StreamStep, RestTyped'
  PROVE  Typed'
<1>1. call' \in Seq(CallRecord) /\ Len(call') <= MaxCalls
  BY DEF CallStep, Typed, TypeOK
<1>2. stream' \in Seq(StreamRecord) /\ Len(stream') <= MaxStreams
  BY DEF StreamStep, Typed, TypeOK
<1>3. (\A j \in DOMAIN call' : call'[j] \in CallRecord)
      /\ (\A s \in DOMAIN stream' : stream'[s] \in StreamRecord)
  BY <1>1, <1>2
<1> QED
  BY <1>1, <1>2, <1>3 DEF Typed, TypeOK, RestTyped

\* Is a packet of call j under way on stream s?
underway(j, s) == \E p \in wire \cup handling : p.stream = s /\ p.call = j

\* Who is answered is answered for its own request.
LEMMA QuietOwn ==
  ASSUME Typed, OwnResponse, NEW i, CallStep(i)
  PROVE  OwnResponse'
<1>1. DOMAIN call' = DOMAIN call
  BY Places DEF CallStep, Typed
<1> QED
  BY <1>1 DEF CallStep, OwnResponse

\* The calls that still wait on a stream that is up stay under way.
LEMMA QuietUnderWay ==
  ASSUME Typed, CallStreams, CallUnderWay, NEW i, CallStep(i), StreamStep,
         \A j \in DOMAIN call, s \in DOMAIN stream :
           /\ call[j].state = "sent" /\ call'[j].state = "sent" /\ call[j].stream = s
           /\ stream[s].up /\ stream'[s].up /\ underway(j, s)
           => underway(j, s)'
  PROVE  CallUnderWay'
<1>1. DOMAIN call' = DOMAIN call
  BY Places DEF CallStep, Typed
<1> SUFFICES ASSUME NEW j \in DOMAIN call, call'[j].state = "sent", stream'[call'[j].stream].up
             PROVE  \E p \in wire' \cup handling' : p.stream = call'[j].stream /\ p.call = j
  BY <1>1 DEF CallUnderWay
<1>2. call'[j].stream = call[j].stream
  BY DEF CallStep
<1>3. call[j].state = "sent"
  BY DEF CallStep, Dialing, Getting
<1>4. call[j].stream \in DOMAIN stream
  BY <1>3 DEF CallStreams
<1>5. stream[call[j].stream].up
  BY <1>2, <1>4 DEF StreamStep
<1>6. underway(j, call[j].stream)
  BY <1>3, <1>5 DEF CallUnderWay, underway
<1> PICK s \in DOMAIN stream : s = call[j].stream
  BY <1>4
<1>7. underway(j, s)'
  BY <1>2, <1>3, <1>5, <1>6
<1> QED
  BY <1>2, <1>7 DEF underway

\* A step after which calls, streams and packets are where they were, or fewer,
\* keeps the invariant.
LEMMA Quiet ==
  ASSUME IInv, NEW i, CallStep(i), StreamStep, RestTyped', StreamsHeld',
         \A n, p \in Node : connections'[n][p] # connections[n][p] =>
           connections'[n][p] \in DOMAIN stream /\ stream[connections'[n][p]].target = n,
         \A p \in wire' : Labelled(p),
         \A p \in handling' : Labelled(p) /\ p.kind = "Request",
         \A j \in DOMAIN call, s \in DOMAIN stream :
           /\ call[j].state = "sent" /\ call'[j].state = "sent" /\ call[j].stream = s
           /\ stream[s].up /\ stream'[s].up /\ underway(j, s)
           => underway(j, s)'
  PROVE  IInv'
<1> USE DEF IInv
<1>1. Typed'
  BY QuietTyped
<1>2. CallStreams' /\ DialPrivate' /\ Numbered'
  BY <1>1, CallStreamsStep, QuietPrivate, QuietNumbered
<1>3. PacketsLabelled'
  BY LabelledStep DEF PacketsLabelled
<1>4. OwnResponse' /\ CallUnderWay'
  BY QuietOwn, QuietUnderWay
<1> QED
  BY <1>1, <1>2, <1>3, <1>4

\* Who waits stays under way when no packet moves.
LEMMA PacketsStay ==
  ASSUME UNCHANGED <<wire, handling>>, NEW j, NEW s, underway(j, s)
  PROVE  underway(j, s)'
BY DEF underway

\* The same for a step that leaves packets, listeners and connections alone.
LEMMA Calm ==
  ASSUME IInv, NEW i, CallStep(i), StreamStep, RestTyped',
         UNCHANGED <<backlog, connections, wire, handling>>,
         \A n \in Node : acceptor'[n].state # "idle" =>
           acceptor'[n].stream = acceptor[n].stream /\ acceptor[n].state # "idle"
  PROVE  IInv'
<1> USE DEF IInv
<1>1. StreamsHeld'
  BY QuietHeld
<1>2. \A p \in wire' : Labelled(p)
  BY DEF PacketsLabelled
<1>3. \A p \in handling' : Labelled(p) /\ p.kind = "Request"
  BY DEF PacketsLabelled
<1>4. \A j \in DOMAIN call, s \in DOMAIN stream : underway(j, s) => underway(j, s)'
  BY PacketsStay
<1> HIDE DEF IInv
<1> QED
  BY <1>1, <1>2, <1>3, <1>4, Quiet

-----------------------------------------------------------------------------
(* One lemma per action that makes no call and sends nothing. *)

\* A call that fails, or a dial that goes on, is a step of the calls.
LEMMA ToState ==
  ASSUME Typed, NEW i \in DOMAIN call, NEW st \in CallState, to_state(i, st),
         st = "err" \/ (call[i].state \in Dialing /\ st \in Dialing)
  PROVE  CallStep(i)
<1>1. \A j \in DOMAIN call : call[j] \in CallRecord
  BY Places
<1>2. call' = [j \in DOMAIN call |-> call'[j]]
      /\ \A j \in DOMAIN call :
           call'[j] = IF j = i THEN [call[i] EXCEPT !.state = st] ELSE call[j]
  BY DEF to_state, Typed
<1>3. \A j \in DOMAIN call : call'[j] \in CallRecord
  BY <1>1, <1>2 DEF CallRecord
<1>4. call' \in Seq(CallRecord) /\ Len(call') = Len(call)
  BY <1>2, <1>3, MapSeq DEF Typed
<1>5. ASSUME NEW j \in DOMAIN call
      PROVE  /\ call'[j].from = call[j].from /\ call'[j].to = call[j].to
             /\ call'[j].stream = call[j].stream /\ call'[j].seq = call[j].seq
             /\ call'[j].state = IF j = i THEN st ELSE call[j].state
             /\ j # i => call'[j] = call[j]
  BY <1>1, <1>2 DEF CallRecord
<1>6. "ok" \notin Dialing
  BY DEF Dialing, Getting
<1> QED
  BY <1>4, <1>5, <1>6 DEF CallStep

\* A stream whose ends stay and which does not come up makes a step of the streams.
LEMMA StreamEdit ==
  ASSUME Typed, NEW s \in DOMAIN stream, NEW r \in StreamRecord,
         stream' = [stream EXCEPT ![s] = r],
         r.dialer = stream[s].dialer, r.target = stream[s].target, r.up => stream[s].up
  PROVE  StreamStep
<1>1. \A j \in DOMAIN stream : stream[j] \in StreamRecord
  BY Places
<1>2. stream' = [j \in DOMAIN stream |-> stream'[j]]
      /\ \A j \in DOMAIN stream : stream'[j] = IF j = s THEN r ELSE stream[j]
  BY DEF Typed
<1>3. \A j \in DOMAIN stream : stream'[j] \in StreamRecord
  BY <1>1, <1>2
<1>4. stream' \in Seq(StreamRecord) /\ Len(stream') = Len(stream)
  BY <1>2, <1>3, MapSeq DEF Typed
<1> QED
  BY <1>2, <1>4 DEF StreamStep

\* What an action may write into a stream: who has said hello, that it is down, and
\* the state of an end.
LEMMA StreamValues ==
  ASSUME NEW r \in StreamRecord
  PROVE  /\ \A n \in Node : [r EXCEPT !.hello = @ \cup {n}] \in StreamRecord
         /\ [r EXCEPT !.up = FALSE] \in StreamRecord
         /\ \A e \in {"dialer", "target"}, x \in EndState :
              /\ [r EXCEPT !.end[e] = x] \in StreamRecord
              /\ [r EXCEPT !.up = FALSE, !.end[e] = x] \in StreamRecord
<1>1. /\ r.dialer \in Node /\ r.target \in Node /\ r.up \in BOOLEAN /\ r.hello \subseteq Node
      /\ r.end \in [{"dialer", "target"} -> EndState] /\ r.dialer < r.target
      /\ r = [dialer |-> r.dialer, target |-> r.target, up |-> r.up, hello |-> r.hello, end |-> r.end]
  BY DEF StreamRecord
<1>2. ASSUME NEW n \in Node
      PROVE  [r EXCEPT !.hello = @ \cup {n}] \in StreamRecord
  BY <1>1 DEF StreamRecord
<1>3. [r EXCEPT !.up = FALSE] \in StreamRecord
  BY <1>1 DEF StreamRecord
<1>4. ASSUME NEW e \in {"dialer", "target"}, NEW x \in EndState
      PROVE  [r EXCEPT !.end[e] = x] \in StreamRecord
  <2>1. [r.end EXCEPT ![e] = x] \in [{"dialer", "target"} -> EndState]
    BY <1>1
  <2> QED
    BY <1>1, <2>1 DEF StreamRecord
<1>5. ASSUME NEW e \in {"dialer", "target"}, NEW x \in EndState
      PROVE  [r EXCEPT !.up = FALSE, !.end[e] = x] \in StreamRecord
  <2>1. [r.end EXCEPT ![e] = x] \in [{"dialer", "target"} -> EndState]
    BY <1>1
  <2> QED
    BY <1>1, <2>1 DEF StreamRecord
<1> QED
  BY <1>2, <1>3, <1>4, <1>5

\* The types of the rest, from the invariant.
LEMMA RestOf ==
  ASSUME Typed
  PROVE  RestTyped
BY DEF Typed, TypeOK, RestTyped

\* A call that never gets to send.
LEMMA FailStep ==
  ASSUME IInv, NEW i \in DOMAIN call, rpc_unreachable(i) \/ propose_offline(i)
  PROVE  IInv'
<1>1. Typed /\ RestTyped
  BY RestOf DEF IInv
<1>2. to_state(i, "err") /\ UNCHANGED <<raft, stream, backlog, acceptor, connections, wire, handling, cuts, timeouts>>
  BY DEF rpc_unreachable, propose_offline
<1>3. CallStep(i)
  BY <1>1, <1>2, ToState DEF CallState
<1>4. StreamStep /\ RestTyped'
  BY <1>1, <1>2, SameStreams DEF RestTyped
<1> QED
  BY <1>2, <1>3, <1>4, Calm

\* The hello that get makes possible is a step of the streams.
LEMMA HelloStep ==
  ASSUME Typed, NEW n \in Node, NEW s \in DOMAIN stream, NEW st, hello(n, s, st)
  PROVE  StreamStep
<1>1. stream[s] \in StreamRecord
  BY Places
<1>2. CASE stream' = stream
  BY <1>2, SameStreams
<1>3. CASE stream' = [stream EXCEPT ![s].hello = @ \cup {n}]
  <2> PICK r : r = [stream[s] EXCEPT !.hello = @ \cup {n}]
    OBVIOUS
  <2>1. r \in StreamRecord
    BY <1>1, StreamValues
  <2>2. r.dialer = stream[s].dialer /\ r.target = stream[s].target /\ r.up = stream[s].up
    BY <1>1 DEF StreamRecord
  <2>3. stream' = [stream EXCEPT ![s] = r]
    BY <1>3
  <2> QED
    BY <2>1, <2>2, <2>3, StreamEdit
<1> QED
  BY <1>2, <1>3 DEF hello

\* get goes from one stage to another.
LEMMA GetStep ==
  ASSUME NEW n, NEW st \in {"get", "looked"}
  PROVE  get_step(n, st) \in {"hello", "looked", "missed", "notified"}
BY DEF get_step

\* A dial waits for the raft.
LEMMA DialGetStep ==
  ASSUME IInv, NEW i \in DOMAIN call, dial_get(i)
  PROVE  IInv'
<1>1. Typed /\ RestTyped /\ CallStreams
  BY RestOf DEF IInv
<1> PICK st : st = get_step(call[i].from, call[i].state)
  OBVIOUS
<1>2. st \in Dialing /\ st \in CallState /\ call[i].state \in Dialing
  BY GetStep DEF dial_get, Dialing, Getting, CallState
<1>3. to_state(i, st) /\ hello(call[i].from, call[i].stream, st)
      /\ UNCHANGED <<raft, backlog, acceptor, connections, wire, handling, cuts, timeouts>>
  BY DEF dial_get
<1>4. CallStep(i)
  BY <1>1, <1>2, <1>3, ToState
<1>5. call[i].from \in Node /\ call[i].stream \in DOMAIN stream
  BY <1>1, <1>2, Places DEF CallStreams, CallRecord
<1>6. StreamStep /\ RestTyped'
  BY <1>1, <1>3, <1>5, HelloStep DEF RestTyped
<1> QED
  BY <1>3, <1>4, <1>6, Calm

\* Setting the raft wakes those that wait.
LEMMA SetStep ==
  ASSUME IInv, NEW n \in Node, set(n)
  PROVE  IInv'
<1>1. Typed /\ RestTyped
  BY RestOf DEF IInv
<1>2. \A j \in DOMAIN call : call[j] \in CallRecord
  BY <1>1, Places
<1>3. call' = [j \in DOMAIN call |-> call'[j]]
      /\ \A j \in DOMAIN call :
           call'[j] = IF call[j].from = n /\ call[j].state = "notified"
                        THEN [call[j] EXCEPT !.state = "get"] ELSE call[j]
  BY DEF set
<1>4. "get" \in CallState
  BY DEF CallState, Dialing, Getting
<1>5. ASSUME NEW j \in DOMAIN call
      PROVE  call'[j] \in CallRecord
  BY <1>2, <1>3, <1>4 DEF CallRecord
<1>6. call' \in Seq(CallRecord) /\ Len(call') = Len(call)
  BY <1>1, <1>3, <1>5, MapSeq DEF Typed
<1>7. ASSUME NEW j \in DOMAIN call
      PROVE  /\ call'[j].from = call[j].from /\ call'[j].to = call[j].to
             /\ call'[j].stream = call[j].stream /\ call'[j].seq = call[j].seq
             /\ \/ call'[j] = call[j]
                \/ call[j].state = "notified" /\ call'[j].state = "get"
  BY <1>2, <1>3 DEF CallRecord
<1>8. CallStep(0)
  BY <1>6, <1>7 DEF CallStep, Dialing, Getting
<1>9. StreamStep
  BY <1>1, SameStreams DEF set
<1>10. \A m \in Node : /\ acceptor'[m].stream = acceptor[m].stream
                       /\ acceptor'[m].state # "idle" => acceptor[m].state # "idle"
                       /\ acceptor'[m] \in Acceptor
  BY <1>1 DEF set, RestTyped, Acceptor, Dialing, Getting
<1>11. acceptor' \in [Node -> Acceptor]
  BY <1>1, <1>10 DEF set, RestTyped
<1>12. RestTyped'
  BY <1>1, <1>11 DEF set, RestTyped
<1> QED
  BY <1>8, <1>9, <1>10, <1>12, Calm DEF set

\* The accept loop gets on with its stream.
LEMMA AcceptorMoves ==
  ASSUME IInv, NEW n \in Node, NEW a \in Acceptor, acceptor' = [acceptor EXCEPT ![n] = a],
         a.state = "idle" \/ (a.stream = acceptor[n].stream /\ acceptor[n].state # "idle"),
         UNCHANGED <<raft, call, backlog, connections, wire, handling, cuts, timeouts>>,
         StreamStep
  PROVE  IInv'
<1>1. Typed /\ RestTyped
  BY RestOf DEF IInv
<1>2. CallStep(0)
  BY <1>1, SameCalls
<1>3. RestTyped'
  BY <1>1 DEF RestTyped
<1>4. \A m \in Node : acceptor'[m].state # "idle" =>
           acceptor'[m].stream = acceptor[m].stream /\ acceptor[m].state # "idle"
  BY <1>1 DEF RestTyped
<1> QED
  BY <1>2, <1>3, <1>4, Calm

\* The stream of an accept loop that is busy is there.
LEMMA AcceptorStream ==
  ASSUME IInv, NEW n \in Node, acceptor[n].state # "idle"
  PROVE  /\ acceptor[n].stream \in DOMAIN stream /\ stream[acceptor[n].stream].target = n
         /\ acceptor[n] \in Acceptor /\ stream[acceptor[n].stream] \in StreamRecord
BY Places DEF IInv, StreamsHeld, Typed, TypeOK

\* The accept loop waits for the raft.
LEMMA AcceptGetStep ==
  ASSUME IInv, NEW n \in Node, accept_get(n)
  PROVE  IInv'
<1> PICK st : st = get_step(n, acceptor[n].state)
  OBVIOUS
<1>1. acceptor[n].state # "idle" /\ st \in Dialing
  BY GetStep DEF accept_get, Dialing, Getting
<1>2. Typed /\ RestTyped
  BY RestOf DEF IInv
<1>3. acceptor[n].stream \in DOMAIN stream /\ acceptor[n] \in Acceptor
  BY <1>1, AcceptorStream
<1>4. StreamStep
  BY <1>2, <1>3, HelloStep DEF accept_get
<1> PICK a : a = [acceptor[n] EXCEPT !.state = st]
  OBVIOUS
<1>5. a \in Acceptor /\ a.stream = acceptor[n].stream
  BY <1>1, <1>3 DEF Acceptor
<1>6. acceptor' = [acceptor EXCEPT ![n] = a]
  BY DEF accept_get
<1> QED
  BY <1>1, <1>4, <1>5, <1>6, AcceptorMoves DEF accept_get

\* An end of a stream changes its state.
LEMMA EndStep ==
  ASSUME Typed, NEW s \in DOMAIN stream, NEW e \in {"dialer", "target"}, NEW x \in EndState,
         \/ stream' = [stream EXCEPT ![s].end[e] = x]
         \/ stream' = [stream EXCEPT ![s].up = FALSE, ![s].end[e] = x]
  PROVE  StreamStep
<1>1. stream[s] \in StreamRecord
  BY Places
<1>2. CASE stream' = [stream EXCEPT ![s].end[e] = x]
  <2> PICK r : r = [stream[s] EXCEPT !.end[e] = x]
    OBVIOUS
  <2>1. r \in StreamRecord
    BY <1>1, StreamValues
  <2>2. r.dialer = stream[s].dialer /\ r.target = stream[s].target /\ r.up = stream[s].up
    BY <1>1 DEF StreamRecord
  <2>3. stream' = [stream EXCEPT ![s] = r]
    BY <1>2
  <2> QED
    BY <2>1, <2>2, <2>3, StreamEdit
<1>3. CASE stream' = [stream EXCEPT ![s].up = FALSE, ![s].end[e] = x]
  <2> PICK r : r = [stream[s] EXCEPT !.up = FALSE, !.end[e] = x]
    OBVIOUS
  <2>1. r \in StreamRecord
    BY <1>1, StreamValues
  <2>2. r.dialer = stream[s].dialer /\ r.target = stream[s].target /\ ~r.up
    BY <1>1 DEF StreamRecord
  <2>3. stream' = [stream EXCEPT ![s] = r]
    BY <1>3
  <2> QED
    BY <2>1, <2>2, <2>3, StreamEdit
<1> QED
  BY <1>2, <1>3

\* The accept loop has its connection, or has lost the stream.
LEMMA AcceptEndStep ==
  ASSUME IInv, NEW n \in Node, accept_done(n) \/ accept_failed(n)
  PROVE  IInv'
<1>1. acceptor[n].state = "hello"
  BY DEF accept_done, accept_failed
<1>2. Typed /\ acceptor[n].stream \in DOMAIN stream /\ acceptor[n] \in Acceptor
  BY <1>1, AcceptorStream DEF IInv
<1>3. StreamStep
  BY <1>2, EndStep DEF accept_done, accept_failed, EndState
<1>4. CASE accept_done(n)
  <2> PICK a : a = [acceptor[n] EXCEPT !.state = "insert"]
    OBVIOUS
  <2>1. a \in Acceptor /\ a.stream = acceptor[n].stream
    BY <1>2 DEF Acceptor
  <2>2. acceptor' = [acceptor EXCEPT ![n] = a]
    BY <1>4 DEF accept_done
  <2> QED
    BY <1>1, <1>3, <1>4, <2>1, <2>2, AcceptorMoves DEF accept_done
<1>5. CASE accept_failed(n)
  <2>1. idle \in Acceptor /\ idle.state = "idle"
    BY DEF idle, Acceptor
  <2> QED
    BY <1>3, <1>5, <2>1, AcceptorMoves DEF accept_failed
<1> QED
  BY <1>4, <1>5

\* The stream of a dial is lost.
LEMMA DialFailedStep ==
  ASSUME IInv, NEW i \in DOMAIN call, dial_failed(i)
  PROVE  IInv'
<1>1. Typed /\ RestTyped /\ CallStreams
  BY RestOf DEF IInv
<1>2. CallStep(i)
  BY <1>1, ToState DEF dial_failed, CallState
<1>3. call[i].stream \in DOMAIN stream
  BY <1>1 DEF dial_failed, CallStreams, Dialing
<1>4. StreamStep
  BY <1>1, <1>3, EndStep DEF dial_failed, EndState
<1>5. RestTyped'
  BY <1>1 DEF RestTyped, dial_failed
<1> QED
  BY <1>2, <1>4, <1>5, Calm DEF dial_failed

\* The number of faults is a number.
LEMMA Faults ==
  ASSUME Typed
  PROVE  Cardinality(cuts) \in Nat /\ timeouts \in Nat
<1>1. IsFiniteSet(Stream)
  BY NetAssumption, FS_Interval DEF Stream
<1>2. IsFiniteSet(cuts)
  BY <1>1, FS_Subset DEF Typed, TypeOK
<1> QED
  BY <1>2, FS_CardinalityType, NetAssumption DEF Typed, TypeOK

\* An RPC is dropped, with what it dials.
LEMMA TimeoutStep ==
  ASSUME IInv, NEW i \in DOMAIN call, rpc_timeout(i)
  PROVE  IInv'
<1>1. Typed /\ RestTyped /\ CallStreams
  BY RestOf DEF IInv
<1>2. CallStep(i)
  BY <1>1, ToState DEF rpc_timeout, CallState
<1>3. StreamStep
  <2>1. CASE call[i].state \in Dialing
    <3>1. call[i].stream \in DOMAIN stream
      BY <1>1, <2>1 DEF CallStreams
    <3> QED
      BY <1>1, <2>1, <3>1, EndStep DEF rpc_timeout, EndState
  <2>2. CASE call[i].state \notin Dialing
    BY <1>1, <2>2, SameStreams DEF rpc_timeout
  <2> QED
    BY <2>1, <2>2
<1>4. timeouts' \in 0 .. MaxFaults
  BY <1>1, Faults, NetAssumption DEF rpc_timeout, faults
<1>5. RestTyped'
  BY <1>1, <1>4 DEF RestTyped, rpc_timeout
<1> QED
  BY <1>2, <1>3, <1>5, Calm DEF rpc_timeout

\* A read task ends.
LEMMA ReadEndStep ==
  ASSUME IInv, NEW n \in Node, NEW s \in DOMAIN stream, read_end(n, s)
  PROVE  IInv'
<1>1. Typed /\ RestTyped
  BY RestOf DEF IInv
<1>2. CallStep(0)
  BY <1>1, SameCalls DEF read_end
<1>3. side(n, s) \in {"dialer", "target"}
  BY DEF side
<1>4. StreamStep
  BY <1>1, <1>3, EndStep DEF read_end, EndState
<1>5. RestTyped'
  BY <1>1 DEF RestTyped, read_end
<1> QED
  BY <1>2, <1>4, <1>5, Calm DEF read_end

\* The streams that are held stay held when nobody takes one.
LEMMA SameHeld ==
  ASSUME Typed, StreamsHeld, StreamStep, UNCHANGED <<backlog, acceptor, connections>>
  PROVE  StreamsHeld'
BY QuietHeld

\* The network loses a stream, and what it loses of the packets was on that stream.
LEMMA CutStep ==
  ASSUME IInv, NEW s \in DOMAIN stream, cut(s)
  PROVE  IInv'
<1>1. Typed /\ RestTyped /\ StreamsHeld /\ PacketsLabelled
  BY RestOf DEF IInv
<1>2. CallStep(0)
  BY <1>1, SameCalls DEF cut
<1>3. stream[s] \in StreamRecord
  BY <1>1, Places
<1> PICK r : r = [stream[s] EXCEPT !.up = FALSE]
  OBVIOUS
<1>4. r \in StreamRecord
  BY <1>3, StreamValues
<1>5. r.dialer = stream[s].dialer /\ r.target = stream[s].target /\ r.up = FALSE
  BY <1>3 DEF StreamRecord
<1>6. stream' = [stream EXCEPT ![s] = r]
  BY DEF cut
<1>7. StreamStep /\ ~stream'[s].up
  BY <1>1, <1>4, <1>5, <1>6, StreamEdit
<1>8. PICK lost \in SUBSET {p \in wire : p.stream = s} : wire' = wire \ lost
  BY DEF cut
<1>9. RestTyped'
  <2>1. s \in Stream
    BY <1>1, Places, NetAssumption DEF Typed, TypeOK, Stream
  <2> QED
    BY <1>1, <1>8, <2>1 DEF RestTyped, cut
<1>10. StreamsHeld'
  BY <1>1, <1>7, SameHeld DEF cut
<1>11. (\A p \in wire' : Labelled(p)) /\ (\A p \in handling' : Labelled(p) /\ p.kind = "Request")
  BY <1>1, <1>8 DEF PacketsLabelled, cut
<1>12. ASSUME NEW j, NEW k \in DOMAIN stream, stream'[k].up, underway(j, k)
       PROVE  underway(j, k)'
  <2>1. k # s
    BY <1>7, <1>12
  <2>2. PICK p \in wire \cup handling : p.stream = k /\ p.call = j
    BY <1>12 DEF underway
  <2>3. p \in wire' \cup handling'
    BY <1>8, <2>1, <2>2 DEF cut
  <2> QED
    BY <2>2, <2>3 DEF underway
<1>13. UNCHANGED connections
  BY DEF cut
<1> QED
  BY <1>2, <1>7, <1>9, <1>10, <1>11, <1>12, <1>13, Quiet

\* The accept loop takes a stream of its listener.
LEMMA AcceptStep ==
  ASSUME IInv, NEW n \in Node, NEW s \in backlog[n], accept(n, s)
  PROVE  IInv'
<1>1. Typed /\ RestTyped /\ StreamsHeld /\ PacketsLabelled
  BY RestOf DEF IInv
<1>2. CallStep(0) /\ StreamStep
  BY <1>1, SameCalls, SameStreams DEF accept
<1>3. s \in Stream
  BY <1>1 DEF RestTyped
<1>4. RestTyped'
  <2>1. [state |-> "get", stream |-> s] \in Acceptor
    BY <1>3 DEF Acceptor, Dialing, Getting
  <2>2. acceptor' \in [Node -> Acceptor]
    BY <1>1, <2>1 DEF RestTyped, accept
  <2>3. backlog' \in [Node -> SUBSET Stream]
    BY <1>1 DEF RestTyped, accept
  <2> QED
    BY <1>1, <2>2, <2>3 DEF RestTyped, accept
<1>5. \A m \in Node : backlog'[m] \subseteq backlog[m]
  BY <1>1 DEF RestTyped, accept
<1>6. \A m \in Node : acceptor'[m].state # "idle" =>
           \/ acceptor'[m].stream = acceptor[m].stream /\ acceptor[m].state # "idle"
           \/ acceptor'[m].stream \in backlog[m]
  BY <1>1 DEF RestTyped, accept
<1>7. UNCHANGED <<connections, wire, handling>>
  BY DEF accept
<1>8. StreamsHeld'
  BY <1>1, <1>2, <1>5, <1>6, <1>7, QuietHeld
<1>9. (\A p \in wire' : Labelled(p)) /\ (\A p \in handling' : Labelled(p) /\ p.kind = "Request")
  BY <1>1, <1>7 DEF PacketsLabelled
<1>10. \A j, k : underway(j, k) => underway(j, k)'
  BY <1>7, PacketsStay
<1> QED
  BY <1>2, <1>4, <1>7, <1>8, <1>9, <1>10, Quiet

\* Dropping a connection is a step of the streams.
LEMMA DroppedStep ==
  ASSUME Typed, NEW n, NEW s \in DOMAIN stream \cup {0}, stream' = dropped_streams(n, s)
  PROVE  StreamStep
<1>1. side(n, s) \in {"dialer", "target"}
  BY DEF side
<1>2. CASE s = 0 \/ kept(n, s)
  BY <1>2, SameStreams DEF dropped_streams
<1>3. CASE ~(s = 0 \/ kept(n, s))
  BY <1>1, <1>3, EndStep DEF dropped_streams, EndState
<1> QED
  BY <1>2, <1>3

\* The accept loop enters its connection into the map, or drops it.
LEMMA AcceptInsertStep ==
  ASSUME IInv, NEW n \in Node, accept_insert(n)
  PROVE  IInv'
<1>1. Typed /\ RestTyped /\ StreamsHeld /\ PacketsLabelled
  BY RestOf DEF IInv
<1>2. UNCHANGED <<raft, call, backlog, wire, handling, cuts, timeouts>>
      /\ acceptor' = [acceptor EXCEPT ![n] = idle] /\ acceptor[n].state # "idle"
  BY DEF accept_insert
<1> PICK s, q : s = acceptor[n].stream /\ q = stream[s].dialer
  OBVIOUS
<1>3. s \in DOMAIN stream /\ stream[s].target = n /\ stream[s] \in StreamRecord
  BY <1>2, AcceptorStream
<1>4. q \in Node /\ s \in Stream
  <2>1. q \in Node
    BY <1>3 DEF StreamRecord
  <2>2. s \in 1 .. Len(stream) /\ Len(stream) \in Nat /\ Len(stream) <= MaxStreams
    BY <1>1, <1>3, Places DEF Typed, TypeOK
  <2> QED
    BY <2>1, <2>2, NetAssumption DEF Stream
<1>5. CallStep(0)
  BY <1>1, <1>2, SameCalls
<1>6. \/ stream' = stream /\ connections' = [connections EXCEPT ![n][q] = s]
      \/ stream' = dropped_streams(n, s) /\ connections' = connections
  BY DEF accept_insert
<1>7. StreamStep
  BY <1>1, <1>3, <1>6, SameStreams, DroppedStep
<1>8. connections' \in [Node -> [Node -> Stream \cup {0}]]
      /\ \A m, p \in Node : connections'[m][p] = connections[m][p]
                            \/ (m = n /\ p = q /\ connections'[m][p] = s)
  <2>1. CASE connections' = connections
    BY <1>1, <2>1 DEF RestTyped
  <2>2. CASE connections' = [connections EXCEPT ![n][q] = s]
    BY <1>1, <1>4, <2>2 DEF RestTyped
  <2> QED
    BY <1>6, <2>1, <2>2
<1>9. idle \in Acceptor /\ idle.state = "idle"
  BY DEF idle, Acceptor
<1>10. acceptor' \in [Node -> Acceptor] /\ acceptor'[n].state = "idle"
       /\ \A m \in Node \ {n} : acceptor'[m] = acceptor[m]
  BY <1>1, <1>2, <1>9 DEF RestTyped
<1>11. RestTyped'
  BY <1>1, <1>2, <1>8, <1>10 DEF RestTyped
<1>12. StreamsHeld'
  <2>1. \A m, p \in Node : connections'[m][p] # connections[m][p] =>
          /\ connections'[m][p] \in DOMAIN stream
          /\ {stream[connections'[m][p]].dialer, stream[connections'[m][p]].target} = {m, p}
    BY <1>3, <1>8
  <2>2. \A m \in Node : acceptor'[m].state # "idle" =>
          acceptor'[m].stream = acceptor[m].stream /\ acceptor[m].state # "idle"
    BY <1>10
  <2> QED
    BY <1>1, <1>2, <1>7, <2>1, <2>2, QuietHeld
<1>13. \A m, p \in Node : connections'[m][p] # connections[m][p] =>
         connections'[m][p] \in DOMAIN stream /\ stream[connections'[m][p]].target = m
  BY <1>3, <1>8
<1>14. (\A p \in wire' : Labelled(p)) /\ (\A p \in handling' : Labelled(p) /\ p.kind = "Request")
  BY <1>1, <1>2 DEF PacketsLabelled
<1>15. \A j, k : underway(j, k) => underway(j, k)'
  BY <1>2, PacketsStay
<1> QED
  BY <1>5, <1>7, <1>11, <1>12, <1>13, <1>14, <1>15, Quiet

\* A request is taken from the stream into a task.
LEMMA ReadRequestStep ==
  ASSUME IInv, NEW p \in wire, read_request(p)
  PROVE  IInv'
<1>1. Typed /\ RestTyped /\ StreamsHeld /\ PacketsLabelled
  BY RestOf DEF IInv
<1>2. /\ wire' = wire \ {p} /\ handling' = handling \cup {p} /\ p.kind = "Request"
      /\ UNCHANGED <<raft, call, stream, backlog, acceptor, connections, cuts, timeouts>>
  BY DEF read_request
<1>3. CallStep(0) /\ StreamStep
  BY <1>1, <1>2, SameCalls, SameStreams
<1>4. RestTyped'
  BY <1>1, <1>2 DEF RestTyped
<1>5. StreamsHeld'
  BY <1>1, <1>2, <1>3, SameHeld
<1>6. (\A k \in wire' : Labelled(k)) /\ (\A k \in handling' : Labelled(k) /\ k.kind = "Request")
  BY <1>1, <1>2 DEF PacketsLabelled
<1>7. wire' \cup handling' = wire \cup handling
  BY <1>2
<1>8. \A j, k : underway(j, k) => underway(j, k)'
  BY <1>7 DEF underway
<1> QED
  BY <1>2, <1>3, <1>4, <1>5, <1>6, <1>8, Quiet

\* The peer of the peer of an end is that end.
LEMMA PeerTwice ==
  ASSUME Typed, NEW s \in DOMAIN stream, NEW n \in {stream[s].dialer, stream[s].target}
  PROVE  peer_of(peer_of(n, s), s) = n /\ peer_of(n, s) \in Node
<1>1. stream[s] \in StreamRecord
  BY Places
<1>2. stream[s].dialer < stream[s].target /\ stream[s].dialer \in Node /\ stream[s].target \in Node
  BY <1>1 DEF StreamRecord
<1>3. stream[s].dialer # stream[s].target
  <2>1. stream[s].dialer \in Nat /\ stream[s].target \in Nat
    BY <1>2, NetAssumption
  <2> QED
    BY <1>2, <2>1
<1> QED
  BY <1>2, <1>3 DEF peer_of

\* A task sends the answer to the caller.
LEMMA RespondStep ==
  ASSUME IInv, NEW p \in handling, respond(p)
  PROVE  IInv'
<1>1. Typed /\ RestTyped /\ StreamsHeld /\ PacketsLabelled /\ CallStreams
  BY RestOf DEF IInv
<1> PICK a : a = [p EXCEPT !.kind = "Response", !.to = peer_of(p.to, p.stream)]
  OBVIOUS
<1>2. /\ wire' = packet_tx(p.stream, a) /\ handling' = handling \ {p}
      /\ UNCHANGED <<raft, call, stream, backlog, acceptor, connections, cuts, timeouts>>
  BY DEF respond
<1>3. CallStep(0) /\ StreamStep
  BY <1>1, <1>2, SameCalls, SameStreams
<1>4. Labelled(p) /\ p.kind = "Request" /\ p \in Packet
  BY <1>1 DEF PacketsLabelled, RestTyped
<1>5. call[p.call].from \in {stream[p.stream].dialer, stream[p.stream].target}
  <2>1. call[p.call].stream # 0
    BY <1>4 DEF Labelled, Packet, Stream
  <2> QED
    BY <1>1, <1>4, <2>1 DEF Labelled, CallStreams
<1>6. peer_of(p.to, p.stream) = call[p.call].from /\ peer_of(p.to, p.stream) \in Node
  <2>1. p.to = peer_of(call[p.call].from, p.stream) /\ p.stream \in DOMAIN stream
        /\ p.call \in DOMAIN call
    BY <1>4 DEF Labelled
  <2>2. peer_of(p.to, p.stream) = call[p.call].from
    BY <1>1, <1>5, <2>1, PeerTwice
  <2>3. call[p.call].from \in Node
    BY <1>1, <2>1, Places DEF CallRecord
  <2> QED
    BY <2>2, <2>3
<1>7. a \in Packet /\ a.stream = p.stream /\ a.call = p.call /\ a.seq = p.seq
      /\ a.kind = "Response" /\ a.to = call[p.call].from
  BY <1>4, <1>6 DEF Packet
<1>8. Labelled(a)
  BY <1>4, <1>7 DEF Labelled
<1>9. RestTyped'
  BY <1>1, <1>2, <1>7 DEF RestTyped, packet_tx
<1>10. StreamsHeld'
  BY <1>1, <1>2, <1>3, SameHeld
<1>11. \A k \in wire' : Labelled(k)
  BY <1>1, <1>2, <1>8 DEF PacketsLabelled, packet_tx
<1>12. \A k \in handling' : Labelled(k) /\ k.kind = "Request"
  BY <1>1, <1>2 DEF PacketsLabelled
<1>13. ASSUME NEW j, NEW s, stream[s].up, underway(j, s)
       PROVE  underway(j, s)'
  <2>1. PICK k \in wire \cup handling : k.stream = s /\ k.call = j
    BY <1>13 DEF underway
  <2>2. CASE k = p
    <3>1. a \in wire'
      BY <1>2, <1>13, <2>1, <2>2 DEF packet_tx
    <3> QED
      BY <1>7, <2>1, <2>2, <3>1 DEF underway
  <2>3. CASE k # p
    <3>1. k \in wire' \cup handling'
      BY <1>2, <2>1, <2>3 DEF packet_tx
    <3> QED
      BY <2>1, <3>1 DEF underway
  <2> QED
    BY <2>2, <2>3
<1> QED
  BY <1>2, <1>3, <1>9, <1>10, <1>11, <1>12, <1>13, Quiet

\* A response is handed to the one call that waits under its number.
LEMMA ReadResponseStep ==
  ASSUME IInv, NEW p \in wire, read_response(p)
  PROVE  IInv'
<1>1. Typed /\ RestTyped /\ StreamsHeld /\ PacketsLabelled /\ CallStreams /\ Numbered
  BY RestOf DEF IInv
<1>2. /\ wire' = wire \ {p} /\ p.kind = "Response"
      /\ UNCHANGED <<raft, stream, backlog, acceptor, connections, handling, cuts, timeouts>>
  BY DEF read_response
<1> PICK ws : ws = waiting(p.to, p.stream, p.seq)
  OBVIOUS
<1>3. Labelled(p) /\ p \in Packet
  BY <1>1 DEF PacketsLabelled, RestTyped
<1>4. p.call \in DOMAIN call /\ p.to = call[p.call].from /\ p.stream = call[p.call].stream
      /\ p.seq = call[p.call].seq /\ call[p.call].state \in Counted /\ p.stream # 0
  BY <1>2, <1>3 DEF Labelled, Packet, Stream
<1>5. ws \subseteq {p.call}
  <2> SUFFICES ASSUME NEW k \in ws, k # p.call
               PROVE  FALSE
    OBVIOUS
  <2>1. k \in DOMAIN call /\ call[k].from = p.to /\ call[k].stream = p.stream
        /\ call[k].seq = p.seq /\ call[k].state \in Counted
    BY DEF waiting, Counted
  <2>2. k \in numbered(call[p.call].from, call[p.call].stream) \ {p.call}
    BY <1>4, <2>1 DEF numbered
  <2>3. call[k].seq # call[p.call].seq
    BY <1>1, <1>4, <2>2 DEF Numbered
  <2> QED
    BY <1>4, <2>1, <2>3
<1>6. p.call \in ws <=> call[p.call].state = "sent"
  BY <1>4 DEF waiting
<1>7. \A i \in DOMAIN call : (i \in ws /\ \A k \in ws : k <= i) <=> (i = p.call /\ i \in ws)
  <2>1. \A i \in DOMAIN call : i <= i
    BY <1>1, Places
  <2> QED
    BY <1>4, <1>5, <2>1
<1>8. call' = [i \in DOMAIN call |-> call'[i]]
      /\ \A i \in DOMAIN call :
           call'[i] = IF i = p.call /\ call[i].state = "sent"
                        THEN [call[i] EXCEPT !.state = "ok", !.got = p.call] ELSE call[i]
  BY <1>6, <1>7 DEF read_response
<1>9. \A i \in DOMAIN call : call[i] \in CallRecord
  BY <1>1, Places
<1>10. ASSUME NEW i \in DOMAIN call
       PROVE  call'[i] \in CallRecord
  <2>1. p.call \in Call /\ "ok" \in CallState
    BY <1>3 DEF Packet, CallState
  <2>2. [call[i] EXCEPT !.state = "ok", !.got = p.call] \in CallRecord
    BY <1>9, <2>1 DEF CallRecord
  <2> QED
    BY <1>8, <1>9, <2>2
<1>11. call' \in Seq(CallRecord) /\ Len(call') = Len(call)
  BY <1>1, <1>8, <1>10, MapSeq DEF Typed
<1>12. ASSUME NEW i \in DOMAIN call
       PROVE  /\ call'[i].from = call[i].from /\ call'[i].to = call[i].to
              /\ call'[i].stream = call[i].stream /\ call'[i].seq = call[i].seq
              /\ \/ call'[i] = call[i]
                 \/ call[i].state = "sent" /\ call'[i].state = "ok" /\ call'[i].got = i
  BY <1>8, <1>9 DEF CallRecord
<1>13. CallStep(0)
  BY <1>11, <1>12 DEF CallStep
<1>14. StreamStep /\ RestTyped'
  BY <1>1, <1>2, SameStreams DEF RestTyped
<1>15. StreamsHeld'
  BY <1>1, <1>2, <1>14, SameHeld
<1>16. (\A k \in wire' : Labelled(k)) /\ (\A k \in handling' : Labelled(k) /\ k.kind = "Request")
  BY <1>1, <1>2 DEF PacketsLabelled
<1>17. ASSUME NEW j \in DOMAIN call, NEW s, call[j].state = "sent", call'[j].state = "sent", underway(j, s)
       PROVE  underway(j, s)'
  <2>1. PICK k \in wire \cup handling : k.stream = s /\ k.call = j
    BY <1>17 DEF underway
  <2>2. j # p.call
    BY <1>8, <1>9, <1>17 DEF CallRecord
  <2>3. k \in wire' \cup handling'
    BY <1>2, <2>1, <2>2
  <2> QED
    BY <2>1, <2>3 DEF underway
<1> QED
  BY <1>2, <1>13, <1>14, <1>15, <1>16, <1>17, Quiet

-----------------------------------------------------------------------------
(* Making a call and dialing. *)

\* A call begins.
LEMMA StartStep ==
  ASSUME IInv, NEW n \in Node, NEW q \in Node, NEW kind \in {"rpc", "propose"}, start(n, q, kind)
  PROVE  IInv'
<1>1. /\ Typed /\ RestTyped /\ CallStreams /\ DialPrivate /\ StreamsHeld /\ Numbered
      /\ PacketsLabelled /\ OwnResponse /\ CallUnderWay
  BY RestOf DEF IInv
<1> PICK r : r = [from |-> n, to |-> q, kind |-> kind, state |-> "lock",
                  stream |-> 0, seq |-> 0, got |-> 0]
  OBVIOUS
<1>2. /\ call' = Append(call, r) /\ Len(call) < MaxCalls
      /\ UNCHANGED <<raft, stream, backlog, acceptor, connections, wire, handling, cuts, timeouts>>
  BY DEF start
<1>3. r \in CallRecord
  BY NetAssumption DEF CallRecord, CallState
<1>4. /\ call' \in Seq(CallRecord) /\ Len(call') = Len(call) + 1
      /\ DOMAIN call' = DOMAIN call \cup {Len(call) + 1}
      /\ \A j \in DOMAIN call : call'[j] = call[j]
      /\ call'[Len(call) + 1] = r
  BY <1>1, <1>2, <1>3, Places DEF Typed
<1>5. r.state = "lock" /\ r.stream = 0 /\ r.seq = 0 /\ r.state \notin Counted /\ r.state \notin Dialing
  BY DEF Counted, Dialing, Getting
<1>6. Typed'
  <2>1. Len(call') <= MaxCalls /\ \A j \in DOMAIN call' : call'[j] \in CallRecord
    BY <1>1, <1>2, <1>4, Places, NetAssumption
  <2> QED
    BY <1>1, <1>2, <1>4, <2>1 DEF Typed, TypeOK
<1>7. CallStreams'
  BY <1>1, <1>2, <1>4, <1>5 DEF CallStreams
<1>8. DialPrivate'
  <2> SUFFICES ASSUME NEW j \in DOMAIN call', call'[j].state \in Dialing
               PROVE  /\ \A k \in DOMAIN call' \ {j} :
                           ~(call'[k].from = call'[j].from /\ call'[k].stream = call'[j].stream)
                      /\ \A p \in Node : connections'[call'[j].from][p] # call'[j].stream
    BY DEF DialPrivate
  <2>1. j \in DOMAIN call /\ call'[j] = call[j]
    BY <1>4, <1>5
  <2>2. call[j].stream # 0
    BY <1>1, <2>1 DEF CallStreams
  <2> QED
    BY <1>1, <1>2, <1>4, <1>5, <2>1, <2>2 DEF DialPrivate
<1>9. StreamsHeld'
  BY <1>1, <1>2 DEF StreamsHeld
<1>10. Numbered'
  <2>1. NumbersKept
    BY <1>4 DEF NumbersKept
  <2>2. NumbersAdded(0)
    BY <1>4, <1>5 DEF NumbersAdded
  <2> QED
    BY <1>1, <1>6, <2>1, <2>2, NumberedStep
<1>11. PacketsLabelled'
  <2>1. ASSUME NEW p, Labelled(p)
        PROVE  Labelled(p)'
    BY <1>2, <1>4, <2>1 DEF Labelled, peer_of
  <2> QED
    BY <1>1, <1>2, <2>1 DEF PacketsLabelled
<1>12. OwnResponse'
  BY <1>1, <1>4, <1>5 DEF OwnResponse
<1>13. CallUnderWay'
  BY <1>1, <1>2, <1>4, <1>5 DEF CallUnderWay
<1> QED
  BY <1>6, <1>7, <1>8, <1>9, <1>10, <1>11, <1>12, <1>13 DEF IInv

\* A call dials: its stream is new.
LEMMA DialStep ==
  ASSUME IInv, NEW i \in DOMAIN call, rpc_dial(i)
  PROVE  IInv'
<1>1. /\ Typed /\ RestTyped /\ CallStreams /\ DialPrivate /\ StreamsHeld /\ Numbered
      /\ PacketsLabelled /\ OwnResponse /\ CallUnderWay
  BY RestOf DEF IInv
<1> PICK n, q, s : n = call[i].from /\ q = call[i].to /\ s = Len(stream) + 1
  OBVIOUS
<1> PICK r : r = [dialer |-> n, target |-> q, up |-> TRUE, hello |-> {},
                  end |-> [e \in {"dialer", "target"} |-> "opening"]]
  OBVIOUS
<1> PICK c : c = [call[i] EXCEPT !.state = "get", !.stream = s]
  OBVIOUS
<1>2. /\ call[i].state = "lock" /\ n < q /\ Len(stream) < MaxStreams
      /\ call' = [call EXCEPT ![i] = c]
      /\ stream' = Append(stream, r)
      /\ backlog' = [backlog EXCEPT ![q] = @ \cup {s}]
      /\ UNCHANGED <<raft, acceptor, connections, wire, handling, cuts, timeouts>>
  BY DEF rpc_dial, connect
<1>3. call[i] \in CallRecord /\ n \in Node /\ q \in Node /\ call[i].stream = 0 /\ call[i].seq = 0
  <2>1. call[i] \in CallRecord
    BY <1>1, Places
  <2> QED
    BY <1>1, <1>2, <2>1 DEF CallRecord, CallStreams, Counted
<1>4. s \in Stream /\ s \notin DOMAIN stream /\ s # 0
  BY <1>1, <1>2, Places, NetAssumption DEF Stream
<1>5. r \in StreamRecord
  BY <1>2, <1>3 DEF StreamRecord, EndState
<1>6. c \in CallRecord /\ c.from = n /\ c.to = q /\ c.state = "get" /\ c.stream = s /\ c.seq = 0
  <2>1. "get" \in CallState
    BY DEF CallState, Dialing, Getting
  <2> QED
    BY <1>3, <1>4, <2>1 DEF CallRecord
<1>7. /\ stream' \in Seq(StreamRecord) /\ Len(stream') = Len(stream) + 1
      /\ DOMAIN stream' = DOMAIN stream \cup {s}
      /\ \A k \in DOMAIN stream : stream'[k] = stream[k]
      /\ stream'[s] = r
  BY <1>1, <1>2, <1>5, Places DEF Typed
<1>8. /\ call' \in Seq(CallRecord) /\ Len(call') = Len(call) /\ DOMAIN call' = DOMAIN call
      /\ \A j \in DOMAIN call \ {i} : call'[j] = call[j]
      /\ call'[i] = c
  BY <1>1, <1>2, <1>6, Places DEF Typed
<1>9. r.dialer = n /\ r.target = q /\ c.state \in Dialing /\ c.state \notin Counted
  BY <1>6 DEF Dialing, Getting, Counted
<1>10. /\ backlog' \in [Node -> SUBSET Stream]
       /\ \A m \in Node : backlog'[m] \subseteq backlog[m] \cup {s}
       /\ \A m \in Node : m # q => backlog'[m] = backlog[m]
  BY <1>1, <1>2, <1>3, <1>4 DEF RestTyped
<1>11. Typed'
  <2>1. Len(call') <= MaxCalls /\ \A j \in DOMAIN call' : call'[j] \in CallRecord
    BY <1>1, <1>8 DEF Typed, TypeOK
  <2>2. Len(stream') <= MaxStreams /\ \A j \in DOMAIN stream' : stream'[j] \in StreamRecord
    BY <1>1, <1>2, <1>7, Places, NetAssumption
  <2> QED
    BY <1>1, <1>2, <1>7, <1>8, <1>10, <2>1, <2>2 DEF Typed, TypeOK
<1>12. CallStreams'
  <2> SUFFICES ASSUME NEW j \in DOMAIN call'
               PROVE  /\ call'[j].stream \in DOMAIN stream' \cup {0}
                      /\ call'[j].state \notin Counted => call'[j].seq = 0
                      /\ call'[j].state = "lock" => call'[j].stream = 0
                      /\ call'[j].state \in Dialing \cup {"sent", "ok"} => call'[j].stream # 0
                      /\ call'[j].stream # 0 =>
                           call'[j].from \in {stream'[call'[j].stream].dialer,
                                              stream'[call'[j].stream].target}
                      /\ call'[j].state \in Dialing =>
                           /\ stream'[call'[j].stream].dialer = call'[j].from
                           /\ stream'[call'[j].stream].target = call'[j].to
    BY DEF CallStreams
  <2>1. CASE j = i
    <3>1. call'[j] = c /\ c.stream = s /\ stream'[s] = r /\ s \in DOMAIN stream'
      BY <1>6, <1>7, <1>8, <2>1
    <3> QED
      BY <1>4, <1>6, <1>9, <3>1
  <2>2. CASE j # i
    <3>1. j \in DOMAIN call /\ call'[j] = call[j] /\ call[j].stream \in DOMAIN stream \cup {0}
      BY <1>1, <1>8, <2>2 DEF CallStreams
    <3>2. call[j].state \in Dialing => call[j].stream # 0
      BY <1>1, <3>1 DEF CallStreams
    <3> QED
      BY <1>1, <1>7, <3>1, <3>2 DEF CallStreams
  <2> QED
    BY <2>1, <2>2
<1>13. DialPrivate'
  <2> SUFFICES ASSUME NEW j \in DOMAIN call', call'[j].state \in Dialing
               PROVE  /\ \A k \in DOMAIN call' \ {j} :
                           ~(call'[k].from = call'[j].from /\ call'[k].stream = call'[j].stream)
                      /\ \A p \in Node : connections'[call'[j].from][p] # call'[j].stream
    BY DEF DialPrivate
  <2>1. CASE j = i
    <3>1. \A k \in DOMAIN call \ {i} : call'[k].stream # s
      BY <1>1, <1>4, <1>8 DEF CallStreams
    <3>2. \A p \in Node : connections[n][p] # s
      BY <1>1, <1>3, <1>4 DEF StreamsHeld
    <3> QED
      BY <1>2, <1>6, <1>8, <2>1, <3>1, <3>2
  <2>2. CASE j # i
    <3>1. j \in DOMAIN call /\ call'[j] = call[j] /\ call[j].stream \in DOMAIN stream \cup {0}
      BY <1>1, <1>8, <2>2 DEF CallStreams
    <3>2. call[j].stream # s
      BY <1>4, <3>1
    <3> QED
      BY <1>1, <1>2, <1>6, <1>8, <3>1, <3>2 DEF DialPrivate
  <2> QED
    BY <2>1, <2>2
<1>14. StreamsHeld'
  <2> SUFFICES ASSUME NEW m \in Node
               PROVE  /\ \A k \in backlog'[m] : k \in DOMAIN stream' /\ stream'[k].target = m
                      /\ acceptor'[m].state # "idle" =>
                           acceptor'[m].stream \in DOMAIN stream' /\ stream'[acceptor'[m].stream].target = m
                      /\ \A p \in Node : connections'[m][p] # 0 =>
                           /\ connections'[m][p] \in DOMAIN stream'
                           /\ {stream'[connections'[m][p]].dialer, stream'[connections'[m][p]].target} = {m, p}
    BY DEF StreamsHeld
  <2>1. \A k \in backlog'[m] : k \in DOMAIN stream' /\ stream'[k].target = m
    BY <1>1, <1>4, <1>7, <1>9, <1>10 DEF StreamsHeld
  <2>2. acceptor'[m].state # "idle" =>
          acceptor'[m].stream \in DOMAIN stream' /\ stream'[acceptor'[m].stream].target = m
    BY <1>1, <1>2, <1>7 DEF StreamsHeld
  <2>3. \A p \in Node : connections'[m][p] # 0 =>
           /\ connections'[m][p] \in DOMAIN stream'
           /\ {stream'[connections'[m][p]].dialer, stream'[connections'[m][p]].target} = {m, p}
    <3> SUFFICES ASSUME NEW p \in Node, connections[m][p] # 0
                 PROVE  /\ connections[m][p] \in DOMAIN stream'
                        /\ {stream'[connections[m][p]].dialer, stream'[connections[m][p]].target} = {m, p}
      BY <1>2
    <3>1. /\ connections[m][p] \in DOMAIN stream
          /\ {stream[connections[m][p]].dialer, stream[connections[m][p]].target} = {m, p}
      BY <1>1 DEF StreamsHeld
    <3>2. stream'[connections[m][p]] = stream[connections[m][p]]
      BY <1>7, <3>1
    <3> QED
      BY <1>7, <3>1, <3>2
  <2> QED
    BY <2>1, <2>2, <2>3
<1>15. Numbered'
  <2>1. NumbersKept
    BY <1>2, <1>8 DEF Counted, NumbersKept
  <2>2. NumbersAdded(0)
    BY <1>8, <1>9 DEF NumbersAdded
  <2> QED
    BY <1>1, <1>11, <2>1, <2>2, NumberedStep
<1>16. PacketsLabelled'
  <2>1. ASSUME NEW p, Labelled(p)
        PROVE  Labelled(p)'
    <3>1. p.call \in DOMAIN call \ {i} /\ p.stream \in DOMAIN stream
      BY <1>2, <2>1 DEF Labelled, Counted
    <3>2. call'[p.call] = call[p.call] /\ stream'[p.stream] = stream[p.stream]
      BY <1>7, <1>8, <3>1
    <3> QED
      BY <1>7, <1>8, <2>1, <3>1, <3>2 DEF Labelled, peer_of
  <2> QED
    BY <1>1, <1>2, <2>1 DEF PacketsLabelled
<1>17. OwnResponse'
  BY <1>1, <1>6, <1>8 DEF OwnResponse
<1>18. CallUnderWay'
  <2> SUFFICES ASSUME NEW j \in DOMAIN call', call'[j].state = "sent", stream'[call'[j].stream].up
               PROVE  \E p \in wire \cup handling : p.stream = call'[j].stream /\ p.call = j
    BY <1>2 DEF CallUnderWay
  <2>1. j \in DOMAIN call /\ call'[j] = call[j]
    BY <1>6, <1>8
  <2>2. call[j].stream \in DOMAIN stream
    BY <1>1, <2>1 DEF CallStreams
  <2> QED
    BY <1>1, <1>7, <2>1, <2>2 DEF CallUnderWay
<1> QED
  BY <1>11, <1>12, <1>13, <1>14, <1>15, <1>16, <1>17, <1>18 DEF IInv

-----------------------------------------------------------------------------
(* Sending a request. *)

\* The calls, of which some that were sent have failed.
CallsOrFailed(calls) ==
  /\ calls = [j \in DOMAIN call |-> calls[j]]
  /\ \A j \in DOMAIN call :
       \/ calls[j] = call[j]
       \/ call[j].state = "sent" /\ calls[j] = [call[j] EXCEPT !.state = "err"]

\* Nobody else dials stream s at the node of call i.
NotDialed(i, s) ==
  \A j \in DOMAIN call \ {i} :
    call[j].state \in Dialing /\ call[j].from = call[i].from => call[j].stream # s

\* The connection map of the caller of i may have taken in s.
MapTakes(i, s) ==
  /\ connections' \in [Node -> [Node -> Stream \cup {0}]]
  /\ \A m, p \in Node : connections'[m][p] # connections[m][p] =>
       m = call[i].from /\ connections'[m][p] = s

\* send_request gives its call a number of its own and, on a stream that is up, a
\* packet; the calls of a connection that is dropped with it fail.
LEMMA SendStep ==
  ASSUME IInv, NEW i \in DOMAIN call, NEW s \in DOMAIN stream, NEW calls,
         CallsOrFailed(calls),
         call[i].state \notin Counted,
         call[i].from \in {stream[s].dialer, stream[s].target},
         NotDialed(i, s), send_request(i, s, calls), StreamStep, StreamsHeld', MapTakes(i, s),
         UNCHANGED <<raft, backlog, acceptor, handling, cuts, timeouts>>
  PROVE  IInv'
<1> USE DEF CallsOrFailed, NotDialed, MapTakes
<1>1. /\ Typed /\ RestTyped /\ CallStreams /\ DialPrivate /\ StreamsHeld /\ Numbered
      /\ PacketsLabelled /\ OwnResponse /\ CallUnderWay
  BY RestOf DEF IInv
<1> PICK n, seq : n = call[i].from /\ seq = next_seq(n, s)
  OBVIOUS
<1> PICK st : st = call'[i].state
  OBVIOUS
<1> PICK pk : pk = [stream |-> s, to |-> peer_of(n, s), kind |-> "Request", seq |-> seq, call |-> i]
  OBVIOUS
<1>2. calls[i] = call[i]
  BY DEF Counted
<1>3. \A j \in DOMAIN call : call[j] \in CallRecord /\ calls[j] \in CallRecord
  <2>1. \A j \in DOMAIN call : call[j] \in CallRecord
    BY <1>1, Places
  <2>2. "err" \in CallState
    BY DEF CallState
  <2>3. ASSUME NEW j \in DOMAIN call
        PROVE  [call[j] EXCEPT !.state = "err"] \in CallRecord
    BY <2>1, <2>2 DEF CallRecord
  <2> QED
    BY <2>1, <2>3
<1>4. /\ st \in {"sent", "err"}
      /\ call' = [calls EXCEPT ![i] = [call[i] EXCEPT !.state = st, !.stream = s, !.seq = seq]]
      /\ st = "sent" => wire' = packet_tx(s, pk)
      /\ st = "err" => wire' = wire
  <2>1. \/ /\ call' = [calls EXCEPT ![i].state = "sent", ![i].stream = s, ![i].seq = seq]
           /\ wire' = packet_tx(s, pk)
        \/ /\ call' = [calls EXCEPT ![i].state = "err", ![i].stream = s, ![i].seq = seq]
           /\ wire' = wire
    BY <1>2 DEF send_request
  <2>2. CASE /\ call' = [calls EXCEPT ![i].state = "sent", ![i].stream = s, ![i].seq = seq]
             /\ wire' = packet_tx(s, pk)
    <3>1. call' = [calls EXCEPT ![i] = [call[i] EXCEPT !.state = "sent", !.stream = s, !.seq = seq]]
      BY <1>2, <2>2
    <3>2. call'[i].state = "sent"
      BY <1>3, <3>1 DEF CallRecord
    <3> QED
      BY <2>2, <3>1, <3>2
  <2>3. CASE /\ call' = [calls EXCEPT ![i].state = "err", ![i].stream = s, ![i].seq = seq]
             /\ wire' = wire
    <3>1. call' = [calls EXCEPT ![i] = [call[i] EXCEPT !.state = "err", !.stream = s, !.seq = seq]]
      BY <1>2, <2>3
    <3>2. call'[i].state = "err"
      BY <1>3, <3>1 DEF CallRecord
    <3> QED
      BY <2>3, <3>1, <3>2
  <2> QED
    BY <2>1, <2>2, <2>3
<1>5. s \in Stream /\ s # 0
  BY <1>1, Places, NetAssumption DEF Stream, Typed, TypeOK
<1>6. seq \in 0 .. MaxCalls
  BY <1>1, NextSeq, Places, NetAssumption DEF Typed, TypeOK
<1>7. /\ call'[i] = [call[i] EXCEPT !.state = st, !.stream = s, !.seq = seq]
      /\ \A j \in DOMAIN call \ {i} : call'[j] = calls[j]
      /\ call' = [j \in DOMAIN call |-> call'[j]]
  BY <1>4
<1>8. call'[i] \in CallRecord /\ call'[i].from = n /\ call'[i].to = call[i].to
      /\ call'[i].stream = s /\ call'[i].seq = seq /\ call'[i].state = st
  <2>1. st \in CallState
    BY <1>4 DEF CallState
  <2>2. call[i] \in CallRecord
    BY <1>3
  <2>3. [call[i] EXCEPT !.state = st, !.stream = s, !.seq = seq] \in CallRecord
    BY <1>5, <1>6, <2>1, <2>2 DEF CallRecord
  <2> QED
    BY <1>7, <2>2, <2>3 DEF CallRecord
<1>9. call' \in Seq(CallRecord) /\ Len(call') = Len(call) /\ DOMAIN call' = DOMAIN call
  <2>1. \A j \in DOMAIN call : call'[j] \in CallRecord
    BY <1>3, <1>7, <1>8
  <2> QED
    BY <1>1, <1>7, <2>1, MapSeq DEF Typed
<1>10. ASSUME NEW j \in DOMAIN call, j # i
       PROVE  /\ call'[j].from = call[j].from /\ call'[j].to = call[j].to
              /\ call'[j].stream = call[j].stream /\ call'[j].seq = call[j].seq
              /\ call'[j] = call[j] \/ (call[j].state = "sent" /\ call'[j].state = "err")
  BY <1>3, <1>7, <1>10 DEF CallRecord
<1>11. pk \in Packet
  <2>1. peer_of(n, s) \in Node
    BY <1>1, PeerTwice
  <2>2. i \in Call
    BY <1>1, Places, NetAssumption DEF Call, Typed, TypeOK
  <2> QED
    BY <1>5, <1>6, <2>1, <2>2 DEF Packet
<1>12. wire' \subseteq wire \cup {pk} /\ wire \subseteq wire'
  BY <1>4 DEF packet_tx
<1>13. Typed'
  <2>1. RestTyped'
    BY <1>1, <1>11, <1>12 DEF RestTyped
  <2>2. Len(call') <= MaxCalls /\ \A j \in DOMAIN call' : call'[j] \in CallRecord
    BY <1>1, <1>9 DEF Typed, TypeOK
  <2>3. Len(stream') <= MaxStreams /\ stream' \in Seq(StreamRecord)
        /\ \A j \in DOMAIN stream' : stream'[j] \in StreamRecord
    BY <1>1 DEF StreamStep, Typed, TypeOK
  <2> QED
    BY <1>9, <2>1, <2>2, <2>3 DEF Typed, TypeOK, RestTyped
<1>14. DOMAIN stream' = DOMAIN stream
       /\ \A k \in DOMAIN stream : /\ stream'[k].dialer = stream[k].dialer
                                   /\ stream'[k].target = stream[k].target
                                   /\ stream'[k].up => stream[k].up
  BY <1>1, Places DEF StreamStep, Typed
<1>15. st \in Counted /\ st \notin Dialing /\ st # "lock" /\ st # "ok"
  BY <1>4 DEF Counted, Dialing, Getting
<1>16. CallStreams'
  <2> SUFFICES ASSUME NEW j \in DOMAIN call
               PROVE  /\ call'[j].stream \in DOMAIN stream' \cup {0}
                      /\ call'[j].state \notin Counted => call'[j].seq = 0
                      /\ call'[j].state = "lock" => call'[j].stream = 0
                      /\ call'[j].state \in Dialing \cup {"sent", "ok"} => call'[j].stream # 0
                      /\ call'[j].stream # 0 =>
                           call'[j].from \in {stream'[call'[j].stream].dialer,
                                              stream'[call'[j].stream].target}
                      /\ call'[j].state \in Dialing =>
                           /\ stream'[call'[j].stream].dialer = call'[j].from
                           /\ stream'[call'[j].stream].target = call'[j].to
    BY <1>9 DEF CallStreams
  <2>1. CASE j = i
    <3>1. call'[j].from = n /\ call'[j].stream = s /\ call'[j].state = st
      BY <1>8, <2>1
    <3> QED
      BY <1>5, <1>14, <1>15, <3>1
  <2>2. CASE j # i
    <3>1. /\ call'[j].from = call[j].from /\ call'[j].to = call[j].to
          /\ call'[j].stream = call[j].stream /\ call'[j].seq = call[j].seq
      BY <1>10, <2>2
    <3>2. \/ call'[j].state = call[j].state
          \/ call'[j].state \in Counted /\ call'[j].state \notin Dialing \cup {"sent", "ok", "lock"}
      BY <1>10, <2>2 DEF Counted, Dialing, Getting
    <3>3. call[j].stream \in DOMAIN stream \cup {0}
      BY <1>1 DEF CallStreams
    <3>4. call[j].state \in Dialing => call[j].stream # 0
      BY <1>1 DEF CallStreams
    <3> QED
      BY <1>1, <1>14, <3>1, <3>2, <3>3, <3>4 DEF CallStreams
  <2> QED
    BY <2>1, <2>2
<1>17. DialPrivate'
  <2> SUFFICES ASSUME NEW j \in DOMAIN call, call'[j].state \in Dialing
               PROVE  /\ \A k \in DOMAIN call \ {j} :
                           ~(call'[k].from = call'[j].from /\ call'[k].stream = call'[j].stream)
                      /\ \A p \in Node : connections'[call'[j].from][p] # call'[j].stream
    BY <1>9 DEF DialPrivate
  <2>1. j # i
    BY <1>8, <1>15
  <2>2. call'[j].from = call[j].from /\ call'[j].stream = call[j].stream /\ call[j].state \in Dialing
    BY <1>10, <2>1 DEF Dialing, Getting
  <2>3. call[j].from = n => call[j].stream # s
    BY <2>1, <2>2
  <2>4. call[j].from \in Node
    BY <1>3 DEF CallRecord
  <2>5. ASSUME NEW k \in DOMAIN call \ {j}
        PROVE  ~(call'[k].from = call'[j].from /\ call'[k].stream = call'[j].stream)
    <3>1. CASE k = i
      BY <1>8, <2>2, <2>3, <3>1
    <3>2. CASE k # i
      BY <1>1, <1>10, <2>2, <3>2 DEF DialPrivate
    <3> QED
      BY <3>1, <3>2
  <2>6. ASSUME NEW p \in Node
        PROVE  connections'[call'[j].from][p] # call'[j].stream
    <3>1. connections[call[j].from][p] # call[j].stream
      BY <1>1, <2>2 DEF DialPrivate
    <3> QED
      BY <2>2, <2>3, <2>4, <3>1
  <2> QED
    BY <2>5, <2>6
<1>18. Numbered'
  <2>1. NumbersKept
    <3> SUFFICES ASSUME NEW j \in DOMAIN call, call[j].state \in Counted
                 PROVE  /\ j \in DOMAIN call' /\ call'[j].state \in Counted
                        /\ call'[j].from = call[j].from /\ call'[j].stream = call[j].stream
                        /\ call'[j].seq = call[j].seq
      BY DEF NumbersKept
    <3>1. j # i
      OBVIOUS
    <3> QED
      BY <1>9, <1>10, <3>1 DEF Counted
  <2>2. ASSUME NEW j \in DOMAIN call', call'[j].state \in Counted
        PROVE  \/ j \in DOMAIN call /\ call[j].state \in Counted
               \/ j = i /\ call'[j].seq = next_seq(call'[j].from, call'[j].stream)
    <3>1. CASE j = i
      BY <1>8, <3>1
    <3>2. CASE j # i
      BY <1>9, <1>10, <2>2, <3>2 DEF Counted
    <3> QED
      BY <3>1, <3>2
  <2>3. NumbersAdded(i)
    BY <2>2 DEF NumbersAdded
  <2> QED
    BY <1>1, <1>13, <2>1, <2>3, NumberedStep
<1>19. PacketsLabelled'
  <2>1. ASSUME NEW p, Labelled(p)
        PROVE  Labelled(p)'
    <3>1. p.call \in DOMAIN call \ {i} /\ p.stream \in DOMAIN stream
      BY <2>1 DEF Labelled
    <3>2. /\ call'[p.call].from = call[p.call].from /\ call'[p.call].stream = call[p.call].stream
          /\ call'[p.call].seq = call[p.call].seq /\ call'[p.call].state \in Counted
      BY <1>10, <2>1, <3>1 DEF Labelled, Counted
    <3>3. peer_of(call[p.call].from, p.stream)' = peer_of(call[p.call].from, p.stream)
      BY <1>14, <3>1, <3>2 DEF peer_of
    <3> QED
      BY <1>9, <1>14, <2>1, <3>1, <3>2, <3>3 DEF Labelled
  <2>2. Labelled(pk)'
    <3>1. peer_of(call[i].from, s)' = peer_of(n, s)
      BY <1>8, <1>14 DEF peer_of
    <3>2. /\ pk.stream = s /\ pk.to = peer_of(n, s) /\ pk.kind = "Request" /\ pk.seq = seq
          /\ pk.call = i
      OBVIOUS
    <3> QED
      BY <1>8, <1>9, <1>14, <1>15, <3>1, <3>2 DEF Labelled
  <2> QED
    BY <1>1, <1>12, <2>1, <2>2 DEF PacketsLabelled
<1>20. OwnResponse'
  <2> SUFFICES ASSUME NEW j \in DOMAIN call, call'[j].state = "ok"
               PROVE  call'[j].got = j
    BY <1>9 DEF OwnResponse
  <2>1. j # i
    BY <1>8, <1>15
  <2> QED
    BY <1>1, <1>10, <2>1 DEF OwnResponse
<1>21. CallUnderWay'
  <2> SUFFICES ASSUME NEW j \in DOMAIN call, call'[j].state = "sent", stream'[call'[j].stream].up
               PROVE  \E p \in wire' \cup handling' : p.stream = call'[j].stream /\ p.call = j
    BY <1>9 DEF CallUnderWay
  <2>1. CASE j = i
    <3>1. stream[s].up /\ st = "sent"
      BY <1>8, <1>14, <2>1
    <3>2. pk \in wire'
      BY <1>4, <3>1 DEF packet_tx
    <3> QED
      BY <1>8, <2>1, <3>2
  <2>2. CASE j # i
    <3>1. call'[j] = call[j]
      BY <1>10, <2>2
    <3>2. call[j].stream \in DOMAIN stream
      BY <1>1, <3>1 DEF CallStreams
    <3>3. \E p \in wire \cup handling : p.stream = call[j].stream /\ p.call = j
      BY <1>1, <1>14, <3>1, <3>2 DEF CallUnderWay
    <3> QED
      BY <1>12, <3>1, <3>3
  <2> QED
    BY <2>1, <2>2
<1> QED
  BY <1>13, <1>16, <1>17, <1>18, <1>19, <1>20, <1>21 DEF IInv

\* A request over a connection of the map.
LEMMA SendOverMap ==
  ASSUME IInv, NEW i \in DOMAIN call, rpc_send(i) \/ propose_send(i)
  PROVE  IInv'
<1>1. Typed /\ RestTyped /\ DialPrivate /\ StreamsHeld
  BY RestOf DEF IInv
<1> PICK n, q, s : n = call[i].from /\ q = call[i].to /\ s = connections[n][q]
  OBVIOUS
<1>2. /\ call[i].state = "lock" /\ s # 0
      /\ send_request(i, s, call)
      /\ UNCHANGED <<raft, stream, backlog, acceptor, connections, handling, cuts, timeouts>>
  BY DEF rpc_send, propose_send, connected
<1>3. n \in Node /\ q \in Node
  BY <1>1, Places DEF CallRecord
<1>4. s \in DOMAIN stream /\ n \in {stream[s].dialer, stream[s].target}
  BY <1>1, <1>2, <1>3 DEF StreamsHeld
<1>5. call[i].state \notin Counted
  BY <1>2 DEF Counted
<1>6. NotDialed(i, s)
  BY <1>1, <1>3 DEF DialPrivate, NotDialed
<1>7. StreamStep /\ StreamsHeld'
  BY <1>1, <1>2, SameStreams, SameHeld
<1>8. MapTakes(i, s)
  BY <1>1, <1>2 DEF RestTyped, MapTakes
<1>9. CallsOrFailed(call)
  BY <1>1 DEF Typed, CallsOrFailed
<1> QED
  BY <1>2, <1>4, <1>5, <1>6, <1>7, <1>8, <1>9, SendStep

\* A dial ends: the new connection takes the place of the old one, and the request
\* of the call is the first on it.
LEMMA DialDoneStep ==
  ASSUME IInv, NEW i \in DOMAIN call, dial_done(i)
  PROVE  IInv'
<1>1. Typed /\ RestTyped /\ CallStreams /\ DialPrivate /\ StreamsHeld
  BY RestOf DEF IInv
<1> PICK n, q, s : n = call[i].from /\ q = call[i].to /\ s = call[i].stream
  OBVIOUS
<1> PICK old : old = connections[n][q]
  OBVIOUS
<1>2. /\ call[i].state = "hello"
      /\ connections' = [connections EXCEPT ![n][q] = s]
      /\ stream' = [dropped_streams(n, old) EXCEPT ![s].end["dialer"] = "alive"]
      /\ send_request(i, s, dropped_calls(n, old))
      /\ UNCHANGED <<raft, backlog, acceptor, handling, cuts, timeouts>>
  BY DEF dial_done
<1>3. call[i].state \in Dialing /\ call[i].state \notin Counted
  BY <1>2 DEF Dialing, Counted
<1>4. n \in Node /\ q \in Node
  BY <1>1, Places DEF CallRecord
<1>5. s \in DOMAIN stream /\ stream[s].dialer = n /\ stream[s].target = q
  BY <1>1, <1>3 DEF CallStreams
<1>6. old \in DOMAIN stream \cup {0}
  BY <1>1, <1>4 DEF StreamsHeld
<1>7. StreamStep
  <2>d. PICK d : d = dropped_streams(n, old)
    OBVIOUS
  <2>1. Narrowed(stream, d)
    <3>1. CASE d = stream
      BY <1>1, <3>1 DEF Typed, Narrowed
    <3>2. CASE d # stream
      <4>1. old \in DOMAIN stream
            /\ d = [stream EXCEPT ![old].up = FALSE, ![old].end[side(n, old)] = "dropped"]
        BY <2>d, <1>6, <3>2 DEF dropped_streams
      <4>e. PICK e \in {"dialer", "target"} : e = side(n, old)
        BY DEF side
      <4>r. PICK r : r = [stream[old] EXCEPT !.up = FALSE, !.end[e] = "dropped"]
        OBVIOUS
      <4>2. stream[old] \in StreamRecord
        BY <1>1, <4>1, Places
      <4>3. r \in StreamRecord
        BY <4>r, <4>2, StreamValues DEF EndState
      <4>4. r.dialer = stream[old].dialer /\ r.target = stream[old].target /\ r.up = FALSE
        BY <4>r, <4>2 DEF StreamRecord
      <4>5. d = [stream EXCEPT ![old] = r]
        BY <4>1, <4>e, <4>r
      <4>6. Narrowed(stream, [stream EXCEPT ![old] = r])
        BY <1>1, <4>1, <4>3, <4>4, EditNarrowed DEF Typed
      <4> QED
        BY <4>5, <4>6
    <3> QED
      BY <3>1, <3>2
  <2>r. PICK r : r = [d[s] EXCEPT !.end["dialer"] = "alive"]
    OBVIOUS
  <2>2. d \in Seq(StreamRecord) /\ s \in DOMAIN d
    BY <1>5, <2>1 DEF Narrowed
  <2>3. d[s] \in StreamRecord
    BY <2>2
  <2>4. r \in StreamRecord
    BY <2>r, <2>3, StreamValues DEF EndState
  <2>5. r.dialer = d[s].dialer /\ r.target = d[s].target /\ r.up = d[s].up
    BY <2>r, <2>3 DEF StreamRecord
  <2>6. stream' = [d EXCEPT ![s] = r]
    BY <1>2, <2>d, <2>r
  <2>7. Narrowed(d, [d EXCEPT ![s] = r])
    BY <2>2, <2>4, <2>5, EditNarrowed
  <2>8. Narrowed(d, stream')
    BY <2>6, <2>7
  <2> QED
    BY <2>1, <2>8 DEF Narrowed, StreamStep
<1>8. connections' \in [Node -> [Node -> Stream \cup {0}]]
      /\ \A m, p \in Node : connections'[m][p] # connections[m][p] =>
           m = n /\ p = q /\ connections'[m][p] = s
  <2>1. s \in Stream
    <3>1. s \in 1 .. Len(stream) /\ Len(stream) \in Nat /\ Len(stream) <= MaxStreams
      BY <1>1, <1>5, Places DEF Typed, TypeOK
    <3> QED
      BY <3>1, NetAssumption DEF Stream
  <2> QED
    BY <1>1, <1>2, <1>4, <2>1 DEF RestTyped
<1>9. StreamsHeld'
  <2>1. \A m, p \in Node : connections'[m][p] # connections[m][p] =>
          /\ connections'[m][p] \in DOMAIN stream
          /\ {stream[connections'[m][p]].dialer, stream[connections'[m][p]].target} = {m, p}
    BY <1>5, <1>8
  <2> QED
    BY <1>1, <1>2, <1>7, <2>1, QuietHeld
<1>10. NotDialed(i, s) /\ MapTakes(i, s)
  BY <1>1, <1>3, <1>8 DEF DialPrivate, NotDialed, MapTakes
<1> PICK calls : calls = dropped_calls(n, old)
  OBVIOUS
<1>11. CallsOrFailed(calls)
  BY DEF dropped_calls, CallsOrFailed
<1>12. send_request(i, s, calls)
  BY <1>2
<1>13. call[i].from \in {stream[s].dialer, stream[s].target}
  BY <1>5
<1> QED
  BY <1>2, <1>3, <1>5, <1>7, <1>9, <1>10, <1>11, <1>12, <1>13, SendStep

-----------------------------------------------------------------------------
(* The theorems. *)

\* The invariant holds at the start.
LEMMA InitInv == Init => IInv
<1> SUFFICES ASSUME Init PROVE IInv
  OBVIOUS
<1>1. /\ call = <<>> /\ stream = <<>> /\ wire = {} /\ handling = {}
      /\ DOMAIN call = {} /\ DOMAIN stream = {}
  BY DEF Init
<1>2. Typed
  <2>1. \A n \in Node : acceptor[n] \in Acceptor
    BY DEF Init, Acceptor
  <2> QED
    BY <1>1, <2>1, NetAssumption DEF Init, Typed, TypeOK
<1>3. StreamsHeld
  BY DEF StreamsHeld, Init
<1> QED
  BY <1>1, <1>2, <1>3 DEF IInv, CallStreams, DialPrivate, Numbered, PacketsLabelled,
     OwnResponse, CallUnderWay

\* Every step keeps the invariant.
LEMMA StepInv == IInv /\ [Next]_vars => IInv'
<1> SUFFICES ASSUME IInv, [Next]_vars PROVE IInv'
  OBVIOUS
<1>1. ASSUME NEW n \in Node, NEW q \in Node, NEW kind \in {"rpc", "propose"}, start(n, q, kind)
      PROVE  IInv'
  BY <1>1, StartStep
<1>2. ASSUME NEW s \in DOMAIN stream, cut(s)
      PROVE  IInv'
  BY <1>2, CutStep
<1>3. ASSUME NEW i \in DOMAIN call, rpc_timeout(i)
      PROVE  IInv'
  BY <1>3, TimeoutStep
<1>4. ASSUME NEW i \in DOMAIN call, rpc_send(i) \/ propose_send(i)
      PROVE  IInv'
  BY <1>4, SendOverMap
<1>5. ASSUME NEW i \in DOMAIN call, rpc_unreachable(i) \/ propose_offline(i)
      PROVE  IInv'
  BY <1>5, FailStep
<1>6. ASSUME NEW i \in DOMAIN call, rpc_dial(i) \/ dial_get(i) \/ dial_done(i) \/ dial_failed(i)
      PROVE  IInv'
  BY <1>6, DialStep, DialGetStep, DialDoneStep, DialFailedStep
<1>7. ASSUME NEW n \in Node,
             set(n) \/ accept_get(n) \/ accept_done(n) \/ accept_failed(n) \/ accept_insert(n)
      PROVE  IInv'
  BY <1>7, SetStep, AcceptGetStep, AcceptEndStep, AcceptInsertStep
<1>8. ASSUME NEW n \in Node, NEW s \in backlog[n], accept(n, s)
      PROVE  IInv'
  BY <1>8, AcceptStep
<1>9. ASSUME NEW s \in DOMAIN stream, NEW n \in Node, read_end(n, s)
      PROVE  IInv'
  BY <1>9, ReadEndStep
<1>10. ASSUME NEW p \in wire, read_request(p) \/ read_response(p)
       PROVE  IInv'
  BY <1>10, ReadRequestStep, ReadResponseStep
<1>11. ASSUME NEW p \in handling, respond(p)
       PROVE  IInv'
  BY <1>11, RespondStep
<1>12. CASE UNCHANGED vars
  <2>1. UNCHANGED <<raft, call, stream, backlog, acceptor, connections, wire, handling, cuts, timeouts>>
    BY <1>12 DEF vars
  <2>2. CallStep(0) /\ StreamStep /\ RestTyped'
    BY <2>1, SameCalls, SameStreams, RestOf DEF IInv, RestTyped
  <2> QED
    BY <2>1, <2>2, Calm
<1>13. Runtime => IInv'
  BY <1>4, <1>5, <1>6, <1>7, <1>8, <1>9, <1>10, <1>11 DEF Runtime
<1> QED
  BY <1>1, <1>2, <1>3, <1>12, <1>13 DEF Next

\* The invariant holds for ever.
LEMMA Inductive == Spec => []IInv
BY InitInv, StepInv, PTL DEF Spec

\* Calls, streams, packets and connections have their types; in particular the
\* node with the smaller id has dialed every stream.
THEOREM NetTypes == Spec => []TypeOK
<1>1. IInv => TypeOK
  BY DEF IInv, Typed
<1> QED
  BY <1>1, Inductive, PTL

\* A caller is answered for its own request, for any number of nodes, of calls on
\* one stream and of streams, whatever is lost and in whatever order tasks respond.
THEOREM ResponsesOwn == Spec => []OwnResponse
<1>1. IInv => OwnResponse
  BY DEF IInv
<1> QED
  BY <1>1, Inductive, PTL

\* A call on a stream that is up is never forgotten: its request, its handler or its
\* response is under way.
THEOREM CallsUnderWay == Spec => []CallUnderWay
<1>1. IInv => CallUnderWay
  BY DEF IInv
<1> QED
  BY <1>1, Inductive, PTL
=============================================================================
