------------------------------ MODULE Messaging ------------------------------
(***************************************************************************)
(* What the cluster promises its clients about one topic, without raft,    *)
(* queues or replicas: a message is sent once, an endpoint gets it at most *)
(* once, while it is there and only after it was sent, and the sender gets *)
(* one answer, which tells the truth about the endpoints it names.         *)
(***************************************************************************)
EXTENDS Integers, Sequences

CONSTANTS
  Client,    \* who sends messages
  Message,
  Endpoint,
  Enough,    \* Enough[m]: the acks that satisfy the expectation of m
  AckFree,   \* messages whose expectation is met without an ack
  Settled,   \* messages with a fixed set of targets
  Picked,    \* messages sent to one endpoint of those that are interested
  Bounded    \* may the topic refuse or drop messages for lack of room

VARIABLES
  result,    \* result[n][m]: the answer to client n about m
  place,     \* place[e]: is endpoint e coming, here or gone
  got,       \* got[e]: the messages e got, in order
  acked      \* acked[e][m]: the acks of e's owner for m

promised == <<result, place, got, acked>>

Unasked == [kind |-> "none", targets |-> {}]
Pending == [kind |-> "waiting", targets |-> {}]

has(e, m) == \E i \in 1 .. Len(got[e]) : got[e][i] = m

Init ==
  /\ result = [n \in Client |-> [m \in Message |-> Unasked]]
  /\ place = [e \in Endpoint |-> "coming"]
  /\ got = [e \in Endpoint |-> <<>>]
  /\ acked = [e \in Endpoint |-> [m \in Message |-> {}]]

Send(n, m) ==
  /\ \A k \in Client : result[k][m] = Unasked
  /\ result' = [result EXCEPT ![n][m] = Pending]
  /\ UNCHANGED <<place, got, acked>>

Arrive(e) ==
  /\ place[e] = "coming"
  /\ place' = [place EXCEPT ![e] = "here"]
  /\ UNCHANGED <<result, got, acked>>

Leave(e) ==
  /\ place[e] = "here"
  /\ place' = [place EXCEPT ![e] = "gone"]
  /\ UNCHANGED <<result, got, acked>>

Deliver(e, m) ==
  /\ place[e] = "here"
  /\ \E n \in Client : result[n][m] # Unasked
  /\ ~has(e, m)
  /\ got' = [got EXCEPT ![e] = Append(@, m)]
  /\ UNCHANGED <<result, place, acked>>

\* A message is processed or failed, never both.
Acknowledge(e, m, kind) ==
  /\ has(e, m)
  /\ kind \notin acked[e][m]
  /\ kind = "Received" \/ acked[e][m] \subseteq {"Received"}
  /\ acked' = [acked EXCEPT ![e][m] = @ \cup {kind}]
  /\ UNCHANGED <<result, place, got>>

reached(e, m) == has(e, m) /\ (m \in AckFree \/ acked[e][m] \cap Enough[m] # {})

failed(e, m) == "Failed" \in acked[e][m] \/ place[e] = "gone" \/ ~has(e, m)

\* What an answer about m says of the endpoints it names.
truthful(m, r) ==
  \/ r.kind = "Ok" /\ (m \in Settled => \A e \in r.targets : reached(e, m))
  \/ r.kind = "Err" /\ \E e \in r.targets : failed(e, m)
  \/ r.kind = "Overflow" /\ Bounded /\ r.targets = {}
  \/ r.kind = "NoAvailableTarget" /\ m \in Picked /\ r.targets = {}

Answer(n, m) ==
  /\ result[n][m] = Pending
  /\ \E eps \in SUBSET Endpoint, kind \in {"Ok", "Err", "Overflow", "NoAvailableTarget"} :
       LET r == [kind |-> kind, targets |-> eps]
       IN  truthful(m, r) /\ result' = [result EXCEPT ![n][m] = r]
  /\ UNCHANGED <<place, got, acked>>

Next ==
  \/ \E n \in Client, m \in Message : Send(n, m) \/ Answer(n, m)
  \/ \E e \in Endpoint : Arrive(e) \/ Leave(e)
  \/ \E e \in Endpoint, m \in Message :
       Deliver(e, m) \/ \E kind \in {"Received", "Processed", "Failed"} : Acknowledge(e, m, kind)

Spec == Init /\ [][Next]_promised
=============================================================================
