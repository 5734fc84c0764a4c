-------------------------------- MODULE MCEdge --------------------------------
(* Instance of Edge: a receiver, and a session that may use its peer id. *)
EXTENDS Edge

CONSTANTS c1, c2, p1, p2, n1, e1, m1

MCHeader ==
  [m \in MessageId |-> [target_kind |-> "Online", ack_kind |-> "Processed", subjects |-> {"s"},
                        durable |-> FALSE, max_receiver |-> {}]]
MCEpHash == [e \in Endpoint |-> 0]
MCMessageHash == [m \in MessageId |-> 0]
MCPeerChoices == [c \in Session |-> IF c = c1 THEN {p1} ELSE {p1, p2}]
MCTopicChoices == [c \in Session |-> IF c = c1 THEN {"t"} ELSE {"t", "u"}]
MCMaxCalls == [c \in Session |-> IF c = c1 THEN 2 ELSE 1]
MCDenied == {<<p2, "EndpointOnline">>}
MCInterestChoices == {{"s"}}
=============================================================================
