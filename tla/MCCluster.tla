------------------------------ MODULE MCCluster ------------------------------
(***************************************************************************)
(* Instances of Cluster for TLC.  Nodes, endpoints, messages and subjects  *)
(* are model values; the hashes make Push messages pick different          *)
(* endpoints; e1 is created on n1 and e2 on n2 (on n1 in one-node runs).   *)
(***************************************************************************)
EXTENDS Cluster

CONSTANTS n1, n2, e1, e2, m1, m2, m3, s1

MCEpHash == [e \in Endpoint |-> IF e = e1 THEN 7 ELSE 3]

MCMessageHash == [m \in MessageId |-> CASE m = m1 -> 4 [] m = m2 -> 5 [] m = m3 -> 6]

MCHost == [e \in Endpoint |-> IF e = e2 /\ n2 \in Node THEN n2 ELSE n1]

OneInterest == {{s1}}

InterestOrNone == {{s1}, {}}

\* Every push reads a later time than the one before.
StrictClock == {1}

header(target_kind, ack_kind, durable, max_receiver) ==
  [target_kind |-> target_kind, ack_kind |-> ack_kind, subjects |-> {s1},
   durable |-> durable, max_receiver |-> max_receiver]

\* m1 to everybody, m2 to one worker, m3 to everybody with the weakest expectation.
MixedHeader ==
  [m \in MessageId |-> CASE m = m1 -> header("Online", "Processed", FALSE, {})
                         [] m = m2 -> header("Push", "Received", FALSE, {})
                         [] m = m3 -> header("Online", "Sent", FALSE, {})]

OnlineHeader == [m \in MessageId |-> header("Online", "Processed", FALSE, {})]

\* m1 until it expires, m2 for two receivers, m3 without a durability config.
DurableHeader ==
  [m \in MessageId |-> CASE m = m1 -> header("Durable", "Received", TRUE, {})
                         [] m = m2 -> header("Durable", "Received", TRUE, {2})
                         [] m = m3 -> header("Durable", "Received", FALSE, {})]
=============================================================================
