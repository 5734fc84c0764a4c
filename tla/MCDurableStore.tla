---------------------------- MODULE MCDurableStore ----------------------------
(***************************************************************************)
(* Instances of DurableStore for TLC.  m1 and m2 go to t1; m3 goes to t2   *)
(* when there is a second topic.                                           *)
(***************************************************************************)
EXTENDS DurableStore

CONSTANTS n1, n2, t1, t2, m1, m2, m3

MCTopicOf == [m \in MessageId |-> IF m = m3 /\ t2 \in TopicCode THEN t2 ELSE t1]

=============================================================================
