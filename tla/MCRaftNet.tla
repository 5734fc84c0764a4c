------------------------------ MODULE MCRaftNet ------------------------------
(* Instance of RaftNet: node ids are the numbers the code compares.  1 dials 2,
   2 dials 3, and 2 calls back to 1. *)
EXTENDS RaftNet

MCCalls == {<<1, 2>>, <<2, 1>>, <<2, 3>>}
=============================================================================
