---------------------------- MODULE MCRaftStorage ----------------------------
(***************************************************************************)
(* An instance of RaftStorage for TLC: a proposal and a membership (blank  *)
(* entries only count), two terms, a log of three entries.                 *)
(***************************************************************************)
EXTENDS RaftStorage

CONSTANTS proposal, membership

MCPayload == {proposal, membership}
MCNormal == {proposal}
MCMembership == {membership}
=============================================================================
