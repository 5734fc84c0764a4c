--------------------------- MODULE ReplicatedState ---------------------------
(***************************************************************************)
(* What the raft storage of a node promises, without logs, snapshots or    *)
(* locks: the cluster commits a history of states, and a node shows one    *)
(* state of that history after the other, never an earlier one again and   *)
(* never one that is not in it.                                            *)
(***************************************************************************)
EXTENDS Integers, Sequences

CONSTANT InitialState

VARIABLES
  history,   \* history[k + 1]: the state after the first k committed entries
  position,  \* how many entries the node has applied
  shown      \* the state the node shows

Init ==
  /\ history = <<InitialState>>
  /\ position = 0
  /\ shown = InitialState

Commit ==
  /\ Len(history') = Len(history) + 1
  /\ SubSeq(history', 1, Len(history)) = history
  /\ UNCHANGED <<position, shown>>

\* One entry further, or many at once by a snapshot.
Advance ==
  /\ position' \in position + 1 .. Len(history) - 1
  /\ shown' = history[position' + 1]
  /\ UNCHANGED history

Spec == Init /\ [][Commit \/ Advance]_<<history, position, shown>>
=============================================================================
