---------------------------- MODULE MessageStatus ----------------------------
(***************************************************************************)
(* The delivery status of one message towards one endpoint, and the tests  *)
(* the topic queue makes of it.  Model of MessageStatusKind and            *)
(* MessageAckExpectKind (model/src/message.rs).                            *)
(***************************************************************************)

MessageStatusKind ==
  {"Sending", "Unsent", "Sent", "Received", "Processed", "Failed", "Unreachable"}

MessageAckExpectKind == {"Sent", "Received", "Processed"}

\* A key that is not in the status map of a WaitAck.
Absent == "Absent"

is_unsent(s) == s = "Unsent"

\* Mutant: whatever was sent satisfies every expectation.
is_reached_early(s, condition) == s \in {"Sent", "Received", "Processed"}

is_reached(s, condition) ==
  \/ condition = "Sent" /\ s \in {"Sent", "Received", "Processed"}
  \/ condition = "Received" /\ s \in {"Received", "Processed"}
  \/ condition = "Processed" /\ s = "Processed"

is_failed(s) == s \in {"Failed", "Unreachable"}

is_resolved(s, condition) == is_failed(s) \/ is_reached(s, condition)
=============================================================================
