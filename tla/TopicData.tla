------------------------------ MODULE TopicData ------------------------------
(***************************************************************************)
(* The replicated state of one topic and the operations that a committed   *)
(* proposal runs on it (server/.../state_machine/topic.rs).                *)
(*                                                                         *)
(* An endpoint's interests are abstracted to the set of subjects their     *)
(* globs cover, so InterestMap::find is a membership test.                 *)
(***************************************************************************)
EXTENDS MessageQueue

CONSTANTS
  Node,            \* cluster nodes
  EpHash,          \* hash64 of each endpoint address
  MessageHash,     \* hash64 of each message id
  OverflowPolicy,  \* policy of overflow_config, "None" when there is no config
  OverflowSize     \* size of overflow_config

ASSUME HashAssumption ==
  /\ EpHash \in [Endpoint -> Nat]
  /\ MessageHash \in [MessageId -> Nat]
  /\ \A e, f \in Endpoint : EpHash[e] = EpHash[f] => e = f

ASSUME OverflowAssumption ==
  /\ OverflowPolicy \in {"None", "RejectNew", "DropOld"}
  /\ OverflowSize \in Nat \ {0}

\* panic: a call on the topic has panicked; the replica applies nothing more.
Topic ==
  [routing : [Node -> SUBSET Endpoint], interest : [Endpoint -> SUBSET Subject],
   queue : Queue, panic : BOOLEAN]

\* A topic loaded with no durable messages.
from_durable ==
  [routing |-> [n \in Node |-> {}], interest |-> [e \in Endpoint |-> {}],
   queue |-> new, panic |-> FALSE]

collect_addr_by_subjects(t, m) ==
  {e \in Endpoint : t.interest[e] \cap Header[m].subjects # {}}

\* The endpoint at index hash(message) modulo the length of the candidates
\* sorted by hash.
select_ep(m, candidates) ==
  {e \in candidates : Cardinality({f \in candidates : EpHash[f] < EpHash[e]})
                        = MessageHash[m] % Cardinality(candidates)}

\* update_and_flush with an empty update, for every id of ms, on replica n.
update_and_flush(t, n, ms, expired) ==
  [t EXCEPT !.queue = poll_and_flush(@, ms, t.routing[n], expired)]

\* Mutant: the new message is not polled.
hold_unpolled(t, n, m, eps, time, expired) ==
  [t EXCEPT !.queue = push(@, m, wait_ack(eps), time)]

\* The new message enters the queue and is polled.
hold(t, n, m, eps, time, expired) ==
  update_and_flush([t EXCEPT !.queue = push(@, m, wait_ack(eps), time)], n, {m}, expired)

\* Mutant: the sender of the dropped message is not told.
drop_old_silent(t) ==
  IF get_front(t.queue) = {} THEN [t EXCEPT !.panic = TRUE] ELSE [t EXCEPT !.queue = pop(@)]

\* Make room by dropping the oldest message; pop().expect(..) panics when the
\* first entry of time_id has no held message.
drop_old(t) ==
  IF get_front(t.queue) = {}
    THEN [t EXCEPT !.panic = TRUE]
    ELSE [t EXCEPT !.queue = resolve_ack(pop(@),
                       {exception(m, "Overflow") : m \in get_front(t.queue)})]

\* Mutant: the early return does not tell the sender.
fail_silent(t, m, why) == t

fail(t, m, why) == [t EXCEPT !.queue = resolve_ack(@, {exception(m, why)})]

\* Mutant: the size is compared with > instead of >=.
put_in_queue_late(t, n, m, eps, time, expired) ==
  IF OverflowPolicy = "None" \/ t.queue.size <= OverflowSize
    THEN hold(t, n, m, eps, time, expired)
  ELSE IF OverflowPolicy = "RejectNew" THEN fail(t, m, "Overflow")
  ELSE LET room == drop_old(t)
       IN  IF room.panic THEN room ELSE hold(room, n, m, eps, time, expired)

\* The overflow policy, then the queue.
put_in_queue(t, n, m, eps, time, expired) ==
  IF OverflowPolicy = "None" \/ t.queue.size < OverflowSize
    THEN hold(t, n, m, eps, time, expired)
  ELSE IF OverflowPolicy = "RejectNew" THEN fail(t, m, "Overflow")
  ELSE LET room == drop_old(t)
       IN  IF room.panic THEN room ELSE hold(room, n, m, eps, time, expired)

hold_new_message(t, n, m, time, expired) ==
  LET kind       == Header[m].target_kind
      ep_collect == collect_addr_by_subjects(t, m)
  IN  CASE kind = "Available"                    -> [t EXCEPT !.panic = TRUE]
        [] kind = "Push" /\ ep_collect = {}      -> fail(t, m, "NoAvailableTarget")
        [] kind = "Push" /\ ep_collect # {}      ->
             put_in_queue(t, n, m, select_ep(m, ep_collect), time, expired)
        [] kind \in {"Durable", "Online"}        ->
             put_in_queue(t, n, m, ep_collect, time, expired)

\* The held durable messages that e is interested in.
durable_for(t, e) ==
  {m \in t.queue.held : /\ Header[m].target_kind = "Durable"
                        /\ e \in collect_addr_by_subjects(t, m)}

\* Mutant: a status that is there already is set back to Unsent.
add_target_again(t, e, ms) ==
  [t EXCEPT !.queue.status = [m \in MessageId |->
     IF m \in ms THEN [@[m] EXCEPT ![e] = "Unsent"] ELSE @[m]]]

\* status.insert(e, Unsent) in each message of ms whose map lacks e.
add_target(t, e, ms) ==
  [t EXCEPT !.queue.status = [m \in MessageId |->
     IF m \in ms /\ @[m][e] = Absent THEN [@[m] EXCEPT ![e] = "Unsent"] ELSE @[m]]]

\* Mutant: held durable messages are not offered to the endpoint.
update_ep_interest_only(t, n, e, interests, expired) ==
  [t EXCEPT !.interest[e] = interests]

update_ep_interest(t, n, e, interests, expired) ==
  LET t1 == [t EXCEPT !.interest[e] = interests]
      ms == durable_for(t1, e)
  IN  update_and_flush(add_target(t1, e, ms), n, ms, expired)

\* Mutant: only the host of the endpoint records its interests.
ep_online_at_host(t, n, e, interests, host, expired) ==
  LET t1 == [t EXCEPT !.routing[host] = @ \cup {e},
                      !.interest[e] = IF n = host THEN interests ELSE @]
      ms == {m \in durable_for(t1, e) : t.queue.status[m][e] = Absent}
  IN  update_and_flush(add_target(t1, e, ms), n, ms, expired)

ep_online(t, n, e, interests, host, expired) ==
  LET t1 == [t EXCEPT !.routing[host] = @ \cup {e}, !.interest[e] = @ \cup interests]
      ms == {m \in durable_for(t1, e) : t.queue.status[m][e] = Absent}
  IN  update_and_flush(add_target(t1, e, ms), n, ms, expired)

\* Mutant: the messages of the endpoint are not polled.
ep_offline_unpolled(t, n, host, e, expired) ==
  [t EXCEPT !.routing[host] = @ \ {e}, !.interest[e] = {},
            !.queue.status = [m \in MessageId |->
               IF m \in t.queue.held /\ @[m][e] # Absent
                 THEN [@[m] EXCEPT ![e] = "Unreachable"] ELSE @[m]]]

\* Every status of the endpoint becomes Unreachable, a resolved one too.
ep_offline(t, n, host, e, expired) ==
  LET ms == {m \in t.queue.held : t.queue.status[m][e] # Absent}
      t1 == [t EXCEPT !.routing[host] = @ \ {e}, !.interest[e] = {},
                      !.queue.status = [m \in MessageId |->
                         IF m \in ms THEN [@[m] EXCEPT ![e] = "Unreachable"] ELSE @[m]]]
  IN  update_and_flush(t1, n, ms, expired)

set_state(t, n, m, e, kind, expired) ==
  update_and_flush([t EXCEPT !.queue = update_ack(@, m, e, kind)], n, {m}, expired)
=============================================================================
