----------------------------- MODULE MessageQueue -----------------------------
(***************************************************************************)
(* The queue of held messages of one topic, as one replica keeps it        *)
(* (server/.../state_machine/topic/message_queue.rs and wait_ack.rs).      *)
(*                                                                         *)
(* A queue is a record:                                                    *)
(*   held      the keys of hold_messages                                   *)
(*   status    the WaitAck status map of each held message (Absent: no key)*)
(*   time_id   the BTreeSet<Timed<MessageId>>; Timed is ordered by time    *)
(*             alone, so the set holds at most one entry per time          *)
(*   id_time   the push time of each held message, 0 for the others        *)
(*   size      the counter that len() returns                              *)
(* and two sets of effects on the ProposalContext of the current entry:    *)
(*   dispatch  the <<message, endpoint>> pairs handed to dispatch_message  *)
(*   acks      the results handed to resolve_ack.                          *)
(*                                                                         *)
(* The `resolved' cache of the code is not kept: poll_message puts an id   *)
(* into it only when update_and_flush goes on to flush(), which takes the  *)
(* id out again, so it is empty between two calls of update_and_flush.     *)
(***************************************************************************)
EXTENDS MessageStatus, Integers, FiniteSets

CONSTANTS
  MessageId,    \* message ids
  Endpoint,     \* endpoint addresses
  Subject,      \* subjects of messages
  Header,       \* MessageHeader of each message id
  Blocking      \* TopicConfig.blocking

MessageTargetKind == {"Durable", "Online", "Available", "Push"}

\* durable: the header carries a durability config; max_receiver: its option,
\* as a set with at most one element.
MessageHeader ==
  [target_kind : MessageTargetKind, ack_kind : MessageAckExpectKind,
   subjects : SUBSET Subject, durable : BOOLEAN, max_receiver : SUBSET Nat]

ASSUME HeaderAssumption == Header \in [MessageId -> MessageHeader]
ASSUME BlockingAssumption == Blocking \in BOOLEAN
ASSUME FiniteAssumption == IsFiniteSet(MessageId)

StatusMap == [Endpoint -> MessageStatusKind \cup {Absent}]

NoStatus == [e \in Endpoint |-> Absent]

ResultKind == {"Ok", "Err", "Overflow", "NoAvailableTarget"}

WaitAckResult == [id : MessageId, kind : ResultKind, status : StatusMap]

Queue ==
  [held : SUBSET MessageId, status : [MessageId -> StatusMap],
   time_id : SUBSET (Nat \X MessageId), id_time : [MessageId -> Nat],
   size : Int, dispatch : SUBSET (MessageId \X Endpoint),
   acks : SUBSET WaitAckResult]

new ==
  [held |-> {}, status |-> [m \in MessageId |-> NoStatus],
   time_id |-> {}, id_time |-> [m \in MessageId |-> 0],
   size |-> 0, dispatch |-> {}, acks |-> {}]

-----------------------------------------------------------------------------
(* One held message. *)

\* WaitAck::new
wait_ack(eps) == [e \in Endpoint |-> IF e \in eps THEN "Unsent" ELSE Absent]

\* HoldMessage::send_unsent, for every message of ms.
send_unsent(q, ms, reachable_eps) ==
  [q EXCEPT
     !.status = [m \in MessageId |-> [e \in Endpoint |->
        IF m \in ms /\ e \in reachable_eps /\ is_unsent(q.status[m][e])
          THEN "Sending" ELSE q.status[m][e]]],
     !.dispatch = @ \cup
        {d \in ms \X reachable_eps : is_unsent(q.status[d[1]][d[2]])}]

\* Mutant: is_resolved asks for any resolved endpoint instead of all.
message_is_resolved_any(q, m, expired) ==
  \E e \in Endpoint : is_resolved(q.status[m][e], Header[m].ack_kind)

\* HoldMessage::is_resolved; expired: the ids whose expire time is past on the
\* clock of the replica that asks.
message_is_resolved(q, m, expired) ==
  IF Header[m].target_kind = "Durable"
    THEN \/ ~Header[m].durable
         \/ m \in expired
         \/ \E max_receiver \in Header[m].max_receiver :
              Cardinality({e \in Endpoint : q.status[m][e] # Absent}) >= max_receiver
    ELSE \A e \in Endpoint :
           q.status[m][e] # Absent => is_resolved(q.status[m][e], Header[m].ack_kind)

\* Mutant: resolve takes every endpoint that is not Processed for a failure.
resolve_strict(q, m) ==
  [id |-> m, status |-> q.status[m],
   kind |-> IF \E e \in Endpoint : q.status[m][e] # "Processed" THEN "Err" ELSE "Ok"]

\* HoldMessage::resolve
resolve(q, m) ==
  [id |-> m, status |-> q.status[m],
   kind |-> IF \E e \in Endpoint : is_failed(q.status[m][e]) THEN "Err" ELSE "Ok"]

\* WaitAckError::exception
exception(m, kind) == [id |-> m, status |-> NoStatus, kind |-> kind]

resolve_ack(q, results) == [q EXCEPT !.acks = @ \cup results]

-----------------------------------------------------------------------------
(* The queue. *)

\* BTreeSet::insert leaves the set alone when an entry of the same time is in it.
push(q, m, status, time) ==
  [q EXCEPT
     !.held = @ \cup {m},
     !.status[m] = status,
     !.time_id = IF \E p \in q.time_id : p[1] = time THEN @ ELSE @ \cup {<<time, m>>},
     !.id_time[m] = time,
     !.size = @ + 1]

\* The first entry of time_id, as a set with at most one element.
first(time_id) == {p \in time_id : \A r \in time_id : p[1] <= r[1]}

ids(entries) == {p[2] : p \in entries}

\* get_front, as a set with at most one element: the id of the first entry of
\* time_id, if hold_messages still has it.
get_front(q) == ids(first(q.time_id)) \cap q.held

\* Mutant: the size counter is not decremented.
discard_uncounted(q, entries, ms, count) ==
  [q EXCEPT
     !.held = @ \ ms,
     !.status = [m \in MessageId |-> IF m \in ms THEN NoStatus ELSE q.status[m]],
     !.time_id = @ \ entries,
     !.id_time = [m \in MessageId |-> IF m \in ms THEN 0 ELSE q.id_time[m]]]

\* Take the entries and the messages out, count of them by the size counter.
discard(q, entries, ms, count) ==
  [q EXCEPT
     !.held = @ \ ms,
     !.status = [m \in MessageId |-> IF m \in ms THEN NoStatus ELSE q.status[m]],
     !.time_id = @ \ entries,
     !.id_time = [m \in MessageId |-> IF m \in ms THEN 0 ELSE q.id_time[m]],
     !.size = @ - count]

\* Mutant: pop takes the entry out of time_id and leaves the message held.
pop_entry(q) ==
  LET front == first(q.time_id)
  IN  discard(q, front, {}, Cardinality(front))

pop(q) ==
  LET front == first(q.time_id)
  IN  discard(q, front, ids(front), Cardinality(front))

\* remove, for every message of ms: the entry taken out of time_id is the one
\* that has the message's time, whatever id is in it.
remove(q, ms) ==
  discard(q, {p \in q.time_id : \E m \in ms : p[1] = q.id_time[m]}, ms, Cardinality(ms))

\* The trailing status.insert makes the match arms before it immaterial: an
\* unresolved or absent status always becomes kind.
update_ack(q, ack_to, from, kind) ==
  IF /\ ack_to \in q.held
     /\ ~is_resolved(q.status[ack_to][from], Header[ack_to].ack_kind)
    THEN [q EXCEPT !.status[ack_to][from] = kind]
    ELSE q

\* blocking_pop succeeds on an entry when its message is held and resolved.
\* An entry whose id an earlier entry took out is not held any more.
poppable(q, p, expired) ==
  /\ p[2] \in q.held
  /\ message_is_resolved(q, p[2], expired)
  /\ \A r \in q.time_id : r[1] < p[1] => r[2] # p[2]

\* The entries the loop of flush takes out of a blocking queue: the longest
\* prefix of time_id on which blocking_pop succeeds.
popped(q, expired) ==
  {p \in q.time_id : \A r \in q.time_id : r[1] <= p[1] => poppable(q, r, expired)}

\* Mutant: flush stops without polling the message that became the front.
flush_blocking_unpolled(q, reachable_eps, expired) ==
  LET out == popped(q, expired)
  IN  resolve_ack(discard(q, out, ids(out), Cardinality(out)), {resolve(q, m) : m \in ids(out)})

\* flush of a blocking queue, entered with the front message just polled: every
\* front it meets is polled (send_unsent); the resolved ones are popped.
flush_blocking(q, reachable_eps, expired) ==
  LET out  == popped(q, expired)
      next == (ids(first(q.time_id \ out)) \cap q.held) \ ids(out)
      sent == send_unsent(q, ids(out) \cup next, reachable_eps)
  IN  resolve_ack(discard(sent, out, ids(out), Cardinality(out)),
                  {resolve(sent, m) : m \in ids(out)})

\* poll_message and flush of a non-blocking queue, for every held id of ms.
flush_nonblocking(q, ms, reachable_eps, expired) ==
  LET polled == ms \cap q.held
      sent   == send_unsent(q, polled, reachable_eps)
      out    == {m \in polled : message_is_resolved(sent, m, expired)}
  IN  resolve_ack(remove(sent, out), {resolve(sent, m) : m \in out})

\* Mutant: a blocking queue polls any message, not only the front.
poll_and_flush_any(q, ms, reachable_eps, expired) ==
  flush_nonblocking(q, ms, reachable_eps, expired)

\* poll_message of each id of ms, each followed by flush when it is ready.  In a
\* blocking queue only the front message is polled, and polling what a flush
\* left at the front changes nothing more, so the order of ms does not matter.
poll_and_flush(q, ms, reachable_eps, expired) ==
  IF ~Blocking THEN flush_nonblocking(q, ms, reachable_eps, expired)
  ELSE IF get_front(q) \cap ms # {} THEN flush_blocking(q, reachable_eps, expired)
  ELSE q

-----------------------------------------------------------------------------
(* What the fields of a queue say of each other. *)

\* hold_messages, time_id and id_time hold the same messages and size counts
\* them; in particular the counter never wraps below zero.
QueueConsistent(q) ==
  /\ \A m \in MessageId : m \in q.held <=> q.id_time[m] # 0
  /\ \A m \in q.held : <<q.id_time[m], m>> \in q.time_id
  /\ \A p \in q.time_id : p[2] \in q.held /\ p[1] = q.id_time[p[2]]
  /\ \A p, r \in q.time_id : p[1] = r[1] => p = r
  /\ q.size = Cardinality(q.held)
=============================================================================
