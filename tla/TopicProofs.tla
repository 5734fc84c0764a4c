----------------------------- MODULE TopicProofs -----------------------------
(***************************************************************************)
(* Facts about the operators of MessageQueue and TopicData, for any set of *)
(* messages and endpoints: they keep the types, those that change what the *)
(* queue holds keep its indexes consistent, and all write, hand out and    *)
(* tell senders only what Delivers says.                                   *)
(***************************************************************************)
EXTENDS TopicData, FiniteSetTheorems, WellFoundedInduction, TLAPS

-----------------------------------------------------------------------------
(* The queue. *)

\* A queue with finitely many entries.
FiniteQueue(q) == q \in Queue /\ IsFiniteSet(q.time_id)

\* r holds what q holds: only statuses and effects may differ.
SameIndex(q, r) ==
  /\ r.held = q.held
  /\ r.time_id = q.time_id
  /\ r.id_time = q.id_time
  /\ r.size = q.size

-----------------------------------------------------------------------------
(* Types. *)

\* An empty queue is well typed (MessageQueue::new).
LEMMA NewType == FiniteQueue(new)
BY FS_EmptySet DEF FiniteQueue, new, Queue, NoStatus, StatusMap

\* A new WaitAck is a status map.
LEMMA WaitAckType ==
  ASSUME NEW eps
  PROVE  wait_ack(eps) \in StatusMap
BY DEF wait_ack, StatusMap, MessageStatusKind

\* send_unsent keeps the type and the indexes, and the results to be delivered.
LEMMA SendUnsentType ==
  ASSUME NEW q, FiniteQueue(q), NEW ms \in SUBSET MessageId, NEW eps \in SUBSET Endpoint
  PROVE  /\ FiniteQueue(send_unsent(q, ms, eps))
         /\ SameIndex(q, send_unsent(q, ms, eps))
         /\ send_unsent(q, ms, eps).acks = q.acks
<1> DEFINE st == [m \in MessageId |-> [e \in Endpoint |->
                    IF m \in ms /\ e \in eps /\ is_unsent(q.status[m][e])
                      THEN "Sending" ELSE q.status[m][e]]]
           di == q.dispatch \cup {d \in ms \X eps : is_unsent(q.status[d[1]][d[2]])}
<1>1. st \in [MessageId -> StatusMap]
  BY DEF FiniteQueue, Queue, StatusMap, MessageStatusKind
<1>2. di \in SUBSET (MessageId \X Endpoint)
  BY DEF FiniteQueue, Queue
<1> HIDE DEF st, di
<1>3. send_unsent(q, ms, eps) = [q EXCEPT !.status = st, !.dispatch = di]
  BY DEF send_unsent, st, di
<1> QED
  BY <1>1, <1>2, <1>3 DEF FiniteQueue, Queue, SameIndex

\* r is q without the entries and the messages ms, counted down by count.
Discarded(q, r, entries, ms, count) ==
  /\ FiniteQueue(r)
  /\ r.held = q.held \ ms
  /\ r.time_id = q.time_id \ entries
  /\ \A m \in MessageId : r.id_time[m] = IF m \in ms THEN 0 ELSE q.id_time[m]
  /\ r.size = q.size - count
  /\ r.acks = q.acks

\* discard keeps the type.
LEMMA DiscardType ==
  ASSUME NEW q, FiniteQueue(q), NEW entries, NEW ms \in SUBSET MessageId, NEW count \in Int
  PROVE  Discarded(q, discard(q, entries, ms, count), entries, ms, count)
<1> DEFINE st == [m \in MessageId |-> IF m \in ms THEN NoStatus ELSE q.status[m]]
           it == [m \in MessageId |-> IF m \in ms THEN 0 ELSE q.id_time[m]]
<1>1. st \in [MessageId -> StatusMap]
  BY DEF FiniteQueue, Queue, StatusMap, NoStatus
<1>2. it \in [MessageId -> Nat]
  BY DEF FiniteQueue, Queue
<1>3. IsFiniteSet(q.time_id \ entries)
  BY FS_Difference DEF FiniteQueue
<1> HIDE DEF st, it
<1>4. discard(q, entries, ms, count)
        = [q EXCEPT !.held = q.held \ ms, !.status = st, !.time_id = q.time_id \ entries,
                    !.id_time = it, !.size = q.size - count]
  BY DEF discard, st, it
<1>5. q \in Queue /\ q.size \in Int
  BY DEF FiniteQueue, Queue
<1>6. FiniteQueue(discard(q, entries, ms, count))
  <2>3. /\ q.held \ ms \in SUBSET MessageId
        /\ q.time_id \ entries \in SUBSET (Nat \X MessageId)
        /\ q.size - count \in Int
    BY <1>5 DEF Queue
  <2>1. discard(q, entries, ms, count) \in Queue
    BY <1>1, <1>2, <1>4, <1>5, <2>3 DEF Queue
  <2>2. discard(q, entries, ms, count).time_id = q.time_id \ entries
    BY <1>4, <1>5 DEF Queue
  <2> QED
    BY <2>1, <2>2, <1>3 DEF FiniteQueue
<1> QED
  BY <1>4, <1>5, <1>6 DEF Queue, it, Discarded

\* The ids of entries of a queue are message ids.
LEMMA IdsType ==
  ASSUME NEW q, FiniteQueue(q), NEW entries \in SUBSET q.time_id
  PROVE  ids(entries) \in SUBSET MessageId
BY DEF ids, FiniteQueue, Queue

\* r is q with message m pushed at time.
Pushed(q, r, m, time) ==
  /\ FiniteQueue(r)
  /\ r.held = q.held \cup {m}
  /\ r.time_id = IF \E p \in q.time_id : p[1] = time
                   THEN q.time_id ELSE q.time_id \cup {<<time, m>>}
  /\ \A k \in MessageId : r.id_time[k] = IF k = m THEN time ELSE q.id_time[k]
  /\ r.size = q.size + 1
  /\ r.acks = q.acks

\* push keeps the type.
LEMMA PushType ==
  ASSUME NEW q, FiniteQueue(q), NEW m \in MessageId, NEW st \in StatusMap, NEW time \in Nat
  PROVE  Pushed(q, push(q, m, st, time), m, time)
<1> DEFINE ti == IF \E p \in q.time_id : p[1] = time
                   THEN q.time_id ELSE q.time_id \cup {<<time, m>>}
<1>1. IsFiniteSet(ti)
  BY FS_AddElement DEF FiniteQueue
<1>2. ti \in SUBSET (Nat \X MessageId)
  BY DEF FiniteQueue, Queue
<1> HIDE DEF ti
<1>3. push(q, m, st, time)
        = [q EXCEPT !.held = q.held \cup {m}, !.status = [q.status EXCEPT ![m] = st],
                    !.time_id = ti, !.id_time = [q.id_time EXCEPT ![m] = time],
                    !.size = q.size + 1]
  BY DEF push, ti, FiniteQueue, Queue
<1>4. q \in Queue /\ q.size \in Int
  BY DEF FiniteQueue, Queue
<1>5. FiniteQueue(push(q, m, st, time))
  <2>3. /\ q.held \cup {m} \in SUBSET MessageId
        /\ [q.status EXCEPT ![m] = st] \in [MessageId -> StatusMap]
        /\ [q.id_time EXCEPT ![m] = time] \in [MessageId -> Nat]
        /\ q.size + 1 \in Int
    BY <1>4 DEF Queue
  <2>1. push(q, m, st, time) \in Queue
    BY <1>2, <1>3, <1>4, <2>3 DEF Queue
  <2>2. push(q, m, st, time).time_id = ti
    BY <1>3, <1>4 DEF Queue
  <2> QED
    BY <2>1, <2>2, <1>1 DEF FiniteQueue
<1> QED
  BY <1>3, <1>4, <1>5 DEF Queue, ti, Pushed

\* The result of a message is a WaitAckResult (HoldMessage::resolve).
LEMMA ResolveType ==
  ASSUME NEW q, FiniteQueue(q), NEW m \in MessageId
  PROVE  resolve(q, m) \in WaitAckResult /\ resolve(q, m).id = m
BY DEF resolve, WaitAckResult, ResultKind, FiniteQueue, Queue

\* resolve_ack keeps the type and the indexes.
LEMMA ResolveAckType ==
  ASSUME NEW q, FiniteQueue(q), NEW results \in SUBSET WaitAckResult
  PROVE  /\ FiniteQueue(resolve_ack(q, results))
         /\ SameIndex(q, resolve_ack(q, results))
         /\ resolve_ack(q, results).acks = q.acks \cup results
BY DEF resolve_ack, FiniteQueue, Queue, SameIndex

\* pop keeps the type.
LEMMA PopType ==
  ASSUME NEW q, FiniteQueue(q)
  PROVE  Discarded(q, pop(q), first(q.time_id), ids(first(q.time_id)),
                   Cardinality(first(q.time_id)))
<1>1. first(q.time_id) \in SUBSET q.time_id
  BY DEF first
<1>2. ids(first(q.time_id)) \in SUBSET MessageId
  BY <1>1, IdsType
<1>3. Cardinality(first(q.time_id)) \in Int
  BY <1>1, FS_Subset, FS_CardinalityType DEF FiniteQueue
<1> QED
  BY <1>2, <1>3, DiscardType DEF pop

\* What is left of q when the messages of out, with the entries of time_id that
\* stand for them, leave it and their senders are told.
Leave(q, r, out, entries, count) ==
  /\ FiniteQueue(r)
  /\ r.held = q.held \ out
  /\ r.time_id = q.time_id \ entries
  /\ \A m \in MessageId : r.id_time[m] = IF m \in out THEN 0 ELSE q.id_time[m]
  /\ r.size = q.size - count
  /\ q.acks \subseteq r.acks
  /\ \A m \in out : \E a \in r.acks : a.id = m

\* Sending, then discarding, then telling the senders is such a step.
LEMMA LeaveStep ==
  ASSUME NEW q, FiniteQueue(q), NEW ms \in SUBSET MessageId, NEW eps \in SUBSET Endpoint,
         NEW entries, NEW out \in SUBSET MessageId, NEW count \in Int,
         NEW sent, sent = send_unsent(q, ms, eps)
  PROVE  Leave(q, resolve_ack(discard(sent, entries, out, count),
                              {resolve(sent, m) : m \in out}), out, entries, count)
<1> DEFINE d == discard(sent, entries, out, count)
           results == {resolve(sent, m) : m \in out}
           r == resolve_ack(d, results)
<1>1. FiniteQueue(sent) /\ SameIndex(q, sent) /\ sent.acks = q.acks
  BY SendUnsentType
<1>2. /\ FiniteQueue(d)
      /\ d.held = q.held \ out
      /\ d.time_id = q.time_id \ entries
      /\ \A m \in MessageId : d.id_time[m] = IF m \in out THEN 0 ELSE q.id_time[m]
      /\ d.size = q.size - count
      /\ d.acks = q.acks
  <2>1. Discarded(sent, d, entries, out, count)
    BY <1>1, DiscardType
  <2> HIDE DEF d
  <2> QED
    BY <1>1, <2>1 DEF SameIndex, Discarded
<1>3. /\ results \in SUBSET WaitAckResult
      /\ \A m \in out : \E a \in results : a.id = m
  BY <1>1, ResolveType
<1> HIDE DEF d, results
<1>4. FiniteQueue(r) /\ SameIndex(d, r) /\ r.acks = d.acks \cup results
  BY <1>2, <1>3, ResolveAckType
<1>5. q.acks \subseteq r.acks /\ \A m \in out : \E a \in r.acks : a.id = m
  BY <1>2, <1>3, <1>4
<1>6. /\ r.held = q.held \ out
      /\ r.time_id = q.time_id \ entries
      /\ \A m \in MessageId : r.id_time[m] = IF m \in out THEN 0 ELSE q.id_time[m]
      /\ r.size = q.size - count
  BY <1>2, <1>4 DEF SameIndex
<1> QED
  BY <1>4, <1>5, <1>6 DEF Leave, d, results

\* flush of a blocking queue takes out the popped entries and their messages.
LEMMA FlushBlockingLeaves ==
  ASSUME NEW q, FiniteQueue(q), NEW eps \in SUBSET Endpoint, NEW expired
  PROVE  LET out == popped(q, expired)
         IN  Leave(q, flush_blocking(q, eps, expired), ids(out), out, Cardinality(out))
<1> DEFINE out  == popped(q, expired)
           next == (ids(first(q.time_id \ out)) \cap q.held) \ ids(out)
<1>1. out \in SUBSET q.time_id
  BY DEF popped
<1>2. ids(out) \in SUBSET MessageId
  BY <1>1, IdsType
<1>3. next \in SUBSET MessageId
  BY DEF FiniteQueue, Queue
<1>4. Cardinality(out) \in Int
  BY <1>1, FS_Subset, FS_CardinalityType DEF FiniteQueue
<1>5. ids(out) \cup next \in SUBSET MessageId
  BY <1>2, <1>3
<1> DEFINE sent == send_unsent(q, ids(out) \cup next, eps)
<1>6. flush_blocking(q, eps, expired)
        = resolve_ack(discard(sent, out, ids(out), Cardinality(out)),
                      {resolve(sent, m) : m \in ids(out)})
  BY DEF flush_blocking
<1> HIDE DEF sent, out, next
<1>7. sent = send_unsent(q, ids(out) \cup next, eps)
  BY DEF sent
<1>8. Leave(q, flush_blocking(q, eps, expired), ids(out), out, Cardinality(out))
  BY <1>2, <1>4, <1>5, <1>6, <1>7, LeaveStep
<1> QED
  BY <1>8 DEF out

\* The messages that flush takes out of a non-blocking queue, and their entries.
nonblocking_out(q, ms, eps, expired) ==
  {m \in ms \cap q.held :
     message_is_resolved(send_unsent(q, ms \cap q.held, eps), m, expired)}

entries_at(q, out) == {p \in q.time_id : \E m \in out : p[1] = q.id_time[m]}

\* flush of a non-blocking queue takes out the resolved messages, and the entries
\* that have their times.
LEMMA FlushNonblockingLeaves ==
  ASSUME NEW q, FiniteQueue(q), NEW ms \in SUBSET MessageId,
         NEW eps \in SUBSET Endpoint, NEW expired
  PROVE  LET out == nonblocking_out(q, ms, eps, expired)
         IN  Leave(q, flush_nonblocking(q, ms, eps, expired), out, entries_at(q, out),
                   Cardinality(out))
<1> DEFINE polled == ms \cap q.held
           sent == send_unsent(q, polled, eps)
           out == nonblocking_out(q, ms, eps, expired)
<1>1. polled \in SUBSET MessageId /\ out \in SUBSET MessageId
  BY DEF nonblocking_out
<1>2. Cardinality(out) \in Int
  BY <1>1, FiniteAssumption, FS_Subset, FS_CardinalityType
<1>3. out = {m \in polled : message_is_resolved(sent, m, expired)}
  BY DEF nonblocking_out
<1>4. flush_nonblocking(q, ms, eps, expired)
        = resolve_ack(remove(sent, out), {resolve(sent, m) : m \in out})
  BY <1>3 DEF flush_nonblocking
<1>5. sent = send_unsent(q, polled, eps)
  OBVIOUS
<1> HIDE DEF polled, sent, out
<1>6. SameIndex(q, sent)
  BY <1>1, <1>5, SendUnsentType
<1>7. remove(sent, out) = discard(sent, entries_at(q, out), out, Cardinality(out))
  BY <1>6 DEF remove, entries_at, SameIndex
<1>8. Leave(q, flush_nonblocking(q, ms, eps, expired), out, entries_at(q, out),
            Cardinality(out))
  BY <1>1, <1>2, <1>4, <1>5, <1>7, LeaveStep
<1> QED
  BY <1>8 DEF out

-----------------------------------------------------------------------------
(* Consistency of the indexes. *)

\* The entries of time_id that stand for the messages of out.
entries_of(q, out) == {p \in q.time_id : p[2] \in out}

\* Taking messages out together with their entries, and counting them down, keeps
\* the indexes consistent.
LEMMA LessConsistent ==
  ASSUME NEW q, FiniteQueue(q), QueueConsistent(q), NEW r, FiniteQueue(r),
         NEW out \in SUBSET q.held,
         r.held = q.held \ out,
         r.time_id = q.time_id \ entries_of(q, out),
         \A m \in MessageId : r.id_time[m] = IF m \in out THEN 0 ELSE q.id_time[m],
         r.size = q.size - Cardinality(out)
  PROVE  QueueConsistent(r)
<1>1. q.held \in SUBSET MessageId /\ q.time_id \in SUBSET (Nat \X MessageId)
  BY DEF FiniteQueue, Queue
<1>2. IsFiniteSet(q.held)
  BY <1>1, FiniteAssumption, FS_Subset
<1>3. Cardinality(q.held \ out) = Cardinality(q.held) - Cardinality(out)
  <2>1. q.held \cap out = out
    OBVIOUS
  <2>2. Cardinality(q.held \ out) = Cardinality(q.held) - Cardinality(q.held \cap out)
    BY <1>2, FS_Difference, Zenon
  <2> QED
    BY <2>1, <2>2
<1>4. r.size = Cardinality(r.held)
  BY <1>3 DEF QueueConsistent
<1>5. \A m \in MessageId : m \in r.held <=> r.id_time[m] # 0
  BY <1>1 DEF QueueConsistent
<1>6. \A m \in r.held : <<r.id_time[m], m>> \in r.time_id
  BY <1>1 DEF QueueConsistent, entries_of
<1>7. \A p \in r.time_id : p[2] \in r.held /\ p[1] = r.id_time[p[2]]
  BY <1>1 DEF QueueConsistent, entries_of
<1>8. \A p, k \in r.time_id : p[1] = k[1] => p = k
  BY DEF QueueConsistent
<1> QED
  BY <1>4, <1>5, <1>6, <1>7, <1>8 DEF QueueConsistent

\* In a consistent queue every entry has an id of its own.
LEMMA IdsOfEntries ==
  ASSUME NEW q, FiniteQueue(q), QueueConsistent(q), NEW entries \in SUBSET q.time_id
  PROVE  /\ ids(entries) \in SUBSET q.held
         /\ entries = entries_of(q, ids(entries))
         /\ Cardinality(ids(entries)) = Cardinality(entries)
<1>1. q.time_id \in SUBSET (Nat \X MessageId)
  BY DEF FiniteQueue, Queue
<1>2. \A p, k \in q.time_id : p[2] = k[2] => p = k
  BY <1>1 DEF QueueConsistent
<1>3. ids(entries) \in SUBSET q.held
  BY DEF ids, QueueConsistent
<1>4. entries = entries_of(q, ids(entries))
  BY <1>2 DEF ids, entries_of
<1>5. Cardinality(ids(entries)) = Cardinality(entries)
  <2> DEFINE f == [p \in entries |-> p[2]]
  <2>1. f \in [entries -> ids(entries)]
    BY DEF ids
  <2>2. f \in Injection(entries, ids(entries))
    BY <2>1, <1>2 DEF Injection, IsInjective
  <2>3. f \in Surjection(entries, ids(entries))
    BY <2>1 DEF Surjection, ids
  <2>4. IsFiniteSet(entries)
    BY FS_Subset DEF FiniteQueue
  <2> HIDE DEF f
  <2>5. ExistsBijection(entries, ids(entries))
    BY <2>2, <2>3 DEF ExistsBijection, Bijection
  <2> QED
    BY <2>4, <2>5, FS_Bijection
<1> QED
  BY <1>3, <1>4, <1>5

\* In a consistent queue the entries with the times of out are its entries.
LEMMA EntriesAtTimes ==
  ASSUME NEW q, FiniteQueue(q), QueueConsistent(q), NEW out \in SUBSET q.held
  PROVE  entries_at(q, out) = entries_of(q, out)
<1>1. q.time_id \in SUBSET (Nat \X MessageId) /\ q.held \in SUBSET MessageId
  BY DEF FiniteQueue, Queue
<1>2. ASSUME NEW p \in q.time_id, NEW m \in out, p[1] = q.id_time[m]
      PROVE  p[2] = m
  <2>1. <<q.id_time[m], m>> \in q.time_id
    BY DEF QueueConsistent
  <2>2. p = <<q.id_time[m], m>>
    BY <2>1, <1>2 DEF QueueConsistent
  <2> QED
    BY <2>2
<1>3. \A p \in q.time_id : p[1] = q.id_time[p[2]]
  BY DEF QueueConsistent
<1> QED
  BY <1>2, <1>3 DEF entries_at, entries_of

\* Pushing a message that is not held, at a time after all others, keeps the
\* indexes consistent.
LEMMA PushConsistent ==
  ASSUME NEW q, FiniteQueue(q), QueueConsistent(q), NEW m \in MessageId, m \notin q.held,
         NEW time \in Nat, time # 0, \A p \in q.time_id : p[1] < time,
         NEW r, Pushed(q, r, m, time)
  PROVE  /\ QueueConsistent(r)
         /\ r.held = q.held \cup {m}
         /\ r.size = q.size + 1
         /\ \A p \in r.time_id : p[1] <= time
<1>1. q.time_id \in SUBSET (Nat \X MessageId) /\ q.held \in SUBSET MessageId
  BY DEF FiniteQueue, Queue
<1>2. r.time_id = q.time_id \cup {<<time, m>>}
  <2>1. ~ \E p \in q.time_id : p[1] = time
    BY <1>1
  <2> QED
    BY <2>1 DEF Pushed
<1>3. r.held = q.held \cup {m} /\ r.size = q.size + 1
  BY DEF Pushed
<1>4. \A k \in MessageId : r.id_time[k] = IF k = m THEN time ELSE q.id_time[k]
  BY DEF Pushed
<1>5. r.size = Cardinality(r.held)
  <2>1. IsFiniteSet(q.held)
    BY <1>1, FiniteAssumption, FS_Subset
  <2>2. Cardinality(q.held \cup {m}) = Cardinality(q.held) + 1
    BY <2>1, FS_AddElement
  <2> QED
    BY <1>3, <2>2 DEF QueueConsistent
<1>6. \A k \in MessageId : k \in r.held <=> r.id_time[k] # 0
  BY <1>3, <1>4 DEF QueueConsistent
<1>7. \A k \in r.held : <<r.id_time[k], k>> \in r.time_id
  BY <1>1, <1>2, <1>3, <1>4 DEF QueueConsistent
<1>8. \A p \in r.time_id : p[2] \in r.held /\ p[1] = r.id_time[p[2]]
  BY <1>1, <1>2, <1>3, <1>4 DEF QueueConsistent
<1>9. \A p, k \in r.time_id : p[1] = k[1] => p = k
  BY <1>1, <1>2 DEF QueueConsistent
<1>10. \A p \in r.time_id : p[1] <= time
  BY <1>1, <1>2
<1> QED
  BY <1>3, <1>5, <1>6, <1>7, <1>8, <1>9, <1>10 DEF QueueConsistent

\* A change of statuses and effects does not touch the indexes.
LEMMA SameConsistent ==
  ASSUME NEW q, QueueConsistent(q), NEW r, SameIndex(q, r)
  PROVE  QueueConsistent(r)
BY DEF QueueConsistent, SameIndex

\* r is q after some messages left it and their senders were told.
Shrunk(q, r) ==
  /\ r.held \subseteq q.held
  /\ r.time_id \subseteq q.time_id
  /\ r.size <= q.size
  /\ q.acks \subseteq r.acks
  /\ \A m \in q.held \ r.held : \E a \in r.acks : a.id = m

\* When the messages of out leave with their entries, the queue stays consistent.
LEMMA LeaveConsistent ==
  ASSUME NEW q, FiniteQueue(q), QueueConsistent(q), NEW r, NEW out \in SUBSET q.held,
         Leave(q, r, out, entries_of(q, out), Cardinality(out))
  PROVE  QueueConsistent(r) /\ Shrunk(q, r)
<1>1. QueueConsistent(r)
  BY LessConsistent DEF Leave
<1>2. q.size \in Int /\ q.held \in SUBSET MessageId
  BY DEF FiniteQueue, Queue
<1>3. Cardinality(out) \in Nat
  BY <1>2, FiniteAssumption, FS_Subset, FS_CardinalityType
<1>4. r.size <= q.size
  BY <1>2, <1>3 DEF Leave
<1>5. \A m \in q.held \ r.held : \E a \in r.acks : a.id = m
  BY DEF Leave
<1> QED
  BY <1>1, <1>4, <1>5 DEF Shrunk, Leave

\* poll_message and flush keep the type of the queue.
LEMMA PollAndFlushType ==
  ASSUME NEW q, FiniteQueue(q), NEW ms \in SUBSET MessageId, NEW eps \in SUBSET Endpoint,
         NEW expired
  PROVE  FiniteQueue(poll_and_flush(q, ms, eps, expired))
<1>1. FiniteQueue(flush_blocking(q, eps, expired))
  BY FlushBlockingLeaves DEF Leave
<1>2. FiniteQueue(flush_nonblocking(q, ms, eps, expired))
  BY FlushNonblockingLeaves DEF Leave
<1> QED
  BY <1>1, <1>2 DEF poll_and_flush

\* poll_message and flush keep the indexes consistent, only take messages out,
\* and tell the sender of every message they take out.
LEMMA PollAndFlushConsistent ==
  ASSUME NEW q, FiniteQueue(q), QueueConsistent(q), NEW ms \in SUBSET MessageId,
         NEW eps \in SUBSET Endpoint, NEW expired
  PROVE  LET r == poll_and_flush(q, ms, eps, expired)
         IN  QueueConsistent(r) /\ Shrunk(q, r)
<1>1. QueueConsistent(flush_blocking(q, eps, expired))
        /\ Shrunk(q, flush_blocking(q, eps, expired))
  <2> DEFINE out == popped(q, expired)
  <2>1. out \in SUBSET q.time_id
    BY DEF popped
  <2>2. Leave(q, flush_blocking(q, eps, expired), ids(out), out, Cardinality(out))
    BY FlushBlockingLeaves
  <2> HIDE DEF out
  <2> QED
    BY <2>1, <2>2, IdsOfEntries, LeaveConsistent
<1>2. QueueConsistent(flush_nonblocking(q, ms, eps, expired))
        /\ Shrunk(q, flush_nonblocking(q, ms, eps, expired))
  <2> DEFINE out == nonblocking_out(q, ms, eps, expired)
  <2>1. out \in SUBSET q.held
    BY DEF nonblocking_out
  <2>2. Leave(q, flush_nonblocking(q, ms, eps, expired), out, entries_at(q, out),
              Cardinality(out))
    BY FlushNonblockingLeaves
  <2> HIDE DEF out
  <2> QED
    BY <2>1, <2>2, EntriesAtTimes, LeaveConsistent
<1>3. q.size \in Int
  BY DEF FiniteQueue, Queue
<1>4. Shrunk(q, q)
  BY <1>3 DEF Shrunk
<1> QED
  BY <1>1, <1>2, <1>4 DEF poll_and_flush

-----------------------------------------------------------------------------
(* The topic. *)

\* A topic whose queue has finitely many entries.
FiniteTopic(t) == t \in Topic /\ FiniteQueue(t.queue)

-----------------------------------------------------------------------------
(* Types. *)

\* Replacing the queue keeps a topic a topic.
LEMMA WithQueueType ==
  ASSUME NEW t, FiniteTopic(t), NEW q, FiniteQueue(q)
  PROVE  /\ FiniteTopic([t EXCEPT !.queue = q])
         /\ [t EXCEPT !.queue = q].queue = q
         /\ [t EXCEPT !.queue = q].panic = t.panic
         /\ [t EXCEPT !.queue = q].routing = t.routing
<1>1. q \in Queue /\ t \in Topic
  BY DEF FiniteTopic, FiniteQueue
<1>2. [t EXCEPT !.queue = q] \in Topic /\ [t EXCEPT !.queue = q].queue = q
  BY <1>1 DEF Topic
<1>3. [t EXCEPT !.queue = q].panic = t.panic /\ [t EXCEPT !.queue = q].routing = t.routing
  BY <1>1 DEF Topic
<1> QED
  BY <1>2, <1>3 DEF FiniteTopic

\* Other statuses in a queue do not touch its indexes.
LEMMA WithStatusType ==
  ASSUME NEW q, FiniteQueue(q), NEW st \in [MessageId -> StatusMap]
  PROVE  /\ FiniteQueue([q EXCEPT !.status = st])
         /\ SameIndex(q, [q EXCEPT !.status = st])
         /\ [q EXCEPT !.status = st].acks = q.acks
BY DEF FiniteQueue, Queue, SameIndex

\* The topic a node starts with is a topic (from_durable with no messages).
LEMMA FromDurableType == FiniteTopic(from_durable)
<1>1. new \in Queue /\ FiniteQueue(new)
  BY NewType DEF FiniteQueue
<1>2. from_durable \in Topic /\ from_durable.queue = new
  BY <1>1 DEF from_durable, Topic
<1> QED
  BY <1>1, <1>2 DEF FiniteTopic

\* r is t after statuses changed and messages left the queue of t.
Steady(t, r) ==
  /\ FiniteTopic(r)
  /\ r.panic = t.panic
  /\ QueueConsistent(t.queue) => QueueConsistent(r.queue) /\ Shrunk(t.queue, r.queue)

\* update_and_flush keeps the type and the consistency of the queue.
LEMMA UpdateAndFlushSteady ==
  ASSUME NEW t, FiniteTopic(t), NEW n \in Node, NEW ms \in SUBSET MessageId, NEW expired
  PROVE  Steady(t, update_and_flush(t, n, ms, expired))
<1> DEFINE q == poll_and_flush(t.queue, ms, t.routing[n], expired)
           r == [t EXCEPT !.queue = q]
<1>1. t.routing[n] \in SUBSET Endpoint /\ FiniteQueue(t.queue)
  BY DEF FiniteTopic, Topic
<1>2. FiniteQueue(q)
  BY <1>1, PollAndFlushType
<1>3. QueueConsistent(t.queue) => QueueConsistent(q) /\ Shrunk(t.queue, q)
  BY <1>1, PollAndFlushConsistent
<1>4. update_and_flush(t, n, ms, expired) = r
  BY DEF update_and_flush
<1> HIDE DEF q
<1>5. FiniteTopic(r) /\ r.queue = q /\ r.panic = t.panic
  BY <1>2, WithQueueType
<1> QED
  BY <1>3, <1>4, <1>5 DEF Steady

\* Changing statuses first makes no difference to that.
LEMMA SteadyAfterStatus ==
  ASSUME NEW t, FiniteTopic(t), NEW u, FiniteTopic(u), u.panic = t.panic,
         SameIndex(t.queue, u.queue), u.queue.acks = t.queue.acks,
         NEW r, Steady(u, r)
  PROVE  Steady(t, r)
<1>1. QueueConsistent(t.queue) => QueueConsistent(u.queue)
  BY SameConsistent
<1>2. Shrunk(u.queue, r.queue) => Shrunk(t.queue, r.queue)
  BY DEF Shrunk, SameIndex
<1> QED
  BY <1>1, <1>2 DEF Steady

\* t with other routes, interests and statuses.
WithParts(t, routing, interest, st) ==
  [t EXCEPT !.routing = routing, !.interest = interest,
            !.queue = [t.queue EXCEPT !.status = st]]

\* u is t but for routes, interests and statuses.
SameQueue(t, u) ==
  /\ FiniteTopic(u)
  /\ u.panic = t.panic
  /\ SameIndex(t.queue, u.queue)
  /\ u.queue.acks = t.queue.acks

\* Routes, interests and statuses of a topic may be replaced.
LEMMA StatusChange ==
  ASSUME NEW t, FiniteTopic(t), NEW st \in [MessageId -> StatusMap],
         NEW routing \in [Node -> SUBSET Endpoint],
         NEW interest \in [Endpoint -> SUBSET Subject]
  PROVE  SameQueue(t, WithParts(t, routing, interest, st))
<1> DEFINE u == WithParts(t, routing, interest, st)
           q == [t.queue EXCEPT !.status = st]
<1>1. FiniteQueue(q) /\ SameIndex(t.queue, q) /\ q.acks = t.queue.acks
  BY WithStatusType DEF FiniteTopic
<1>2. u = [t EXCEPT !.routing = routing, !.interest = interest, !.queue = q]
  BY DEF WithParts
<1>3. q \in Queue
  BY <1>1 DEF FiniteQueue
<1> HIDE DEF q, u
<1>4. u \in Topic /\ u.queue = q /\ u.panic = t.panic
  BY <1>2, <1>3 DEF FiniteTopic, Topic
<1> QED
  BY <1>1, <1>4 DEF FiniteTopic, SameQueue, u

\* The statuses add_target writes.
LEMMA AddTargetType ==
  ASSUME NEW st \in [MessageId -> StatusMap], NEW e \in Endpoint, NEW ms
  PROVE  [m \in MessageId |-> IF m \in ms /\ st[m][e] = Absent
                                THEN [st[m] EXCEPT ![e] = "Unsent"] ELSE st[m]]
           \in [MessageId -> StatusMap]
BY DEF StatusMap, MessageStatusKind

\* The statuses with endpoint e Unsent in each message of ms that lacks it, and
\* with endpoint e Unreachable in each message of ms.
offered_to(st, e, ms) ==
  [m \in MessageId |-> IF m \in ms /\ st[m][e] = Absent
                         THEN [st[m] EXCEPT ![e] = "Unsent"] ELSE st[m]]

lost_by(st, e, ms) ==
  [m \in MessageId |-> IF m \in ms THEN [st[m] EXCEPT ![e] = "Unreachable"] ELSE st[m]]

\* The held durable messages that an endpoint with these interests is offered.
durable_about(t, interests) ==
  {m \in t.queue.held : /\ Header[m].target_kind = "Durable"
                        /\ interests \cap Header[m].subjects # {}}

\* Operation r of replica n on t: parts of the topic, then a poll of ms.
Operates(t, r, n, routing, interest, st, ms, past) ==
  /\ routing \in [Node -> SUBSET Endpoint]
  /\ interest \in [Endpoint -> SUBSET Subject]
  /\ st \in [MessageId -> StatusMap]
  /\ ms \in SUBSET MessageId
  /\ r = update_and_flush(WithParts(t, routing, interest, st), n, ms, past)

\* Such an operation keeps the type and the consistency of the queue.
LEMMA OperatesSteady ==
  ASSUME NEW t, FiniteTopic(t), NEW r, NEW n \in Node, NEW routing, NEW interest, NEW st,
         NEW ms, NEW past, Operates(t, r, n, routing, interest, st, ms, past)
  PROVE  Steady(t, r)
<1>1. PICK u : u = WithParts(t, routing, interest, st)
  OBVIOUS
<1>2. SameQueue(t, u)
  BY <1>1, StatusChange DEF Operates
<1>3. r = update_and_flush(u, n, ms, past) /\ ms \in SUBSET MessageId
  BY <1>1 DEF Operates
<1>4. Steady(u, r)
  BY <1>2, <1>3, UpdateAndFlushSteady DEF SameQueue
<1> QED
  BY <1>2, <1>4, SteadyAfterStatus DEF SameQueue

\* The statuses after update_ack: a status that is resolved stays.
acked_by(q, m, e, kind) ==
  IF m \in q.held /\ ~is_resolved(q.status[m][e], Header[m].ack_kind)
    THEN [q.status EXCEPT ![m][e] = kind] ELSE q.status

\* apply_set_state updates the status, then polls the message.
LEMMA SetStateOperates ==
  ASSUME NEW t, FiniteTopic(t), NEW n \in Node, NEW m \in MessageId, NEW e \in Endpoint,
         NEW kind \in MessageStatusKind, NEW past
  PROVE  Operates(t, set_state(t, n, m, e, kind, past), n, t.routing, t.interest,
                  acked_by(t.queue, m, e, kind), {m}, past)
<1> DEFINE st == acked_by(t.queue, m, e, kind)
<1>1. /\ t \in Topic
      /\ t.queue \in Queue
      /\ t.queue.status \in [MessageId -> StatusMap]
      /\ t.routing \in [Node -> SUBSET Endpoint]
      /\ t.interest \in [Endpoint -> SUBSET Subject]
  BY DEF FiniteTopic, FiniteQueue, Topic, Queue
<1>2. st \in [MessageId -> StatusMap]
  BY <1>1 DEF acked_by, StatusMap
<1>3. update_ack(t.queue, m, e, kind) = [t.queue EXCEPT !.status = st]
  BY <1>1 DEF update_ack, acked_by, Queue
<1>4. [t EXCEPT !.queue = [t.queue EXCEPT !.status = st]]
        = WithParts(t, t.routing, t.interest, st)
  BY <1>1 DEF WithParts, Topic
<1>5. set_state(t, n, m, e, kind, past)
        = update_and_flush(WithParts(t, t.routing, t.interest, st), n, {m}, past)
  BY <1>3, <1>4 DEF set_state
<1> QED
  BY <1>1, <1>2, <1>5 DEF Operates

\* apply_set_state keeps the type and the consistency of the queue.
LEMMA SetStateSteady ==
  ASSUME NEW t, FiniteTopic(t), NEW n \in Node, NEW m \in MessageId, NEW e \in Endpoint,
         NEW kind \in MessageStatusKind, NEW past
  PROVE  Steady(t, set_state(t, n, m, e, kind, past))
BY SetStateOperates, OperatesSteady

\* apply_ep_interest replaces the interests, then offers the endpoint the durable
\* messages they match and polls those.
LEMMA EpInterestOperates ==
  ASSUME NEW t, FiniteTopic(t), NEW n \in Node, NEW e \in Endpoint,
         NEW interests \in SUBSET Subject, NEW past,
         NEW ms, ms = durable_about(t, interests)
  PROVE  Operates(t, update_ep_interest(t, n, e, interests, past), n, t.routing,
                  [t.interest EXCEPT ![e] = interests],
                  offered_to(t.queue.status, e, ms), ms, past)
<1> DEFINE t1 == [t EXCEPT !.interest[e] = interests]
           st == offered_to(t.queue.status, e, ms)
           interest == [t.interest EXCEPT ![e] = interests]
<1>1. /\ t \in Topic /\ FiniteQueue(t.queue)
      /\ t.queue \in Queue
      /\ t.queue.status \in [MessageId -> StatusMap]
      /\ t.queue.held \in SUBSET MessageId
      /\ t.routing \in [Node -> SUBSET Endpoint]
      /\ interest \in [Endpoint -> SUBSET Subject]
  BY DEF FiniteTopic, FiniteQueue, Topic, Queue
<1>2. st \in [MessageId -> StatusMap]
  BY <1>1, AddTargetType DEF offered_to
<1>3. t1 \in Topic /\ t1.queue = t.queue /\ t1.interest[e] = interests
  BY <1>1 DEF Topic
<1>4. ms = durable_for(t1, e) /\ ms \in SUBSET MessageId
  BY <1>1, <1>3 DEF durable_for, durable_about, collect_addr_by_subjects
<1>5. add_target(t1, e, ms) = WithParts(t, t.routing, interest, st)
  BY <1>1 DEF add_target, Topic, Queue, WithParts, offered_to
<1>6. update_ep_interest(t, n, e, interests, past)
        = update_and_flush(WithParts(t, t.routing, interest, st), n, ms, past)
  BY <1>4, <1>5 DEF update_ep_interest
<1> QED
  BY <1>1, <1>2, <1>4, <1>6 DEF Operates

\* apply_ep_interest keeps the type and the consistency of the queue.
LEMMA EpInterestSteady ==
  ASSUME NEW t, FiniteTopic(t), NEW n \in Node, NEW e \in Endpoint,
         NEW interests \in SUBSET Subject, NEW past
  PROVE  Steady(t, update_ep_interest(t, n, e, interests, past))
<1>1. PICK ms : ms = durable_about(t, interests)
  OBVIOUS
<1> QED
  BY <1>1, EpInterestOperates, OperatesSteady

\* apply_ep_online adds the route and the interests, then offers the endpoint the
\* durable messages that match and do not have it as a target yet.
LEMMA EpOnlineOperates ==
  ASSUME NEW t, FiniteTopic(t), NEW n \in Node, NEW e \in Endpoint,
         NEW interests \in SUBSET Subject, NEW host \in Node, NEW past,
         NEW ms, ms = {m \in durable_about(t, t.interest[e] \cup interests) :
                         t.queue.status[m][e] = Absent}
  PROVE  Operates(t, ep_online(t, n, e, interests, host, past), n,
                  [t.routing EXCEPT ![host] = @ \cup {e}],
                  [t.interest EXCEPT ![e] = @ \cup interests],
                  offered_to(t.queue.status, e, ms), ms, past)
<1> DEFINE t1 == [t EXCEPT !.routing[host] = @ \cup {e}, !.interest[e] = @ \cup interests]
           st == offered_to(t.queue.status, e, ms)
           routing == [t.routing EXCEPT ![host] = @ \cup {e}]
           interest == [t.interest EXCEPT ![e] = @ \cup interests]
<1>1. /\ t \in Topic /\ FiniteQueue(t.queue)
      /\ t.queue \in Queue
      /\ t.queue.status \in [MessageId -> StatusMap]
      /\ t.queue.held \in SUBSET MessageId
      /\ routing \in [Node -> SUBSET Endpoint]
      /\ interest \in [Endpoint -> SUBSET Subject]
  BY DEF FiniteTopic, FiniteQueue, Topic, Queue
<1>2. st \in [MessageId -> StatusMap]
  BY <1>1, AddTargetType DEF offered_to
<1>3. t1 \in Topic /\ t1.queue = t.queue /\ t1.interest[e] = t.interest[e] \cup interests
  BY <1>1 DEF Topic
<1>4. /\ ms = {m \in durable_for(t1, e) : t.queue.status[m][e] = Absent}
      /\ ms \in SUBSET MessageId
  BY <1>1, <1>3 DEF durable_for, durable_about, collect_addr_by_subjects
<1>5. add_target(t1, e, ms) = WithParts(t, routing, interest, st)
  BY <1>1 DEF add_target, Topic, Queue, WithParts, offered_to
<1>6. ep_online(t, n, e, interests, host, past)
        = update_and_flush(WithParts(t, routing, interest, st), n, ms, past)
  BY <1>4, <1>5 DEF ep_online
<1> QED
  BY <1>1, <1>2, <1>4, <1>6 DEF Operates

\* apply_ep_online keeps the type and the consistency of the queue.
LEMMA EpOnlineSteady ==
  ASSUME NEW t, FiniteTopic(t), NEW n \in Node, NEW e \in Endpoint,
         NEW interests \in SUBSET Subject, NEW host \in Node, NEW past
  PROVE  Steady(t, ep_online(t, n, e, interests, host, past))
<1>1. PICK ms : ms = {m \in durable_about(t, t.interest[e] \cup interests) :
                         t.queue.status[m][e] = Absent}
  OBVIOUS
<1>2. Operates(t, ep_online(t, n, e, interests, host, past), n,
               [t.routing EXCEPT ![host] = @ \cup {e}],
               [t.interest EXCEPT ![e] = @ \cup interests],
               offered_to(t.queue.status, e, ms), ms, past)
  BY <1>1, EpOnlineOperates
<1> QED
  BY <1>2, OperatesSteady

\* apply_ep_offline removes the route and the interests, makes every status of the
\* endpoint Unreachable and polls the messages it was a target of.
LEMMA EpOfflineOperates ==
  ASSUME NEW t, FiniteTopic(t), NEW n \in Node, NEW host \in Node, NEW e \in Endpoint,
         NEW past, NEW ms, ms = {m \in t.queue.held : t.queue.status[m][e] # Absent}
  PROVE  Operates(t, ep_offline(t, n, host, e, past), n,
                  [t.routing EXCEPT ![host] = @ \ {e}], [t.interest EXCEPT ![e] = {}],
                  lost_by(t.queue.status, e, ms), ms, past)
<1> DEFINE st == lost_by(t.queue.status, e, ms)
           routing == [t.routing EXCEPT ![host] = @ \ {e}]
           interest == [t.interest EXCEPT ![e] = {}]
<1>1. /\ t \in Topic /\ FiniteQueue(t.queue)
      /\ t.queue \in Queue
      /\ t.queue.status \in [MessageId -> StatusMap]
      /\ t.queue.held \in SUBSET MessageId
      /\ routing \in [Node -> SUBSET Endpoint]
      /\ interest \in [Endpoint -> SUBSET Subject]
  BY DEF FiniteTopic, FiniteQueue, Topic, Queue
<1>2. st \in [MessageId -> StatusMap]
  BY <1>1 DEF StatusMap, MessageStatusKind, lost_by
<1>3. ms \in SUBSET MessageId
  BY <1>1
<1>4. [t EXCEPT !.routing[host] = @ \ {e}, !.interest[e] = {},
                !.queue.status = [m \in MessageId |->
                   IF m \in ms THEN [@[m] EXCEPT ![e] = "Unreachable"] ELSE @[m]]]
        = WithParts(t, routing, interest, st)
  BY <1>1 DEF Topic, Queue, WithParts, lost_by
<1>5. ep_offline(t, n, host, e, past)
        = update_and_flush(WithParts(t, routing, interest, st), n, ms, past)
  BY <1>4 DEF ep_offline
<1> QED
  BY <1>1, <1>2, <1>3, <1>5 DEF Operates

\* apply_ep_offline keeps the type and the consistency of the queue.
LEMMA EpOfflineSteady ==
  ASSUME NEW t, FiniteTopic(t), NEW n \in Node, NEW host \in Node, NEW e \in Endpoint,
         NEW past
  PROVE  Steady(t, ep_offline(t, n, host, e, past))
<1>1. PICK ms : ms = {m \in t.queue.held : t.queue.status[m][e] # Absent}
  OBVIOUS
<1>2. Operates(t, ep_offline(t, n, host, e, past), n,
               [t.routing EXCEPT ![host] = @ \ {e}], [t.interest EXCEPT ![e] = {}],
               lost_by(t.queue.status, e, ms), ms, past)
  BY <1>1, EpOfflineOperates
<1> QED
  BY <1>2, OperatesSteady

-----------------------------------------------------------------------------
(* The front of the queue. *)

\* A set of naturals that is not empty has a least element.
LEMMA LeastTime ==
  ASSUME NEW T \in SUBSET Nat, T # {}
  PROVE  \E x \in T : \A y \in T : x <= y
<1> DEFINE R == OpToRel(<, Nat)
<1>1. IsWellFoundedOn(R, Nat)
  BY NatLessThanWellFounded, Zenon
<1>2. \A x, y \in Nat : x < y => <<x, y>> \in R
  BY Zenon DEF OpToRel
<1> HIDE DEF R
<1>3. PICK x \in T : \A y \in T : ~(<<y, x>> \in R)
  BY <1>1, WFMin
<1>4. \A y \in T : ~(y < x)
  BY <1>2, <1>3
<1> QED
  BY <1>4

\* A queue that has entries has a first one (BTreeSet::first).
LEMMA FirstExists ==
  ASSUME NEW q, FiniteQueue(q), q.time_id # {}
  PROVE  first(q.time_id) # {}
<1> DEFINE T == {p[1] : p \in q.time_id}
<1>1. q.time_id \in SUBSET (Nat \X MessageId)
  BY DEF FiniteQueue, Queue
<1>2. T \in SUBSET Nat /\ T # {}
  BY <1>1
<1>3. PICK x \in T : \A y \in T : x <= y
  BY <1>2, LeastTime
<1>4. PICK p \in q.time_id : p[1] = x
  OBVIOUS
<1>5. \A r \in q.time_id : p[1] <= r[1]
  BY <1>3, <1>4
<1> QED
  BY <1>4, <1>5 DEF first

\* A consistent queue that counts at least one message has a front message.
LEMMA FrontExists ==
  ASSUME NEW q, FiniteQueue(q), QueueConsistent(q), q.size >= 1
  PROVE  /\ get_front(q) = ids(first(q.time_id))
         /\ get_front(q) # {}
<1>1. q.held \in SUBSET MessageId
  BY DEF FiniteQueue, Queue
<1>2. IsFiniteSet(q.held)
  BY <1>1, FiniteAssumption, FS_Subset
<1>3. q.held # {}
  BY <1>2, FS_EmptySet DEF QueueConsistent
<1>4. q.time_id # {}
  BY <1>3 DEF QueueConsistent
<1>5. first(q.time_id) # {} /\ first(q.time_id) \in SUBSET q.time_id
  BY <1>4, FirstExists DEF first
<1>6. ids(first(q.time_id)) # {} /\ ids(first(q.time_id)) \in SUBSET q.held
  BY <1>5, IdsOfEntries DEF ids
<1> QED
  BY <1>6 DEF get_front

\* The exceptions handed to senders are results.
LEMMA ExceptionType ==
  ASSUME NEW m \in MessageId, NEW why \in {"Overflow", "NoAvailableTarget"}
  PROVE  exception(m, why) \in WaitAckResult /\ exception(m, why).id = m
BY DEF exception, WaitAckResult, ResultKind, NoStatus, StatusMap

\* drop_old keeps the type.
LEMMA DropOldType ==
  ASSUME NEW t, FiniteTopic(t)
  PROVE  FiniteTopic(drop_old(t))
<1> DEFINE results == {exception(m, "Overflow") : m \in get_front(t.queue)}
<1>1. FiniteQueue(t.queue) /\ t.queue.held \in SUBSET MessageId
  BY DEF FiniteTopic, FiniteQueue, Queue
<1>2. results \in SUBSET WaitAckResult
  BY <1>1, ExceptionType DEF get_front
<1>3. FiniteQueue(pop(t.queue))
  BY <1>1, PopType DEF Discarded
<1>4. FiniteQueue(resolve_ack(pop(t.queue), results))
  BY <1>2, <1>3, ResolveAckType
<1>5. FiniteTopic([t EXCEPT !.queue = resolve_ack(pop(t.queue), results)])
  BY <1>4, WithQueueType
<1>6. FiniteTopic([t EXCEPT !.panic = TRUE])
  BY DEF FiniteTopic, Topic
<1> QED
  BY <1>5, <1>6 DEF drop_old

\* Dropping the oldest message of a consistent queue that counts one finds it,
\* makes room for another, and tells its sender.
LEMMA DropOldRoom ==
  ASSUME NEW t, FiniteTopic(t), QueueConsistent(t.queue), t.queue.size >= 1
  PROVE  /\ drop_old(t).panic = t.panic
         /\ QueueConsistent(drop_old(t).queue)
         /\ Shrunk(t.queue, drop_old(t).queue)
         /\ drop_old(t).queue.size <= t.queue.size - 1
<1> DEFINE q == t.queue
           front == first(q.time_id)
           results == {exception(m, "Overflow") : m \in get_front(q)}
           p == pop(q)
           r == resolve_ack(p, results)
<1>1. FiniteQueue(q) /\ q.held \in SUBSET MessageId /\ q.size \in Int
  BY DEF FiniteTopic, FiniteQueue, Queue
<1>2. get_front(q) = ids(front) /\ get_front(q) # {}
  BY <1>1, FrontExists
<1>3. front \in SUBSET q.time_id
  BY DEF first
<1>4. /\ ids(front) \in SUBSET q.held
      /\ front = entries_of(q, ids(front))
      /\ Cardinality(ids(front)) = Cardinality(front)
  BY <1>1, <1>3, IdsOfEntries
<1>5. Discarded(q, p, front, ids(front), Cardinality(front))
  BY <1>1, PopType
<1>6. FiniteQueue(p) /\ QueueConsistent(p)
  BY <1>1, <1>4, <1>5, LessConsistent DEF Discarded
<1>7. Cardinality(ids(front)) \in Nat /\ Cardinality(ids(front)) # 0
  <2>1. IsFiniteSet(ids(front))
    BY <1>1, <1>4, FiniteAssumption, FS_Subset
  <2> QED
    BY <1>2, <2>1, FS_CardinalityType, FS_EmptySet
<1>8. /\ results \in SUBSET WaitAckResult
      /\ \A m \in ids(front) : \E a \in results : a.id = m
  BY <1>1, <1>2, ExceptionType DEF get_front
<1> HIDE DEF p, results
<1>9. FiniteQueue(r) /\ SameIndex(p, r) /\ r.acks = p.acks \cup results
  BY <1>6, <1>8, ResolveAckType
<1>10. drop_old(t) = [t EXCEPT !.queue = r]
  BY <1>2 DEF drop_old, p, results
<1> HIDE DEF r, front, q
<1>11. drop_old(t).queue = r /\ drop_old(t).panic = t.panic
  BY <1>9, <1>10, WithQueueType
<1>12. QueueConsistent(r)
  BY <1>6, <1>9, SameConsistent
<1>13. r.size <= q.size - 1
  BY <1>1, <1>4, <1>5, <1>7, <1>9 DEF Discarded, SameIndex
<1>14. /\ r.held \subseteq q.held /\ r.time_id \subseteq q.time_id
       /\ q.acks \subseteq r.acks
       /\ \A m \in q.held \ r.held : \E a \in r.acks : a.id = m
  BY <1>5, <1>8, <1>9 DEF Discarded, SameIndex
<1>15. Shrunk(q, r)
  BY <1>1, <1>13, <1>14, <1>9, <1>6 DEF Shrunk, FiniteQueue, Queue
<1> QED
  BY <1>11, <1>12, <1>13, <1>15 DEF q

-----------------------------------------------------------------------------
(* A new message. *)

\* Message m is not held and time is later than every entry of t's queue.
FreshFor(t, m, time) ==
  /\ QueueConsistent(t.queue)
  /\ m \notin t.queue.held
  /\ time # 0
  /\ \A p \in t.queue.time_id : p[1] < time

\* r is t after message m was offered to it at time.
Offered(t, r, m, time) ==
  /\ QueueConsistent(r.queue)
  /\ r.queue.held \subseteq t.queue.held \cup {m}
  /\ \A p \in r.queue.time_id : p[1] <= time
  /\ t.queue.acks \subseteq r.queue.acks
  /\ \A k \in (t.queue.held \cup {m}) \ r.queue.held : \E a \in r.queue.acks : a.id = k

\* Pushing and polling a message keeps the type.
LEMMA HoldType ==
  ASSUME NEW t, FiniteTopic(t), NEW n \in Node, NEW m \in MessageId, NEW eps,
         NEW time \in Nat, NEW expired
  PROVE  FiniteTopic(hold(t, n, m, eps, time, expired))
<1> DEFINE q == push(t.queue, m, wait_ack(eps), time)
           u == [t EXCEPT !.queue = q]
<1>1. FiniteQueue(t.queue)
  BY DEF FiniteTopic
<1>2. FiniteQueue(q)
  BY <1>1, WaitAckType, PushType DEF Pushed
<1> HIDE DEF q
<1>3. FiniteTopic(u)
  BY <1>2, WithQueueType
<1>4. hold(t, n, m, eps, time, expired) = update_and_flush(u, n, {m}, expired)
  BY DEF hold, q
<1> HIDE DEF u
<1>5. Steady(u, update_and_flush(u, n, {m}, expired))
  BY <1>3, UpdateAndFlushSteady
<1> QED
  BY <1>4, <1>5 DEF Steady

\* Pushing and polling a fresh message keeps the queue consistent.
LEMMA HoldOffered ==
  ASSUME NEW t, FiniteTopic(t), NEW n \in Node, NEW m \in MessageId, NEW eps,
         NEW time \in Nat, NEW expired, FreshFor(t, m, time)
  PROVE  LET r == hold(t, n, m, eps, time, expired)
         IN  /\ Offered(t, r, m, time)
             /\ r.panic = t.panic
             /\ r.queue.size <= t.queue.size + 1
<1> DEFINE q == push(t.queue, m, wait_ack(eps), time)
           u == [t EXCEPT !.queue = q]
           r == update_and_flush(u, n, {m}, expired)
<1>1. FiniteQueue(t.queue) /\ t.queue.size \in Int
  BY DEF FiniteTopic, FiniteQueue, Queue
<1>2. Pushed(t.queue, q, m, time)
  BY <1>1, WaitAckType, PushType
<1>3. hold(t, n, m, eps, time, expired) = r
  BY DEF hold
<1> HIDE DEF q
<1>4. /\ FiniteQueue(q) /\ QueueConsistent(q)
      /\ q.held = t.queue.held \cup {m}
      /\ q.size = t.queue.size + 1
      /\ \A p \in q.time_id : p[1] <= time
      /\ q.acks = t.queue.acks
  BY <1>1, <1>2, PushConsistent DEF FreshFor, Pushed
<1>5. FiniteTopic(u) /\ u.queue = q /\ u.panic = t.panic
  BY <1>4, WithQueueType
<1> HIDE DEF u
<1>6. Steady(u, r)
  BY <1>5, UpdateAndFlushSteady
<1> HIDE DEF r
<1>7. FiniteQueue(r.queue) /\ r.queue.size \in Int
  BY <1>6 DEF Steady, FiniteTopic, FiniteQueue, Queue
<1>8. QueueConsistent(r.queue) /\ Shrunk(q, r.queue) /\ r.panic = t.panic
  BY <1>4, <1>5, <1>6 DEF Steady
<1>9. Offered(t, r, m, time)
  BY <1>4, <1>8 DEF Offered, Shrunk
<1>10. r.queue.size <= t.queue.size + 1
  BY <1>1, <1>4, <1>7, <1>8 DEF Shrunk
<1> QED
  BY <1>3, <1>8, <1>9, <1>10

\* Telling the sender that its message is not taken keeps the type.
LEMMA FailType ==
  ASSUME NEW t, FiniteTopic(t), NEW m \in MessageId,
         NEW why \in {"Overflow", "NoAvailableTarget"}
  PROVE  LET r == fail(t, m, why)
         IN  /\ FiniteTopic(r)
             /\ r.panic = t.panic
             /\ SameIndex(t.queue, r.queue)
             /\ t.queue.acks \subseteq r.queue.acks
             /\ \E a \in r.queue.acks : a.id = m
<1> DEFINE q == resolve_ack(t.queue, {exception(m, why)})
<1>1. {exception(m, why)} \in SUBSET WaitAckResult /\ exception(m, why).id = m
  BY ExceptionType
<1>2. FiniteQueue(q) /\ SameIndex(t.queue, q)
        /\ q.acks = t.queue.acks \cup {exception(m, why)}
  BY <1>1, ResolveAckType DEF FiniteTopic
<1>3. fail(t, m, why) = [t EXCEPT !.queue = q]
  BY DEF fail
<1> HIDE DEF q
<1>4. /\ FiniteTopic(fail(t, m, why))
      /\ fail(t, m, why).queue = q
      /\ fail(t, m, why).panic = t.panic
  BY <1>2, <1>3, WithQueueType
<1> QED
  BY <1>1, <1>2, <1>4

\* A fresh message that is not taken is accounted for.
LEMMA FailOffered ==
  ASSUME NEW t, FiniteTopic(t), NEW m \in MessageId, NEW time \in Nat,
         NEW why \in {"Overflow", "NoAvailableTarget"}, FreshFor(t, m, time)
  PROVE  LET r == fail(t, m, why)
         IN  /\ Offered(t, r, m, time)
             /\ r.panic = t.panic
             /\ r.queue.size = t.queue.size
<1> DEFINE r == fail(t, m, why)
<1>1. /\ r.panic = t.panic
      /\ SameIndex(t.queue, r.queue)
      /\ t.queue.acks \subseteq r.queue.acks
      /\ \E a \in r.queue.acks : a.id = m
  BY FailType
<1> HIDE DEF r
<1>2. QueueConsistent(r.queue)
  BY <1>1, SameConsistent DEF FreshFor
<1>3. \A p \in r.queue.time_id : p[1] <= time
  <2>1. t.queue.time_id \in SUBSET (Nat \X MessageId)
    BY DEF FiniteTopic, FiniteQueue, Queue
  <2> QED
    BY <1>1, <2>1 DEF FreshFor, SameIndex
<1>4. Offered(t, r, m, time)
  BY <1>1, <1>2, <1>3 DEF Offered, SameIndex
<1> QED
  BY <1>1, <1>4 DEF r, SameIndex

\* put_in_queue keeps the type.
LEMMA PutInQueueType ==
  ASSUME NEW t, FiniteTopic(t), NEW n \in Node, NEW m \in MessageId, NEW eps,
         NEW time \in Nat, NEW expired
  PROVE  FiniteTopic(put_in_queue(t, n, m, eps, time, expired))
<1>1. FiniteTopic(hold(t, n, m, eps, time, expired))
  BY HoldType
<1>2. FiniteTopic(fail(t, m, "Overflow"))
  BY FailType
<1>3. FiniteTopic(drop_old(t))
  BY DropOldType
<1>4. FiniteTopic(hold(drop_old(t), n, m, eps, time, expired))
  BY <1>3, HoldType
<1> QED
  BY <1>1, <1>2, <1>3, <1>4 DEF put_in_queue

\* A topic that respects its overflow config.
WithinSize(t) == OverflowPolicy # "None" => t.queue.size <= OverflowSize

\* Putting a fresh message into the queue accounts for every message, respects
\* the overflow config and does not panic.
LEMMA PutInQueueOffered ==
  ASSUME NEW t, FiniteTopic(t), NEW n \in Node, NEW m \in MessageId, NEW eps,
         NEW time \in Nat, NEW expired, FreshFor(t, m, time), WithinSize(t), ~t.panic
  PROVE  LET r == put_in_queue(t, n, m, eps, time, expired)
         IN  Offered(t, r, m, time) /\ WithinSize(r) /\ ~r.panic
<1> DEFINE r == put_in_queue(t, n, m, eps, time, expired)
           room == drop_old(t)
<1>1. t.queue.size \in Int /\ OverflowSize \in Nat \ {0}
  BY OverflowAssumption DEF FiniteTopic, FiniteQueue, Queue
<1>2. CASE OverflowPolicy = "None" \/ t.queue.size < OverflowSize
  <2> DEFINE h == hold(t, n, m, eps, time, expired)
  <2>1. r = h
    BY <1>2 DEF put_in_queue
  <2>2. Offered(t, h, m, time) /\ h.panic = t.panic /\ h.queue.size <= t.queue.size + 1
    BY HoldOffered
  <2>3. h.queue.size \in Int
    BY HoldType DEF FiniteTopic, FiniteQueue, Queue
  <2> HIDE DEF h, r
  <2>4. WithinSize(h)
    BY <1>1, <1>2, <2>2, <2>3 DEF WithinSize
  <2> QED
    BY <2>1, <2>2, <2>4 DEF r
<1>3. CASE /\ ~(OverflowPolicy = "None" \/ t.queue.size < OverflowSize)
           /\ OverflowPolicy = "RejectNew"
  <2>1. r = fail(t, m, "Overflow")
    BY <1>3 DEF put_in_queue
  <2>2. LET f == fail(t, m, "Overflow")
        IN  Offered(t, f, m, time) /\ f.panic = t.panic /\ f.queue.size = t.queue.size
    BY FailOffered
  <2> QED
    BY <2>1, <2>2 DEF WithinSize
<1>4. CASE /\ ~(OverflowPolicy = "None" \/ t.queue.size < OverflowSize)
           /\ OverflowPolicy # "RejectNew"
  <2>1. t.queue.size >= 1 /\ t.queue.size <= OverflowSize
    BY <1>1, <1>4 DEF WithinSize
  <2>2. /\ room.panic = t.panic
        /\ QueueConsistent(room.queue)
        /\ Shrunk(t.queue, room.queue)
        /\ room.queue.size <= t.queue.size - 1
    BY <2>1, DropOldRoom DEF FreshFor
  <2>3. FiniteTopic(room) /\ room.queue.size \in Int
    BY DropOldType DEF FiniteTopic, FiniteQueue, Queue
  <2>4. r = hold(room, n, m, eps, time, expired)
    BY <1>4, <2>2 DEF put_in_queue
  <2> HIDE DEF room
  <2>5. FreshFor(room, m, time)
    BY <2>2 DEF FreshFor, Shrunk
  <2>6. Offered(room, r, m, time) /\ r.panic = t.panic /\ r.queue.size <= room.queue.size + 1
    BY <2>2, <2>3, <2>4, <2>5, HoldOffered
  <2>7. r.queue.size \in Int
    BY <2>3, <2>4, HoldType DEF FiniteTopic, FiniteQueue, Queue
  <2> HIDE DEF r
  <2>8. WithinSize(r)
    BY <1>1, <2>1, <2>2, <2>3, <2>6, <2>7 DEF WithinSize
  <2>9. Offered(t, r, m, time)
    BY <2>2, <2>6 DEF Offered, Shrunk
  <2> QED
    BY <2>6, <2>8, <2>9 DEF r
<1> QED
  BY <1>2, <1>3, <1>4

\* hold_new_message keeps the type.
LEMMA HoldNewMessageType ==
  ASSUME NEW t, FiniteTopic(t), NEW n \in Node, NEW m \in MessageId,
         NEW time \in Nat, NEW expired
  PROVE  FiniteTopic(hold_new_message(t, n, m, time, expired))
<1> DEFINE all == collect_addr_by_subjects(t, m)
<1>1. FiniteTopic([t EXCEPT !.panic = TRUE])
  BY DEF FiniteTopic, Topic
<1>2. FiniteTopic(fail(t, m, "NoAvailableTarget"))
  BY FailType
<1>3. FiniteTopic(put_in_queue(t, n, m, all, time, expired))
  BY PutInQueueType
<1>4. FiniteTopic(put_in_queue(t, n, m, select_ep(m, all), time, expired))
  BY PutInQueueType
<1>5. Header[m].target_kind \in {"Durable", "Online", "Available", "Push"}
  BY HeaderAssumption DEF MessageHeader, MessageTargetKind
<1> HIDE DEF all
<1> QED
  BY <1>1, <1>2, <1>3, <1>4, <1>5 DEF hold_new_message, all

\* Offering a fresh message of a supported kind to a topic accounts for every
\* message, respects the overflow config and does not panic.
LEMMA HoldNewMessageOffered ==
  ASSUME NEW t, FiniteTopic(t), NEW n \in Node, NEW m \in MessageId,
         NEW time \in Nat, NEW expired, FreshFor(t, m, time), WithinSize(t), ~t.panic,
         Header[m].target_kind # "Available"
  PROVE  LET r == hold_new_message(t, n, m, time, expired)
         IN  Offered(t, r, m, time) /\ WithinSize(r) /\ ~r.panic
<1> DEFINE all == collect_addr_by_subjects(t, m)
           good(r) == Offered(t, r, m, time) /\ WithinSize(r) /\ ~r.panic
<1>1. good(fail(t, m, "NoAvailableTarget"))
  <2>1. LET f == fail(t, m, "NoAvailableTarget")
        IN  Offered(t, f, m, time) /\ f.panic = t.panic /\ f.queue.size = t.queue.size
    BY FailOffered
  <2> QED
    BY <2>1 DEF WithinSize
<1>2. good(put_in_queue(t, n, m, all, time, expired))
  BY PutInQueueOffered
<1>3. good(put_in_queue(t, n, m, select_ep(m, all), time, expired))
  BY PutInQueueOffered
<1>4. Header[m].target_kind \in {"Durable", "Online", "Push"}
  BY HeaderAssumption DEF MessageHeader, MessageTargetKind
<1> HIDE DEF all, good
<1>5. good(hold_new_message(t, n, m, time, expired))
  BY <1>1, <1>2, <1>3, <1>4 DEF hold_new_message, all
<1> QED
  BY <1>5 DEF good

-----------------------------------------------------------------------------
(* What polling does to the statuses, the effects and the results. *)

\* A status that polling leaves or, when it is Unsent, makes Sending.
PolledStatus(s, r) == r = s \/ (s = "Unsent" /\ r = "Sending")

\* The reason for which a sender may be told an exception.
allowed(m, why) ==
  /\ why = "Overflow" => OverflowPolicy # "None"
  /\ why = "NoAvailableTarget" => Header[m].target_kind = "Push"

\* What the kind of a result says of the statuses in it: with Ok every endpoint
\* of a message that is not durable reached the expectation, with Err one failed,
\* with an exception there is none.
Justified(m, r) ==
  /\ r.kind = "Ok" /\ Header[m].target_kind # "Durable" =>
       \A e \in Endpoint :
         r.status[e] # Absent => is_reached(r.status[e], Header[m].ack_kind)
  /\ r.kind = "Err" => \E e \in Endpoint : is_failed(r.status[e])
  /\ r.kind \in {"Overflow", "NoAvailableTarget"} =>
       allowed(m, r.kind) /\ \A e \in Endpoint : r.status[e] = Absent

\* sent is q with the endpoints of eps sent the messages of ms.
SentTo(q, sent, ms, eps) ==
  /\ \A m \in MessageId, e \in Endpoint :
       sent.status[m][e] = IF m \in ms /\ e \in eps /\ q.status[m][e] = "Unsent"
                             THEN "Sending" ELSE q.status[m][e]
  /\ sent.dispatch = q.dispatch \cup {d \in ms \X eps : q.status[d[1]][d[2]] = "Unsent"}

\* The statuses and the effects that send_unsent writes.
LEMMA SendUnsentStatus ==
  ASSUME NEW q, FiniteQueue(q), NEW ms \in SUBSET MessageId, NEW eps \in SUBSET Endpoint
  PROVE  SentTo(q, send_unsent(q, ms, eps), ms, eps)
<1> DEFINE st == [m \in MessageId |-> [e \in Endpoint |->
                    IF m \in ms /\ e \in eps /\ is_unsent(q.status[m][e])
                      THEN "Sending" ELSE q.status[m][e]]]
           di == q.dispatch \cup {d \in ms \X eps : is_unsent(q.status[d[1]][d[2]])}
<1>1. send_unsent(q, ms, eps) = [q EXCEPT !.status = st, !.dispatch = di]
  BY DEF send_unsent
<1> HIDE DEF st, di
<1>2. send_unsent(q, ms, eps).status = st /\ send_unsent(q, ms, eps).dispatch = di
  BY <1>1 DEF FiniteQueue, Queue
<1> QED
  BY <1>2 DEF st, di, is_unsent, SentTo

\* send_unsent does not change whether a message is resolved.
LEMMA SendUnsentResolved ==
  ASSUME NEW q, FiniteQueue(q), NEW ms \in SUBSET MessageId, NEW eps \in SUBSET Endpoint,
         NEW sent, sent = send_unsent(q, ms, eps), NEW m \in MessageId, NEW past
  PROVE  message_is_resolved(sent, m, past) <=> message_is_resolved(q, m, past)
<1>s. SentTo(q, sent, ms, eps)
  BY SendUnsentStatus
<1>1. \A e \in Endpoint :
        sent.status[m][e] = IF m \in ms /\ e \in eps /\ q.status[m][e] = "Unsent"
                              THEN "Sending" ELSE q.status[m][e]
  BY <1>s DEF SentTo
<1>2. {e \in Endpoint : sent.status[m][e] # Absent} = {e \in Endpoint : q.status[m][e] # Absent}
  BY <1>1 DEF Absent
<1>3. \A e \in Endpoint :
        is_resolved(sent.status[m][e], Header[m].ack_kind)
          <=> is_resolved(q.status[m][e], Header[m].ack_kind)
  BY <1>1 DEF is_resolved, is_failed, is_reached
<1>4. \A e \in Endpoint : sent.status[m][e] # Absent <=> q.status[m][e] # Absent
  BY <1>1 DEF Absent
<1> QED
  BY <1>2, <1>3, <1>4 DEF message_is_resolved

\* r has the statuses and the effects of q but for the messages of out.
Without(q, r, out) ==
  /\ \A m \in MessageId : r.status[m] = IF m \in out THEN NoStatus ELSE q.status[m]
  /\ r.dispatch = q.dispatch

\* The statuses and the effects that discard leaves.
LEMMA DiscardStatus ==
  ASSUME NEW q, FiniteQueue(q), NEW entries, NEW ms \in SUBSET MessageId, NEW count \in Int
  PROVE  Without(q, discard(q, entries, ms, count), ms)
<1> DEFINE st == [m \in MessageId |-> IF m \in ms THEN NoStatus ELSE q.status[m]]
           it == [m \in MessageId |-> IF m \in ms THEN 0 ELSE q.id_time[m]]
<1>1. discard(q, entries, ms, count)
        = [q EXCEPT !.held = q.held \ ms, !.status = st, !.time_id = q.time_id \ entries,
                    !.id_time = it, !.size = q.size - count]
  BY DEF discard
<1> HIDE DEF st, it
<1>2. /\ discard(q, entries, ms, count).status = st
      /\ discard(q, entries, ms, count).dispatch = q.dispatch
  BY <1>1 DEF FiniteQueue, Queue
<1> QED
  BY <1>2 DEF st, Without

\* r is q with the results to be delivered.
Telling(q, r, results) ==
  /\ r.held = q.held
  /\ r.status = q.status
  /\ r.dispatch = q.dispatch
  /\ r.acks = q.acks \cup results

\* The statuses and the effects that resolve_ack leaves.
LEMMA ResolveAckStatus ==
  ASSUME NEW q, FiniteQueue(q), NEW results
  PROVE  Telling(q, resolve_ack(q, results), results)
BY DEF resolve_ack, FiniteQueue, Queue, Telling

\* The result of a resolved message is justified (HoldMessage::resolve).
LEMMA ResolveJustified ==
  ASSUME NEW q, FiniteQueue(q), NEW m \in MessageId, NEW past, message_is_resolved(q, m, past)
  PROVE  Justified(m, resolve(q, m))
<1>1. /\ resolve(q, m).status = q.status[m]
      /\ resolve(q, m).kind = IF \E e \in Endpoint : is_failed(q.status[m][e]) THEN "Err" ELSE "Ok"
  BY DEF resolve
<1>2. CASE Header[m].target_kind = "Durable"
  BY <1>1, <1>2 DEF Justified
<1>3. CASE Header[m].target_kind # "Durable"
  <2>1. \A e \in Endpoint :
          q.status[m][e] # Absent => is_resolved(q.status[m][e], Header[m].ack_kind)
    BY <1>3 DEF message_is_resolved
  <2> QED
    BY <1>1, <2>1 DEF Justified, is_resolved
<1> QED
  BY <1>2, <1>3

\* r is q after some held messages were polled for the endpoints of eps.
Polled(q, r, eps) ==
  /\ FiniteQueue(r)
  /\ r.held \subseteq q.held
  /\ \A m \in r.held, e \in Endpoint : PolledStatus(q.status[m][e], r.status[m][e])
  /\ \A d \in r.dispatch \ q.dispatch :
       /\ d[1] \in q.held
       /\ d[2] \in eps
       /\ q.status[d[1]][d[2]] = "Unsent"
       /\ d[1] \in r.held => r.status[d[1]][d[2]] = "Sending"
  /\ \A a \in r.acks \ q.acks :
       /\ a.id \in q.held
       /\ \A e \in Endpoint : PolledStatus(q.status[a.id][e], a.status[e])
       /\ Justified(a.id, a)

\* r is sent without the resolved messages of out, whose senders are told.
Flushed(sent, r, entries, out, count, past) ==
  /\ \A m \in out : message_is_resolved(sent, m, past)
  /\ r = resolve_ack(discard(sent, entries, out, count), {resolve(sent, m) : m \in out})

\* What r holds has the statuses of sent.
KeepsStatus(sent, r) == \A m \in r.held : r.status[m] = sent.status[m]

\* Sending, then discarding what is resolved, then telling the senders.
LEMMA PolledStep ==
  ASSUME NEW q, FiniteQueue(q), NEW ms \in SUBSET q.held, NEW eps \in SUBSET Endpoint,
         NEW entries, NEW out \in SUBSET q.held, NEW count \in Int,
         NEW sent, sent = send_unsent(q, ms, eps), NEW past,
         NEW r, Flushed(sent, r, entries, out, count, past)
  PROVE  Polled(q, r, eps) /\ KeepsStatus(sent, r)
<1>1. q.held \subseteq MessageId
  BY DEF FiniteQueue, Queue
<1>2. ms \in SUBSET MessageId /\ out \in SUBSET MessageId
  BY <1>1
<1>f. /\ \A m \in out : message_is_resolved(sent, m, past)
      /\ r = resolve_ack(discard(sent, entries, out, count), {resolve(sent, m) : m \in out})
  BY DEF Flushed
<1>3. Leave(q, r, out, entries, count)
  BY <1>2, <1>f, LeaveStep
<1>4. FiniteQueue(sent) /\ SameIndex(q, sent) /\ sent.acks = q.acks
  BY <1>2, SendUnsentType
<1>5. PICK d : d = discard(sent, entries, out, count)
  OBVIOUS
<1>d. Discarded(sent, d, entries, out, count) /\ Without(sent, d, out)
  BY <1>2, <1>4, <1>5, DiscardType, DiscardStatus
<1>6. /\ FiniteQueue(d)
      /\ d.acks = sent.acks
      /\ d.dispatch = sent.dispatch
      /\ \A m \in MessageId : d.status[m] = IF m \in out THEN NoStatus ELSE sent.status[m]
  BY <1>d DEF Discarded, Without
<1>7. PICK results : results = {resolve(sent, m) : m \in out}
  OBVIOUS
<1>8. r = resolve_ack(d, results)
  BY <1>5, <1>7, <1>f
<1>9. r.status = d.status /\ r.dispatch = d.dispatch /\ r.acks = d.acks \cup results
  <2>1. Telling(d, r, results)
    BY <1>6, <1>8, ResolveAckStatus
  <2> QED
    BY <2>1 DEF Telling
<1>10. r.held = q.held \ out /\ FiniteQueue(r)
  BY <1>3 DEF Leave
<1>11. \A m \in r.held : r.status[m] = sent.status[m]
  BY <1>1, <1>6, <1>9, <1>10
<1>s. SentTo(q, sent, ms, eps)
  BY <1>2, SendUnsentStatus
<1>12. \A m \in MessageId, e \in Endpoint :
         sent.status[m][e] = IF m \in ms /\ e \in eps /\ q.status[m][e] = "Unsent"
                               THEN "Sending" ELSE q.status[m][e]
  BY <1>s DEF SentTo
<1>13. sent.dispatch = q.dispatch \cup {x \in ms \X eps : q.status[x[1]][x[2]] = "Unsent"}
  BY <1>s DEF SentTo
<1>14. \A m \in MessageId, e \in Endpoint : PolledStatus(q.status[m][e], sent.status[m][e])
  BY <1>12 DEF PolledStatus
<1>15. \A m \in r.held, e \in Endpoint : PolledStatus(q.status[m][e], r.status[m][e])
  BY <1>1, <1>10, <1>11, <1>14
<1>16. ASSUME NEW x \in r.dispatch \ q.dispatch
       PROVE  /\ x[1] \in q.held
              /\ x[2] \in eps
              /\ q.status[x[1]][x[2]] = "Unsent"
              /\ x[1] \in r.held => r.status[x[1]][x[2]] = "Sending"
  <2>1. x \in ms \X eps /\ q.status[x[1]][x[2]] = "Unsent"
    BY <1>6, <1>9, <1>13, <1>16
  <2>2. x[1] \in ms /\ x[2] \in eps /\ x[1] \in MessageId /\ x[2] \in Endpoint
    BY <1>2, <2>1
  <2>3. sent.status[x[1]][x[2]] = "Sending"
    BY <1>12, <2>1, <2>2
  <2> QED
    BY <1>11, <2>1, <2>2, <2>3
<1>17. ASSUME NEW a \in r.acks \ q.acks
       PROVE  /\ a.id \in q.held
              /\ \A e \in Endpoint : PolledStatus(q.status[a.id][e], a.status[e])
              /\ Justified(a.id, a)
  <2>1. a \in results
    BY <1>4, <1>6, <1>9, <1>17
  <2>2. PICK m \in out : a = resolve(sent, m)
    BY <1>7, <2>1
  <2>3. a.id = m /\ a.status = sent.status[m]
    BY <2>2 DEF resolve
  <2>4. Justified(m, a)
    BY <1>2, <1>4, <1>f, <2>2, ResolveJustified
  <2> QED
    BY <1>2, <1>14, <2>3, <2>4
<1> QED
  BY <1>10, <1>11, <1>15, <1>16, <1>17 DEF Polled, KeepsStatus

\* Polling nothing.
LEMMA PolledNothing ==
  ASSUME NEW q, FiniteQueue(q), NEW eps
  PROVE  Polled(q, q, eps)
BY DEF Polled, PolledStatus

\* flush of a blocking queue polls the messages it pops and the one behind them.
LEMMA FlushBlockingPolled ==
  ASSUME NEW q, FiniteQueue(q), NEW eps \in SUBSET Endpoint, NEW past,
         NEW out, out = popped(q, past),
         NEW next, next = (ids(first(q.time_id \ out)) \cap q.held) \ ids(out),
         NEW r, r = flush_blocking(q, eps, past)
  PROVE  Polled(q, r, eps) /\ KeepsStatus(send_unsent(q, ids(out) \cup next, eps), r)
<1>1. out \in SUBSET q.time_id
  BY DEF popped
<1>2. ids(out) \in SUBSET MessageId
  BY <1>1, IdsType
<1>3. \A m \in ids(out) : m \in q.held /\ message_is_resolved(q, m, past)
  <2> SUFFICES ASSUME NEW p \in out
               PROVE  p[2] \in q.held /\ message_is_resolved(q, p[2], past)
    BY DEF ids
  <2>1. p[1] <= p[1]
    BY <1>1 DEF FiniteQueue, Queue
  <2> QED
    BY <1>1, <2>1 DEF popped, poppable
<1>4. PICK ms : ms = ids(out) \cup next
  OBVIOUS
<1>5. ms \in SUBSET q.held /\ ids(out) \in SUBSET q.held /\ ms \in SUBSET MessageId
  BY <1>2, <1>3, <1>4 DEF FiniteQueue, Queue
<1>6. Cardinality(out) \in Int
  BY <1>1, FS_Subset, FS_CardinalityType DEF FiniteQueue
<1>7. PICK sent : sent = send_unsent(q, ms, eps)
  OBVIOUS
<1>8. r = resolve_ack(discard(sent, out, ids(out), Cardinality(out)),
                      {resolve(sent, m) : m \in ids(out)})
  BY <1>4, <1>7 DEF flush_blocking
<1>9. \A m \in ids(out) : message_is_resolved(sent, m, past)
  BY <1>2, <1>3, <1>5, <1>7, SendUnsentResolved
<1>10. Polled(q, r, eps) /\ KeepsStatus(sent, r)
  <2>1. Flushed(sent, r, out, ids(out), Cardinality(out), past)
    BY <1>8, <1>9 DEF Flushed
  <2> QED
    BY <1>5, <1>6, <1>7, <2>1, PolledStep
<1> QED
  BY <1>4, <1>7, <1>10

\* flush of a non-blocking queue polls the held messages of ms.
LEMMA FlushNonblockingPolled ==
  ASSUME NEW q, FiniteQueue(q), NEW ms \in SUBSET MessageId, NEW eps \in SUBSET Endpoint,
         NEW past, NEW r, r = flush_nonblocking(q, ms, eps, past)
  PROVE  Polled(q, r, eps) /\ KeepsStatus(send_unsent(q, ms \cap q.held, eps), r)
<1>1. PICK polled : polled = ms \cap q.held
  OBVIOUS
<1>2. polled \in SUBSET q.held /\ polled \in SUBSET MessageId
  BY <1>1
<1>3. PICK sent : sent = send_unsent(q, polled, eps)
  OBVIOUS
<1>4. PICK out : out = {m \in polled : message_is_resolved(sent, m, past)}
  OBVIOUS
<1>5. out \in SUBSET q.held /\ out \in SUBSET MessageId
  BY <1>2, <1>4
<1>6. Cardinality(out) \in Int
  BY <1>5, FiniteAssumption, FS_Subset, FS_CardinalityType
<1>7. PICK entries : entries = {p \in sent.time_id : \E m \in out : p[1] = sent.id_time[m]}
  OBVIOUS
<1>8. r = resolve_ack(discard(sent, entries, out, Cardinality(out)),
                      {resolve(sent, m) : m \in out})
  BY <1>1, <1>3, <1>4, <1>7 DEF flush_nonblocking, remove
<1>9. \A m \in out : message_is_resolved(sent, m, past)
  BY <1>4
<1>10. Polled(q, r, eps) /\ KeepsStatus(sent, r)
  <2>1. Flushed(sent, r, entries, out, Cardinality(out), past)
    BY <1>8, <1>9 DEF Flushed
  <2> QED
    BY <1>2, <1>3, <1>5, <1>6, <2>1, PolledStep
<1> QED
  BY <1>1, <1>3, <1>10

\* poll_message and flush poll some of the held messages.
LEMMA PollAndFlushPolled ==
  ASSUME NEW q, FiniteQueue(q), NEW ms \in SUBSET MessageId, NEW eps \in SUBSET Endpoint,
         NEW past
  PROVE  Polled(q, poll_and_flush(q, ms, eps, past), eps)
<1>1. Polled(q, flush_blocking(q, eps, past), eps)
  BY FlushBlockingPolled
<1>2. Polled(q, flush_nonblocking(q, ms, eps, past), eps)
  BY FlushNonblockingPolled
<1> QED
  BY <1>1, <1>2, PolledNothing DEF poll_and_flush

-----------------------------------------------------------------------------
(* What an operation on the topic does to them. *)

\* The statuses of what was not handed to an endpoint's dispatch task.
NotHanded == {Absent, "Unsent"}

\* Queue q has status s of message m towards e, in a held message or a result.
Says(q, m, e, s) ==
  \/ m \in q.held /\ q.status[m][e] = s
  \/ \E a \in q.acks : a.id = m /\ a.status[e] = s

\* Every endpoint interested in a held durable message is one of its targets.
Covers(t) ==
  \A m \in t.queue.held :
    Header[m].target_kind = "Durable" =>
      \A e \in collect_addr_by_subjects(t, m) : t.queue.status[m][e] # Absent

\* The status of d in queue q says that d was not handed out.
unhanded(q, d) == q.status[d[1]][d[2]] \in NotHanded

\* r is t after an operation of replica n that may have pushed the messages of
\* fresh, and wrote, beside statuses of messages not delivered yet, those said.
Delivers(t, r, n, fresh, said) ==
  /\ FiniteTopic(r)
  /\ r.queue.held \subseteq t.queue.held \cup fresh
  /\ \A m \in r.queue.held \ fresh, e \in Endpoint :
       t.queue.status[m][e] \notin NotHanded => r.queue.status[m][e] \notin NotHanded
  /\ \A d \in r.queue.dispatch \ t.queue.dispatch :
       /\ d[1] \in t.queue.held \cup fresh
       /\ d[2] \in r.routing[n]
       /\ d[1] \notin fresh => unhanded(t.queue, d)
       /\ d[1] \in r.queue.held => ~unhanded(r.queue, d)
  /\ \A a \in r.queue.acks \ t.queue.acks : Justified(a.id, a)
  /\ \A m \in MessageId, e \in Endpoint, s \in MessageStatusKind :
       Says(r.queue, m, e, s) =>
         Says(t.queue, m, e, s) \/ s \in {"Unsent", "Sending"} \/ <<m, e, s>> \in said
  /\ Covers(t) => Covers(r)

\* update_and_flush polls the queue and leaves routes and interests alone.
LEMMA UpdateAndFlushPolled ==
  ASSUME NEW u, FiniteTopic(u), NEW n \in Node, NEW ms \in SUBSET MessageId, NEW past,
         NEW r, r = update_and_flush(u, n, ms, past)
  PROVE  /\ Polled(u.queue, r.queue, u.routing[n])
         /\ r.queue = poll_and_flush(u.queue, ms, u.routing[n], past)
         /\ r.routing = u.routing
         /\ r.interest = u.interest
         /\ FiniteTopic(r)
<1>1. u.routing[n] \in SUBSET Endpoint /\ FiniteQueue(u.queue) /\ u \in Topic
  BY DEF FiniteTopic, Topic
<1>2. PICK q : q = poll_and_flush(u.queue, ms, u.routing[n], past)
  OBVIOUS
<1>p. Polled(u.queue, q, u.routing[n])
  BY <1>1, <1>2, PollAndFlushPolled
<1>3. Polled(u.queue, q, u.routing[n]) /\ FiniteQueue(q)
  BY <1>p DEF Polled
<1>4. r = [u EXCEPT !.queue = q]
  BY <1>2 DEF update_and_flush
<1>5. r.queue = q /\ r.routing = u.routing /\ r.interest = u.interest /\ FiniteTopic(r)
  BY <1>1, <1>3, <1>4, WithQueueType DEF Topic
<1> QED
  BY <1>2, <1>3, <1>5

\* Polling after an operation is part of it.
LEMMA DeliversPolled ==
  ASSUME NEW t, FiniteTopic(t), NEW u, NEW r, NEW n \in Node, NEW fresh, NEW said,
         Delivers(t, u, n, fresh, said),
         Polled(u.queue, r.queue, u.routing[n]), r.routing = u.routing,
         r.interest = u.interest, FiniteTopic(r)
  PROVE  Delivers(t, r, n, fresh, said)
<1>1. /\ u.queue.held \subseteq MessageId /\ r.queue.held \subseteq MessageId
      /\ r.queue.dispatch \subseteq MessageId \X Endpoint
      /\ r.queue.status \in [MessageId -> StatusMap]
  BY DEF Delivers, FiniteTopic, FiniteQueue, Queue
<1>2. /\ r.queue.held \subseteq u.queue.held
      /\ \A m \in r.queue.held, e \in Endpoint :
           PolledStatus(u.queue.status[m][e], r.queue.status[m][e])
  BY DEF Polled
<1>3. r.queue.held \subseteq t.queue.held \cup fresh
  BY <1>2 DEF Delivers
<1>4. \A m \in r.queue.held, e \in Endpoint :
        u.queue.status[m][e] \notin NotHanded => r.queue.status[m][e] \notin NotHanded
  BY <1>2 DEF PolledStatus, NotHanded
<1>5. \A m \in r.queue.held \ fresh, e \in Endpoint :
        t.queue.status[m][e] \notin NotHanded => r.queue.status[m][e] \notin NotHanded
  BY <1>2, <1>4 DEF Delivers
<1>6. ASSUME NEW d \in r.queue.dispatch \ t.queue.dispatch
      PROVE  /\ d[1] \in t.queue.held \cup fresh
             /\ d[2] \in r.routing[n]
             /\ d[1] \notin fresh => unhanded(t.queue, d)
             /\ d[1] \in r.queue.held => ~unhanded(r.queue, d)
  <2>1. d[1] \in MessageId /\ d[2] \in Endpoint
    BY <1>1
  <2>2. CASE d \in u.queue.dispatch
    <3>1. /\ d[1] \in t.queue.held \cup fresh
          /\ d[2] \in u.routing[n]
          /\ d[1] \notin fresh => unhanded(t.queue, d)
          /\ d[1] \in u.queue.held => ~unhanded(u.queue, d)
      BY <2>2 DEF Delivers
    <3> QED
      BY <1>2, <1>4, <2>1, <3>1 DEF unhanded
  <2>3. CASE d \notin u.queue.dispatch
    <3>1. /\ d[1] \in u.queue.held
          /\ d[2] \in u.routing[n]
          /\ u.queue.status[d[1]][d[2]] = "Unsent"
          /\ d[1] \in r.queue.held => r.queue.status[d[1]][d[2]] = "Sending"
      BY <2>3 DEF Polled
    <3>2. d[1] \in r.queue.held => ~unhanded(r.queue, d)
      BY <3>1 DEF unhanded, NotHanded, Absent
    <3>3. d[1] \notin fresh => unhanded(t.queue, d)
      BY <2>1, <3>1 DEF Delivers, unhanded, NotHanded
    <3> QED
      BY <3>1, <3>2, <3>3 DEF Delivers
  <2> QED
    BY <2>2, <2>3
<1>7. \A a \in r.queue.acks \ t.queue.acks : Justified(a.id, a)
  BY DEF Delivers, Polled
<1>8. ASSUME NEW m \in MessageId, NEW e \in Endpoint, NEW s \in MessageStatusKind,
             Says(r.queue, m, e, s)
      PROVE  Says(u.queue, m, e, s) \/ s \in {"Unsent", "Sending"}
  <2>1. CASE m \in r.queue.held /\ r.queue.status[m][e] = s
    BY <1>2, <2>1 DEF PolledStatus, Says
  <2>2. ASSUME NEW a \in r.queue.acks, a.id = m, a.status[e] = s
        PROVE  Says(u.queue, m, e, s) \/ s \in {"Unsent", "Sending"}
    <3>1. CASE a \in u.queue.acks
      BY <2>2, <3>1 DEF Says
    <3>2. CASE a \notin u.queue.acks
      <4>1. a.id \in u.queue.held /\ PolledStatus(u.queue.status[a.id][e], a.status[e])
        BY <3>2 DEF Polled
      <4> QED
        BY <2>2, <4>1 DEF PolledStatus, Says
    <3> QED
      BY <3>1, <3>2
  <2> QED
    BY <1>8, <2>1, <2>2 DEF Says
<1>9. \A m \in MessageId, e \in Endpoint, s \in MessageStatusKind :
        Says(r.queue, m, e, s) =>
          Says(t.queue, m, e, s) \/ s \in {"Unsent", "Sending"} \/ <<m, e, s>> \in said
  BY <1>8 DEF Delivers
<1>10. ASSUME Covers(u) PROVE Covers(r)
  <2> SUFFICES ASSUME NEW m \in r.queue.held, Header[m].target_kind = "Durable",
                      NEW e \in collect_addr_by_subjects(r, m)
               PROVE  r.queue.status[m][e] # Absent
    BY DEF Covers
  <2>1. e \in collect_addr_by_subjects(u, m) /\ e \in Endpoint
    BY DEF collect_addr_by_subjects
  <2>2. u.queue.status[m][e] # Absent
    BY <1>2, <1>10, <2>1 DEF Covers
  <2> QED
    BY <1>2, <2>1, <2>2 DEF PolledStatus, Absent
<1> QED
  BY <1>3, <1>5, <1>6, <1>7, <1>9, <1>10 DEF Delivers

\* u is t with these routes, interests and statuses.
Parted(t, u, routing, interest, st) ==
  /\ FiniteTopic(u)
  /\ u.routing = routing /\ u.interest = interest
  /\ u.queue = [t.queue EXCEPT !.status = st]
  /\ u.queue.status = st
  /\ u.queue.held = t.queue.held
  /\ u.queue.dispatch = t.queue.dispatch
  /\ u.queue.acks = t.queue.acks

\* The fields of a topic whose parts were replaced.
LEMMA PartsOf ==
  ASSUME NEW t, FiniteTopic(t), NEW st \in [MessageId -> StatusMap],
         NEW routing \in [Node -> SUBSET Endpoint],
         NEW interest \in [Endpoint -> SUBSET Subject],
         NEW u, u = WithParts(t, routing, interest, st)
  PROVE  Parted(t, u, routing, interest, st)
<1>1. SameQueue(t, u)
  BY StatusChange
<1>2. t \in Topic /\ t.queue \in Queue
  BY DEF FiniteTopic, FiniteQueue
<1>3. PICK q : q = [t.queue EXCEPT !.status = st]
  OBVIOUS
<1>4. /\ q.status = st /\ q.held = t.queue.held /\ q.dispatch = t.queue.dispatch
      /\ q.acks = t.queue.acks
  BY <1>2, <1>3 DEF Queue
<1>5. u.routing = routing /\ u.interest = interest /\ u.queue = q
  BY <1>2, <1>3 DEF WithParts, Topic
<1> QED
  BY <1>1, <1>3, <1>4, <1>5 DEF SameQueue, Parted

\* Statuses st and interests keep what was handed out and what is covered, and
\* write no status but Unsent and those said.
Edits(t, interest, st, said) ==
  /\ \A m \in t.queue.held, e \in Endpoint :
       t.queue.status[m][e] \notin NotHanded => st[m][e] \notin NotHanded
  /\ \A m \in t.queue.held, e \in Endpoint :
       \/ st[m][e] = t.queue.status[m][e]
       \/ st[m][e] = "Unsent"
       \/ <<m, e, st[m][e]>> \in said
  /\ Covers(t) => \A m \in t.queue.held, e \in Endpoint :
                    /\ Header[m].target_kind = "Durable"
                    /\ interest[e] \cap Header[m].subjects # {}
                    => st[m][e] # Absent

\* Such an operation delivers.
LEMMA OperatesDelivers ==
  ASSUME NEW t, FiniteTopic(t), NEW r, NEW n \in Node, NEW routing, NEW interest, NEW st,
         NEW ms, NEW past, Operates(t, r, n, routing, interest, st, ms, past),
         NEW said, Edits(t, interest, st, said)
  PROVE  Delivers(t, r, n, {}, said) /\ r.routing = routing /\ r.interest = interest
<1>1. PICK u : u = WithParts(t, routing, interest, st)
  OBVIOUS
<1>2. /\ FiniteTopic(u)
      /\ u.routing = routing /\ u.interest = interest
      /\ u.queue.status = st
      /\ u.queue.held = t.queue.held
      /\ u.queue.dispatch = t.queue.dispatch
      /\ u.queue.acks = t.queue.acks
  <2>1. /\ routing \in [Node -> SUBSET Endpoint]
        /\ interest \in [Endpoint -> SUBSET Subject]
        /\ st \in [MessageId -> StatusMap]
    BY DEF Operates
  <2>2. Parted(t, u, routing, interest, st)
    BY <1>1, <2>1, PartsOf
  <2> QED
    BY <2>2 DEF Parted
<1>3. ms \in SUBSET MessageId /\ r = update_and_flush(u, n, ms, past)
  BY <1>1 DEF Operates
<1>4. /\ Polled(u.queue, r.queue, u.routing[n])
      /\ r.routing = u.routing
      /\ r.interest = u.interest
      /\ FiniteTopic(r)
  BY <1>2, <1>3, UpdateAndFlushPolled
<1>5. Covers(t) => Covers(u)
  BY <1>2 DEF Edits, Covers, collect_addr_by_subjects
<1>6. ASSUME NEW m \in MessageId, NEW e \in Endpoint, NEW s \in MessageStatusKind,
             Says(u.queue, m, e, s)
      PROVE  Says(t.queue, m, e, s) \/ s \in {"Unsent", "Sending"} \/ <<m, e, s>> \in said
  <2>1. CASE m \in u.queue.held /\ u.queue.status[m][e] = s
    BY <1>2, <2>1 DEF Edits, Says
  <2>2. CASE \E a \in u.queue.acks : a.id = m /\ a.status[e] = s
    BY <1>2, <2>2 DEF Says
  <2> QED
    BY <1>6, <2>1, <2>2 DEF Says
<1>7. Delivers(t, u, n, {}, said)
  BY <1>2, <1>5, <1>6 DEF Delivers, Edits
<1> QED
  BY <1>2, <1>4, <1>7, DeliversPolled

\* apply_set_state, with a status that says the message was handed out.
LEMMA SetStateDelivers ==
  ASSUME NEW t, FiniteTopic(t), NEW n \in Node, NEW m \in MessageId, NEW e \in Endpoint,
         NEW kind \in MessageStatusKind, kind # "Unsent", NEW past,
         NEW r, r = set_state(t, n, m, e, kind, past)
  PROVE  Delivers(t, r, n, {}, {<<m, e, kind>>}) /\ r.routing = t.routing
           /\ r.interest = t.interest
<1>1. PICK st : st = acked_by(t.queue, m, e, kind)
  OBVIOUS
<1>2. Operates(t, r, n, t.routing, t.interest, st, {m}, past)
  BY <1>1, SetStateOperates
<1>3. t.queue.status \in [MessageId -> StatusMap] /\ t.queue.held \subseteq MessageId
  BY DEF FiniteTopic, FiniteQueue, Queue
<1>4. kind \notin NotHanded
  BY DEF NotHanded, MessageStatusKind, Absent
<1>5. \A k \in t.queue.held, f \in Endpoint :
        st[k][f] = t.queue.status[k][f] \/ (k = m /\ f = e /\ st[k][f] = kind)
  BY <1>1, <1>3 DEF acked_by, StatusMap
<1>6. Edits(t, t.interest, st, {<<m, e, kind>>})
  <2>1. \A k \in t.queue.held, f \in Endpoint :
          t.queue.status[k][f] \notin NotHanded => st[k][f] \notin NotHanded
    BY <1>4, <1>5
  <2>2. \A k \in t.queue.held, f \in Endpoint :
          st[k][f] = t.queue.status[k][f] \/ <<k, f, st[k][f]>> \in {<<m, e, kind>>}
    BY <1>5
  <2>3. Covers(t) => \A k \in t.queue.held, f \in Endpoint :
                       /\ Header[k].target_kind = "Durable"
                       /\ t.interest[f] \cap Header[k].subjects # {}
                       => st[k][f] # Absent
    BY <1>4, <1>5 DEF Covers, collect_addr_by_subjects, NotHanded
  <2> QED
    BY <2>1, <2>2, <2>3 DEF Edits
<1> QED
  BY <1>2, <1>6, OperatesDelivers

\* Offering an endpoint the durable messages that match all its interests.
LEMMA OfferEdits ==
  ASSUME NEW t, FiniteTopic(t), NEW e \in Endpoint, NEW interests \in SUBSET Subject,
         NEW interest, interest = [t.interest EXCEPT ![e] = interests], NEW ms,
         \A m \in durable_about(t, interests) : m \in ms \/ t.queue.status[m][e] # Absent,
         NEW st, st = offered_to(t.queue.status, e, ms)
  PROVE  Edits(t, interest, st, {})
<1>1. /\ t.queue.status \in [MessageId -> StatusMap] /\ t.queue.held \subseteq MessageId
      /\ t.interest \in [Endpoint -> SUBSET Subject]
  BY DEF FiniteTopic, FiniteQueue, Queue, Topic
<1>2. \A k \in t.queue.held, f \in Endpoint :
        st[k][f] = IF k \in ms /\ f = e /\ t.queue.status[k][f] = Absent
                     THEN "Unsent" ELSE t.queue.status[k][f]
  BY <1>1 DEF offered_to, StatusMap
<1>3. \A k \in t.queue.held, f \in Endpoint :
        t.queue.status[k][f] \notin NotHanded => st[k][f] \notin NotHanded
  BY <1>2 DEF NotHanded
<1>4. \A k \in t.queue.held, f \in Endpoint :
        st[k][f] = t.queue.status[k][f] \/ st[k][f] = "Unsent"
  BY <1>2
<1>5. ASSUME Covers(t), NEW k \in t.queue.held, NEW f \in Endpoint,
             Header[k].target_kind = "Durable", interest[f] \cap Header[k].subjects # {}
      PROVE  st[k][f] # Absent
  <2>1. "Unsent" # Absent
    BY DEF Absent
  <2>2. CASE f = e
    <3>1. k \in durable_about(t, interests)
      BY <1>1, <1>5, <2>2 DEF durable_about
    <3> QED
      BY <1>2, <2>1, <2>2, <3>1
  <2>3. CASE f # e
    <3>1. t.interest[f] \cap Header[k].subjects # {}
      BY <1>1, <1>5, <2>3
    <3>2. t.queue.status[k][f] # Absent
      BY <1>5, <3>1 DEF Covers, collect_addr_by_subjects
    <3> QED
      BY <1>2, <2>1, <3>2
  <2> QED
    BY <2>2, <2>3
<1> QED
  BY <1>3, <1>4, <1>5 DEF Edits

\* What the three operations do to the routes and the interests.
Interested(t, r, e, interests) ==
  r.routing = t.routing /\ r.interest = [t.interest EXCEPT ![e] = interests]

Onlined(t, r, e, interests, host) ==
  /\ r.routing = [t.routing EXCEPT ![host] = @ \cup {e}]
  /\ r.interest = [t.interest EXCEPT ![e] = @ \cup interests]

Offlined(t, r, e, host) ==
  /\ r.routing = [t.routing EXCEPT ![host] = @ \ {e}]
  /\ r.interest = [t.interest EXCEPT ![e] = {}]

\* apply_ep_interest.
LEMMA EpInterestDelivers ==
  ASSUME NEW t, FiniteTopic(t), NEW n \in Node, NEW e \in Endpoint,
         NEW interests \in SUBSET Subject, NEW past,
         NEW r, r = update_ep_interest(t, n, e, interests, past)
  PROVE  /\ Delivers(t, r, n, {}, {})
         /\ Interested(t, r, e, interests)
<1>1. PICK ms : ms = durable_about(t, interests)
  OBVIOUS
<1>2. PICK st : st = offered_to(t.queue.status, e, ms)
  OBVIOUS
<1>3. PICK interest : interest = [t.interest EXCEPT ![e] = interests]
  OBVIOUS
<1>4. Operates(t, r, n, t.routing, interest, st, ms, past)
  BY <1>1, <1>2, <1>3, EpInterestOperates
<1>5. Edits(t, interest, st, {})
  BY <1>1, <1>2, <1>3, OfferEdits
<1> QED
  BY <1>3, <1>4, <1>5, OperatesDelivers DEF Interested

\* apply_ep_online.
LEMMA EpOnlineDelivers ==
  ASSUME NEW t, FiniteTopic(t), NEW n \in Node, NEW e \in Endpoint,
         NEW interests \in SUBSET Subject, NEW host \in Node, NEW past,
         NEW r, r = ep_online(t, n, e, interests, host, past)
  PROVE  /\ Delivers(t, r, n, {}, {})
         /\ Onlined(t, r, e, interests, host)
<1>1. PICK ms : ms = {m \in durable_about(t, t.interest[e] \cup interests) :
                        t.queue.status[m][e] = Absent}
  OBVIOUS
<1>2. PICK st : st = offered_to(t.queue.status, e, ms)
  OBVIOUS
<1>3. PICK interest : interest = [t.interest EXCEPT ![e] = @ \cup interests]
  OBVIOUS
<1>4. PICK routing : routing = [t.routing EXCEPT ![host] = @ \cup {e}]
  OBVIOUS
<1>5. Operates(t, r, n, routing, interest, st, ms, past)
  BY <1>1, <1>2, <1>3, <1>4, EpOnlineOperates
<1>6. PICK both : both = t.interest[e] \cup interests
  OBVIOUS
<1>7. both \in SUBSET Subject /\ interest = [t.interest EXCEPT ![e] = both]
  BY <1>3, <1>6 DEF FiniteTopic, Topic
<1>8. \A m \in durable_about(t, both) : m \in ms \/ t.queue.status[m][e] # Absent
  BY <1>1, <1>6
<1>9. Edits(t, interest, st, {})
  BY <1>2, <1>7, <1>8, OfferEdits
<1> QED
  BY <1>3, <1>4, <1>5, <1>9, OperatesDelivers DEF Onlined

\* apply_ep_offline.
LEMMA EpOfflineDelivers ==
  ASSUME NEW t, FiniteTopic(t), NEW n \in Node, NEW host \in Node, NEW e \in Endpoint,
         NEW past, NEW r, r = ep_offline(t, n, host, e, past)
  PROVE  /\ Delivers(t, r, n, {}, {<<m, e, "Unreachable">> : m \in MessageId})
         /\ Offlined(t, r, e, host)
<1>1. PICK ms : ms = {m \in t.queue.held : t.queue.status[m][e] # Absent}
  OBVIOUS
<1>2. PICK st : st = lost_by(t.queue.status, e, ms)
  OBVIOUS
<1>3. PICK interest : interest = [t.interest EXCEPT ![e] = {}]
  OBVIOUS
<1>4. PICK routing : routing = [t.routing EXCEPT ![host] = @ \ {e}]
  OBVIOUS
<1>5. Operates(t, r, n, routing, interest, st, ms, past)
  BY <1>1, <1>2, <1>3, <1>4, EpOfflineOperates
<1>6. /\ t.queue.status \in [MessageId -> StatusMap] /\ t.queue.held \subseteq MessageId
      /\ t.interest \in [Endpoint -> SUBSET Subject]
  BY DEF FiniteTopic, FiniteQueue, Queue, Topic
<1>7. \A k \in t.queue.held, f \in Endpoint :
        st[k][f] = IF f = e /\ t.queue.status[k][f] # Absent
                     THEN "Unreachable" ELSE t.queue.status[k][f]
  BY <1>1, <1>2, <1>6 DEF lost_by, StatusMap
<1>8. PICK said : said = {<<m, e, "Unreachable">> : m \in MessageId}
  OBVIOUS
<1>9. Edits(t, interest, st, said)
  <2>1. \A k \in t.queue.held, f \in Endpoint :
          t.queue.status[k][f] \notin NotHanded => st[k][f] \notin NotHanded
    BY <1>7 DEF NotHanded, Absent
  <2>2. \A k \in t.queue.held, f \in Endpoint :
          st[k][f] = t.queue.status[k][f] \/ <<k, f, st[k][f]>> \in said
    BY <1>6, <1>7, <1>8
  <2>3. Covers(t) => \A k \in t.queue.held, f \in Endpoint :
                       /\ Header[k].target_kind = "Durable"
                       /\ interest[f] \cap Header[k].subjects # {}
                       => st[k][f] # Absent
    <3>1. \A f \in Endpoint : interest[f] # {} => interest[f] = t.interest[f]
      BY <1>3, <1>6
    <3>2. \A k \in t.queue.held, f \in Endpoint :
            t.queue.status[k][f] # Absent => st[k][f] # Absent
      BY <1>7 DEF Absent
    <3> QED
      BY <3>1, <3>2 DEF Covers, collect_addr_by_subjects
  <2> QED
    BY <2>1, <2>2, <2>3 DEF Edits
<1> QED
  BY <1>3, <1>4, <1>5, <1>8, <1>9, OperatesDelivers DEF Offlined

\* The fields of a queue that a message was pushed into.
LEMMA PushStatus ==
  ASSUME NEW q, FiniteQueue(q), NEW m \in MessageId, NEW st \in StatusMap, NEW time \in Nat,
         NEW r, r = push(q, m, st, time)
  PROVE  /\ FiniteQueue(r)
         /\ r.held = q.held \cup {m}
         /\ r.dispatch = q.dispatch
         /\ r.acks = q.acks
         /\ \A k \in MessageId : r.status[k] = IF k = m THEN st ELSE q.status[k]
<1>1. Pushed(q, r, m, time)
  BY PushType
<1>2. q \in Queue /\ q.status \in [MessageId -> StatusMap]
  BY DEF FiniteQueue, Queue
<1>3. PICK ti : ti = IF \E p \in q.time_id : p[1] = time
                       THEN q.time_id ELSE q.time_id \cup {<<time, m>>}
  OBVIOUS
<1>4. r = [q EXCEPT !.held = q.held \cup {m}, !.status = [q.status EXCEPT ![m] = st],
                    !.time_id = ti, !.id_time = [q.id_time EXCEPT ![m] = time],
                    !.size = q.size + 1]
  BY <1>2, <1>3 DEF push, Queue
<1>5. r.status = [q.status EXCEPT ![m] = st] /\ r.dispatch = q.dispatch
  BY <1>2, <1>4 DEF Queue
<1> QED
  BY <1>1, <1>2, <1>5 DEF Pushed

\* Pushing a message for all endpoints that are interested in it when it is
\* durable, and polling it.
LEMMA HoldDelivers ==
  ASSUME NEW t, FiniteTopic(t), NEW n \in Node, NEW m \in MessageId, NEW eps,
         NEW time \in Nat, NEW past,
         Header[m].target_kind = "Durable" => collect_addr_by_subjects(t, m) \subseteq eps,
         NEW r, r = hold(t, n, m, eps, time, past)
  PROVE  Delivers(t, r, n, {m}, {}) /\ r.routing = t.routing /\ r.interest = t.interest
<1>1. PICK q : q = push(t.queue, m, wait_ack(eps), time)
  OBVIOUS
<1>2. FiniteQueue(t.queue) /\ t \in Topic /\ wait_ack(eps) \in StatusMap
        /\ t.queue.held \subseteq MessageId
  BY WaitAckType DEF FiniteTopic, FiniteQueue, Queue
<1>3. /\ FiniteQueue(q)
      /\ q.held = t.queue.held \cup {m}
      /\ q.dispatch = t.queue.dispatch
      /\ q.acks = t.queue.acks
      /\ \A k \in MessageId : q.status[k] = IF k = m THEN wait_ack(eps) ELSE t.queue.status[k]
  BY <1>1, <1>2, PushStatus
<1>4. PICK u : u = [t EXCEPT !.queue = q]
  OBVIOUS
<1>5. FiniteTopic(u) /\ u.queue = q /\ u.routing = t.routing /\ u.interest = t.interest
  BY <1>2, <1>3, <1>4, WithQueueType DEF Topic
<1>6. r = update_and_flush(u, n, {m}, past)
  BY <1>1, <1>4 DEF hold
<1>7. /\ Polled(u.queue, r.queue, u.routing[n])
      /\ r.routing = u.routing
      /\ r.interest = u.interest
      /\ FiniteTopic(r)
  BY <1>5, <1>6, UpdateAndFlushPolled
<1>8. \A e \in Endpoint : wait_ack(eps)[e] = IF e \in eps THEN "Unsent" ELSE Absent
  BY DEF wait_ack
<1>9. Covers(t) => Covers(u)
  <2> SUFFICES ASSUME Covers(t), NEW k \in u.queue.held, Header[k].target_kind = "Durable",
                      NEW e \in collect_addr_by_subjects(u, k)
               PROVE  u.queue.status[k][e] # Absent
    BY DEF Covers
  <2>1. e \in collect_addr_by_subjects(t, k) /\ e \in Endpoint
    BY <1>5 DEF collect_addr_by_subjects
  <2>2. CASE k = m
    <3>1. u.queue.status[k][e] = "Unsent"
      BY <1>3, <1>5, <1>8, <2>1, <2>2
    <3> QED
      BY <3>1 DEF Absent
  <2>3. CASE k # m
    BY <1>2, <1>3, <1>5, <2>1, <2>3 DEF Covers
  <2> QED
    BY <2>2, <2>3
<1>10. ASSUME NEW k \in MessageId, NEW e \in Endpoint, NEW s \in MessageStatusKind,
              Says(u.queue, k, e, s)
       PROVE  Says(t.queue, k, e, s) \/ s \in {"Unsent", "Sending"}
  <2>1. s # Absent
    BY DEF MessageStatusKind, Absent
  <2>2. CASE k \in u.queue.held /\ u.queue.status[k][e] = s
    BY <1>3, <1>5, <1>8, <2>1, <2>2 DEF Says
  <2>3. CASE \E a \in u.queue.acks : a.id = k /\ a.status[e] = s
    BY <1>3, <1>5, <2>3 DEF Says
  <2> QED
    BY <1>10, <2>2, <2>3 DEF Says
<1>11. Delivers(t, u, n, {m}, {})
  <2>1. u.queue.held \subseteq t.queue.held \cup {m}
    BY <1>3, <1>5
  <2>2. \A k \in u.queue.held \ {m}, e \in Endpoint :
          t.queue.status[k][e] \notin NotHanded => u.queue.status[k][e] \notin NotHanded
    BY <1>2, <1>3, <1>5
  <2>3. u.queue.dispatch = t.queue.dispatch /\ u.queue.acks = t.queue.acks
    BY <1>3, <1>5
  <2> QED
    BY <1>5, <1>9, <1>10, <2>1, <2>2, <2>3 DEF Delivers
<1> QED
  BY <1>5, <1>7, <1>11, DeliversPolled

\* The result of an exception makes no claim.
LEMMA ExceptionJustified ==
  ASSUME NEW m \in MessageId, NEW why \in {"Overflow", "NoAvailableTarget"}, allowed(m, why)
  PROVE  /\ Justified(m, exception(m, why))
         /\ exception(m, why).id = m
         /\ \A e \in Endpoint : exception(m, why).status[e] = Absent
BY DEF Justified, exception, NoStatus

\* r is q after some messages were taken out.
Lessens(q, r) ==
  /\ r.held \subseteq q.held
  /\ r.dispatch = q.dispatch
  /\ r.acks = q.acks
  /\ \A m \in r.held : r.status[m] = q.status[m]

\* r is t after an operation that only takes messages out and tells senders.
Tells(t, r, n) ==
  /\ Delivers(t, r, n, {}, {})
  /\ r.queue.dispatch = t.queue.dispatch
  /\ KeepsStatus(t.queue, r.queue)
  /\ r.routing = t.routing
  /\ r.interest = t.interest

\* Telling senders of exceptions, after messages of out left the queue.
LEMMA ExceptionsDeliver ==
  ASSUME NEW t, FiniteTopic(t), NEW n \in Node, NEW ms \in SUBSET MessageId,
         NEW why \in {"Overflow", "NoAvailableTarget"}, \A m \in ms : allowed(m, why),
         NEW q, FiniteQueue(q), Lessens(t.queue, q),
         NEW r, r = [t EXCEPT !.queue = resolve_ack(q, {exception(m, why) : m \in ms})]
  PROVE  Tells(t, r, n)
<1>1. PICK results : results = {exception(m, why) : m \in ms}
  OBVIOUS
<1>2. results \in SUBSET WaitAckResult
  BY <1>1, ExceptionType
<1>3. PICK p : p = resolve_ack(q, results)
  OBVIOUS
<1>4. FiniteQueue(p) /\ Telling(q, p, results)
  BY <1>2, <1>3, ResolveAckType, ResolveAckStatus
<1>5. PICK u : u = [t EXCEPT !.queue = p]
  OBVIOUS
<1>6. FiniteTopic(r) /\ r.queue = p /\ r.routing = t.routing /\ r.interest = t.interest
  <2>1. FiniteTopic(u) /\ u.queue = p /\ u.routing = t.routing
    BY <1>4, <1>5, WithQueueType
  <2>2. u.interest = t.interest
    BY <1>5 DEF FiniteTopic, Topic
  <2>3. r = u
    BY <1>1, <1>3, <1>5
  <2> QED
    BY <2>1, <2>2, <2>3
<1>7. /\ p.held = q.held /\ p.status = q.status /\ p.dispatch = q.dispatch
      /\ p.acks = t.queue.acks \cup results
      /\ q.held \subseteq t.queue.held /\ q.dispatch = t.queue.dispatch
      /\ \A m \in q.held : q.status[m] = t.queue.status[m]
  BY <1>4 DEF Telling, Lessens
<1>8. \A a \in results : Justified(a.id, a) /\ \A e \in Endpoint : a.status[e] = Absent
  BY <1>1, ExceptionJustified
<1>9. ASSUME NEW m \in MessageId, NEW e \in Endpoint, NEW s \in MessageStatusKind,
             Says(p, m, e, s)
      PROVE  Says(t.queue, m, e, s)
  <2>1. s # Absent
    BY DEF MessageStatusKind, Absent
  <2> QED
    BY <1>7, <1>8, <1>9, <2>1 DEF Says
<1>10. Covers(t) => Covers(r)
  BY <1>6, <1>7 DEF Covers, collect_addr_by_subjects
<1> QED
  BY <1>6, <1>7, <1>8, <1>9, <1>10 DEF Delivers, Tells, KeepsStatus

\* Telling the sender that its message is not taken.
LEMMA FailDelivers ==
  ASSUME NEW t, FiniteTopic(t), NEW n \in Node, NEW m \in MessageId,
         NEW why \in {"Overflow", "NoAvailableTarget"}, allowed(m, why),
         NEW r, r = fail(t, m, why)
  PROVE  Tells(t, r, n)
<1>1. {exception(k, why) : k \in {m}} = {exception(m, why)}
  OBVIOUS
<1>2. r = [t EXCEPT !.queue = resolve_ack(t.queue, {exception(k, why) : k \in {m}})]
  BY <1>1 DEF fail
<1>3. FiniteQueue(t.queue) /\ {m} \in SUBSET MessageId
  BY DEF FiniteTopic
<1>4. Lessens(t.queue, t.queue)
  BY DEF Lessens
<1> QED
  BY <1>2, <1>3, <1>4, ExceptionsDeliver

\* A topic that panics has done nothing else.
LEMMA PanicDelivers ==
  ASSUME NEW t, FiniteTopic(t), NEW n \in Node, NEW r, r = [t EXCEPT !.panic = TRUE]
  PROVE  Tells(t, r, n)
<1>1. /\ FiniteTopic(r) /\ r.queue = t.queue
      /\ r.routing = t.routing /\ r.interest = t.interest
  BY DEF FiniteTopic, Topic
<1>2. Covers(t) => Covers(r)
  BY <1>1 DEF Covers, collect_addr_by_subjects
<1> QED
  BY <1>1, <1>2 DEF Delivers, Tells, KeepsStatus

\* Dropping the oldest message.
LEMMA DropOldDelivers ==
  ASSUME NEW t, FiniteTopic(t), NEW n \in Node, OverflowPolicy # "None", NEW r, r = drop_old(t)
  PROVE  Tells(t, r, n)
<1>1. CASE get_front(t.queue) = {}
  BY <1>1, PanicDelivers DEF drop_old
<1>2. CASE get_front(t.queue) # {}
  <2>1. FiniteQueue(t.queue) /\ t.queue.held \subseteq MessageId
    BY DEF FiniteTopic, FiniteQueue, Queue
  <2>2. PICK front : front = first(t.queue.time_id)
    OBVIOUS
  <2>3. front \in SUBSET t.queue.time_id
    BY <2>2 DEF first
  <2>4. ids(front) \in SUBSET MessageId
    BY <2>1, <2>3, IdsType
  <2>5. Cardinality(front) \in Int
    BY <2>1, <2>3, FS_Subset, FS_CardinalityType DEF FiniteQueue
  <2>6. PICK q : q = pop(t.queue)
    OBVIOUS
  <2>7. q = discard(t.queue, front, ids(front), Cardinality(front))
    BY <2>2, <2>6 DEF pop
  <2>8. /\ Discarded(t.queue, q, front, ids(front), Cardinality(front))
        /\ Without(t.queue, q, ids(front))
    BY <2>1, <2>4, <2>5, <2>7, DiscardType, DiscardStatus
  <2>9. FiniteQueue(q) /\ Lessens(t.queue, q)
    BY <2>1, <2>8 DEF Discarded, Without, Lessens
  <2>10. PICK ms : ms = get_front(t.queue)
    OBVIOUS
  <2>11. ms \in SUBSET MessageId
    BY <2>1, <2>10 DEF get_front
  <2>12. r = [t EXCEPT !.queue = resolve_ack(q, {exception(m, "Overflow") : m \in ms})]
    BY <1>2, <2>6, <2>10 DEF drop_old
  <2>13. \A m \in ms : allowed(m, "Overflow")
    BY DEF allowed
  <2> QED
    BY <2>9, <2>11, <2>12, <2>13, ExceptionsDeliver
<1> QED
  BY <1>1, <1>2

\* Two operations, of which the first only takes messages out.
LEMMA DeliversAfterTells ==
  ASSUME NEW t, NEW u, NEW r, NEW n \in Node, NEW fresh, FiniteTopic(t),
         Tells(t, u, n), Delivers(u, r, n, fresh, {})
  PROVE  Delivers(t, r, n, fresh, {})
<1>1. /\ u.queue.held \subseteq t.queue.held
      /\ r.queue.held \subseteq u.queue.held \cup fresh
      /\ u.queue.held \subseteq MessageId
      /\ r.queue.held \subseteq MessageId
      /\ r.queue.dispatch \subseteq MessageId \X Endpoint
      /\ u.queue.dispatch = t.queue.dispatch
      /\ Delivers(t, u, n, {}, {})
  BY DEF Tells, Delivers, FiniteTopic, FiniteQueue, Queue
<1>2. \A m \in r.queue.held \ fresh, e \in Endpoint :
        t.queue.status[m][e] \notin NotHanded => r.queue.status[m][e] \notin NotHanded
  BY <1>1 DEF Delivers
<1>3. ASSUME NEW d \in r.queue.dispatch \ t.queue.dispatch
      PROVE  /\ d[1] \in t.queue.held \cup fresh
             /\ d[2] \in r.routing[n]
             /\ d[1] \notin fresh => unhanded(t.queue, d)
             /\ d[1] \in r.queue.held => ~unhanded(r.queue, d)
  <2>1. d[1] \in MessageId /\ d[2] \in Endpoint
    BY <1>1
  <2>2. /\ d[1] \in u.queue.held \cup fresh
        /\ d[2] \in r.routing[n]
        /\ d[1] \notin fresh => unhanded(u.queue, d)
        /\ d[1] \in r.queue.held => ~unhanded(r.queue, d)
    BY <1>1 DEF Delivers
  <2>3. d[1] \notin fresh => unhanded(t.queue, d)
    BY <1>1, <2>1, <2>2 DEF Delivers, unhanded
  <2> QED
    BY <1>1, <2>2, <2>3
<1>4. \A a \in r.queue.acks \ t.queue.acks : Justified(a.id, a)
  BY <1>1 DEF Delivers
<1>5. \A m \in MessageId, e \in Endpoint, s \in MessageStatusKind :
        Says(r.queue, m, e, s) => Says(t.queue, m, e, s) \/ s \in {"Unsent", "Sending"}
  BY <1>1 DEF Delivers
<1>6. FiniteTopic(r) /\ (Covers(t) => Covers(r))
  BY <1>1 DEF Delivers
<1> QED
  BY <1>1, <1>2, <1>3, <1>4, <1>5, <1>6 DEF Delivers

\* An operation that pushes nothing also fits where a message might be pushed.
LEMMA TellsDelivers ==
  ASSUME NEW t, NEW r, NEW n \in Node, NEW m \in MessageId, Tells(t, r, n)
  PROVE  Delivers(t, r, n, {m}, {}) /\ r.routing = t.routing /\ r.interest = t.interest
<1>1. Delivers(t, r, n, {}, {}) /\ r.routing = t.routing /\ r.interest = t.interest
  BY DEF Tells
<1> QED
  BY <1>1 DEF Delivers

\* put_in_queue.
LEMMA PutInQueueDelivers ==
  ASSUME NEW t, FiniteTopic(t), NEW n \in Node, NEW m \in MessageId, NEW eps,
         NEW time \in Nat, NEW past,
         Header[m].target_kind = "Durable" => collect_addr_by_subjects(t, m) \subseteq eps,
         NEW r, r = put_in_queue(t, n, m, eps, time, past)
  PROVE  Delivers(t, r, n, {m}, {}) /\ r.routing = t.routing /\ r.interest = t.interest
<1>1. PICK room : room = drop_old(t)
  OBVIOUS
<1>4. CASE r = hold(t, n, m, eps, time, past)
  BY <1>4, HoldDelivers
<1>0. SUFFICES ASSUME OverflowPolicy # "None"
               PROVE  Delivers(t, r, n, {m}, {}) /\ r.routing = t.routing /\ r.interest = t.interest
  BY <1>4 DEF put_in_queue
<1>2. Tells(t, room, n) /\ FiniteTopic(room)
  BY <1>0, <1>1, DropOldDelivers, DropOldType
<1>3. room.routing = t.routing /\ room.interest = t.interest
  BY <1>2 DEF Tells
<1>5. CASE r = fail(t, m, "Overflow")
  <2>1. allowed(m, "Overflow")
    BY <1>0 DEF allowed
  <2> QED
    BY <1>5, <2>1, FailDelivers, TellsDelivers
<1>6. CASE r = room
  BY <1>2, <1>6, TellsDelivers
<1>7. CASE r = hold(room, n, m, eps, time, past)
  <2>1. Header[m].target_kind = "Durable" => collect_addr_by_subjects(room, m) \subseteq eps
    BY <1>3 DEF collect_addr_by_subjects
  <2>2. Delivers(room, r, n, {m}, {}) /\ r.routing = room.routing /\ r.interest = room.interest
    BY <1>2, <1>7, <2>1, HoldDelivers
  <2> QED
    BY <1>2, <1>3, <2>2, DeliversAfterTells
<1> QED
  BY <1>1, <1>4, <1>5, <1>6, <1>7 DEF put_in_queue

\* apply_delegate_message: hold_new_message.
LEMMA HoldNewMessageDelivers ==
  ASSUME NEW t, FiniteTopic(t), NEW n \in Node, NEW m \in MessageId, NEW time \in Nat,
         NEW past, NEW r, r = hold_new_message(t, n, m, time, past)
  PROVE  Delivers(t, r, n, {m}, {}) /\ r.routing = t.routing /\ r.interest = t.interest
<1>1. PICK all : all = collect_addr_by_subjects(t, m)
  OBVIOUS
<1>2. PICK kind : kind = Header[m].target_kind
  OBVIOUS
<1>3. kind \in {"Durable", "Online", "Available", "Push"}
  BY <1>2, HeaderAssumption DEF MessageHeader, MessageTargetKind
<1>4. CASE kind = "Available"
  <2>1. r = [t EXCEPT !.panic = TRUE]
    BY <1>2, <1>4 DEF hold_new_message
  <2>2. Tells(t, r, n)
    BY <2>1, PanicDelivers
  <2> QED
    BY <2>2, TellsDelivers
<1>5. CASE kind = "Push" /\ all = {}
  <2>1. r = fail(t, m, "NoAvailableTarget")
    BY <1>1, <1>2, <1>5 DEF hold_new_message
  <2>2. allowed(m, "NoAvailableTarget")
    BY <1>2, <1>5 DEF allowed
  <2> QED
    BY <2>1, <2>2, FailDelivers, TellsDelivers
<1>6. CASE kind = "Push" /\ all # {}
  <2>1. PICK eps : eps = select_ep(m, all)
    OBVIOUS
  <2>2. r = put_in_queue(t, n, m, eps, time, past)
    BY <1>1, <1>2, <1>6, <2>1 DEF hold_new_message
  <2>3. Header[m].target_kind # "Durable"
    BY <1>2, <1>6
  <2> QED
    BY <2>2, <2>3, PutInQueueDelivers
<1>7. CASE kind \in {"Durable", "Online"}
  <2>1. r = put_in_queue(t, n, m, all, time, past)
    BY <1>1, <1>2, <1>7 DEF hold_new_message
  <2> QED
    BY <1>1, <2>1, PutInQueueDelivers
<1> QED
  BY <1>3, <1>4, <1>5, <1>6, <1>7
=============================================================================
