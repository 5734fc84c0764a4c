--------------------------- MODULE AgreementProofs ---------------------------
(***************************************************************************)
(* Theorems about Cluster that relate replicas which have applied          *)
(* different prefixes of the log: they hold the same topic after the same  *)
(* entries, as long as no decision depends on a node's own clock; and in a *)
(* blocking topic the endpoints of all nodes together work on one message. *)
(***************************************************************************)
EXTENDS DeliveryProofs

-----------------------------------------------------------------------------
(* Queues that agree. *)

\* The same statuses, but for what only the host of an endpoint knows.
StatusAgrees(st, su) ==
  \A m \in MessageId, e \in Endpoint : agreed_status(su[m][e]) = agreed_status(st[m][e])

\* The same messages with statuses that agree; the effects may differ.
QueueAgrees(q, r) == SameIndex(q, r) /\ StatusAgrees(q.status, r.status)

\* None of these messages is resolved by its expire time.
Timeless(past) == \A m \in past : Header[m].target_kind # "Durable"

\* To agree is an equivalence.
LEMMA AgreesEquivalence ==
  ASSUME NEW q, NEW r, NEW s
  PROVE  /\ QueueAgrees(q, q)
         /\ QueueAgrees(q, r) => QueueAgrees(r, q)
         /\ QueueAgrees(q, r) /\ QueueAgrees(r, s) => QueueAgrees(q, s)
BY DEF QueueAgrees, SameIndex, StatusAgrees

\* No test of a status tells statuses that agree apart.
LEMMA AgreedTests ==
  ASSUME NEW a, NEW b, agreed_status(a) = agreed_status(b), NEW condition
  PROVE  /\ a = Absent <=> b = Absent
         /\ is_resolved(a, condition) <=> is_resolved(b, condition)
BY DEF agreed_status, Absent, is_resolved, is_failed, is_reached

\* Replicas that agree find the same messages resolved.
LEMMA ResolvedAgrees ==
  ASSUME NEW q, NEW r, QueueAgrees(q, r), NEW m \in MessageId,
         NEW past, NEW gone, Timeless(past), Timeless(gone)
  PROVE  message_is_resolved(q, m, past) <=> message_is_resolved(r, m, gone)
<1>1. \A e \in Endpoint :
        /\ q.status[m][e] = Absent <=> r.status[m][e] = Absent
        /\ is_resolved(q.status[m][e], Header[m].ack_kind)
             <=> is_resolved(r.status[m][e], Header[m].ack_kind)
  BY AgreedTests DEF QueueAgrees, StatusAgrees
<1>2. {e \in Endpoint : q.status[m][e] # Absent} = {e \in Endpoint : r.status[m][e] # Absent}
  BY <1>1
<1>3. Header[m].target_kind = "Durable" => m \notin past /\ m \notin gone
  BY DEF Timeless
<1> QED
  BY <1>1, <1>2, <1>3 DEF message_is_resolved

\* Sending to the endpoints of a replica changes nothing that replicas agree on.
LEMMA SendUnsentAgrees ==
  ASSUME NEW q, FiniteQueue(q), NEW ms \in SUBSET MessageId, NEW eps \in SUBSET Endpoint
  PROVE  QueueAgrees(q, send_unsent(q, ms, eps))
<1>1. SentTo(q, send_unsent(q, ms, eps), ms, eps)
  BY SendUnsentStatus
<1>2. SameIndex(q, send_unsent(q, ms, eps))
  BY SendUnsentType
<1>3. StatusAgrees(q.status, send_unsent(q, ms, eps).status)
  BY <1>1 DEF SentTo, StatusAgrees, agreed_status
<1> QED
  BY <1>2, <1>3 DEF QueueAgrees

\* Taking out the same messages keeps the agreement.
LEMMA DiscardAgrees ==
  ASSUME NEW q, NEW r, FiniteQueue(q), FiniteQueue(r), QueueAgrees(q, r), NEW entries,
         NEW ms \in SUBSET MessageId, NEW count \in Int
  PROVE  QueueAgrees(discard(q, entries, ms, count), discard(r, entries, ms, count))
<1> DEFINE dq == discard(q, entries, ms, count)
           dr == discard(r, entries, ms, count)
<1>1. Discarded(q, dq, entries, ms, count) /\ Discarded(r, dr, entries, ms, count)
  BY DiscardType
<1>2. Without(q, dq, ms) /\ Without(r, dr, ms)
  BY DiscardStatus
<1> HIDE DEF dq, dr
<1>3. StatusAgrees(dq.status, dr.status)
  BY <1>2 DEF StatusAgrees, QueueAgrees, Without
<1>4. dq.id_time = dr.id_time
  <2>1. \A m \in MessageId : dq.id_time[m] = dr.id_time[m]
    BY <1>1 DEF Discarded, QueueAgrees, SameIndex
  <2>2. dq.id_time \in [MessageId -> Nat] /\ dr.id_time \in [MessageId -> Nat]
    BY <1>1 DEF Discarded, FiniteQueue, Queue
  <2> QED
    BY <2>1, <2>2
<1>5. SameIndex(dq, dr)
  BY <1>1, <1>4 DEF Discarded, QueueAgrees, SameIndex
<1> QED
  BY <1>3, <1>5 DEF QueueAgrees, dq, dr

\* Telling senders changes nothing that replicas agree on.
LEMMA ResolveAckAgrees ==
  ASSUME NEW q, FiniteQueue(q), NEW results
  PROVE  QueueAgrees(q, resolve_ack(q, results))
BY DEF resolve_ack, FiniteQueue, Queue, QueueAgrees, SameIndex, StatusAgrees

\* Sending, taking out and telling, on two replicas that agree.
LEMMA LeaveAgrees ==
  ASSUME NEW q, NEW r, FiniteQueue(q), FiniteQueue(r), QueueAgrees(q, r),
         NEW ms \in SUBSET MessageId, NEW ns \in SUBSET MessageId,
         NEW eps \in SUBSET Endpoint, NEW fps \in SUBSET Endpoint,
         NEW entries, NEW out \in SUBSET MessageId, NEW count \in Int, NEW results, NEW told
  PROVE  QueueAgrees(resolve_ack(discard(send_unsent(q, ms, eps), entries, out, count), results),
                     resolve_ack(discard(send_unsent(r, ns, fps), entries, out, count), told))
<1> DEFINE sq == send_unsent(q, ms, eps)
           sr == send_unsent(r, ns, fps)
           dq == discard(sq, entries, out, count)
           dr == discard(sr, entries, out, count)
<1>1. FiniteQueue(sq) /\ FiniteQueue(sr)
  BY SendUnsentType
<1>2. QueueAgrees(q, sq) /\ QueueAgrees(r, sr)
  BY SendUnsentAgrees
<1> HIDE DEF sq, sr
<1>3. QueueAgrees(sq, sr)
  <2>1. QueueAgrees(sq, q)
    BY <1>2, AgreesEquivalence
  <2>2. QueueAgrees(sq, r)
    BY <2>1, AgreesEquivalence
  <2> QED
    BY <1>2, <2>2, AgreesEquivalence
<1>4. FiniteQueue(dq) /\ FiniteQueue(dr)
  BY <1>1, DiscardType DEF Discarded
<1>5. QueueAgrees(dq, dr)
  BY <1>1, <1>3, DiscardAgrees
<1> HIDE DEF dq, dr
<1>6. QueueAgrees(dq, resolve_ack(dq, results)) /\ QueueAgrees(dr, resolve_ack(dr, told))
  BY <1>4, ResolveAckAgrees
<1>7. QueueAgrees(resolve_ack(dq, results), dr)
  BY <1>5, <1>6, AgreesEquivalence
<1>8. QueueAgrees(resolve_ack(dq, results), resolve_ack(dr, told))
  BY <1>6, <1>7, AgreesEquivalence
<1> QED
  BY <1>8 DEF dq, dr, sq, sr

\* Polling the same messages of a blocking queue keeps the agreement, whatever
\* endpoints the replicas reach.
LEMMA FlushBlockingAgrees ==
  ASSUME NEW q, NEW r, FiniteQueue(q), FiniteQueue(r), QueueAgrees(q, r),
         NEW eps \in SUBSET Endpoint, NEW fps \in SUBSET Endpoint,
         NEW past, NEW gone, Timeless(past), Timeless(gone)
  PROVE  QueueAgrees(flush_blocking(q, eps, past), flush_blocking(r, fps, gone))
<1>0. \A p \in q.time_id : p[2] \in MessageId
  BY DEF FiniteQueue, Queue
<1>1. \A m \in MessageId : message_is_resolved(q, m, past) <=> message_is_resolved(r, m, gone)
  BY ResolvedAgrees
<1>2. r.time_id = q.time_id /\ r.held = q.held
  BY DEF QueueAgrees, SameIndex
<1>3. \A p \in q.time_id : poppable(q, p, past) <=> poppable(r, p, gone)
  BY <1>0, <1>1, <1>2 DEF poppable
<1>4. popped(q, past) = popped(r, gone)
  BY <1>2, <1>3 DEF popped
<1> DEFINE out  == popped(q, past)
           next == (ids(first(q.time_id \ out)) \cap q.held) \ ids(out)
           sq == send_unsent(q, ids(out) \cup next, eps)
           sr == send_unsent(r, ids(out) \cup next, fps)
<1>5. flush_blocking(q, eps, past)
        = resolve_ack(discard(sq, out, ids(out), Cardinality(out)),
                      {resolve(sq, m) : m \in ids(out)})
  BY DEF flush_blocking
<1>6. flush_blocking(r, fps, gone)
        = resolve_ack(discard(sr, out, ids(out), Cardinality(out)),
                      {resolve(sr, m) : m \in ids(out)})
  BY <1>2, <1>4 DEF flush_blocking
<1>7. out \in SUBSET q.time_id
  BY DEF popped
<1>8. ids(out) \in SUBSET MessageId
  BY <1>7, IdsType
<1>9. ids(out) \cup next \in SUBSET MessageId
  BY <1>8 DEF FiniteQueue, Queue
<1>10. Cardinality(out) \in Int
  BY <1>7, FS_Subset, FS_CardinalityType DEF FiniteQueue
<1> HIDE DEF out, next
<1>11. QueueAgrees(resolve_ack(discard(sq, out, ids(out), Cardinality(out)),
                               {resolve(sq, m) : m \in ids(out)}),
                   resolve_ack(discard(sr, out, ids(out), Cardinality(out)),
                               {resolve(sr, m) : m \in ids(out)}))
  BY <1>8, <1>9, <1>10, LeaveAgrees
<1> QED
  BY <1>5, <1>6, <1>11

\* The same of a queue that does not block.
LEMMA FlushNonblockingAgrees ==
  ASSUME NEW q, NEW r, FiniteQueue(q), FiniteQueue(r), QueueAgrees(q, r),
         NEW ms \in SUBSET MessageId,
         NEW eps \in SUBSET Endpoint, NEW fps \in SUBSET Endpoint,
         NEW past, NEW gone, Timeless(past), Timeless(gone)
  PROVE  QueueAgrees(flush_nonblocking(q, ms, eps, past), flush_nonblocking(r, ms, fps, gone))
<1> DEFINE polled == ms \cap q.held
           sq == send_unsent(q, polled, eps)
           sr == send_unsent(r, polled, fps)
           out == {m \in polled : message_is_resolved(sq, m, past)}
<1>1. SameIndex(q, r)
  BY DEF QueueAgrees
<1>2. polled = ms \cap r.held /\ polled \in SUBSET MessageId /\ out \in SUBSET MessageId
  BY <1>1 DEF SameIndex
<1>3. \A m \in MessageId : message_is_resolved(q, m, past) <=> message_is_resolved(r, m, gone)
  BY ResolvedAgrees
<1>4. \A m \in MessageId : message_is_resolved(sq, m, past) <=> message_is_resolved(sr, m, gone)
  BY <1>2, <1>3, SendUnsentResolved
<1>5. out = {m \in polled : message_is_resolved(sr, m, gone)}
  BY <1>2, <1>4
<1>6. SameIndex(q, sq) /\ SameIndex(r, sr)
  BY <1>2, SendUnsentType
<1> DEFINE entries == {p \in q.time_id : \E m \in out : p[1] = q.id_time[m]}
<1>7. flush_nonblocking(q, ms, eps, past)
        = resolve_ack(remove(sq, out), {resolve(sq, m) : m \in out})
  BY DEF flush_nonblocking
<1>8. flush_nonblocking(r, ms, fps, gone)
        = resolve_ack(remove(sr, out), {resolve(sr, m) : m \in out})
  BY <1>2, <1>5 DEF flush_nonblocking
<1>9. Cardinality(out) \in Int
  BY <1>2, FiniteAssumption, FS_Subset, FS_CardinalityType
<1>10. sq = send_unsent(q, polled, eps) /\ sr = send_unsent(r, polled, fps)
  OBVIOUS
<1> HIDE DEF polled, out, sq, sr
<1>11. /\ remove(sq, out) = discard(sq, entries, out, Cardinality(out))
       /\ remove(sr, out) = discard(sr, entries, out, Cardinality(out))
  BY <1>1, <1>6 DEF remove, SameIndex
<1> HIDE DEF entries
<1> QED
  BY <1>2, <1>7, <1>8, <1>9, <1>10, <1>11, LeaveAgrees

\* Polling keeps the agreement.
LEMMA PollAndFlushAgrees ==
  ASSUME NEW q, NEW r, FiniteQueue(q), FiniteQueue(r), QueueAgrees(q, r),
         NEW ms \in SUBSET MessageId,
         NEW eps \in SUBSET Endpoint, NEW fps \in SUBSET Endpoint,
         NEW past, NEW gone, Timeless(past), Timeless(gone)
  PROVE  QueueAgrees(poll_and_flush(q, ms, eps, past), poll_and_flush(r, ms, fps, gone))
<1>1. get_front(q) = get_front(r)
  BY DEF get_front, QueueAgrees, SameIndex
<1> QED
  BY <1>1, FlushBlockingAgrees, FlushNonblockingAgrees DEF poll_and_flush

-----------------------------------------------------------------------------
(* Topics that agree. *)

\* The same routes and interests, and queues that agree.
TopicAgrees(t, u) ==
  /\ u.routing = t.routing
  /\ u.interest = t.interest
  /\ u.panic = t.panic
  /\ QueueAgrees(t.queue, u.queue)

\* Other queues that agree, in topics that agree.
LEMMA WithQueueAgrees ==
  ASSUME NEW t, NEW u, FiniteTopic(t), FiniteTopic(u), TopicAgrees(t, u), NEW q, NEW r,
         FiniteQueue(q), FiniteQueue(r), QueueAgrees(q, r)
  PROVE  TopicAgrees([t EXCEPT !.queue = q], [u EXCEPT !.queue = r])
<1>1. t \in Topic /\ u \in Topic
  BY DEF FiniteTopic
<1>2. /\ [t EXCEPT !.queue = q].interest = t.interest
      /\ [u EXCEPT !.queue = r].interest = u.interest
  BY <1>1 DEF Topic
<1> QED
  BY <1>2, WithQueueType DEF TopicAgrees

\* Polling keeps the agreement of replicas, whatever endpoints they host.
LEMMA UpdateAndFlushAgrees ==
  ASSUME NEW t, NEW u, FiniteTopic(t), FiniteTopic(u), TopicAgrees(t, u),
         NEW n \in Node, NEW k \in Node, NEW ms \in SUBSET MessageId,
         NEW past, NEW gone, Timeless(past), Timeless(gone)
  PROVE  TopicAgrees(update_and_flush(t, n, ms, past), update_and_flush(u, k, ms, gone))
<1> DEFINE q == poll_and_flush(t.queue, ms, t.routing[n], past)
           r == poll_and_flush(u.queue, ms, u.routing[k], gone)
<1>1. /\ t.routing[n] \in SUBSET Endpoint /\ u.routing[k] \in SUBSET Endpoint
      /\ FiniteQueue(t.queue) /\ FiniteQueue(u.queue)
  BY DEF FiniteTopic, Topic
<1>2. FiniteQueue(q) /\ FiniteQueue(r)
  BY <1>1, PollAndFlushType
<1>3. QueueAgrees(q, r)
  BY <1>1, PollAndFlushAgrees DEF TopicAgrees
<1> HIDE DEF q, r
<1>4. TopicAgrees([t EXCEPT !.queue = q], [u EXCEPT !.queue = r])
  BY <1>2, <1>3, WithQueueAgrees
<1> QED
  BY <1>4 DEF update_and_flush, q, r

\* The same operation on two replicas, which write statuses that agree.
LEMMA OperatesAgrees ==
  ASSUME NEW t, NEW u, FiniteTopic(t), FiniteTopic(u), TopicAgrees(t, u), NEW r, NEW v,
         NEW n \in Node, NEW k \in Node, NEW routing, NEW interest, NEW st, NEW su, NEW ms,
         NEW past, NEW gone, Timeless(past), Timeless(gone), StatusAgrees(st, su),
         Operates(t, r, n, routing, interest, st, ms, past),
         Operates(u, v, k, routing, interest, su, ms, gone)
  PROVE  TopicAgrees(r, v)
<1>1. PICK a : a = WithParts(t, routing, interest, st)
  OBVIOUS
<1>2. PICK b : b = WithParts(u, routing, interest, su)
  OBVIOUS
<1>3. SameQueue(t, a) /\ SameQueue(u, b)
  BY <1>1, <1>2, StatusChange DEF Operates
<1>4. /\ a.routing = routing /\ a.interest = interest /\ a.queue.status = st
      /\ b.routing = routing /\ b.interest = interest /\ b.queue.status = su
  BY <1>1, <1>2 DEF WithParts, FiniteTopic, FiniteQueue, Topic, Queue
<1>5. SameIndex(a.queue, b.queue)
  BY <1>3 DEF SameQueue, SameIndex, TopicAgrees, QueueAgrees
<1>6. TopicAgrees(a, b)
  BY <1>3, <1>4, <1>5 DEF TopicAgrees, QueueAgrees, SameQueue
<1>7. /\ r = update_and_flush(a, n, ms, past) /\ v = update_and_flush(b, k, ms, gone)
      /\ ms \in SUBSET MessageId
  BY <1>1, <1>2 DEF Operates
<1> QED
  BY <1>3, <1>6, <1>7, UpdateAndFlushAgrees DEF SameQueue

\* What two replicas that agree have the same.
LEMMA AgreedParts ==
  ASSUME NEW t, NEW u, TopicAgrees(t, u)
  PROVE  /\ u.routing = t.routing /\ u.interest = t.interest
         /\ u.queue.held = t.queue.held
         /\ StatusAgrees(t.queue.status, u.queue.status)
         /\ \A m \in MessageId, e \in Endpoint :
              t.queue.status[m][e] = Absent <=> u.queue.status[m][e] = Absent
         /\ \A interests : durable_about(u, interests) = durable_about(t, interests)
<1>1. u.queue.held = t.queue.held /\ StatusAgrees(t.queue.status, u.queue.status)
  BY DEF TopicAgrees, QueueAgrees, SameIndex
<1>2. \A m \in MessageId, e \in Endpoint :
        t.queue.status[m][e] = Absent <=> u.queue.status[m][e] = Absent
  BY <1>1, AgreedTests DEF StatusAgrees
<1> QED
  BY <1>1, <1>2 DEF TopicAgrees, durable_about

\* Offering the same messages to an endpoint, or losing them, keeps the agreement.
LEMMA EditAgrees ==
  ASSUME NEW st \in [MessageId -> StatusMap], NEW su \in [MessageId -> StatusMap],
         StatusAgrees(st, su), NEW e \in Endpoint, NEW ms
  PROVE  /\ StatusAgrees(offered_to(st, e, ms), offered_to(su, e, ms))
         /\ StatusAgrees(lost_by(st, e, ms), lost_by(su, e, ms))
<1> USE DEF StatusMap
<1>1. \A m \in MessageId, f \in Endpoint : st[m][f] = Absent <=> su[m][f] = Absent
  BY AgreedTests DEF StatusAgrees
<1>2. \A m \in MessageId, f \in Endpoint :
        /\ offered_to(st, e, ms)[m][f] =
             IF m \in ms /\ st[m][e] = Absent /\ f = e THEN "Unsent" ELSE st[m][f]
        /\ offered_to(su, e, ms)[m][f] =
             IF m \in ms /\ su[m][e] = Absent /\ f = e THEN "Unsent" ELSE su[m][f]
  BY DEF offered_to
<1>3. \A m \in MessageId, f \in Endpoint :
        /\ lost_by(st, e, ms)[m][f] = IF m \in ms /\ f = e THEN "Unreachable" ELSE st[m][f]
        /\ lost_by(su, e, ms)[m][f] = IF m \in ms /\ f = e THEN "Unreachable" ELSE su[m][f]
  BY DEF lost_by
<1> QED
  BY <1>1, <1>2, <1>3 DEF StatusAgrees

\* The statuses of a topic are status maps.
LEMMA StatusesType ==
  ASSUME NEW t, FiniteTopic(t)
  PROVE  t.queue.status \in [MessageId -> StatusMap]
BY DEF FiniteTopic, FiniteQueue, Queue

\* apply_set_state keeps the agreement.
LEMMA SetStateAgrees ==
  ASSUME NEW t, NEW u, FiniteTopic(t), FiniteTopic(u), TopicAgrees(t, u),
         NEW n \in Node, NEW k \in Node, NEW past, NEW gone, Timeless(past), Timeless(gone),
         NEW m \in MessageId, NEW e \in Endpoint, NEW kind \in MessageStatusKind
  PROVE  TopicAgrees(set_state(t, n, m, e, kind, past), set_state(u, k, m, e, kind, gone))
<1> DEFINE st == acked_by(t.queue, m, e, kind)
           su == acked_by(u.queue, m, e, kind)
<1>1. Operates(t, set_state(t, n, m, e, kind, past), n, t.routing, t.interest, st, {m}, past)
  BY SetStateOperates
<1>2. Operates(u, set_state(u, k, m, e, kind, gone), k, u.routing, u.interest, su, {m}, gone)
  BY SetStateOperates
<1>3. StatusAgrees(st, su)
  <2>1. /\ t.queue.status \in [MessageId -> [Endpoint -> MessageStatusKind \cup {Absent}]]
        /\ u.queue.status \in [MessageId -> [Endpoint -> MessageStatusKind \cup {Absent}]]
    BY StatusesType DEF StatusMap
  <2>2. agreed_status(u.queue.status[m][e]) = agreed_status(t.queue.status[m][e])
    BY AgreedParts DEF StatusAgrees
  <2>3. is_resolved(t.queue.status[m][e], Header[m].ack_kind)
          <=> is_resolved(u.queue.status[m][e], Header[m].ack_kind)
    BY <2>2, AgreedTests
  <2>4. CASE m \in t.queue.held /\ ~is_resolved(t.queue.status[m][e], Header[m].ack_kind)
    <3>1. /\ st = [t.queue.status EXCEPT ![m][e] = kind]
          /\ su = [u.queue.status EXCEPT ![m][e] = kind]
      BY <2>3, <2>4, AgreedParts DEF acked_by
    <3> HIDE DEF st, su
    <3> QED
      BY <2>1, <3>1, AgreedParts DEF StatusAgrees
  <2>5. CASE ~(m \in t.queue.held /\ ~is_resolved(t.queue.status[m][e], Header[m].ack_kind))
    BY <2>3, <2>5, AgreedParts DEF acked_by
  <2> QED
    BY <2>4, <2>5
<1>4. u.routing = t.routing /\ u.interest = t.interest
  BY DEF TopicAgrees
<1> HIDE DEF st, su
<1> QED
  BY <1>1, <1>2, <1>3, <1>4, OperatesAgrees

\* apply_ep_interest keeps the agreement.
LEMMA EpInterestAgrees ==
  ASSUME NEW t, NEW u, FiniteTopic(t), FiniteTopic(u), TopicAgrees(t, u),
         NEW n \in Node, NEW k \in Node, NEW past, NEW gone, Timeless(past), Timeless(gone),
         NEW e \in Endpoint, NEW interests \in SUBSET Subject
  PROVE  TopicAgrees(update_ep_interest(t, n, e, interests, past),
                     update_ep_interest(u, k, e, interests, gone))
<1>1. PICK ms : ms = durable_about(t, interests)
  OBVIOUS
<1>2. ms = durable_about(u, interests) /\ u.routing = t.routing /\ u.interest = t.interest
  BY <1>1, AgreedParts
<1>3. Operates(t, update_ep_interest(t, n, e, interests, past), n, t.routing,
               [t.interest EXCEPT ![e] = interests],
               offered_to(t.queue.status, e, ms), ms, past)
  BY <1>1, EpInterestOperates
<1>4. Operates(u, update_ep_interest(u, k, e, interests, gone), k, t.routing,
               [t.interest EXCEPT ![e] = interests],
               offered_to(u.queue.status, e, ms), ms, gone)
  BY <1>2, EpInterestOperates
<1>5. StatusAgrees(offered_to(t.queue.status, e, ms), offered_to(u.queue.status, e, ms))
  BY AgreedParts, StatusesType, EditAgrees
<1> QED
  BY <1>3, <1>4, <1>5, OperatesAgrees

\* apply_ep_online keeps the agreement.
LEMMA EpOnlineAgrees ==
  ASSUME NEW t, NEW u, FiniteTopic(t), FiniteTopic(u), TopicAgrees(t, u),
         NEW n \in Node, NEW k \in Node, NEW past, NEW gone, Timeless(past), Timeless(gone),
         NEW e \in Endpoint, NEW interests \in SUBSET Subject, NEW host \in Node
  PROVE  TopicAgrees(ep_online(t, n, e, interests, host, past),
                     ep_online(u, k, e, interests, host, gone))
<1>1. PICK ms : ms = {m \in durable_about(t, t.interest[e] \cup interests) :
                        t.queue.status[m][e] = Absent}
  OBVIOUS
<1>2. /\ durable_about(t, t.interest[e] \cup interests)
           = durable_about(u, u.interest[e] \cup interests)
      /\ durable_about(t, t.interest[e] \cup interests) \subseteq MessageId
      /\ u.routing = t.routing /\ u.interest = t.interest
  <2>1. u.routing = t.routing /\ u.interest = t.interest
    BY AgreedParts
  <2>2. \A i : durable_about(u, i) = durable_about(t, i)
    BY AgreedParts
  <2>3. durable_about(t, t.interest[e] \cup interests) \subseteq MessageId
    BY DEF durable_about, FiniteTopic, FiniteQueue, Queue
  <2> QED
    BY <2>1, <2>2, <2>3
<1>3. ms = {m \in durable_about(u, u.interest[e] \cup interests) :
              u.queue.status[m][e] = Absent}
  <2>1. \A m \in MessageId : t.queue.status[m][e] = Absent <=> u.queue.status[m][e] = Absent
    BY AgreedParts
  <2> QED
    BY <1>1, <1>2, <2>1
<1>4. Operates(t, ep_online(t, n, e, interests, host, past), n,
               [t.routing EXCEPT ![host] = @ \cup {e}],
               [t.interest EXCEPT ![e] = @ \cup interests],
               offered_to(t.queue.status, e, ms), ms, past)
  BY <1>1, EpOnlineOperates
<1>5. Operates(u, ep_online(u, k, e, interests, host, gone), k,
               [t.routing EXCEPT ![host] = @ \cup {e}],
               [t.interest EXCEPT ![e] = @ \cup interests],
               offered_to(u.queue.status, e, ms), ms, gone)
  BY <1>2, <1>3, EpOnlineOperates
<1>6. StatusAgrees(offered_to(t.queue.status, e, ms), offered_to(u.queue.status, e, ms))
  BY AgreedParts, StatusesType, EditAgrees
<1> QED
  BY <1>4, <1>5, <1>6, OperatesAgrees

\* apply_ep_offline keeps the agreement.
LEMMA EpOfflineAgrees ==
  ASSUME NEW t, NEW u, FiniteTopic(t), FiniteTopic(u), TopicAgrees(t, u),
         NEW n \in Node, NEW k \in Node, NEW past, NEW gone, Timeless(past), Timeless(gone),
         NEW e \in Endpoint, NEW host \in Node
  PROVE  TopicAgrees(ep_offline(t, n, host, e, past), ep_offline(u, k, host, e, gone))
<1>1. PICK ms : ms = {m \in t.queue.held : t.queue.status[m][e] # Absent}
  OBVIOUS
<1>2. t.queue.held \subseteq MessageId /\ u.routing = t.routing /\ u.interest = t.interest
  BY AgreedParts DEF FiniteTopic, FiniteQueue, Queue
<1>3. ms = {m \in u.queue.held : u.queue.status[m][e] # Absent}
  <2>1. \A m \in MessageId : t.queue.status[m][e] = Absent <=> u.queue.status[m][e] = Absent
    BY AgreedParts
  <2>2. u.queue.held = t.queue.held
    BY AgreedParts
  <2> QED
    BY <1>1, <1>2, <2>1, <2>2
<1>4. Operates(t, ep_offline(t, n, host, e, past), n,
               [t.routing EXCEPT ![host] = @ \ {e}], [t.interest EXCEPT ![e] = {}],
               lost_by(t.queue.status, e, ms), ms, past)
  BY <1>1, EpOfflineOperates
<1>5. Operates(u, ep_offline(u, k, host, e, gone), k,
               [t.routing EXCEPT ![host] = @ \ {e}], [t.interest EXCEPT ![e] = {}],
               lost_by(u.queue.status, e, ms), ms, gone)
  BY <1>2, <1>3, EpOfflineOperates
<1>6. StatusAgrees(lost_by(t.queue.status, e, ms), lost_by(u.queue.status, e, ms))
  BY AgreedParts, StatusesType, EditAgrees
<1> QED
  BY <1>4, <1>5, <1>6, OperatesAgrees

\* push keeps the agreement.
LEMMA PushAgrees ==
  ASSUME NEW q, NEW r, FiniteQueue(q), FiniteQueue(r), QueueAgrees(q, r),
         NEW m \in MessageId, NEW st \in StatusMap, NEW time \in Nat
  PROVE  QueueAgrees(push(q, m, st, time), push(r, m, st, time))
<1> DEFINE pq == push(q, m, st, time)
           pr == push(r, m, st, time)
<1>1. Pushed(q, pq, m, time) /\ Pushed(r, pr, m, time)
  BY PushType
<1>2. pq.status = [q.status EXCEPT ![m] = st] /\ pr.status = [r.status EXCEPT ![m] = st]
  BY DEF push, FiniteQueue, Queue
<1> HIDE DEF pq, pr
<1>3. pq.id_time = pr.id_time
  <2>1. \A k \in MessageId : pq.id_time[k] = pr.id_time[k]
    BY <1>1 DEF Pushed, QueueAgrees, SameIndex
  <2>2. pq.id_time \in [MessageId -> Nat] /\ pr.id_time \in [MessageId -> Nat]
    BY <1>1 DEF Pushed, FiniteQueue, Queue
  <2> QED
    BY <2>1, <2>2
<1>4. SameIndex(pq, pr)
  BY <1>1, <1>3 DEF Pushed, QueueAgrees, SameIndex
<1>5. StatusAgrees(pq.status, pr.status)
  <2>1. q.status \in [MessageId -> StatusMap] /\ r.status \in [MessageId -> StatusMap]
    BY DEF FiniteQueue, Queue
  <2> QED
    BY <1>2, <2>1 DEF StatusAgrees, QueueAgrees
<1> QED
  BY <1>4, <1>5 DEF QueueAgrees, pq, pr

\* A new message enters queues that agree.
LEMMA HoldAgrees ==
  ASSUME NEW t, NEW u, FiniteTopic(t), FiniteTopic(u), TopicAgrees(t, u),
         NEW n \in Node, NEW k \in Node, NEW past, NEW gone, Timeless(past), Timeless(gone),
         NEW m \in MessageId, NEW eps, NEW time \in Nat
  PROVE  TopicAgrees(hold(t, n, m, eps, time, past), hold(u, k, m, eps, time, gone))
<1> DEFINE q == push(t.queue, m, wait_ack(eps), time)
           r == push(u.queue, m, wait_ack(eps), time)
           a == [t EXCEPT !.queue = q]
           b == [u EXCEPT !.queue = r]
<1>1. FiniteQueue(t.queue) /\ FiniteQueue(u.queue) /\ wait_ack(eps) \in StatusMap
  BY WaitAckType DEF FiniteTopic
<1>2. FiniteQueue(q) /\ FiniteQueue(r)
  BY <1>1, PushType DEF Pushed
<1>3. QueueAgrees(q, r)
  BY <1>1, PushAgrees DEF TopicAgrees
<1> HIDE DEF q, r
<1>4. FiniteTopic(a) /\ FiniteTopic(b) /\ TopicAgrees(a, b)
  BY <1>2, <1>3, WithQueueType, WithQueueAgrees
<1> HIDE DEF a, b
<1>5. TopicAgrees(update_and_flush(a, n, {m}, past), update_and_flush(b, k, {m}, gone))
  BY <1>4, UpdateAndFlushAgrees
<1> QED
  BY <1>5 DEF hold, a, b, q, r

\* Making room in queues that agree.
LEMMA DropOldAgrees ==
  ASSUME NEW t, NEW u, FiniteTopic(t), FiniteTopic(u), TopicAgrees(t, u)
  PROVE  TopicAgrees(drop_old(t), drop_old(u))
<1>1. /\ FiniteQueue(t.queue) /\ FiniteQueue(u.queue)
      /\ t \in Topic /\ u \in Topic
      /\ u.queue.time_id = t.queue.time_id /\ u.queue.held = t.queue.held
  BY DEF FiniteTopic, TopicAgrees, QueueAgrees, SameIndex
<1>2. get_front(u.queue) = get_front(t.queue)
  BY <1>1 DEF get_front
<1>3. CASE get_front(t.queue) = {}
  <2>1. drop_old(t) = [t EXCEPT !.panic = TRUE] /\ drop_old(u) = [u EXCEPT !.panic = TRUE]
    BY <1>2, <1>3 DEF drop_old
  <2> QED
    BY <1>1, <2>1 DEF TopicAgrees, Topic
<1>4. CASE get_front(t.queue) # {}
  <2> DEFINE front == first(t.queue.time_id)
             told == {exception(m, "Overflow") : m \in get_front(t.queue)}
             q == resolve_ack(pop(t.queue), told)
             r == resolve_ack(pop(u.queue), told)
  <2>1. drop_old(t) = [t EXCEPT !.queue = q] /\ drop_old(u) = [u EXCEPT !.queue = r]
    BY <1>2, <1>4 DEF drop_old
  <2>2. /\ pop(t.queue) = discard(t.queue, front, ids(front), Cardinality(front))
        /\ pop(u.queue) = discard(u.queue, front, ids(front), Cardinality(front))
    BY <1>1 DEF pop
  <2>3. front \in SUBSET t.queue.time_id
    BY DEF first
  <2>4. ids(front) \in SUBSET MessageId /\ Cardinality(front) \in Int
    BY <1>1, <2>3, IdsType, FS_Subset, FS_CardinalityType DEF FiniteQueue
  <2>5. QueueAgrees(pop(t.queue), pop(u.queue))
    BY <1>1, <2>2, <2>4, DiscardAgrees DEF TopicAgrees
  <2>6. FiniteQueue(pop(t.queue)) /\ FiniteQueue(pop(u.queue))
    BY <1>1, PopType DEF Discarded
  <2>7. told \in SUBSET WaitAckResult
    BY <1>1, ExceptionType DEF get_front, FiniteQueue, Queue
  <2>8. FiniteQueue(q) /\ FiniteQueue(r)
    BY <2>6, <2>7, ResolveAckType
  <2>9. QueueAgrees(q, r)
    <3>1. QueueAgrees(pop(t.queue), q) /\ QueueAgrees(pop(u.queue), r)
      BY <2>6, ResolveAckAgrees
    <3> HIDE DEF q, r
    <3>2. QueueAgrees(q, pop(u.queue))
      BY <2>5, <3>1, AgreesEquivalence
    <3> QED
      BY <3>1, <3>2, AgreesEquivalence
  <2> HIDE DEF q, r
  <2> QED
    BY <2>1, <2>8, <2>9, WithQueueAgrees
<1> QED
  BY <1>3, <1>4

\* The early returns of hold_new_message change nothing replicas agree on.
LEMMA FailAgrees ==
  ASSUME NEW t, NEW u, FiniteTopic(t), FiniteTopic(u), TopicAgrees(t, u),
         NEW m \in MessageId, NEW why \in {"Overflow", "NoAvailableTarget"}
  PROVE  TopicAgrees(fail(t, m, why), fail(u, m, why))
<1> DEFINE q == resolve_ack(t.queue, {exception(m, why)})
           r == resolve_ack(u.queue, {exception(m, why)})
<1>1. FiniteQueue(t.queue) /\ FiniteQueue(u.queue) /\ QueueAgrees(t.queue, u.queue)
  BY DEF FiniteTopic, TopicAgrees
<1>2. {exception(m, why)} \in SUBSET WaitAckResult
  BY ExceptionType
<1>3. FiniteQueue(q) /\ FiniteQueue(r)
  BY <1>1, <1>2, ResolveAckType
<1>4. QueueAgrees(t.queue, q) /\ QueueAgrees(u.queue, r)
  BY <1>1, ResolveAckAgrees
<1> HIDE DEF q, r
<1>5. QueueAgrees(q, u.queue)
  BY <1>1, <1>4, AgreesEquivalence
<1>6. QueueAgrees(q, r)
  BY <1>4, <1>5, AgreesEquivalence
<1>7. TopicAgrees([t EXCEPT !.queue = q], [u EXCEPT !.queue = r])
  BY <1>3, <1>6, WithQueueAgrees
<1> QED
  BY <1>7 DEF fail, q, r

\* The overflow policy decides alike on replicas that agree.
LEMMA PutInQueueAgrees ==
  ASSUME NEW t, NEW u, FiniteTopic(t), FiniteTopic(u), TopicAgrees(t, u),
         NEW n \in Node, NEW k \in Node, NEW past, NEW gone, Timeless(past), Timeless(gone),
         NEW m \in MessageId, NEW eps, NEW time \in Nat
  PROVE  TopicAgrees(put_in_queue(t, n, m, eps, time, past),
                     put_in_queue(u, k, m, eps, time, gone))
<1>1. u.queue.size = t.queue.size
  BY DEF TopicAgrees, QueueAgrees, SameIndex
<1>2. TopicAgrees(hold(t, n, m, eps, time, past), hold(u, k, m, eps, time, gone))
  BY HoldAgrees
<1>3. TopicAgrees(fail(t, m, "Overflow"), fail(u, m, "Overflow"))
  BY FailAgrees
<1>4. PICK a : a = drop_old(t)
  OBVIOUS
<1>5. PICK b : b = drop_old(u)
  OBVIOUS
<1>6. FiniteTopic(a) /\ FiniteTopic(b) /\ TopicAgrees(a, b)
  BY <1>4, <1>5, DropOldType, DropOldAgrees
<1>7. TopicAgrees(hold(a, n, m, eps, time, past), hold(b, k, m, eps, time, gone))
  BY <1>6, HoldAgrees
<1>8. a.panic = b.panic
  BY <1>6 DEF TopicAgrees
<1> QED
  BY <1>1, <1>2, <1>3, <1>4, <1>5, <1>6, <1>7, <1>8 DEF put_in_queue

\* apply_delegate_message keeps the agreement when the replicas read the same time.
LEMMA HoldNewMessageAgrees ==
  ASSUME NEW t, NEW u, FiniteTopic(t), FiniteTopic(u), TopicAgrees(t, u),
         NEW n \in Node, NEW k \in Node, NEW past, NEW gone, Timeless(past), Timeless(gone),
         NEW m \in MessageId, NEW time \in Nat
  PROVE  TopicAgrees(hold_new_message(t, n, m, time, past), hold_new_message(u, k, m, time, gone))
<1> DEFINE all == collect_addr_by_subjects(t, m)
<1>1. collect_addr_by_subjects(u, m) = all
  BY DEF collect_addr_by_subjects, TopicAgrees
<1>2. TopicAgrees([t EXCEPT !.panic = TRUE], [u EXCEPT !.panic = TRUE])
  BY DEF TopicAgrees, FiniteTopic, Topic
<1>3. TopicAgrees(fail(t, m, "NoAvailableTarget"), fail(u, m, "NoAvailableTarget"))
  BY FailAgrees
<1>4. \A eps : TopicAgrees(put_in_queue(t, n, m, eps, time, past),
                           put_in_queue(u, k, m, eps, time, gone))
  BY PutInQueueAgrees
<1>5. Header[m].target_kind \in {"Durable", "Online", "Push", "Available"}
  BY HeaderAssumption DEF MessageHeader, MessageTargetKind
<1> HIDE DEF all
<1>6. all = collect_addr_by_subjects(t, m)
  BY DEF all
<1> QED
  BY <1>1, <1>2, <1>3, <1>4, <1>5, <1>6 DEF hold_new_message

-----------------------------------------------------------------------------
(* Entries of the log. *)

\* No decision depends on the clock of the replica that makes it: clocks advance
\* evenly, and a message whose expire time passes is not a durable one.
ClocksAgree ==
  /\ \E step : ClockStep = {step}
  /\ Timeless(ExpireIds)

\* The topic that replica n makes of t and entry p at that time.
outcome(t, n, p, time, past) ==
  CASE p.type = "DelegateMessage" -> hold_new_message(t, n, p.msg, time, past)
    [] p.type = "SetState"        -> set_state(t, n, p.msg, p.ep, p.kind, past)
    [] p.type = "EpOnline"        -> ep_online(t, n, p.ep, p.interests, p.host, past)
    [] p.type = "EpOffline"       -> ep_offline(t, n, p.host, p.ep, past)
    [] p.type = "EpInterest"      -> update_ep_interest(t, n, p.ep, p.interests, past)

\* The clock after entry p.
ticked(time, p) ==
  IF p.type = "DelegateMessage" THEN time + (CHOOSE step \in ClockStep : TRUE) ELSE time

\* The fields of an entry.
LEMMA ProposalFields ==
  ASSUME NEW p \in Proposal
  PROVE  \/ p.type = "DelegateMessage" /\ p.msg \in MessageId
         \/ /\ p.type = "SetState"
            /\ p.msg \in MessageId /\ p.ep \in Endpoint /\ p.kind \in MessageStatusKind
         \/ /\ p.type = "EpOnline"
            /\ p.ep \in Endpoint /\ p.interests \in SUBSET Subject /\ p.host \in Node
         \/ p.type = "EpOffline" /\ p.ep \in Endpoint /\ p.host \in Node
         \/ p.type = "EpInterest" /\ p.ep \in Endpoint /\ p.interests \in SUBSET Subject
BY DEF Proposal

\* An entry makes a topic of a topic.
LEMMA OutcomeType ==
  ASSUME NEW t, FiniteTopic(t), NEW n \in Node, NEW p \in Proposal, NEW time \in Nat, NEW past
  PROVE  FiniteTopic(outcome(t, n, p, time, past))
<1>1. CASE p.type = "DelegateMessage" /\ p.msg \in MessageId
  BY <1>1, HoldNewMessageType DEF outcome
<1>2. CASE /\ p.type = "SetState"
           /\ p.msg \in MessageId /\ p.ep \in Endpoint /\ p.kind \in MessageStatusKind
  <2>1. Steady(t, set_state(t, n, p.msg, p.ep, p.kind, past))
    BY <1>2, SetStateSteady
  <2> QED
    BY <1>2, <2>1 DEF outcome, Steady
<1>3. CASE /\ p.type = "EpOnline"
           /\ p.ep \in Endpoint /\ p.interests \in SUBSET Subject /\ p.host \in Node
  <2>1. Steady(t, ep_online(t, n, p.ep, p.interests, p.host, past))
    BY <1>3, EpOnlineSteady
  <2> QED
    BY <1>3, <2>1 DEF outcome, Steady
<1>4. CASE p.type = "EpOffline" /\ p.ep \in Endpoint /\ p.host \in Node
  <2>1. Steady(t, ep_offline(t, n, p.host, p.ep, past))
    BY <1>4, EpOfflineSteady
  <2> QED
    BY <1>4, <2>1 DEF outcome, Steady
<1>5. CASE p.type = "EpInterest" /\ p.ep \in Endpoint /\ p.interests \in SUBSET Subject
  <2>1. Steady(t, update_ep_interest(t, n, p.ep, p.interests, past))
    BY <1>5, EpInterestSteady
  <2> QED
    BY <1>5, <2>1 DEF outcome, Steady
<1> QED
  BY <1>1, <1>2, <1>3, <1>4, <1>5, ProposalFields

\* Replicas that agree make topics of an entry that agree.
LEMMA OutcomeAgrees ==
  ASSUME NEW t, NEW u, FiniteTopic(t), FiniteTopic(u), TopicAgrees(t, u),
         NEW n \in Node, NEW k \in Node, NEW past, NEW gone, Timeless(past), Timeless(gone),
         NEW p \in Proposal, NEW time \in Nat
  PROVE  TopicAgrees(outcome(t, n, p, time, past), outcome(u, k, p, time, gone))
<1>1. CASE p.type = "DelegateMessage" /\ p.msg \in MessageId
  BY <1>1, HoldNewMessageAgrees DEF outcome
<1>2. CASE /\ p.type = "SetState"
           /\ p.msg \in MessageId /\ p.ep \in Endpoint /\ p.kind \in MessageStatusKind
  BY <1>2, SetStateAgrees DEF outcome
<1>3. CASE /\ p.type = "EpOnline"
           /\ p.ep \in Endpoint /\ p.interests \in SUBSET Subject /\ p.host \in Node
  BY <1>3, EpOnlineAgrees DEF outcome
<1>4. CASE p.type = "EpOffline" /\ p.ep \in Endpoint /\ p.host \in Node
  BY <1>4, EpOfflineAgrees DEF outcome
<1>5. CASE p.type = "EpInterest" /\ p.ep \in Endpoint /\ p.interests \in SUBSET Subject
  BY <1>5, EpInterestAgrees DEF outcome
<1> QED
  BY <1>1, <1>2, <1>3, <1>4, <1>5, ProposalFields

\* Node n applies the entry at the head of its log.
Advanced(n) ==
  LET p == Head(pending[n])
      t == outcome(topic[n], n, p, clock'[n], expired[n])
  IN  /\ pending[n] # <<>>
      /\ apply(n, t)
      /\ clock' = [clock EXCEPT ![n] = ticked(@, p)]

\* Every apply step does that, when there is one way to advance a clock.
LEMMA ApplyTakesEntry ==
  ASSUME TypeInv, ClocksAgree, NEW n \in Node, Apply(n)
  PROVE  Advanced(n)
<1>1. clock \in [Node -> Nat \ {0}]
  BY DEF TypeInv, TypeOK
<1>2. PICK p : p = Head(pending[n])
  OBVIOUS
<1>3. CASE apply_delegate_message(n)
  <2>1. pending[n] # <<>> /\ p.type = "DelegateMessage"
    BY <1>2, <1>3 DEF apply_delegate_message, next_is
  <2>2. PICK step \in ClockStep :
          /\ clock' = [clock EXCEPT ![n] = @ + step]
          /\ apply(n, hold_new_message(topic[n], n, p.msg, clock[n] + step, expired[n]))
    BY <1>2, <1>3 DEF apply_delegate_message
  <2>3. step = CHOOSE s \in ClockStep : TRUE
    <3>1. PICK s : ClockStep = {s}
      BY DEF ClocksAgree
    <3>2. (CHOOSE x \in ClockStep : TRUE) \in ClockStep
      BY <2>2
    <3> QED
      BY <2>2, <3>1, <3>2
  <2>4. clock' = [clock EXCEPT ![n] = ticked(@, p)] /\ clock'[n] = clock[n] + step
    BY <1>1, <2>1, <2>2, <2>3 DEF ticked
  <2>5. outcome(topic[n], n, p, clock'[n], expired[n])
          = hold_new_message(topic[n], n, p.msg, clock[n] + step, expired[n])
    BY <2>1, <2>4 DEF outcome
  <2> QED
    BY <1>2, <2>1, <2>2, <2>4, <2>5 DEF Advanced
<1>4. ASSUME p.type # "DelegateMessage", UNCHANGED clock
      PROVE  clock' = [clock EXCEPT ![n] = ticked(@, p)]
  BY <1>1, <1>4 DEF ticked
<1>5. CASE apply_set_state(n)
  <2>1. /\ pending[n] # <<>> /\ p.type = "SetState" /\ UNCHANGED clock
        /\ apply(n, set_state(topic[n], n, p.msg, p.ep, p.kind, expired[n]))
    BY <1>2, <1>5 DEF apply_set_state, next_is
  <2>2. outcome(topic[n], n, p, clock'[n], expired[n])
          = set_state(topic[n], n, p.msg, p.ep, p.kind, expired[n])
    BY <2>1 DEF outcome
  <2> QED
    BY <1>2, <1>4, <2>1, <2>2 DEF Advanced
<1>6. CASE apply_ep_online(n)
  <2>1. /\ pending[n] # <<>> /\ p.type = "EpOnline" /\ UNCHANGED clock
        /\ apply(n, ep_online(topic[n], n, p.ep, p.interests, p.host, expired[n]))
    BY <1>2, <1>6 DEF apply_ep_online, next_is
  <2>2. outcome(topic[n], n, p, clock'[n], expired[n])
          = ep_online(topic[n], n, p.ep, p.interests, p.host, expired[n])
    BY <2>1 DEF outcome
  <2> QED
    BY <1>2, <1>4, <2>1, <2>2 DEF Advanced
<1>7. CASE apply_ep_offline(n)
  <2>1. /\ pending[n] # <<>> /\ p.type = "EpOffline" /\ UNCHANGED clock
        /\ apply(n, ep_offline(topic[n], n, p.host, p.ep, expired[n]))
    BY <1>2, <1>7 DEF apply_ep_offline, next_is
  <2>2. outcome(topic[n], n, p, clock'[n], expired[n])
          = ep_offline(topic[n], n, p.host, p.ep, expired[n])
    BY <2>1 DEF outcome
  <2> QED
    BY <1>2, <1>4, <2>1, <2>2 DEF Advanced
<1>8. CASE apply_ep_interest(n)
  <2>1. /\ pending[n] # <<>> /\ p.type = "EpInterest" /\ UNCHANGED clock
        /\ apply(n, update_ep_interest(topic[n], n, p.ep, p.interests, expired[n]))
    BY <1>2, <1>8 DEF apply_ep_interest, next_is
  <2>2. outcome(topic[n], n, p, clock'[n], expired[n])
          = update_ep_interest(topic[n], n, p.ep, p.interests, expired[n])
    BY <2>1 DEF outcome
  <2> QED
    BY <1>2, <1>4, <2>1, <2>2 DEF Advanced
<1> QED
  BY <1>3, <1>5, <1>6, <1>7, <1>8 DEF Apply

\* A step that does not apply an entry leaves the clocks alone.
LEMMA ClocksRest ==
  ASSUME Next, \A n \in Node : ~Apply(n)
  PROVE  UNCHANGED clock
BY DEF Next, send_message, expire, log_vars, dispatch_message, report_dispatch, lose_report,
       resolve_waiter, create_endpoint, update_interest, register_endpoint, delete_endpoint,
       drop_endpoint, propose_offline, single_ack

\* Every step applies an entry, or leaves topics and clocks alone and commits at
\* most one proposal.
LEMMA LogSteps ==
  ASSUME TypeInv, ClocksAgree, Next
  PROVE  \/ \E n \in Node : Advanced(n)
         \/ UNCHANGED <<topic, clock, pending>>
         \/ UNCHANGED <<topic, clock>> /\ \E p \in Proposal : propose(p) /\ Proposable(p)
<1>1. CASE \E n \in Node : Apply(n)
  BY <1>1, ApplyTakesEntry
<1>2. CASE \A n \in Node : ~Apply(n)
  <2>1. UNCHANGED clock
    BY <1>2, ClocksRest
  <2>2. CASE \E d \in dispatching : dispatch_message(d)
    BY <2>2 DEF dispatch_message, log_vars
  <2>3. CASE \E n \in Node : \E r \in resolving[n] : resolve_waiter(n, r)
    BY <2>3 DEF resolve_waiter
  <2>4. CASE Calm
    BY <2>1, <2>4 DEF Calm, Proposes
  <2> QED
    BY <1>2, <2>2, <2>3, <2>4, CalmOrNot
<1> QED
  BY <1>1, <1>2

-----------------------------------------------------------------------------
(* The log as history. *)

\* Entry p, applied at that time by any replica that agrees with t, makes a topic
\* that agrees with u.
Leads(t, p, time, u) ==
  \A r \in Topic, n \in Node, past \in SUBSET MessageId :
    FiniteTopic(r) /\ TopicAgrees(t, r) /\ Timeless(past) =>
      TopicAgrees(u, outcome(r, n, p, time, past))

\* log holds len entries; at[i] is the topic and time[i] the clock after i of them.
History(len, log, at, time) ==
  /\ len \in Nat
  /\ log \in [1 .. len -> Proposal]
  /\ at \in [0 .. len -> Topic]
  /\ time \in [0 .. len -> Nat]
  /\ \A i \in 0 .. len : FiniteTopic(at[i])
  /\ \A i \in 1 .. len : /\ time[i] = ticked(time[i - 1], log[i])
                         /\ Leads(at[i - 1], log[i], time[i], at[i])

\* Node n has applied all entries but the ones in pending[n].
Follows(n, len, log, at, time) ==
  LET behind == Len(pending[n])
  IN  /\ behind <= len
      /\ \A i \in 1 .. behind : pending[n][i] = log[len - behind + i]
      /\ TopicAgrees(at[len - behind], topic[n])
      /\ clock[n] = time[len - behind]

\* One history explains all replicas.
Explained ==
  \E len, log, at, time :
    /\ History(len, log, at, time)
    /\ \A n \in Node : Follows(n, len, log, at, time)

\* To agree is an equivalence of topics too.
LEMMA TopicsEquivalence ==
  ASSUME NEW t, NEW u, NEW v
  PROVE  /\ TopicAgrees(t, t)
         /\ TopicAgrees(t, u) => TopicAgrees(u, t)
         /\ TopicAgrees(t, u) /\ TopicAgrees(u, v) => TopicAgrees(t, v)
BY AgreesEquivalence DEF TopicAgrees

\* Every entry leads somewhere.
LEMMA EntryLeads ==
  ASSUME NEW t, FiniteTopic(t), NEW p \in Proposal, NEW time \in Nat
  PROVE  \E u : FiniteTopic(u) /\ Leads(t, p, time, u)
<1>1. CASE Node = {}
  <2>1. Leads(t, p, time, t)
    BY <1>1 DEF Leads
  <2> QED
    BY <2>1
<1>2. CASE Node # {}
  <2>1. PICK k \in Node : TRUE
    BY <1>2
  <2>2. PICK u : u = outcome(t, k, p, time, {})
    OBVIOUS
  <2>3. Timeless({})
    BY DEF Timeless
  <2>4. FiniteTopic(u)
    BY <2>2, OutcomeType
  <2>5. Leads(t, p, time, u)
    <3> SUFFICES ASSUME NEW r \in Topic, NEW n \in Node, NEW past \in SUBSET MessageId,
                        FiniteTopic(r), TopicAgrees(t, r), Timeless(past)
                 PROVE  TopicAgrees(u, outcome(r, n, p, time, past))
      BY DEF Leads
    <3> QED
      BY <2>2, <2>3, OutcomeAgrees
  <2> QED
    BY <2>4, <2>5
<1> QED
  BY <1>1, <1>2

\* The clock after an entry is a time.
LEMMA TickedType ==
  ASSUME ClocksAgree, NEW time \in Nat, NEW p
  PROVE  ticked(time, p) \in Nat
<1>1. PICK step : step = CHOOSE s \in ClockStep : TRUE
  OBVIOUS
<1>2. step \in ClockStep
  BY <1>1 DEF ClocksAgree
<1>3. step \in Nat
  BY <1>2, ClusterAssumption
<1>4. ticked(time, p) = IF p.type = "DelegateMessage" THEN time + step ELSE time
  BY <1>1 DEF ticked
<1> QED
  BY <1>3, <1>4

\* A history can be continued with any entry.
LEMMA HistoryGrows ==
  ASSUME ClocksAgree, NEW len, NEW log, NEW at, NEW time, History(len, log, at, time),
         NEW p \in Proposal
  PROVE  \E log2, at2, time2 :
           /\ History(len + 1, log2, at2, time2)
           /\ log2[len + 1] = p
           /\ \A i \in 1 .. len : log2[i] = log[i]
           /\ \A i \in 0 .. len : at2[i] = at[i] /\ time2[i] = time[i]
<1> USE DEF History
<1>1. len \in Nat /\ at[len] \in Topic /\ FiniteTopic(at[len]) /\ time[len] \in Nat
  OBVIOUS
<1>2. PICK now : now = ticked(time[len], p)
  OBVIOUS
<1>3. now \in Nat
  BY <1>1, <1>2, TickedType
<1>4. PICK u : FiniteTopic(u) /\ Leads(at[len], p, now, u)
  BY <1>1, <1>3, EntryLeads
<1> DEFINE log2 == [i \in 1 .. len + 1 |-> IF i = len + 1 THEN p ELSE log[i]]
           at2 == [i \in 0 .. len + 1 |-> IF i = len + 1 THEN u ELSE at[i]]
           time2 == [i \in 0 .. len + 1 |-> IF i = len + 1 THEN now ELSE time[i]]
<1>5. /\ \A i \in 1 .. len : log2[i] = log[i]
      /\ \A i \in 0 .. len : at2[i] = at[i] /\ time2[i] = time[i]
      /\ log2[len + 1] = p /\ at2[len + 1] = u /\ time2[len + 1] = now
  BY <1>1
<1>6. /\ log2 \in [1 .. len + 1 -> Proposal]
      /\ at2 \in [0 .. len + 1 -> Topic]
      /\ time2 \in [0 .. len + 1 -> Nat]
  <2>1. u \in Topic
    BY <1>4 DEF FiniteTopic
  <2> QED
    BY <1>1, <1>3, <2>1
<1> HIDE DEF log2, at2, time2
<1>7. \A i \in 0 .. len + 1 : FiniteTopic(at2[i])
  <2> TAKE i \in 0 .. len + 1
  <2>1. i \in 0 .. len \/ i = len + 1
    BY <1>1
  <2> QED
    BY <1>4, <1>5, <2>1
<1>8. ASSUME NEW i \in 1 .. len + 1
      PROVE  time2[i] = ticked(time2[i - 1], log2[i]) /\ Leads(at2[i - 1], log2[i], time2[i], at2[i])
  <2>1. CASE i \in 1 .. len
    <3>1. i - 1 \in 0 .. len /\ i \in 0 .. len
      BY <1>1, <2>1
    <3>2. /\ at2[i - 1] = at[i - 1] /\ time2[i - 1] = time[i - 1]
          /\ at2[i] = at[i] /\ time2[i] = time[i] /\ log2[i] = log[i]
      BY <1>5, <2>1, <3>1
    <3> QED
      BY <2>1, <3>2
  <2>2. CASE i = len + 1
    <3>1. i - 1 = len /\ len \in 0 .. len
      BY <1>1, <2>2
    <3>2. at2[i - 1] = at[len] /\ time2[i - 1] = time[len]
      BY <1>5, <3>1
    <3> QED
      BY <1>2, <1>4, <1>5, <2>2, <3>2
  <2> QED
    BY <1>1, <2>1, <2>2
<1>9. History(len + 1, log2, at2, time2)
  BY <1>1, <1>6, <1>7, <1>8
<1> HIDE DEF History
<1> QED
  BY <1>5, <1>9

\* A proposal continues the history, and no replica has applied it yet.
LEMMA ProposeFollows ==
  ASSUME TypeInv, NEW p \in Proposal, propose(p), UNCHANGED <<topic, clock>>, NEW n \in Node,
         NEW len, NEW log, NEW at, NEW time, History(len, log, at, time),
         Follows(n, len, log, at, time), NEW log2, NEW at2, NEW time2,
         log2[len + 1] = p, \A i \in 1 .. len : log2[i] = log[i],
         \A i \in 0 .. len : at2[i] = at[i] /\ time2[i] = time[i],
         NEW next, next = len + 1
  PROVE  Follows(n, next, log2, at2, time2)'
<1>1. pending[n] \in Seq(Proposal) /\ len \in Nat
  BY DEF TypeInv, TypeOK, History
<1>2. pending'[n] = Append(pending[n], p)
  BY DEF propose, TypeInv, TypeOK
<1>3. PICK k : k = Len(pending[n])
  OBVIOUS
<1>4. k \in Nat /\ k <= len /\ len - k \in 0 .. len
  BY <1>1, <1>3 DEF Follows
<1>5. Len(pending'[n]) = k + 1
  BY <1>1, <1>2, <1>3
<1>6. (len + 1) - (k + 1) = len - k
  BY <1>1, <1>4
<1>7. \A i \in 1 .. k + 1 : pending'[n][i] = log2[len - k + i]
  <2> TAKE i \in 1 .. k + 1
  <2>1. CASE i = k + 1
    <3>1. len - k + i = len + 1
      BY <1>1, <1>4, <2>1
    <3>2. pending'[n][k + 1] = p
      BY <1>1, <1>2, <1>3
    <3> QED
      BY <2>1, <3>1, <3>2
  <2>2. CASE i \in 1 .. k
    <3>1. len - k + i \in 1 .. len
      BY <1>1, <1>4, <2>2
    <3>2. pending'[n][i] = pending[n][i]
      BY <1>1, <1>2, <1>3, <2>2
    <3>3. pending[n][i] = log[len - k + i]
      BY <1>3, <2>2 DEF Follows
    <3> QED
      BY <3>1, <3>2, <3>3
  <2> QED
    BY <1>4, <2>1, <2>2
<1>8. TopicAgrees(at2[len - k], topic'[n]) /\ clock'[n] = time2[len - k]
  BY <1>3, <1>4 DEF Follows
<1>9. k + 1 <= len + 1
  BY <1>1, <1>4
<1>10. next - Len(pending'[n]) = len - k
  BY <1>5, <1>6
<1>11. Len(pending'[n]) <= next
  BY <1>5, <1>9
<1>12. \A i \in 1 .. Len(pending'[n]) : pending'[n][i] = log2[next - Len(pending'[n]) + i]
  BY <1>5, <1>7, <1>10
<1>13. /\ TopicAgrees(at2[next - Len(pending'[n])], topic'[n])
       /\ clock'[n] = time2[next - Len(pending'[n])]
  BY <1>8, <1>10
<1> QED
  BY <1>11, <1>12, <1>13, Zenon DEF Follows

\* The effects of an entry are nothing replicas agree on.
LEMMA ClearedAgrees ==
  ASSUME NEW t, FiniteTopic(t)
  PROVE  TopicAgrees(t, Cleared(t))
<1>1. SameIndex(t.queue, Cleared(t).queue) /\ Cleared(t).panic = t.panic
  BY ClearedType
<1>2. /\ Cleared(t).routing = t.routing /\ Cleared(t).interest = t.interest
      /\ Cleared(t).queue.status = t.queue.status
  BY ClearedFields
<1> QED
  BY <1>1, <1>2 DEF TopicAgrees, QueueAgrees, StatusAgrees

\* A node that applies its next entry follows the history.
LEMMA AdvanceFollows ==
  ASSUME TypeInv, ClocksAgree, NEW n \in Node, Advanced(n), NEW k \in Node,
         Timeless(expired[n]),
         NEW len, NEW log, NEW at, NEW time, History(len, log, at, time),
         Follows(k, len, log, at, time)
  PROVE  Follows(k, len, log, at, time)'
<1>0. /\ pending \in [Node -> Seq(Proposal)] /\ topic \in [Node -> Topic]
      /\ clock \in [Node -> Nat \ {0}] /\ expired[n] \in SUBSET MessageId
      /\ FiniteTopic(topic[n])
  BY DEF TypeInv, TypeOK, TopicsFinite
<1>1. CASE k # n
  <2>1. pending'[k] = pending[k] /\ topic'[k] = topic[k] /\ clock'[k] = clock[k]
    BY <1>0, <1>1 DEF Advanced, apply
  <2> QED
    BY <2>1 DEF Follows
<1>2. CASE k = n
  <2>1. PICK b : b = Len(pending[n])
    OBVIOUS
  <2>2. PICK p : p = Head(pending[n])
    OBVIOUS
  <2>3. b \in Nat \ {0} /\ b <= len /\ len \in Nat /\ p = pending[n][1] /\ p \in Proposal
    BY <1>0, <1>2, <2>1, <2>2 DEF Follows, History, Advanced
  <2>4. PICK i : i = len - b + 1
    OBVIOUS
  <2>5. i \in 1 .. len /\ i - 1 = len - b /\ i = len - (b - 1) /\ i \in 0 .. len
    BY <2>3, <2>4
  <2>6. p = log[i] /\ TopicAgrees(at[i - 1], topic[n]) /\ clock[n] = time[i - 1]
    <3>1. /\ \A j \in 1 .. b : pending[n][j] = log[len - b + j]
          /\ TopicAgrees(at[len - b], topic[n]) /\ clock[n] = time[len - b]
      BY <1>2, <2>1 DEF Follows
    <3>2. 1 \in 1 .. b
      BY <2>3
    <3> QED
      BY <2>3, <2>4, <2>5, <3>1, <3>2
  <2>7. pending' = [pending EXCEPT ![n] = Tail(@)] /\ clock' = [clock EXCEPT ![n] = ticked(@, p)]
    BY <2>2 DEF Advanced, apply
  <2>8. clock'[n] = time[i]
    BY <1>0, <2>5, <2>6, <2>7 DEF History
  <2>9. PICK t : t = outcome(topic[n], n, p, clock'[n], expired[n])
    OBVIOUS
  <2>10. topic'[n] = Cleared(t)
    <3>1. apply(n, t)
      BY <2>2, <2>9 DEF Advanced
    <3> QED
      BY <1>0, <3>1 DEF apply, Cleared
  <2>11. time[i] \in Nat
    BY <2>5 DEF History
  <2>12. FiniteTopic(t)
    BY <1>0, <2>3, <2>8, <2>9, <2>11, OutcomeType
  <2>13. TopicAgrees(at[i], t)
    <3>1. Leads(at[i - 1], log[i], time[i], at[i])
      BY <2>5 DEF History
    <3> QED
      BY <1>0, <2>6, <2>8, <2>9, <3>1 DEF Leads
  <2>14. TopicAgrees(at[i], topic'[n])
    BY <2>10, <2>12, <2>13, ClearedAgrees, TopicsEquivalence
  <2>15. Len(pending'[n]) = b - 1
    BY <1>0, <2>1, <2>3, <2>7
  <2>16. \A j \in 1 .. b - 1 : pending'[n][j] = log[i + j]
    <3> TAKE j \in 1 .. b - 1
    <3>1. pending'[n][j] = pending[n][j + 1]
      BY <1>0, <2>1, <2>3, <2>7
    <3>2. j + 1 \in 1 .. b
      BY <2>3
    <3>3. pending[n][j + 1] = log[len - b + (j + 1)]
      BY <1>2, <2>1, <3>2 DEF Follows
    <3>4. len - b + (j + 1) = i + j
      BY <2>3, <2>4
    <3> QED
      BY <3>1, <3>3, <3>4
  <2>17. b - 1 <= len
    BY <2>3
  <2> QED
    BY <1>2, <2>5, <2>8, <2>14, <2>15, <2>16, <2>17 DEF Follows
<1> QED
  BY <1>1, <1>2

\* Only messages of ExpireIds expire.
OnlyExpire == \A n \in Node : expired[n] \subseteq ExpireIds

\* The inductive invariant.
AInv == TypeInv /\ OnlyExpire /\ Explained

\* A cluster starts with the empty history.
LEMMA EmptyHistory ==
  ASSUME Init
  PROVE  \E log, at, time :
           /\ at[0] = from_durable /\ time[0] = 1
           /\ History(0, log, at, time)
           /\ \A n \in Node : Follows(n, 0, log, at, time)
<1> DEFINE log == [i \in 1 .. 0 |-> {}]
           at == [i \in 0 .. 0 |-> from_durable]
           time == [i \in 0 .. 0 |-> 1]
<1>1. FiniteTopic(from_durable) /\ from_durable \in Topic
  BY FromDurableType DEF FiniteTopic
<1>2. at[0] = from_durable /\ time[0] = 1
  OBVIOUS
<1>3. log \in [1 .. 0 -> Proposal] /\ at \in [0 .. 0 -> Topic] /\ time \in [0 .. 0 -> Nat]
  BY <1>1
<1> HIDE DEF log, at, time
<1>4. \A i \in 0 .. 0 : i = 0
  OBVIOUS
<1>5. \A i \in 1 .. 0 : FALSE
  OBVIOUS
<1>6. History(0, log, at, time)
  BY <1>1, <1>2, <1>3, <1>4, <1>5 DEF History
<1>7. ASSUME NEW n \in Node PROVE Follows(n, 0, log, at, time)
  <2>1. pending[n] = <<>> /\ topic[n] = from_durable /\ clock[n] = 1
    BY DEF Init
  <2>2. Len(pending[n]) = 0
    BY <2>1
  <2>3. TopicAgrees(from_durable, from_durable)
    BY TopicsEquivalence
  <2> QED
    BY <1>2, <1>5, <2>1, <2>2, <2>3 DEF Follows
<1> QED
  BY <1>2, <1>6, <1>7

\* The invariant holds initially.
LEMMA AInit == Init => AInv
<1> SUFFICES ASSUME Init PROVE AInv
  OBVIOUS
<1>1. TypeInv
  BY TypeInit
<1>2. OnlyExpire
  BY DEF Init, OnlyExpire
<1>3. Explained
  BY EmptyHistory DEF Explained
<1> QED
  BY <1>1, <1>2, <1>3 DEF AInv

\* Every step leaves a history that explains all replicas.
LEMMA ExplainedStep ==
  ASSUME ClocksAgree, AInv, Next
  PROVE  Explained'
<1>1. TypeInv /\ OnlyExpire
  BY DEF AInv
<1>2. PICK len, log, at, time : /\ History(len, log, at, time)
                                /\ \A n \in Node : Follows(n, len, log, at, time)
  BY DEF AInv, Explained
<1>3. CASE \E n \in Node : Advanced(n)
  <2>1. PICK n \in Node : Advanced(n)
    BY <1>3
  <2>2. Timeless(expired[n])
    BY <1>1 DEF OnlyExpire, ClocksAgree, Timeless
  <2>3. \A k \in Node : Follows(k, len, log, at, time)'
    BY <1>1, <1>2, <2>1, <2>2, AdvanceFollows
  <2> QED
    BY <1>2, <2>3 DEF Explained
<1>4. CASE UNCHANGED <<topic, clock, pending>>
  <2>1. \A n \in Node : Follows(n, len, log, at, time)'
    BY <1>2, <1>4 DEF Follows
  <2> QED
    BY <1>2, <2>1 DEF Explained
<1>5. CASE UNCHANGED <<topic, clock>> /\ \E p \in Proposal : propose(p) /\ Proposable(p)
  <2>1. PICK p \in Proposal : propose(p)
    BY <1>5
  <2>2. PICK log2, at2, time2 :
          /\ History(len + 1, log2, at2, time2)
          /\ log2[len + 1] = p
          /\ \A i \in 1 .. len : log2[i] = log[i]
          /\ \A i \in 0 .. len : at2[i] = at[i] /\ time2[i] = time[i]
    BY <1>2, HistoryGrows
  <2>4. PICK next : next = len + 1
    OBVIOUS
  <2>3. ASSUME NEW n \in Node PROVE Follows(n, next, log2, at2, time2)'
    <3>1. Follows(n, len, log, at, time)
      BY <1>2
    <3> QED
      BY <1>1, <1>2, <1>5, <2>1, <2>2, <2>4, <3>1, ProposeFollows
  <2> QED
    BY <2>2, <2>3, <2>4 DEF Explained
<1> QED
  BY <1>1, <1>3, <1>4, <1>5, LogSteps

\* The inductive invariant is kept.
LEMMA AStep ==
  ASSUME ClocksAgree
  PROVE  AInv /\ [Next]_vars => AInv'
<1> SUFFICES ASSUME AInv, [Next]_vars PROVE AInv'
  OBVIOUS
<1>1. TypeInv'
  BY TypeStep DEF AInv
<1>2. OnlyExpire'
  <2>1. CASE UNCHANGED expired
    BY <2>1 DEF AInv, OnlyExpire
  <2>2. ASSUME NEW n \in Node, NEW m \in MessageId, expire(n, m) PROVE OnlyExpire'
    BY <2>2 DEF AInv, OnlyExpire, expire, TypeInv, TypeOK
  <2>3. UNCHANGED expired \/ \E n \in Node, m \in MessageId : expire(n, m)
    BY DEF Next, vars, send_message, Apply, apply_delegate_message, apply_set_state,
           apply_ep_online, apply_ep_offline, apply_ep_interest, apply, dispatch_message,
           report_dispatch, lose_report, resolve_waiter, create_endpoint, update_interest,
           register_endpoint, delete_endpoint, drop_endpoint, propose_offline, single_ack
  <2> QED
    BY <2>1, <2>2, <2>3
<1>3. Explained'
  <2>1. CASE Next
    BY <2>1, ExplainedStep
  <2>2. CASE UNCHANGED vars
    <3>1. UNCHANGED <<pending, topic, clock>>
      BY <2>2 DEF vars
    <3>2. PICK len, log, at, time : /\ History(len, log, at, time)
                                    /\ \A n \in Node : Follows(n, len, log, at, time)
      BY DEF AInv, Explained
    <3>3. \A n \in Node : Follows(n, len, log, at, time)'
      BY <3>1, <3>2 DEF Follows
    <3> QED
      BY <3>2, <3>3 DEF Explained
  <2> QED
    BY <2>1, <2>2
<1> QED
  BY <1>1, <1>2, <1>3 DEF AInv

\* Topics without effects that agree are the same as far as replicas must agree.
LEMMA AgreedTopics ==
  ASSUME NEW t, NEW u, FiniteTopic(t), FiniteTopic(u), TopicAgrees(t, u),
         t.queue.dispatch = u.queue.dispatch, t.queue.acks = u.queue.acks
  PROVE  agreed(t) = agreed(u)
<1> DEFINE st == [m \in MessageId |-> [e \in Endpoint |-> agreed_status(t.queue.status[m][e])]]
           su == [m \in MessageId |-> [e \in Endpoint |-> agreed_status(u.queue.status[m][e])]]
<1>1. st = su
  BY DEF TopicAgrees, QueueAgrees, StatusAgrees
<1>2. /\ agreed(t) = [t EXCEPT !.queue = [t.queue EXCEPT !.status = st]]
      /\ agreed(u) = [u EXCEPT !.queue = [u.queue EXCEPT !.status = su]]
  BY DEF agreed, FiniteTopic, Topic
<1> HIDE DEF st, su
<1>3. t.queue \in Queue /\ u.queue \in Queue /\ SameIndex(t.queue, u.queue)
  BY DEF FiniteTopic, FiniteQueue, TopicAgrees, QueueAgrees
<1>4. [t.queue EXCEPT !.status = st] = [u.queue EXCEPT !.status = su]
  BY <1>1, <1>3 DEF Queue, SameIndex
<1>5. t \in Topic /\ u \in Topic
  BY DEF FiniteTopic
<1> QED
  BY <1>2, <1>4, <1>5 DEF Topic, TopicAgrees

\* Replicas that have applied the same entries hold the same topic, whatever
\* endpoints they host and whatever tasks they run, when no decision depends on
\* their own clocks: every operation of TopicData is a function of what replicas
\* agree on (TopicData::apply_* in state_machine/topic.rs).
THEOREM ReplicasAgree ==
  ASSUME ClocksAgree
  PROVE  Spec => []ReplicaAgreement
<1>1. AInv /\ UInv => ReplicaAgreement
  <2> SUFFICES ASSUME AInv, UInv, NEW n \in Node, NEW k \in Node,
                      Len(pending[n]) = Len(pending[k])
               PROVE  agreed(topic[n]) = agreed(topic[k])
    BY DEF ReplicaAgreement
  <2>1. PICK len, log, at, time : /\ History(len, log, at, time)
                                  /\ \A i \in Node : Follows(i, len, log, at, time)
    BY DEF AInv, Explained
  <2>2. PICK t : t = at[len - Len(pending[n])]
    OBVIOUS
  <2>3. TopicAgrees(t, topic[n]) /\ TopicAgrees(t, topic[k])
    BY <2>1, <2>2 DEF Follows
  <2>4. TopicAgrees(topic[n], topic[k])
    BY <2>3, TopicsEquivalence
  <2>5. FiniteTopic(topic[n]) /\ FiniteTopic(topic[k])
    BY DEF AInv, TypeInv, TopicsFinite
  <2>6. /\ topic[n].queue.dispatch = topic[k].queue.dispatch
        /\ topic[n].queue.acks = topic[k].queue.acks
    BY DEF UInv, EffectsTaken, queue
  <2> QED
    BY <2>4, <2>5, <2>6, AgreedTopics
<1>2. Spec => []AInv
  BY AInit, AStep, PTL DEF Spec
<1> QED
  BY <1>1, <1>2, UInductive, PTL

-----------------------------------------------------------------------------
(* The front of a blocking queue. *)

\* Message m is at the front of q, and endpoint e has still to be done with it.
Working(q, m, e) ==
  /\ m \in get_front(q)
  /\ q.status[m][e] # Absent
  /\ ~is_resolved(q.status[m][e], Header[m].ack_kind)

\* Every message waits for the acks of its targets.
NoneDurable == \A m \in MessageId : Header[m].target_kind # "Durable"

\* A consistent queue has one front.
LEMMA OneFront ==
  ASSUME NEW q, FiniteQueue(q), QueueConsistent(q), NEW k \in get_front(q), NEW m \in get_front(q)
  PROVE  k = m
<1>1. PICK p \in first(q.time_id) : p[2] = k
  BY DEF get_front, ids
<1>2. PICK r \in first(q.time_id) : r[2] = m
  BY DEF get_front, ids
<1>3. p \in q.time_id /\ r \in q.time_id /\ p[1] <= r[1] /\ r[1] <= p[1]
  BY <1>1, <1>2 DEF first
<1>4. p[1] \in Nat /\ r[1] \in Nat
  BY <1>3 DEF FiniteQueue, Queue
<1>5. p = r
  BY <1>3, <1>4 DEF QueueConsistent
<1> QED
  BY <1>1, <1>2, <1>5

\* A front that an endpoint has still to be done with is not popped.
LEMMA WorkNotPopped ==
  ASSUME NoneDurable, NEW q, FiniteQueue(q), NEW m, NEW e \in Endpoint, Working(q, m, e), NEW past
  PROVE  popped(q, past) = {}
<1>1. PICK p \in first(q.time_id) : p[2] = m
  BY DEF Working, get_front, ids
<1>2. p \in q.time_id /\ \A r \in q.time_id : p[1] <= r[1]
  BY <1>1 DEF first
<1>3. m \in MessageId
  BY DEF Working, get_front, FiniteQueue, Queue
<1>4. ~message_is_resolved(q, m, past)
  BY <1>3 DEF message_is_resolved, NoneDurable, Working
<1>5. ~poppable(q, p, past)
  BY <1>1, <1>4 DEF poppable
<1> QED
  BY <1>2, <1>5 DEF popped

\* Polling leaves an endpoint its work.
LEMMA PollKeepsWork ==
  ASSUME NoneDurable, Blocking, NEW q, FiniteQueue(q), NEW ms \in SUBSET MessageId,
         NEW eps \in SUBSET Endpoint, NEW past, NEW r, r = poll_and_flush(q, ms, eps, past),
         NEW m, NEW e \in Endpoint, Working(q, m, e)
  PROVE  Working(r, m, e)
<1>1. CASE get_front(q) \cap ms = {}
  BY <1>1 DEF poll_and_flush
<1>2. CASE get_front(q) \cap ms # {}
  <2>1. r = flush_blocking(q, eps, past)
    BY <1>2 DEF poll_and_flush
  <2>2. PICK out : out = popped(q, past)
    OBVIOUS
  <2>3. out = {} /\ ids(out) = {}
    BY <2>2, WorkNotPopped DEF ids
  <2>4. Leave(q, flush_blocking(q, eps, past), ids(popped(q, past)), popped(q, past),
              Cardinality(popped(q, past)))
    BY FlushBlockingLeaves
  <2>5. r.held = q.held /\ r.time_id = q.time_id
    BY <2>1, <2>2, <2>3, <2>4 DEF Leave
  <2>6. get_front(r) = get_front(q)
    BY <2>5 DEF get_front
  <2>7. Polled(q, r, eps)
    BY PollAndFlushPolled
  <2>8. PolledStatus(q.status[m][e], r.status[m][e])
    BY <2>5, <2>7 DEF Polled, Working, get_front
  <2> QED
    BY <2>6, <2>8 DEF Working, PolledStatus, is_resolved, is_failed, is_reached, Absent
<1> QED
  BY <1>1, <1>2

\* Polling hands out work of the front only.
LEMMA PollHandsWork ==
  ASSUME NoneDurable, Blocking, NEW q, FiniteQueue(q), NEW ms \in SUBSET MessageId,
         NEW eps \in SUBSET Endpoint, NEW past, NEW r, r = poll_and_flush(q, ms, eps, past),
         NEW d \in r.dispatch, d \notin q.dispatch
  PROVE  Working(r, d[1], d[2])
<1>1. CASE get_front(q) \cap ms = {}
  BY <1>1 DEF poll_and_flush
<1>2. CASE get_front(q) \cap ms # {}
  <2>1. r = flush_blocking(q, eps, past)
    BY <1>2 DEF poll_and_flush
  <2>2. PICK out : out = popped(q, past)
    OBVIOUS
  <2>3. PICK next : next = (ids(first(q.time_id \ out)) \cap q.held) \ ids(out)
    OBVIOUS
  <2>4. PICK ps : ps = ids(out) \cup next
    OBVIOUS
  <2>5. PICK sent : sent = send_unsent(q, ps, eps)
    OBVIOUS
  <2>6. PICK rest : rest = discard(sent, out, ids(out), Cardinality(out))
    OBVIOUS
  <2>7. r = resolve_ack(rest, {resolve(sent, m) : m \in ids(out)})
    BY <2>1, <2>2, <2>3, <2>4, <2>5, <2>6 DEF flush_blocking
  <2>8. out \in SUBSET q.time_id /\ \A p \in out : message_is_resolved(q, p[2], past)
    <3>1. out \in SUBSET q.time_id
      BY <2>2 DEF popped
    <3>2. \A p \in out : p[1] <= p[1]
      BY <3>1 DEF FiniteQueue, Queue
    <3> QED
      BY <2>2, <3>1, <3>2 DEF popped, poppable
  <2>9. ids(out) \in SUBSET MessageId /\ Cardinality(out) \in Int
    BY <2>8, IdsType, FS_Subset, FS_CardinalityType DEF FiniteQueue
  <2>10. ps \in SUBSET MessageId
    BY <2>3, <2>4, <2>9 DEF FiniteQueue, Queue
  <2>11. SentTo(q, sent, ps, eps) /\ FiniteQueue(sent)
    BY <2>5, <2>10, SendUnsentStatus, SendUnsentType
  <2>12. Without(sent, rest, ids(out)) /\ FiniteQueue(rest)
    BY <2>6, <2>9, <2>11, DiscardStatus, DiscardType DEF Discarded
  <2>13. r.dispatch = sent.dispatch
    BY <2>7, <2>12, ResolveAckStatus DEF Without, Telling
  <2>14. /\ d \in ps \X eps
         /\ q.status[d[1]][d[2]] = "Unsent"
    BY <2>11, <2>13 DEF SentTo
  <2>15. d[1] \notin ids(out)
    <3>1. SUFFICES ASSUME NEW p \in out, p[2] = d[1] PROVE FALSE
      BY DEF ids
    <3>2. message_is_resolved(q, d[1], past)
      BY <2>8, <3>1
    <3>3. d[1] \in MessageId /\ d[2] \in Endpoint
      BY <2>10, <2>14
    <3>4. is_resolved("Unsent", Header[d[1]].ack_kind)
      BY <2>14, <3>2, <3>3 DEF message_is_resolved, NoneDurable, Absent
    <3> QED
      BY <3>4 DEF is_resolved, is_failed, is_reached
  <2>16. d[1] \in next
    BY <2>4, <2>14, <2>15
  <2>17. Leave(q, flush_blocking(q, eps, past), ids(popped(q, past)), popped(q, past),
               Cardinality(popped(q, past)))
    BY FlushBlockingLeaves
  <2>18. r.held = q.held \ ids(out) /\ r.time_id = q.time_id \ out
    BY <2>1, <2>2, <2>17 DEF Leave
  <2>19. d[1] \in get_front(r) /\ d[1] \in r.held
    BY <2>3, <2>16, <2>18 DEF get_front
  <2>20. Polled(q, r, eps)
    BY PollAndFlushPolled
  <2>21. r.status[d[1]][d[2]] = "Sending"
    BY <2>19, <2>20 DEF Polled
  <2> QED
    BY <2>19, <2>21 DEF Working, is_resolved, is_failed, is_reached, Absent
<1> QED
  BY <1>1, <1>2

\* One of the statuses said ends the work of e on m.
Ends(said, m, e) ==
  \E s \in MessageStatusKind : <<m, e, s>> \in said /\ is_resolved(s, Header[m].ack_kind)

\* r is t after an operation that wrote the statuses said: it leaves the endpoints
\* the work they do not end, and hands out work of the front only.
Works(t, r, said) ==
  /\ \A m \in MessageId, e \in Endpoint :
       Working(t.queue, m, e) /\ ~Ends(said, m, e) => Working(r.queue, m, e)
  /\ \A d \in r.queue.dispatch \ t.queue.dispatch : Working(r.queue, d[1], d[2])

\* Operations on parts of a topic.
LEMMA OperatesWorks ==
  ASSUME NoneDurable, Blocking, NEW t, FiniteTopic(t), NEW n \in Node,
         NEW r, NEW routing, NEW interest, NEW st, NEW ms, NEW past, NEW said,
         Operates(t, r, n, routing, interest, st, ms, past),
         \A m \in MessageId, e \in Endpoint :
           Working(t.queue, m, e) /\ ~Ends(said, m, e) =>
             st[m][e] # Absent /\ ~is_resolved(st[m][e], Header[m].ack_kind)
  PROVE  Works(t, r, said)
<1>1. PICK u : u = WithParts(t, routing, interest, st)
  OBVIOUS
<1>2. Parted(t, u, routing, interest, st) /\ SameQueue(t, u)
  BY <1>1, PartsOf, StatusChange DEF Operates
<1>3. r = update_and_flush(u, n, ms, past) /\ ms \in SUBSET MessageId
  BY <1>1 DEF Operates
<1>4. FiniteTopic(u) /\ FiniteQueue(u.queue) /\ u.routing[n] \in SUBSET Endpoint
  BY <1>2 DEF Parted, FiniteTopic, Topic
<1>5. r.queue = poll_and_flush(u.queue, ms, u.routing[n], past)
  BY <1>3, <1>4, UpdateAndFlushPolled
<1>6. ASSUME NEW m \in MessageId, NEW e \in Endpoint, Working(t.queue, m, e), ~Ends(said, m, e)
      PROVE  Working(r.queue, m, e)
  <2>1. st[m][e] # Absent /\ ~is_resolved(st[m][e], Header[m].ack_kind)
    BY <1>6
  <2>2. get_front(u.queue) = get_front(t.queue) /\ u.queue.status = st
    BY <1>2 DEF Parted, SameQueue, SameIndex, get_front
  <2>3. Working(u.queue, m, e)
    BY <1>6, <2>1, <2>2 DEF Working
  <2> QED
    BY <1>3, <1>4, <1>5, <2>3, PollKeepsWork
<1>7. ASSUME NEW d \in r.queue.dispatch, d \notin t.queue.dispatch
      PROVE  Working(r.queue, d[1], d[2])
  <2>1. d \notin u.queue.dispatch
    BY <1>2, <1>7 DEF Parted
  <2> QED
    BY <1>3, <1>4, <1>5, <1>7, <2>1, PollHandsWork
<1> QED
  BY <1>6, <1>7 DEF Works

\* apply_set_state.
LEMMA SetStateWorks ==
  ASSUME NoneDurable, Blocking, NEW t, FiniteTopic(t), NEW n \in Node, NEW m \in MessageId,
         NEW e \in Endpoint, NEW kind \in MessageStatusKind, NEW past
  PROVE  Works(t, set_state(t, n, m, e, kind, past), {<<m, e, kind>>})
<1>1. PICK st : st = acked_by(t.queue, m, e, kind)
  OBVIOUS
<1>2. t.queue.status \in [MessageId -> StatusMap]
  BY DEF FiniteTopic, FiniteQueue, Queue
<1>3. ASSUME NEW k \in MessageId, NEW f \in Endpoint, Working(t.queue, k, f),
             ~Ends({<<m, e, kind>>}, k, f)
      PROVE  st[k][f] # Absent /\ ~is_resolved(st[k][f], Header[k].ack_kind)
  <2>1. CASE st[k][f] = t.queue.status[k][f]
    BY <1>3, <2>1 DEF Working
  <2>2. CASE k = m /\ f = e /\ st[k][f] = kind
    BY <1>3, <2>2 DEF Ends, MessageStatusKind, Absent
  <2> QED
    BY <1>1, <1>2, <2>1, <2>2 DEF acked_by, StatusMap
<1> QED
  BY <1>1, <1>3, SetStateOperates, OperatesWorks

\* apply_ep_interest.
LEMMA EpInterestWorks ==
  ASSUME NoneDurable, Blocking, NEW t, FiniteTopic(t), NEW n \in Node, NEW e \in Endpoint,
         NEW interests \in SUBSET Subject, NEW past
  PROVE  Works(t, update_ep_interest(t, n, e, interests, past), {})
<1>1. PICK ms : ms = durable_about(t, interests)
  OBVIOUS
<1>2. PICK st : st = offered_to(t.queue.status, e, ms)
  OBVIOUS
<1>3. t.queue.held \subseteq MessageId
  BY DEF FiniteTopic, FiniteQueue, Queue
<1>4. ms = {}
  BY <1>1, <1>3 DEF durable_about, NoneDurable
<1>5. \A m \in MessageId : st[m] = t.queue.status[m]
  BY <1>2, <1>4 DEF offered_to
<1>6. Operates(t, update_ep_interest(t, n, e, interests, past), n, t.routing,
               [t.interest EXCEPT ![e] = interests], st, ms, past)
  BY <1>1, <1>2, EpInterestOperates
<1> QED
  BY <1>5, <1>6, OperatesWorks DEF Working

\* apply_ep_online.
LEMMA EpOnlineWorks ==
  ASSUME NoneDurable, Blocking, NEW t, FiniteTopic(t), NEW n \in Node, NEW e \in Endpoint,
         NEW interests \in SUBSET Subject, NEW host \in Node, NEW past
  PROVE  Works(t, ep_online(t, n, e, interests, host, past), {})
<1>1. PICK ms : ms = {m \in durable_about(t, t.interest[e] \cup interests) :
                         t.queue.status[m][e] = Absent}
  OBVIOUS
<1>2. PICK st : st = offered_to(t.queue.status, e, ms)
  OBVIOUS
<1>3. t.queue.held \subseteq MessageId
  BY DEF FiniteTopic, FiniteQueue, Queue
<1>4. ms = {}
  BY <1>1, <1>3 DEF durable_about, NoneDurable
<1>5. \A m \in MessageId : st[m] = t.queue.status[m]
  BY <1>2, <1>4 DEF offered_to
<1>6. Operates(t, ep_online(t, n, e, interests, host, past), n,
               [t.routing EXCEPT ![host] = @ \cup {e}],
               [t.interest EXCEPT ![e] = @ \cup interests], st, ms, past)
  BY <1>1, <1>2, EpOnlineOperates
<1> QED
  BY <1>5, <1>6, OperatesWorks DEF Working

\* apply_ep_offline.
LEMMA EpOfflineWorks ==
  ASSUME NoneDurable, Blocking, NEW t, FiniteTopic(t), NEW n \in Node, NEW e \in Endpoint,
         NEW host \in Node, NEW past
  PROVE  Works(t, ep_offline(t, n, host, e, past), {<<m, e, "Unreachable">> : m \in MessageId})
<1>1. PICK ms : ms = {m \in t.queue.held : t.queue.status[m][e] # Absent}
  OBVIOUS
<1>2. PICK st : st = lost_by(t.queue.status, e, ms)
  OBVIOUS
<1>3. PICK said : said = {<<m, e, "Unreachable">> : m \in MessageId}
  OBVIOUS
<1>4. t.queue.status \in [MessageId -> StatusMap]
  BY DEF FiniteTopic, FiniteQueue, Queue
<1>5. ASSUME NEW k \in MessageId, NEW f \in Endpoint, Working(t.queue, k, f), ~Ends(said, k, f)
      PROVE  st[k][f] # Absent /\ ~is_resolved(st[k][f], Header[k].ack_kind)
  <2>1. f # e
    <3>1. SUFFICES ASSUME f = e PROVE FALSE
      OBVIOUS
    <3>2. <<k, f, "Unreachable">> \in said /\ "Unreachable" \in MessageStatusKind
      BY <1>3, <3>1 DEF MessageStatusKind
    <3> QED
      BY <1>5, <3>2 DEF Ends, is_resolved, is_failed
  <2>2. st[k][f] = t.queue.status[k][f]
    BY <1>2, <1>4, <2>1 DEF lost_by, StatusMap
  <2> QED
    BY <1>5, <2>2 DEF Working
<1>6. Operates(t, ep_offline(t, n, host, e, past), n,
               [t.routing EXCEPT ![host] = @ \ {e}], [t.interest EXCEPT ![e] = {}], st, ms, past)
  BY <1>1, <1>2, EpOfflineOperates
<1> QED
  BY <1>3, <1>5, <1>6, OperatesWorks

\* A new message queues up behind the front.
LEMMA HoldWorks ==
  ASSUME NoneDurable, Blocking, NEW t, FiniteTopic(t), NEW n \in Node, NEW m \in MessageId,
         NEW eps, NEW time \in Nat, NEW past, FreshFor(t, m, time)
  PROVE  Works(t, hold(t, n, m, eps, time, past), {})
<1>1. PICK q : q = push(t.queue, m, wait_ack(eps), time)
  OBVIOUS
<1>2. FiniteQueue(t.queue) /\ t \in Topic /\ wait_ack(eps) \in StatusMap
  BY WaitAckType DEF FiniteTopic
<1>3. /\ FiniteQueue(q)
      /\ q.held = t.queue.held \cup {m}
      /\ q.dispatch = t.queue.dispatch
      /\ \A k \in MessageId : q.status[k] = IF k = m THEN wait_ack(eps) ELSE t.queue.status[k]
  BY <1>1, <1>2, PushStatus
<1>4. Pushed(t.queue, q, m, time)
  BY <1>1, <1>2, PushType
<1>5. \A p \in t.queue.time_id : p[1] \in Nat /\ p[1] < time
  BY <1>2 DEF FreshFor, FiniteQueue, Queue
<1>6. q.time_id = t.queue.time_id \cup {<<time, m>>}
  BY <1>4, <1>5 DEF Pushed
<1>7. PICK u : u = [t EXCEPT !.queue = q]
  OBVIOUS
<1>8. FiniteTopic(u) /\ u.queue = q /\ u.routing = t.routing
  BY <1>2, <1>3, <1>7, WithQueueType
<1>9. PICK r : r = update_and_flush(u, n, {m}, past)
  OBVIOUS
<1>10. r = hold(t, n, m, eps, time, past)
  BY <1>1, <1>7, <1>9 DEF hold
<1>11. u.routing[n] \in SUBSET Endpoint /\ {m} \in SUBSET MessageId
  BY <1>8 DEF FiniteTopic, Topic
<1>12. r.queue = poll_and_flush(q, {m}, u.routing[n], past)
  BY <1>8, <1>9, <1>11, UpdateAndFlushPolled
<1>13. ASSUME NEW k \in MessageId, NEW e \in Endpoint, Working(t.queue, k, e)
       PROVE  Working(r.queue, k, e)
  <2>1. k \in t.queue.held /\ k # m
    BY <1>13 DEF Working, get_front, FreshFor
  <2>2. PICK p \in first(t.queue.time_id) : p[2] = k
    BY <1>13 DEF Working, get_front, ids
  <2>3. p \in t.queue.time_id /\ \A y \in t.queue.time_id : p[1] <= y[1]
    BY <2>2 DEF first
  <2>4. p[1] <= time
    BY <1>5, <2>3
  <2>5. p \in first(q.time_id)
    BY <1>6, <2>3, <2>4 DEF first
  <2>6. k \in get_front(q)
    BY <1>3, <2>1, <2>2, <2>5 DEF get_front, ids
  <2>7. Working(q, k, e)
    BY <1>3, <1>13, <2>1, <2>6 DEF Working
  <2> QED
    BY <1>3, <1>11, <1>12, <2>7, PollKeepsWork
<1>14. ASSUME NEW d \in r.queue.dispatch, d \notin t.queue.dispatch
       PROVE  Working(r.queue, d[1], d[2])
  BY <1>3, <1>11, <1>12, <1>14, PollHandsWork
<1> QED
  BY <1>10, <1>13, <1>14 DEF Works

\* The early returns change nothing.
LEMMA FailWorks ==
  ASSUME NEW t, FiniteTopic(t), NEW n \in Node, NEW m \in MessageId,
         NEW why \in {"Overflow", "NoAvailableTarget"}, allowed(m, why)
  PROVE  Works(t, fail(t, m, why), {})
<1>1. PICK r : r = fail(t, m, why)
  OBVIOUS
<1>2. Tells(t, r, n) /\ SameIndex(t.queue, r.queue)
  BY <1>1, FailDelivers, FailType
<1>3. /\ r.queue.dispatch = t.queue.dispatch
      /\ get_front(r.queue) = get_front(t.queue)
      /\ \A k \in r.queue.held : r.queue.status[k] = t.queue.status[k]
  BY <1>2 DEF Tells, KeepsStatus, SameIndex, get_front
<1>4. \A k \in get_front(r.queue) : k \in r.queue.held
  BY DEF get_front
<1> QED
  BY <1>1, <1>3, <1>4 DEF Works, Working

\* apply_delegate_message.
LEMMA HoldNewMessageWorks ==
  ASSUME NoneDurable, Blocking, DropsUnblocked, NEW t, FiniteTopic(t), NEW n \in Node,
         NEW m \in MessageId, Header[m].target_kind # "Available",
         NEW time \in Nat, NEW past, FreshFor(t, m, time)
  PROVE  Works(t, hold_new_message(t, n, m, time, past), {})
<1>1. /\ Header[m].target_kind = "Push" => Works(t, fail(t, m, "NoAvailableTarget"), {})
      /\ OverflowPolicy # "None" => Works(t, fail(t, m, "Overflow"), {})
  BY FailWorks DEF allowed
<1>2. ASSUME NEW eps PROVE Works(t, put_in_queue(t, n, m, eps, time, past), {})
  <2>1. Works(t, hold(t, n, m, eps, time, past), {})
    BY HoldWorks
  <2>2. OverflowPolicy \in {"None", "RejectNew"}
    BY OverflowAssumption DEF DropsUnblocked
  <2> QED
    BY <1>1, <2>1, <2>2 DEF put_in_queue
<1>3. PICK all : all = collect_addr_by_subjects(t, m)
  OBVIOUS
<1>4. Header[m].target_kind \in {"Durable", "Online", "Push"}
  BY HeaderAssumption DEF MessageHeader, MessageTargetKind
<1> QED
  BY <1>1, <1>2, <1>3, <1>4 DEF hold_new_message

-----------------------------------------------------------------------------
(* The front of the log. *)

\* Replicas that agree have the same work.
LEMMA WorkAgrees ==
  ASSUME NEW t, NEW u, TopicAgrees(t, u), NEW m \in MessageId, NEW e \in Endpoint
  PROVE  Working(t.queue, m, e) <=> Working(u.queue, m, e)
<1>1. SameIndex(t.queue, u.queue) /\ StatusAgrees(t.queue.status, u.queue.status)
  BY DEF TopicAgrees, QueueAgrees
<1>2. get_front(t.queue) = get_front(u.queue)
  BY <1>1 DEF SameIndex, get_front
<1>3. agreed_status(t.queue.status[m][e]) = agreed_status(u.queue.status[m][e])
  BY <1>1 DEF StatusAgrees
<1> QED
  BY <1>2, <1>3, AgreedTests DEF Working

\* A topic that can take the next message: consistent, within its size, not
\* panicked and with no entry later than time.
Ready(t, time) ==
  /\ QueueConsistent(t.queue)
  /\ WithinSize(t)
  /\ ~t.panic
  /\ \A p \in t.queue.time_id : p[1] <= time

\* So can a replica that agrees.
LEMMA ReadyAgrees ==
  ASSUME NEW t, NEW u, TopicAgrees(t, u), NEW time, Ready(t, time)
  PROVE  Ready(u, time)
<1>1. SameIndex(t.queue, u.queue) /\ u.panic = t.panic
  BY DEF TopicAgrees, QueueAgrees
<1>2. QueueConsistent(u.queue)
  BY <1>1, SameConsistent DEF Ready
<1> QED
  BY <1>1, <1>2 DEF Ready, SameIndex, WithinSize

\* A message that is not held is fresh when its entry is applied.
LEMMA FreshEntry ==
  ASSUME Orderly, ClocksAgree, NEW t, FiniteTopic(t), QueueConsistent(t.queue), NEW time \in Nat,
         \A x \in t.queue.time_id : x[1] <= time,
         NEW p, p.type = "DelegateMessage", p.msg \notin t.queue.held
  PROVE  FreshFor(t, p.msg, ticked(time, p))
<1>1. PICK step : step = CHOOSE s \in ClockStep : TRUE
  OBVIOUS
<1>2. step \in ClockStep
  BY <1>1 DEF ClocksAgree
<1>3. step \in Nat \ {0}
  BY <1>2, ClusterAssumption DEF Orderly
<1>4. ticked(time, p) = time + step
  BY <1>1 DEF ticked
<1>5. \A x \in t.queue.time_id : x[1] \in Nat
  BY DEF FiniteTopic, FiniteQueue, Queue
<1> QED
  BY <1>3, <1>4, <1>5 DEF FreshFor

\* An entry leaves the endpoints the work it does not end.
LEMMA OutcomeWorks ==
  ASSUME Orderly, NoneDurable, Blocking, DropsUnblocked, NEW t, FiniteTopic(t), NEW n \in Node,
         NEW p \in Proposal, NEW time \in Nat, NEW past,
         p.type = "DelegateMessage" => FreshFor(t, p.msg, time)
  PROVE  Works(t, outcome(t, n, p, time, past), said_by(p))
<1>1. CASE p.type = "DelegateMessage" /\ p.msg \in MessageId
  <2>1. Header[p.msg].target_kind # "Available"
    BY <1>1 DEF Orderly
  <2> QED
    BY <1>1, <2>1, HoldNewMessageWorks DEF outcome, said_by
<1>2. CASE /\ p.type = "SetState"
           /\ p.msg \in MessageId /\ p.ep \in Endpoint /\ p.kind \in MessageStatusKind
  BY <1>2, SetStateWorks DEF outcome, said_by
<1>3. CASE /\ p.type = "EpOnline"
           /\ p.ep \in Endpoint /\ p.interests \in SUBSET Subject /\ p.host \in Node
  BY <1>3, EpOnlineWorks DEF outcome, said_by
<1>4. CASE p.type = "EpOffline" /\ p.ep \in Endpoint /\ p.host \in Node
  BY <1>4, EpOfflineWorks DEF outcome, said_by
<1>5. CASE p.type = "EpInterest" /\ p.ep \in Endpoint /\ p.interests \in SUBSET Subject
  BY <1>5, EpInterestWorks DEF outcome, said_by
<1> QED
  BY <1>1, <1>2, <1>3, <1>4, <1>5, ProposalFields

\* An entry other than a message keeps a topic ready.
LEMMA SteadyReady ==
  ASSUME NEW t, FiniteTopic(t), NEW time, Ready(t, time), NEW r, Steady(t, r)
  PROVE  Ready(r, time) /\ r.queue.held \subseteq t.queue.held
<1>1. QueueConsistent(r.queue) /\ Shrunk(t.queue, r.queue) /\ r.panic = t.panic
  BY DEF Steady, Ready
<1>2. t.queue.size \in Int /\ r.queue.size \in Int
  BY DEF Steady, FiniteTopic, FiniteQueue, Queue
<1>3. WithinSize(r)
  BY <1>1, <1>2, OverflowAssumption DEF Ready, WithinSize, Shrunk
<1> QED
  BY <1>1, <1>3 DEF Ready, Shrunk

\* An entry keeps a topic ready, and only a message adds to what it holds.
LEMMA OutcomeReady ==
  ASSUME Orderly, ClocksAgree, NEW t, FiniteTopic(t), NEW n \in Node, NEW p \in Proposal,
         NEW time \in Nat, NEW past, Ready(t, time),
         p.type = "DelegateMessage" => p.msg \notin t.queue.held,
         NEW r, r = outcome(t, n, p, ticked(time, p), past)
  PROVE  Ready(r, ticked(time, p)) /\ r.queue.held \subseteq t.queue.held \cup fresh_of(p)
<1>1. CASE p.type = "DelegateMessage" /\ p.msg \in MessageId
  <2>1. PICK now \in Nat : now = ticked(time, p)
    BY TickedType
  <2>2. FreshFor(t, p.msg, now)
    BY <1>1, <2>1, FreshEntry DEF Ready
  <2>3. Header[p.msg].target_kind # "Available"
    BY <1>1 DEF Orderly
  <2>4. r = hold_new_message(t, n, p.msg, now, past)
    BY <1>1, <2>1 DEF outcome
  <2>5. Offered(t, r, p.msg, now) /\ WithinSize(r) /\ ~r.panic
    BY <1>1, <2>2, <2>3, <2>4, HoldNewMessageOffered DEF Ready
  <2> QED
    BY <1>1, <2>1, <2>5 DEF Offered, Ready, fresh_of
<1>2. ASSUME p.type # "DelegateMessage", Steady(t, r)
      PROVE  Ready(r, ticked(time, p)) /\ r.queue.held \subseteq t.queue.held \cup fresh_of(p)
  BY <1>2, SteadyReady DEF ticked
<1>3. CASE /\ p.type = "SetState"
           /\ p.msg \in MessageId /\ p.ep \in Endpoint /\ p.kind \in MessageStatusKind
  BY <1>2, <1>3, SetStateSteady DEF outcome
<1>4. CASE /\ p.type = "EpOnline"
           /\ p.ep \in Endpoint /\ p.interests \in SUBSET Subject /\ p.host \in Node
  BY <1>2, <1>4, EpOnlineSteady DEF outcome
<1>5. CASE p.type = "EpOffline" /\ p.ep \in Endpoint /\ p.host \in Node
  BY <1>2, <1>5, EpOfflineSteady DEF outcome
<1>6. CASE p.type = "EpInterest" /\ p.ep \in Endpoint /\ p.interests \in SUBSET Subject
  BY <1>2, <1>6, EpInterestSteady DEF outcome
<1> QED
  BY <1>1, <1>3, <1>4, <1>5, <1>6, ProposalFields

\* The same for the topic an entry leads to.
LEMMA LeadsOn ==
  ASSUME Orderly, ClocksAgree, NoneDurable, Blocking, DropsUnblocked, Node # {},
         NEW t, FiniteTopic(t), NEW time \in Nat, Ready(t, time), NEW p \in Proposal,
         p.type = "DelegateMessage" => p.msg \notin t.queue.held,
         NEW u, Leads(t, p, ticked(time, p), u)
  PROVE  /\ Ready(u, ticked(time, p))
         /\ u.queue.held \subseteq t.queue.held \cup fresh_of(p)
         /\ \A m \in MessageId, e \in Endpoint :
              Working(t.queue, m, e) /\ ~Ends(said_by(p), m, e) => Working(u.queue, m, e)
<1>1. PICK n \in Node : TRUE
  OBVIOUS
<1>2. PICK now \in Nat : now = ticked(time, p)
  BY TickedType
<1>3. PICK r : r = outcome(t, n, p, now, {})
  OBVIOUS
<1>4. TopicAgrees(u, r)
  <2>1. TopicAgrees(t, t) /\ Timeless({}) /\ t \in Topic /\ {} \in SUBSET MessageId
    BY TopicsEquivalence DEF Timeless, FiniteTopic
  <2> QED
    BY <1>2, <1>3, <2>1 DEF Leads
<1>5. TopicAgrees(r, u)
  BY <1>4, TopicsEquivalence
<1>6. Ready(r, now) /\ r.queue.held \subseteq t.queue.held \cup fresh_of(p)
  BY <1>2, <1>3, OutcomeReady
<1>7. Works(t, r, said_by(p))
  <2>1. p.type = "DelegateMessage" => FreshFor(t, p.msg, now)
    BY <1>2, FreshEntry DEF Ready
  <2> QED
    BY <1>3, <2>1, OutcomeWorks
<1>8. u.queue.held = r.queue.held
  BY <1>4 DEF TopicAgrees, QueueAgrees, SameIndex
<1> QED
  BY <1>2, <1>5, <1>6, <1>7, <1>8, ReadyAgrees, WorkAgrees DEF Works

\* Work lasts until an entry ends it.
Lasting(len, log, at) ==
  \A i \in 0 .. len, m \in MessageId, e \in Endpoint :
    /\ Working(at[i].queue, m, e)
    /\ \A j \in i + 1 .. len : ~Ends(said_by(log[j]), m, e)
    => Working(at[len].queue, m, e)

\* It does so in a longer history.
LEMMA LastingGrows ==
  ASSUME NEW len \in Nat, NEW log, NEW at, Lasting(len, log, at), NEW log2, NEW at2,
         \A i \in 1 .. len : log2[i] = log[i],
         \A i \in 0 .. len : at2[i] = at[i],
         \A m \in MessageId, e \in Endpoint :
           Working(at[len].queue, m, e) /\ ~Ends(said_by(log2[len + 1]), m, e) =>
             Working(at2[len + 1].queue, m, e)
  PROVE  Lasting(len + 1, log2, at2)
<1> SUFFICES ASSUME NEW i \in 0 .. len + 1, NEW m \in MessageId, NEW e \in Endpoint,
                    Working(at2[i].queue, m, e),
                    \A j \in i + 1 .. len + 1 : ~Ends(said_by(log2[j]), m, e)
             PROVE  Working(at2[len + 1].queue, m, e)
  BY DEF Lasting
<1>1. CASE i = len + 1
  BY <1>1
<1>2. CASE i \in 0 .. len
  <2>1. Working(at[i].queue, m, e)
    BY <1>2
  <2>2. \A j \in i + 1 .. len : ~Ends(said_by(log[j]), m, e)
    <3> TAKE j \in i + 1 .. len
    <3>1. j \in i + 1 .. len + 1 /\ j \in 1 .. len
      BY <1>2
    <3> QED
      BY <3>1
  <2>3. Working(at[len].queue, m, e)
    BY <1>2, <2>1, <2>2 DEF Lasting
  <2>4. len + 1 \in i + 1 .. len + 1
    BY <1>2
  <2> QED
    BY <2>3, <2>4
<1> QED
  BY <1>1, <1>2

-----------------------------------------------------------------------------
(* The endpoints of the cluster work on the front of the log. *)

\* Message m is on its way to e, or e has it and its owner has still to ack it.
Engaged(e, m) ==
  /\ ~Gone(e)
  /\ Header[m].ack_kind # "Sent"
  /\ \/ \E d \in dispatching : d.ep = e /\ d.msg = m /\ d.status = "Spawned"
     \/ /\ in_mail_box(e, m)
        /\ \A kind \in acked[e][m] : ~is_resolved(kind, Header[m].ack_kind)

\* No log holds an entry that ends such work.
NoneEnding ==
  \A e \in Endpoint, m \in MessageId :
    Engaged(e, m) => \A n \in Node : \A p \in Entries(n) : ~Ends(said_by(p), m, e)

\* Nothing is said of an endpoint before it is true.
LEMMA EngagedOpen == UInv /\ OInv => NoneEnding
<1> SUFFICES ASSUME UInv, OInv, NEW e \in Endpoint, NEW m \in MessageId, Engaged(e, m),
                    NEW n \in Node, NEW p \in Entries(n),
                    NEW s \in MessageStatusKind, <<m, e, s>> \in said_by(p),
                    is_resolved(s, Header[m].ack_kind)
             PROVE  FALSE
  BY DEF NoneEnding, Ends
<1>1. CASE p.type = "EpOffline"
  <2>1. p.ep = e
    BY <1>1 DEF said_by
  <2> QED
    BY <1>1, <2>1 DEF OInv, OfflineGone, Engaged
<1>2. CASE p.type = "SetState"
  <2>1. p.msg = m /\ p.ep = e /\ p.kind = s
    BY <1>2 DEF said_by
  <2>2. Claimed(e, m, s)
    BY <1>2, <2>1 DEF Claimed
  <2>3. CASE s = "Sent"
    BY <2>3 DEF Engaged, is_resolved, is_failed, is_reached
  <2>4. CASE s = "Unreachable"
    <3>1. Missed(e, m)
      BY <2>2, <2>4 DEF OInv, UnreachableTrue, Engaged
    <3> QED
      BY <3>1 DEF Missed, Engaged
  <2>5. CASE s \in AckKind
    <3>1. in_mail_box(e, m) /\ s \in acked[e][m]
      BY <2>2, <2>5 DEF UInv, Truthful
    <3> QED
      BY <3>1 DEF OInv, NotThereYet, Engaged
  <2> QED
    BY <1>2, <2>1, <2>3, <2>4, <2>5 DEF UInv, Reports
<1> QED
  BY <1>1, <1>2 DEF said_by

\* Such work begins when its task is spawned.
LEMMA EngagedStep ==
  ASSUME UInv, Next, NEW e \in Endpoint, NEW m \in MessageId, Engaged(e, m)'
  PROVE  \/ Engaged(e, m)
         \/ \E x \in dispatching' \ dispatching : x.ep = e /\ x.msg = m /\ x.status = "Spawned"
<1>0. TypeInv
  BY DEF UInv
<1>1. ~Gone(e) /\ Header[m].ack_kind # "Sent"
  BY <1>0, GoneStep DEF Engaged
<1>2. CASE \E x \in dispatching' : x.ep = e /\ x.msg = m /\ x.status = "Spawned"
  BY <1>1, <1>2 DEF Engaged
<1>3. CASE /\ in_mail_box(e, m)'
           /\ \A kind \in acked'[e][m] : ~is_resolved(kind, Header[m].ack_kind)
  <2>1. acked[e][m] \subseteq acked'[e][m]
    BY <1>0, HistoryStep DEF HistoryKept
  <2>2. CASE in_mail_box(e, m)
    BY <1>1, <1>3, <2>1, <2>2 DEF Engaged
  <2>3. CASE \E d \in dispatching : dispatch_message(d) /\ d.ep = e /\ d.msg = m
    BY <1>1, <2>3 DEF Engaged, dispatch_message
  <2> QED
    BY <1>0, <1>3, <2>2, <2>3, MailStep
<1> QED
  BY <1>2, <1>3 DEF Engaged

\* A task is spawned for work of the front.
LEMMA SpawnWorks ==
  ASSUME Orderly, ClocksAgree, NoneDurable, Blocking, DropsUnblocked, IInv, UInv,
         NEW n \in Node, Advanced(n), NEW x \in dispatching' \ dispatching
  PROVE  Working(topic'[n].queue, x.msg, x.ep)
<1>0. /\ TypeInv /\ FiniteTopic(topic[n]) /\ clock[n] \in Nat /\ clock \in [Node -> Nat \ {0}]
      /\ topic \in [Node -> Topic] /\ pending[n] \in Seq(Proposal) /\ pending[n] # <<>>
  BY DEF IInv, TypeInv, TypeOK, TopicsFinite, Advanced
<1>1. PICK p \in Proposal : p = Head(pending[n]) /\ p = pending[n][1]
  BY <1>0
<1>2. PICK t : t = outcome(topic[n], n, p, clock'[n], expired[n])
  OBVIOUS
<1>3. apply(n, t) /\ clock'[n] = ticked(clock[n], p)
  BY <1>0, <1>1, <1>2 DEF Advanced
<1>4. clock'[n] \in Nat
  BY <1>0, <1>3, TickedType
<1>5. ASSUME p.type = "DelegateMessage" PROVE FreshFor(topic[n], p.msg, clock'[n])
  <2>1. p.msg \in MessageId
    BY <1>5 DEF Proposal
  <2>2. delegates(n, 1, p.msg)
    BY <1>0, <1>1, <1>5 DEF delegates
  <2>3. p.msg \notin topic[n].queue.held
    BY <2>1, <2>2 DEF IInv, LogFresh, queue
  <2>4. QueueConsistent(topic[n].queue) /\ \A y \in topic[n].queue.time_id : y[1] <= clock[n]
    BY DEF IInv, QueuesConsistent, ClockAhead, queue
  <2> QED
    BY <1>0, <1>3, <1>5, <2>3, <2>4, FreshEntry
<1>6. Works(topic[n], t, said_by(p)) /\ FiniteTopic(t)
  BY <1>0, <1>2, <1>4, <1>5, OutcomeWorks, OutcomeType
<1>7. PICK d \in t.queue.dispatch :
        x = [node |-> n, msg |-> d[1], ep |-> d[2], status |-> "Spawned"]
  BY <1>3 DEF apply
<1>8. d \notin topic[n].queue.dispatch
  BY DEF UInv, EffectsTaken, queue
<1>9. Working(t.queue, d[1], d[2])
  BY <1>6, <1>8 DEF Works
<1>10. topic'[n] = Cleared(t)
  BY <1>0, <1>3 DEF apply, Cleared
<1>11. /\ topic'[n].queue.held = t.queue.held /\ topic'[n].queue.status = t.queue.status
       /\ topic'[n].queue.time_id = t.queue.time_id
  BY <1>6, <1>10, ClearedFields
<1> QED
  BY <1>7, <1>9, <1>11 DEF Working, get_front

\* The topic at the end of the log takes the next message, holds only what was
\* sent, and all endpoints work on its front.
Steered(len, log, at, time) ==
  /\ Ready(at[len], time[len])
  /\ Lasting(len, log, at)
  /\ \A m \in at[len].queue.held : sends[m] # 0
  /\ \A e \in Endpoint, m \in MessageId : Engaged(e, m) => Working(at[len].queue, m, e)

\* A history that explains all replicas and all work.
BInv ==
  \E len, log, at, time :
    /\ History(len, log, at, time)
    /\ \A n \in Node : Follows(n, len, log, at, time)
    /\ Steered(len, log, at, time)

\* It is there initially.
LEMMA BInit ==
  ASSUME Node # {}
  PROVE  Init => BInv
<1> SUFFICES ASSUME Init PROVE BInv
  OBVIOUS
<1>1. PICK log, at, time :
        /\ at[0] = from_durable /\ time[0] = 1
        /\ History(0, log, at, time)
        /\ \A n \in Node : Follows(n, 0, log, at, time)
  BY EmptyHistory
<1>2. PICK n \in Node : TRUE
  OBVIOUS
<1>3. IInv /\ topic[n] = from_durable /\ clock[n] = 1
  BY IInvInit DEF Init
<1>4. Ready(at[0], time[0])
  BY <1>1, <1>3 DEF IInv, QueuesConsistent, Sized, NoPanic, ClockAhead, queue, Ready
<1>5. Lasting(0, log, at)
  BY DEF Lasting
<1>6. \A m \in at[0].queue.held : sends[m] # 0
  BY <1>1, <1>3 DEF IInv, HeldSent, queue
<1>7. \A e \in Endpoint, m \in MessageId : ~Engaged(e, m)
  <2>1. dispatching = {} /\ \A e \in Endpoint : mail_box[e] = <<>>
    BY DEF Init
  <2> QED
    BY <2>1 DEF Engaged, in_mail_box
<1>8. Steered(0, log, at, time)
  BY <1>4, <1>5, <1>6, <1>7 DEF Steered
<1> QED
  BY <1>1, <1>8 DEF BInv

\* Applying an entry keeps the history: the work it spawns lasts to its end.
LEMMA AdvanceSteered ==
  ASSUME Orderly, ClocksAgree, NoneDurable, Blocking, DropsUnblocked,
         IInv, UInv, UInv', NoneEnding', Next, NEW n \in Node, Advanced(n),
         NEW len, NEW log, NEW at, NEW time, History(len, log, at, time),
         Follows(n, len, log, at, time)', Steered(len, log, at, time)
  PROVE  Steered(len, log, at, time)'
<1>0. /\ TypeInv /\ TypeInv' /\ len \in Nat /\ sends' = sends
  BY DEF UInv, History, Advanced, apply
<1>1. ASSUME NEW e \in Endpoint, NEW m \in MessageId, Engaged(e, m)'
      PROVE  Working(at[len].queue, m, e)
  <2>1. CASE Engaged(e, m)
    BY <2>1 DEF Steered
  <2>2. CASE \E x \in dispatching' \ dispatching : x.ep = e /\ x.msg = m
    <3>1. Working(topic'[n].queue, m, e)
      BY <2>2, SpawnWorks
    <3>2. PICK b : b = Len(pending'[n])
      OBVIOUS
    <3>3. b \in Nat /\ b <= len
      BY <1>0, <3>2 DEF TypeInv, TypeOK, Follows
    <3>4. PICK i \in 0 .. len : i = len - b
      BY <1>0, <3>3
    <3>5. TopicAgrees(at[i], topic'[n]) /\ \A j \in 1 .. b : pending'[n][j] = log[i + j]
      BY <3>2, <3>4 DEF Follows
    <3>6. Working(at[i].queue, m, e)
      BY <3>1, <3>5, WorkAgrees
    <3>7. ASSUME NEW j \in i + 1 .. len PROVE ~Ends(said_by(log[j]), m, e)
      <4>1. j - i \in 1 .. b /\ i + (j - i) = j
        BY <1>0, <3>3, <3>4
      <4>2. pending'[n][j - i] = log[j]
        BY <3>5, <4>1
      <4>3. log[j] \in Entries(n)'
        BY <3>2, <4>1, <4>2 DEF Entries
      <4>4. \A p \in Entries(n)' : ~Ends(said_by(p), m, e)
        BY <1>1 DEF NoneEnding
      <4> QED
        BY <4>3, <4>4
    <3> QED
      BY <3>6, <3>7 DEF Steered, Lasting
  <2> QED
    BY <1>1, <2>1, <2>2, EngagedStep
<1> QED
  BY <1>0, <1>1 DEF Steered

\* A step that applies no entry begins no work.
LEMMA RestEngaged ==
  ASSUME UInv, Next, ~\E n \in Node : Apply(n),
         NEW e \in Endpoint, NEW m \in MessageId, Engaged(e, m)'
  PROVE  Engaged(e, m)
<1>1. TypeInv
  BY DEF UInv
<1>2. \A x \in dispatching' \ dispatching : x.status # "Spawned"
  BY <1>1, TasksStep, DispatchTasks
<1> QED
  BY <1>2, EngagedStep

\* A proposal keeps the history: nothing ends the work that goes on.
LEMMA ProposeSteered ==
  ASSUME Orderly, ClocksAgree, NoneDurable, Blocking, DropsUnblocked, Node # {},
         IInv, IInv', UInv, NoneEnding', Next, ~\E n \in Node : Apply(n),
         NEW p \in Proposal, propose(p), Proposable(p),
         NEW len, NEW log, NEW at, NEW time, History(len, log, at, time),
         Steered(len, log, at, time),
         NEW next, next = len + 1, NEW log2, NEW at2, NEW time2, History(next, log2, at2, time2),
         log2[next] = p, \A i \in 1 .. len : log2[i] = log[i],
         \A i \in 0 .. len : at2[i] = at[i] /\ time2[i] = time[i]
  PROVE  Steered(next, log2, at2, time2)'
<1>0. /\ TypeInv /\ TypeInv' /\ len \in Nat /\ len \in 0 .. len /\ next \in 1 .. next
      /\ next \in Nat /\ next - 1 = len
  BY DEF IInv, History
<1>1. PICK n \in Node : TRUE
  OBVIOUS
<1>2. p \in Entries(n)'
  BY <1>0, EntriesPropose
<1>3. PICK t : t = at[len] /\ t = at2[len] /\ FiniteTopic(t)
  BY <1>0 DEF History
<1>4. PICK now \in Nat : now = time[len] /\ now = time2[len]
  BY <1>0 DEF History
<1>5. Leads(t, p, ticked(now, p), at2[next]) /\ time2[next] = ticked(now, p)
  <2>1. time2[next] = ticked(time2[next - 1], log2[next])
          /\ Leads(at2[next - 1], log2[next], time2[next], at2[next])
    BY <1>0 DEF History
  <2> QED
    BY <1>0, <1>3, <1>4, <2>1
<1>6. Ready(t, now)
  BY <1>3, <1>4 DEF Steered
<1>7. ASSUME p.type = "DelegateMessage" PROVE p.msg \notin t.queue.held
  <2>1. p.msg \in MessageId
    BY <1>7 DEF Proposal
  <2>2. sends[p.msg] < MaxSends /\ sends[p.msg] \in 0 .. MaxSends
    BY <1>0, <1>7, <2>1 DEF Proposable, TypeInv, TypeOK
  <2>3. sends[p.msg] = 0
    BY <2>2, ClusterAssumption DEF Orderly
  <2> QED
    BY <1>3, <2>3 DEF Steered
<1>8. /\ Ready(at2[next], time2[next])
      /\ at2[next].queue.held \subseteq t.queue.held \cup fresh_of(p)
      /\ \A m \in MessageId, e \in Endpoint :
           Working(t.queue, m, e) /\ ~Ends(said_by(p), m, e) => Working(at2[next].queue, m, e)
  BY <1>3, <1>5, <1>6, <1>7, LeadsOn
<1>9. Lasting(next, log2, at2)
  <2>1. Lasting(len, log, at)
    BY DEF Steered
  <2> QED
    BY <1>0, <1>3, <1>8, <2>1, LastingGrows
<1>10. ASSUME NEW m \in at2[next].queue.held PROVE sends'[m] # 0
  <2>1. CASE m \in t.queue.held
    <3>1. m \in MessageId /\ sends[m] # 0
      BY <1>3, <2>1 DEF Steered, FiniteTopic, FiniteQueue, Queue
    <3> QED
      BY <1>0, <3>1, SendsStep
  <2>2. CASE m \in fresh_of(p)
    <3>1. p.type = "DelegateMessage" /\ m = p.msg /\ m \in MessageId
      BY <2>2 DEF fresh_of, Proposal
    <3>2. PICK i \in Nat : i = Len(pending[n]) + 1
      BY <1>0 DEF TypeInv, TypeOK
    <3>3. delegates(n, i, m)'
      BY <1>0, <3>1, <3>2, ProposeDelegates
    <3> QED
      BY <3>1, <3>3 DEF IInv, LogFresh
  <2> QED
    BY <1>8, <2>1, <2>2
<1>11. ASSUME NEW e \in Endpoint, NEW m \in MessageId, Engaged(e, m)'
       PROVE  Working(at2[next].queue, m, e)
  <2>1. Engaged(e, m)
    BY <1>11, RestEngaged
  <2>2. Working(t.queue, m, e)
    BY <1>3, <2>1 DEF Steered
  <2>3. ~Ends(said_by(p), m, e)
    BY <1>2, <1>11 DEF NoneEnding
  <2> QED
    BY <1>8, <2>2, <2>3
<1> QED
  BY <1>8, <1>9, <1>10, <1>11 DEF Steered

\* A step that neither applies nor proposes keeps the history.
LEMMA RestSteered ==
  ASSUME UInv, Next, ~\E n \in Node : Apply(n),
         NEW len, NEW log, NEW at, NEW time, History(len, log, at, time),
         Steered(len, log, at, time)
  PROVE  Steered(len, log, at, time)'
<1>1. TypeInv /\ at[len].queue.held \subseteq MessageId
  <2>1. FiniteTopic(at[len])
    BY DEF History
  <2> QED
    BY <2>1 DEF UInv, FiniteTopic, FiniteQueue, Queue
<1>2. \A m \in at[len].queue.held : sends'[m] # 0
  BY <1>1, SendsStep DEF Steered
<1>3. \A e \in Endpoint, m \in MessageId : Engaged(e, m)' => Working(at[len].queue, m, e)
  BY RestEngaged DEF Steered
<1> QED
  BY <1>2, <1>3 DEF Steered

\* Every step keeps a history that explains all work.
LEMMA BStep ==
  ASSUME Orderly, ClocksAgree, NoneDurable, Blocking, DropsUnblocked, Node # {},
         IInv, UInv, OnlyExpire, BInv, IInv', UInv', NoneEnding', Next
  PROVE  BInv'
<1>1. TypeInv
  BY DEF UInv
<1>2. PICK len, log, at, time : /\ History(len, log, at, time)
                                /\ \A n \in Node : Follows(n, len, log, at, time)
                                /\ Steered(len, log, at, time)
  BY DEF BInv
<1>3. CASE \E n \in Node : Apply(n)
  <2>1. PICK n \in Node : Advanced(n)
    BY <1>1, <1>3, ApplyTakesEntry
  <2>2. Timeless(expired[n])
    BY DEF OnlyExpire, ClocksAgree, Timeless
  <2>3. \A k \in Node : Follows(k, len, log, at, time)'
    BY <1>1, <1>2, <2>1, <2>2, AdvanceFollows
  <2>4. Steered(len, log, at, time)'
    BY <1>2, <2>1, <2>3, AdvanceSteered
  <2> QED
    BY <1>2, <2>3, <2>4 DEF BInv
<1>4. CASE ~\E n \in Node : Apply(n)
  <2>1. UNCHANGED <<topic, clock>> /\ Proposes
    BY <1>1, <1>4, ClocksRest, ApplyOrProposes DEF Proposes
  <2>2. CASE UNCHANGED pending
    <3>1. \A n \in Node : Follows(n, len, log, at, time)'
      BY <1>2, <2>1, <2>2 DEF Follows
    <3>2. Steered(len, log, at, time)'
      BY <1>2, <1>4, RestSteered
    <3> QED
      BY <1>2, <3>1, <3>2 DEF BInv
  <2>3. CASE \E p \in Proposal : propose(p) /\ Proposable(p)
    <3>1. PICK p \in Proposal : propose(p) /\ Proposable(p)
      BY <2>3
    <3>2. PICK next : next = len + 1
      OBVIOUS
    <3>3. PICK log2, at2, time2 :
            /\ History(next, log2, at2, time2)
            /\ log2[next] = p
            /\ \A i \in 1 .. len : log2[i] = log[i]
            /\ \A i \in 0 .. len : at2[i] = at[i] /\ time2[i] = time[i]
      BY <1>2, <3>2, HistoryGrows
    <3>4. ASSUME NEW n \in Node PROVE Follows(n, next, log2, at2, time2)'
      <4>1. Follows(n, len, log, at, time)
        BY <1>2
      <4> QED
        BY <1>1, <1>2, <2>1, <3>1, <3>2, <3>3, <4>1, ProposeFollows
    <3>5. Steered(next, log2, at2, time2)'
      BY <1>2, <1>4, <3>1, <3>2, <3>3, ProposeSteered
    <3> QED
      BY <3>3, <3>4, <3>5 DEF BInv
  <2> QED
    BY <2>1, <2>2, <2>3 DEF Proposes
<1> QED
  BY <1>3, <1>4

\* So does stuttering.
LEMMA BStutter ==
  ASSUME BInv, UNCHANGED vars
  PROVE  BInv'
<1>1. /\ UNCHANGED <<pending, topic, clock, dispatching, sends>>
      /\ UNCHANGED <<ep_state, mail_box, acked>>
  BY DEF vars
<1>2. PICK len, log, at, time : /\ History(len, log, at, time)
                                /\ \A n \in Node : Follows(n, len, log, at, time)
                                /\ Steered(len, log, at, time)
  BY DEF BInv
<1>3. \A n \in Node : Follows(n, len, log, at, time)'
  BY <1>1, <1>2 DEF Follows
<1>4. \A e \in Endpoint, m \in MessageId : Engaged(e, m)' <=> Engaged(e, m)
  BY <1>1 DEF Engaged, Gone, in_mail_box
<1>5. Steered(len, log, at, time)'
  BY <1>1, <1>2, <1>4 DEF Steered
<1> QED
  BY <1>2, <1>3, <1>5 DEF BInv

\* All endpoints that have something to ack have the front of the log to ack.
LEMMA WorkOnFront ==
  ASSUME BInv, NEW e \in Endpoint, NEW f \in Endpoint, NEW k \in MessageId, NEW m \in MessageId,
         awaiting(e, k), awaiting(f, m)
  PROVE  k = m
<1>1. PICK len, log, at, time : History(len, log, at, time) /\ Steered(len, log, at, time)
  BY DEF BInv
<1>2. Engaged(e, k) /\ Engaged(f, m)
  BY DEF awaiting, Engaged, Gone
<1>3. k \in get_front(at[len].queue) /\ m \in get_front(at[len].queue)
  BY <1>1, <1>2 DEF Steered, Working
<1>4. FiniteQueue(at[len].queue) /\ QueueConsistent(at[len].queue)
  <2>1. FiniteTopic(at[len])
    BY <1>1 DEF History
  <2> QED
    BY <1>1, <2>1 DEF FiniteTopic, Steered, Ready
<1> QED
  BY <1>3, <1>4, OneFront

\* In every orderly behaviour of a blocking topic whose messages wait for acks,
\* the endpoints of the whole cluster work on one message at a time: a node hands
\* out a message only while it is at the front of its queue (poll_message of
\* message_queue.rs), and however far a node is behind, an endpoint that has not
\* acked keeps its message at the front of the log.
THEOREM BlockingTakesTurns ==
  ASSUME Orderly, ClocksAgree, NoneDurable, DropsUnblocked
  PROVE  Spec => []BlockingOneAtATime
<1>1. CASE ~Blocking \/ Node = {}
  <2>1. BlockingOneAtATime
    BY <1>1, ClusterAssumption DEF BlockingOneAtATime
  <2> QED
    BY <2>1, PTL
<1>2. CASE Blocking /\ Node # {}
  <2>1. Spec => [](IInv /\ UInv /\ OInv)
    BY OInductive
  <2>2. Spec => []AInv
    BY AInit, AStep, PTL DEF Spec
  <2>3. Spec => []NoneEnding
    BY <2>1, EngagedOpen, PTL
  <2>4. Init => BInv
    BY <1>2, BInit
  <2>5. /\ IInv /\ UInv /\ AInv /\ BInv /\ IInv' /\ UInv' /\ NoneEnding'
        /\ [Next]_vars
        => BInv'
    BY <1>2, BStep, BStutter DEF AInv
  <2>6. BInv => BlockingOneAtATime
    BY WorkOnFront DEF BlockingOneAtATime
  <2> QED
    BY <2>1, <2>2, <2>3, <2>4, <2>5, <2>6, PTL DEF Spec
<1> QED
  BY <1>1, <1>2

=============================================================================
