---------------------------- MODULE DeliveryProofs ----------------------------
(***************************************************************************)
(* Theorems about what Cluster delivers and what it tells a sender: for    *)
(* every instance, a sender is told Ok only for endpoints that have the    *)
(* message and acked it, and a held durable message has every interested   *)
(* endpoint as a target; in orderly instances, no endpoint is handed a     *)
(* message twice, a sender is told Err only for a reason, (unless a        *)
(* blocking queue drops old messages) no replica forgets a message it      *)
(* should be sending, and to its clients Cluster is what Messaging says.   *)
(***************************************************************************)
EXTENDS ClusterProofs

-----------------------------------------------------------------------------
(* What applying an entry does. *)

\* The entries node n has to apply.
Entries(n) == {pending[n][i] : i \in 1 .. Len(pending[n])}

\* A proposal is one more entry for every node.
LEMMA EntriesPropose ==
  ASSUME TypeInv, NEW p \in Proposal, propose(p), NEW n \in Node
  PROVE  Entries(n)' = Entries(n) \cup {p}
<1>1. pending[n] \in Seq(Proposal) /\ pending'[n] = Append(pending[n], p)
  BY DEF TypeInv, TypeOK, propose
<1>2. Len(pending'[n]) = Len(pending[n]) + 1 /\ Len(pending[n]) \in Nat
  BY <1>1
<1>3. \A j \in 1 .. Len(pending[n]) : pending'[n][j] = pending[n][j]
  BY <1>1
<1>4. pending'[n][Len(pending[n]) + 1] = p
  BY <1>1
<1> QED
  BY <1>2, <1>3, <1>4 DEF Entries

\* Applying an entry takes it from the entries of the node.
LEMMA EntriesApply ==
  ASSUME TypeInv, NEW n \in Node, NEW t, Applied(n, t)
  PROVE  /\ Head(pending[n]) \in Entries(n)
         /\ \A k \in Node : Entries(k)' \subseteq Entries(k)
<1>1. /\ pending \in [Node -> Seq(Proposal)]
      /\ pending[n] # <<>>
      /\ pending' = [pending EXCEPT ![n] = Tail(@)]
  BY DEF TypeInv, TypeOK, Applied, apply
<1>2. Head(pending[n]) = pending[n][1] /\ 1 \in 1 .. Len(pending[n])
  BY <1>1
<1>3. ASSUME NEW k \in Node PROVE Entries(k)' \subseteq Entries(k)
  <2>1. CASE k # n
    <3>1. pending'[k] = pending[k]
      BY <1>1, <2>1
    <3> QED
      BY <3>1 DEF Entries
  <2>2. CASE k = n
    <3>1. pending'[n] = Tail(pending[n])
      BY <1>1
    <3>2. Len(pending'[n]) = Len(pending[n]) - 1 /\ Len(pending[n]) \in Nat
      BY <1>1, <3>1
    <3>3. \A j \in 1 .. Len(pending'[n]) : pending'[n][j] = pending[n][j + 1]
      BY <1>1, <3>1, <3>2
    <3>4. \A j \in 1 .. Len(pending'[n]) : j + 1 \in 1 .. Len(pending[n])
      BY <3>2
    <3> QED
      BY <2>2, <3>3, <3>4 DEF Entries
  <2> QED
    BY <2>1, <2>2
<1> QED
  BY <1>2, <1>3 DEF Entries

\* The message entry p pushes, the statuses it writes and the route it adds.
fresh_of(p) == IF p.type = "DelegateMessage" THEN {p.msg} ELSE {}

said_by(p) ==
  IF p.type = "SetState" THEN {<<p.msg, p.ep, p.kind>>}
  ELSE IF p.type = "EpOffline" THEN {<<m, p.ep, "Unreachable">> : m \in MessageId}
  ELSE {}

routes_of(p, k) == IF p.type = "EpOnline" /\ k = p.host THEN {p.ep} ELSE {}

\* Dispatch tasks and owners report that a message was handed out, never Unsent.
Reports ==
  \A n \in Node : \A p \in Entries(n) :
    p.type = "SetState" => p.kind \in AckKind \cup {"Sent", "Unreachable"}

\* Applying the next entry of node n leaves it with topic t.
Advances(n, t) ==
  /\ Applied(n, t)
  /\ Delivers(topic[n], t, n, fresh_of(Head(pending[n])), said_by(Head(pending[n])))
  /\ \A k \in Node :
       t.routing[k] \subseteq topic[n].routing[k] \cup routes_of(Head(pending[n]), k)

\* Applying an entry is such a step.
LEMMA ApplyAdvances ==
  ASSUME TypeInv, Reports, NEW n \in Node, Apply(n)
  PROVE  \E t : Advances(n, t)
<1>1. FiniteTopic(topic[n]) /\ topic[n] \in Topic /\ clock \in [Node -> Nat \ {0}]
  BY DEF TypeInv, TypeOK, TopicsFinite
<1>2. pending[n] # <<>>
  BY DEF Apply, apply_delegate_message, apply_set_state, apply_ep_online, apply_ep_offline,
         apply_ep_interest, next_is
<1>3. PICK p : p = Head(pending[n])
  OBVIOUS
<1>4. p \in Proposal /\ p \in Entries(n)
  <2>1. pending[n] \in Seq(Proposal)
    BY DEF TypeInv, TypeOK
  <2>2. p = pending[n][1] /\ 1 \in 1 .. Len(pending[n])
    BY <1>2, <1>3, <2>1
  <2> QED
    BY <1>2, <1>3, <2>2, HeadType DEF Entries
<1>5. PICK u : u = topic[n]
  OBVIOUS
<1>6. /\ FiniteTopic(u)
      /\ u.routing \in [Node -> SUBSET Endpoint]
  BY <1>1, <1>5 DEF Topic
<1>7. CASE apply_delegate_message(n)
  <2>1. p.type = "DelegateMessage" /\ p.msg \in MessageId
    BY <1>3, <1>4, <1>7 DEF apply_delegate_message, next_is, Proposal
  <2>2. PICK step \in ClockStep :
          /\ clock' = [clock EXCEPT ![n] = @ + step]
          /\ apply(n, hold_new_message(topic[n], n, p.msg, clock[n] + step, expired[n]))
    BY <1>3, <1>7 DEF apply_delegate_message
  <2>a. PICK m, time, past : m = p.msg /\ time = clock[n] + step /\ past = expired[n]
    OBVIOUS
  <2>3. PICK t : t = hold_new_message(u, n, m, time, past)
    OBVIOUS
  <2>4. step \in Nat /\ clock[n] + step \in Nat /\ clock' \in [Node -> Nat \ {0}]
    BY <1>1, <2>2, ClusterAssumption
  <2>5. Delivers(u, t, n, {m}, {}) /\ t.routing = u.routing
    <3>1. m \in MessageId /\ time \in Nat
      BY <2>1, <2>4, <2>a
    <3> QED
      BY <1>6, <2>3, <3>1, HoldNewMessageDelivers
  <2>6. Applied(n, t)
    BY <1>2, <1>5, <2>2, <2>3, <2>4, <2>5, <2>a DEF Applied, Delivers
  <2>7. fresh_of(p) = {m} /\ said_by(p) = {}
    BY <2>1, <2>a DEF fresh_of, said_by
  <2> QED
    BY <1>3, <1>5, <2>5, <2>6, <2>7 DEF Advances
<1>8. CASE apply_set_state(n)
  <2>1. /\ p.type = "SetState" /\ p.msg \in MessageId /\ p.ep \in Endpoint
        /\ p.kind \in MessageStatusKind
    BY <1>3, <1>4, <1>8 DEF apply_set_state, next_is, Proposal
  <2>2. p.kind # "Unsent"
    BY <1>4, <2>1 DEF Reports, AckKind
  <2>3. PICK t : t = set_state(u, n, p.msg, p.ep, p.kind, expired[n])
    OBVIOUS
  <2>4. Delivers(u, t, n, {}, {<<p.msg, p.ep, p.kind>>}) /\ t.routing = u.routing
    BY <1>6, <2>1, <2>2, <2>3, SetStateDelivers
  <2>5. Applied(n, t)
    BY <1>1, <1>2, <1>3, <1>5, <1>8, <2>3, <2>4 DEF Applied, Delivers, apply_set_state
  <2>6. fresh_of(p) = {} /\ said_by(p) = {<<p.msg, p.ep, p.kind>>}
    BY <2>1 DEF fresh_of, said_by
  <2> QED
    BY <1>3, <1>5, <2>4, <2>5, <2>6 DEF Advances
<1>9. CASE apply_ep_online(n)
  <2>1. /\ p.type = "EpOnline" /\ p.ep \in Endpoint /\ p.host \in Node
        /\ p.interests \in SUBSET Subject
    BY <1>3, <1>4, <1>9 DEF apply_ep_online, next_is, Proposal
  <2>a. PICK e, interests, host, past : e = p.ep /\ interests = p.interests /\ host = p.host /\ past = expired[n]
    OBVIOUS
  <2>2. PICK t : t = ep_online(u, n, e, interests, host, past)
    OBVIOUS
  <2>3. /\ Delivers(u, t, n, {}, {})
        /\ Onlined(u, t, e, interests, host)
    <3>1. e \in Endpoint /\ interests \in SUBSET Subject /\ host \in Node
      BY <2>1, <2>a
    <3> QED
      BY <1>6, <2>2, <3>1, EpOnlineDelivers
  <2>4. Applied(n, t)
    BY <1>1, <1>2, <1>3, <1>5, <1>9, <2>2, <2>3, <2>a DEF Applied, Delivers, apply_ep_online
  <2>5. fresh_of(p) = {} /\ said_by(p) = {}
    BY <2>1 DEF fresh_of, said_by
  <2>6. \A k \in Node : t.routing[k] \subseteq u.routing[k] \cup routes_of(p, k)
    BY <1>6, <2>1, <2>3, <2>a DEF routes_of, Onlined
  <2> QED
    BY <1>3, <1>5, <2>3, <2>4, <2>5, <2>6 DEF Advances
<1>10. CASE apply_ep_offline(n)
  <2>1. p.type = "EpOffline" /\ p.ep \in Endpoint /\ p.host \in Node
    BY <1>3, <1>4, <1>10 DEF apply_ep_offline, next_is, Proposal
  <2>a. PICK host, e, past : host = p.host /\ e = p.ep /\ past = expired[n]
    OBVIOUS
  <2>2. PICK t : t = ep_offline(u, n, host, e, past)
    OBVIOUS
  <2>3. PICK said : said = {<<m, e, "Unreachable">> : m \in MessageId}
    OBVIOUS
  <2>4. /\ Delivers(u, t, n, {}, said)
        /\ Offlined(u, t, e, host)
    <3>1. e \in Endpoint /\ host \in Node
      BY <2>1, <2>a
    <3> QED
      BY <1>6, <2>2, <2>3, <3>1, EpOfflineDelivers
  <2>5. Applied(n, t)
    BY <1>1, <1>2, <1>3, <1>5, <1>10, <2>2, <2>4, <2>a DEF Applied, Delivers, apply_ep_offline
  <2>6. fresh_of(p) = {} /\ said_by(p) = said
    BY <2>1, <2>3, <2>a DEF fresh_of, said_by
  <2>7. \A k \in Node : t.routing[k] \subseteq u.routing[k]
    BY <1>6, <2>1, <2>4, <2>a DEF Offlined
  <2> QED
    BY <1>3, <1>5, <2>4, <2>5, <2>6, <2>7 DEF Advances
<1>11. CASE apply_ep_interest(n)
  <2>1. p.type = "EpInterest" /\ p.ep \in Endpoint /\ p.interests \in SUBSET Subject
    BY <1>3, <1>4, <1>11 DEF apply_ep_interest, next_is, Proposal
  <2>a. PICK e, interests, past : e = p.ep /\ interests = p.interests /\ past = expired[n]
    OBVIOUS
  <2>2. PICK t : t = update_ep_interest(u, n, e, interests, past)
    OBVIOUS
  <2>3. Delivers(u, t, n, {}, {}) /\ Interested(u, t, e, interests)
    <3>1. e \in Endpoint /\ interests \in SUBSET Subject
      BY <2>1, <2>a
    <3> QED
      BY <1>6, <2>2, <3>1, EpInterestDelivers
  <2>4. Applied(n, t)
    BY <1>1, <1>2, <1>3, <1>5, <1>11, <2>2, <2>3, <2>a DEF Applied, Delivers, apply_ep_interest
  <2>5. fresh_of(p) = {} /\ said_by(p) = {}
    BY <2>1 DEF fresh_of, said_by
  <2> QED
    BY <1>3, <1>5, <2>3, <2>4, <2>5 DEF Advances, Interested
<1> QED
  BY <1>7, <1>8, <1>9, <1>10, <1>11 DEF Apply

\* The fields of the topic that apply leaves.
LEMMA ClearedFields ==
  ASSUME NEW t, FiniteTopic(t), NEW c, c = Cleared(t)
  PROVE  /\ c.routing = t.routing
         /\ c.interest = t.interest
         /\ c.queue.held = t.queue.held
         /\ c.queue.status = t.queue.status
         /\ c.queue.time_id = t.queue.time_id
         /\ c.queue.dispatch = {}
         /\ c.queue.acks = {}
<1>1. PICK q : q = [t.queue EXCEPT !.dispatch = {}, !.acks = {}]
  OBVIOUS
<1>2. t \in Topic /\ t.queue \in Queue
  BY DEF FiniteTopic, FiniteQueue
<1>3. /\ q.held = t.queue.held /\ q.status = t.queue.status /\ q.time_id = t.queue.time_id
      /\ q.dispatch = {} /\ q.acks = {}
  BY <1>1, <1>2 DEF Queue
<1>4. c = [t EXCEPT !.queue = q]
  BY <1>1, <1>2 DEF Cleared, Topic, Queue
<1>5. c.queue = q /\ c.routing = t.routing /\ c.interest = t.interest
  BY <1>2, <1>4 DEF Topic
<1> QED
  BY <1>3, <1>5

\* What applying the next entry of node n with the resulting topic t does to each
\* variable that delivery depends on.
AppliedTo(n, t) ==
  /\ topic'[n].routing = t.routing
  /\ topic'[n].interest = t.interest
  /\ queue(n)'.held = t.queue.held
  /\ queue(n)'.status = t.queue.status
  /\ queue(n)'.time_id = t.queue.time_id
  /\ queue(n)'.dispatch = {}
  /\ queue(n)'.acks = {}
  /\ \A k \in Node : k # n => topic'[k] = topic[k] /\ queue(k)' = queue(k)
                                /\ resolving'[k] = resolving[k]
  /\ resolving'[n] = resolving[n] \cup t.queue.acks
  /\ dispatching' = dispatching \cup
       {[node |-> n, msg |-> d[1], ep |-> d[2], status |-> "Spawned"] : d \in t.queue.dispatch}
  /\ UNCHANGED <<expired, waiter, sends, ep_state, offlines, updates, mail_box, acked>>

\* Applying an entry does that.
LEMMA AppliedFields ==
  ASSUME TypeInv, NEW n \in Node, NEW t, Applied(n, t)
  PROVE  AppliedTo(n, t)
<1>1. topic \in [Node -> Topic] /\ resolving \in [Node -> SUBSET WaitAckResult]
  BY DEF TypeInv, TypeOK
<1>2. /\ topic' = [topic EXCEPT ![n] = Cleared(t)]
      /\ resolving' = [resolving EXCEPT ![n] = @ \cup t.queue.acks]
      /\ FiniteTopic(t)
  BY DEF Applied, apply, Cleared
<1>3. PICK c : c = Cleared(t)
  OBVIOUS
<1>4. topic'[n] = c /\ queue(n)' = c.queue
  BY <1>1, <1>2, <1>3 DEF queue
<1>5. \A k \in Node : k # n => topic'[k] = topic[k] /\ queue(k)' = queue(k)
                                /\ resolving'[k] = resolving[k]
  BY <1>1, <1>2 DEF queue
<1>6. resolving'[n] = resolving[n] \cup t.queue.acks
  BY <1>1, <1>2
<1>7. /\ c.routing = t.routing
      /\ c.interest = t.interest
      /\ c.queue.held = t.queue.held
      /\ c.queue.status = t.queue.status
      /\ c.queue.time_id = t.queue.time_id
      /\ c.queue.dispatch = {}
      /\ c.queue.acks = {}
  BY <1>2, <1>3, ClearedFields
<1>8. /\ dispatching' = dispatching \cup
           {[node |-> n, msg |-> d[1], ep |-> d[2], status |-> "Spawned"] : d \in t.queue.dispatch}
      /\ UNCHANGED <<expired, waiter, sends, ep_state, offlines, updates, mail_box, acked>>
  BY DEF Applied, apply, ep_vars
<1> QED
  BY <1>4, <1>5, <1>6, <1>7, <1>8 DEF AppliedTo

-----------------------------------------------------------------------------
(* Statuses as claims about the endpoints. *)

\* Somewhere in the cluster status s is on record for message m and endpoint e: in
\* a queue, a log, a dispatch task, a result on the way or a result delivered.
Claimed(e, m, s) ==
  \/ \E n \in Node : m \in queue(n).held /\ queue(n).status[m][e] = s
  \/ \E n \in Node : \E p \in Entries(n) :
       p.type = "SetState" /\ p.msg = m /\ p.ep = e /\ p.kind = s
  \/ \E d \in dispatching : d.ep = e /\ d.msg = m /\ d.status = s
  \/ \E n \in Node : \E r \in resolving[n] : r.id = m /\ r.status[e] = s
  \/ \E n \in Node : waiter[n][m].status[e] = s

\* The claims that are new in a step: that a message is not sent yet, what a
\* dispatch task finds, what an owner acks, and that an endpoint is offline.
NewlyClaimed(e, m, s) ==
  \/ s \in {"Unsent", "Sending"}
  \/ s = "Sent" /\ in_mail_box(e, m)'
  \/ s \in AckKind /\ in_mail_box(e, m) /\ s \in acked'[e][m]
  \/ /\ s = "Unreachable"
     /\ \/ \E d \in dispatching : /\ dispatch_message(d)
                                  /\ d.ep = e /\ d.msg = m /\ ep_state[e] # "live"
        \/ \E n \in Node : \E p \in Entries(n) : p.type = "EpOffline" /\ p.ep = e

\* The effects of an entry are taken out of the topic when it is applied.
EffectsTaken == \A n \in Node : queue(n).dispatch = {} /\ queue(n).acks = {}

\* No sender is given a result.
NoNewResults ==
  \A n \in Node, m \in MessageId : waiter'[n][m].status \in {waiter[n][m].status, NoStatus}

\* Claims of a step that proposes p and leaves the queues and the results alone.
LEMMA ProposeClaims ==
  ASSUME TypeInv, NEW p \in Proposal, propose(p), UNCHANGED <<topic, resolving>>,
         NoNewResults, dispatching' \subseteq dispatching,
         NEW e \in Endpoint, NEW m \in MessageId, NEW s \in MessageStatusKind,
         Claimed(e, m, s)'
  PROVE  Claimed(e, m, s) \/ (p.type = "SetState" /\ p.msg = m /\ p.ep = e /\ p.kind = s)
<1>1. \A n \in Node : queue(n)' = queue(n) /\ Entries(n)' = Entries(n) \cup {p}
  BY EntriesPropose DEF queue
<1>2. CASE \E n \in Node : m \in queue(n)'.held /\ queue(n)'.status[m][e] = s
  BY <1>1, <1>2 DEF Claimed
<1>3. CASE \E n \in Node : \E x \in Entries(n)' :
             x.type = "SetState" /\ x.msg = m /\ x.ep = e /\ x.kind = s
  BY <1>1, <1>3 DEF Claimed
<1>4. CASE \E d \in dispatching' : d.ep = e /\ d.msg = m /\ d.status = s
  BY <1>4 DEF Claimed
<1>5. CASE \E n \in Node : \E r \in resolving'[n] : r.id = m /\ r.status[e] = s
  BY <1>5 DEF Claimed
<1>6. CASE \E n \in Node : waiter'[n][m].status[e] = s
  <2>1. NoStatus[e] # s
    BY DEF NoStatus, Absent, MessageStatusKind
  <2> QED
    BY <1>6, <2>1 DEF Claimed, NoNewResults
<1> QED
  BY <1>2, <1>3, <1>4, <1>5, <1>6 DEF Claimed

\* Claims of a step that neither proposes nor applies.
LEMMA QuietClaims ==
  ASSUME TypeInv, UNCHANGED <<pending, topic, resolving>>, NoNewResults,
         dispatching' \subseteq dispatching,
         NEW e \in Endpoint, NEW m \in MessageId, NEW s \in MessageStatusKind,
         Claimed(e, m, s)'
  PROVE  Claimed(e, m, s)
<1>1. \A n \in Node : queue(n)' = queue(n) /\ Entries(n)' = Entries(n)
  BY DEF queue, Entries
<1>2. NoStatus[e] # s
  BY DEF NoStatus, Absent, MessageStatusKind
<1> QED
  BY <1>1, <1>2 DEF Claimed, NoNewResults

\* Claims after an entry is applied.
LEMMA ApplyClaims ==
  ASSUME TypeInv, EffectsTaken, NEW n \in Node, NEW t, Advances(n, t),
         NEW e \in Endpoint, NEW m \in MessageId, NEW s \in MessageStatusKind,
         Claimed(e, m, s)'
  PROVE  Claimed(e, m, s) \/ NewlyClaimed(e, m, s)
<1>1. PICK p : p = Head(pending[n])
  OBVIOUS
<1>2. Applied(n, t) /\ Delivers(topic[n], t, n, fresh_of(p), said_by(p))
  BY <1>1 DEF Advances
<1>3. AppliedTo(n, t) /\ p \in Entries(n) /\ \A k \in Node : Entries(k)' \subseteq Entries(k)
  BY <1>1, <1>2, AppliedFields, EntriesApply
<1>4. ASSUME Says(t.queue, m, e, s) PROVE Claimed(e, m, s) \/ NewlyClaimed(e, m, s)
  <2>1. \/ Says(topic[n].queue, m, e, s)
        \/ s \in {"Unsent", "Sending"}
        \/ <<m, e, s>> \in said_by(p)
    BY <1>2, <1>4 DEF Delivers
  <2>2. CASE Says(topic[n].queue, m, e, s)
    <3>1. queue(n).acks = {}
      BY DEF EffectsTaken
    <3> QED
      BY <2>2, <3>1 DEF Says, Claimed, queue
  <2>3. CASE s \in {"Unsent", "Sending"}
    BY <2>3 DEF NewlyClaimed
  <2>4. CASE <<m, e, s>> \in said_by(p)
    <3>1. CASE p.type = "SetState"
      <4>1. m = p.msg /\ e = p.ep /\ s = p.kind
        BY <2>4, <3>1 DEF said_by
      <4> QED
        BY <1>3, <3>1, <4>1 DEF Claimed
    <3>2. CASE p.type = "EpOffline"
      <4>1. e = p.ep /\ s = "Unreachable"
        BY <2>4, <3>2 DEF said_by
      <4> QED
        BY <1>3, <3>2, <4>1 DEF NewlyClaimed
    <3>3. CASE p.type \notin {"SetState", "EpOffline"}
      BY <2>4, <3>3 DEF said_by
    <3> QED
      BY <3>1, <3>2, <3>3
  <2> QED
    BY <2>1, <2>2, <2>3, <2>4
<1>5. CASE \E k \in Node : m \in queue(k)'.held /\ queue(k)'.status[m][e] = s
  <2>1. PICK k \in Node : m \in queue(k)'.held /\ queue(k)'.status[m][e] = s
    BY <1>5
  <2>2. CASE k = n
    BY <1>3, <1>4, <2>1, <2>2 DEF AppliedTo, Says
  <2>3. CASE k # n
    BY <1>3, <2>1, <2>3 DEF AppliedTo, Claimed
  <2> QED
    BY <2>2, <2>3
<1>6. CASE \E k \in Node : \E x \in Entries(k)' :
             x.type = "SetState" /\ x.msg = m /\ x.ep = e /\ x.kind = s
  BY <1>3, <1>6 DEF Claimed
<1>7. CASE \E d \in dispatching' : d.ep = e /\ d.msg = m /\ d.status = s
  <2>1. PICK d \in dispatching' : d.ep = e /\ d.msg = m /\ d.status = s
    BY <1>7
  <2>2. s # "Spawned"
    BY DEF MessageStatusKind
  <2>3. d \in dispatching
    BY <1>3, <2>1, <2>2 DEF AppliedTo
  <2> QED
    BY <2>1, <2>3 DEF Claimed
<1>8. CASE \E k \in Node : \E r \in resolving'[k] : r.id = m /\ r.status[e] = s
  <2>0. PICK k \in Node : \E r \in resolving'[k] : r.id = m /\ r.status[e] = s
    BY <1>8
  <2>1. PICK r \in resolving'[k] : r.id = m /\ r.status[e] = s
    BY <2>0
  <2>2. CASE r \in resolving[k]
    BY <2>1, <2>2 DEF Claimed
  <2>3. CASE r \notin resolving[k]
    <3>1. r \in t.queue.acks
      BY <1>3, <2>1, <2>3 DEF AppliedTo
    <3> QED
      BY <1>4, <2>1, <3>1 DEF Says
  <2> QED
    BY <2>2, <2>3
<1>9. CASE \E k \in Node : waiter'[k][m].status[e] = s
  BY <1>3, <1>9 DEF AppliedTo, Claimed
<1> QED
  BY <1>5, <1>6, <1>7, <1>8, <1>9 DEF Claimed

-----------------------------------------------------------------------------
(* The steps of the cluster, by what they do to the logs. *)

\* Endpoint e has left.
Gone(e) == ep_state[e] \in {"deleted", "dropped"}

\* What is true when p is proposed: the report of a dispatch task or the ack of
\* an owner, the EpOnline of a new endpoint, the EpOffline of one that has left, a
\* message whose sends are not used up.
Proposable(p) ==
  /\ p.type = "SetState" =>
       \/ \E d \in dispatching : /\ d.status # "Spawned"
                                 /\ d.msg = p.msg /\ d.ep = p.ep /\ d.status = p.kind
       \/ /\ p.kind \in AckKind
          /\ in_mail_box(p.ep, p.msg)
          /\ p.kind \in acked'[p.ep][p.msg]
  /\ p.type = "EpOnline" =>
       p.host = Host[p.ep] /\ ep_state[p.ep] = "new" /\ ep_state'[p.ep] # "new"
  /\ p.type = "EpOffline" => Gone(p.ep)
  /\ p.type = "EpInterest" => ep_state[p.ep] \in {"live", "deleted"}
  /\ p.type = "DelegateMessage" => sends[p.msg] < MaxSends

\* A step that does not apply an entry.
Proposes ==
  /\ UNCHANGED topic
  /\ UNCHANGED pending \/ \E p \in Proposal : propose(p) /\ Proposable(p)

\* The report of a dispatch task.
LEMMA ReportProposes ==
  ASSUME TypeInv, NEW d \in dispatching, report_dispatch(d)
  PROVE  Proposes
<1>1. d \in Dispatch
  BY DEF TypeInv, TypeOK
<1>2. PICK p : p = [type |-> "SetState", msg |-> d.msg, ep |-> d.ep, kind |-> d.status]
  OBVIOUS
<1>3. d.status \in MessageStatusKind /\ d.msg \in MessageId /\ d.ep \in Endpoint
  BY <1>1 DEF Dispatch, report_dispatch, MessageStatusKind
<1>4. p \in Proposal
  BY <1>2, <1>3 DEF Proposal
<1>5. propose(p) /\ d.status # "Spawned" /\ UNCHANGED topic
  BY <1>2 DEF report_dispatch
<1>6. Proposable(p)
  BY <1>2, <1>5 DEF Proposable
<1> QED
  BY <1>4, <1>5, <1>6 DEF Proposes

\* The ack of an owner.
LEMMA AckProposes ==
  ASSUME TypeInv, NEW e \in Endpoint, NEW m \in MessageId, NEW kind \in AckChoices,
         single_ack(e, m, kind)
  PROVE  Proposes
<1>1. PICK p : p = [type |-> "SetState", msg |-> m, ep |-> e, kind |-> kind]
  OBVIOUS
<1>2. kind \in AckKind /\ kind \in MessageStatusKind
  BY ClusterAssumption DEF AckKind, MessageStatusKind
<1>3. p \in Proposal
  BY <1>1, <1>2 DEF Proposal
<1>4. propose(p) /\ in_mail_box(e, m) /\ UNCHANGED topic
  BY <1>1 DEF single_ack, in_mail_box
<1>5. kind \in acked'[e][m]
  BY DEF single_ack, TypeInv, TypeOK
<1>6. Proposable(p)
  BY <1>1, <1>2, <1>4, <1>5 DEF Proposable
<1> QED
  BY <1>3, <1>4, <1>6 DEF Proposes

\* Endpoints that come and that change their interests.
LEMMA EndpointProposes ==
  ASSUME TypeInv, NEW e \in Endpoint, NEW interests \in InterestChoices,
         create_endpoint(e, interests) \/ update_interest(e, interests)
  PROVE  Proposes
<1>1. interests \in SUBSET Subject /\ Host[e] \in Node
  BY ClusterAssumption
<1>2. CASE create_endpoint(e, interests)
  <2>1. PICK p : p = [type |-> "EpOnline", ep |-> e, interests |-> interests, host |-> Host[e]]
    OBVIOUS
  <2>2. p \in Proposal
    BY <1>1, <2>1 DEF Proposal
  <2>3. ep_state'[e] # "new"
    BY <1>2 DEF create_endpoint, TypeInv, TypeOK
  <2>4. propose(p) /\ Proposable(p) /\ UNCHANGED topic
    BY <1>2, <2>1, <2>3 DEF create_endpoint, Proposable
  <2> QED
    BY <2>2, <2>4 DEF Proposes
<1>3. CASE update_interest(e, interests)
  <2>1. PICK p : p = [type |-> "EpInterest", ep |-> e, interests |-> interests]
    OBVIOUS
  <2>2. p \in Proposal
    BY <1>1, <2>1 DEF Proposal
  <2>3. propose(p) /\ Proposable(p) /\ UNCHANGED topic
    BY <1>3, <2>1 DEF update_interest, Proposable
  <2> QED
    BY <2>2, <2>3 DEF Proposes
<1> QED
  BY <1>2, <1>3

\* The EpOffline of an endpoint that has left.
LEMMA OfflineProposes ==
  ASSUME TypeInv, NEW e \in Endpoint, propose_offline(e)
  PROVE  Proposes
<1>1. PICK p : p = [type |-> "EpOffline", ep |-> e, host |-> Host[e]]
  OBVIOUS
<1>2. p \in Proposal
  BY ClusterAssumption, <1>1 DEF Proposal
<1>3. offlines[e] # 0
  BY DEF propose_offline, TypeInv, TypeOK
<1>4. ep_state[e] \notin {"new", "proposed", "live"} /\ ep_state[e] \in EpState
  BY <1>3 DEF TypeInv, TypeOK, OfflinesOwed
<1>5. Gone(e)
  BY <1>4 DEF Gone, EpState
<1>6. propose(p) /\ Proposable(p) /\ UNCHANGED topic
  BY <1>1, <1>5 DEF propose_offline, Proposable
<1> QED
  BY <1>2, <1>6 DEF Proposes

\* A step that only proposes, ends tasks or moves an endpoint through its life.
Calm ==
  /\ Proposes
  /\ UNCHANGED resolving
  /\ NoNewResults
  /\ dispatching' \subseteq dispatching

\* Every step applies an entry, ends the waiting of a sender, runs a dispatch task
\* or is calm.
LEMMA CalmOrNot ==
  ASSUME TypeInv, Next
  PROVE  \/ \E n \in Node : Apply(n)
         \/ \E d \in dispatching : dispatch_message(d)
         \/ \E n \in Node : \E r \in resolving[n] : resolve_waiter(n, r)
         \/ Calm
<1>0. ASSUME UNCHANGED waiter PROVE NoNewResults
  BY <1>0 DEF NoNewResults
<1>1. CASE \E n \in SendNodes, m \in MessageId : send_message(n, m)
  <2>1. PICK n \in SendNodes, m \in MessageId : send_message(n, m)
    BY <1>1
  <2>2. NoNewResults
    <3>1. waiter' = [waiter EXCEPT ![n][m] = Waiting] /\ Waiting.status = NoStatus
      BY <2>1 DEF send_message, Waiting
    <3>2. waiter \in [Node -> [MessageId -> Waiter]]
      BY DEF TypeInv, TypeOK
    <3>3. SUFFICES ASSUME NEW k \in Node, NEW x \in MessageId
                   PROVE  waiter'[k][x].status \in {waiter[k][x].status, NoStatus}
      BY DEF NoNewResults
    <3>4. waiter'[k][x] = waiter[k][x] \/ waiter'[k][x] = Waiting
      BY <3>1, <3>2
    <3> QED
      BY <3>1, <3>4
  <2>3. UNCHANGED <<topic, resolving, dispatching>>
    BY <2>1 DEF send_message
  <2>4. PICK p : p = [type |-> "DelegateMessage", msg |-> m]
    OBVIOUS
  <2>5. p \in Proposal /\ propose(p) /\ Proposable(p)
    BY <2>1, <2>4 DEF Proposal, send_message, Proposable
  <2> QED
    BY <2>2, <2>3, <2>5 DEF Calm, Proposes
<1>2. CASE \E n \in Node, m \in MessageId : expire(n, m)
  BY <1>2, <1>0 DEF expire, Calm, Proposes, log_vars
<1>3. CASE \E d \in dispatching : lose_report(d)
  BY <1>3, <1>0 DEF lose_report, Calm, Proposes, log_vars
<1>4. CASE \E d \in dispatching : report_dispatch(d)
  BY <1>4, <1>0, ReportProposes DEF report_dispatch, Calm
<1>6. CASE \E e \in Endpoint, interests \in InterestChoices :
             create_endpoint(e, interests) \/ update_interest(e, interests)
  BY <1>6, <1>0, EndpointProposes DEF create_endpoint, update_interest, Calm
<1>7. CASE \E e \in Endpoint : register_endpoint(e) \/ delete_endpoint(e) \/ drop_endpoint(e)
  BY <1>7, <1>0 DEF register_endpoint, delete_endpoint, drop_endpoint, Calm, Proposes, log_vars
<1>8. CASE \E e \in Endpoint : propose_offline(e)
  BY <1>8, <1>0, OfflineProposes DEF propose_offline, Calm
<1>9. CASE \E e \in Endpoint, m \in MessageId, kind \in AckChoices : single_ack(e, m, kind)
  BY <1>9, <1>0, AckProposes DEF single_ack, Calm
<1> QED
  BY <1>1, <1>2, <1>3, <1>4, <1>6, <1>7, <1>8, <1>9 DEF Next

\* Claims of a calm step.
LEMMA CalmClaims ==
  ASSUME TypeInv, Calm, NEW e \in Endpoint, NEW m \in MessageId, NEW s \in MessageStatusKind,
         Claimed(e, m, s)'
  PROVE  Claimed(e, m, s) \/ NewlyClaimed(e, m, s)
<1>1. CASE UNCHANGED pending
  BY <1>1, QuietClaims DEF Calm, Proposes
<1>2. CASE \E p \in Proposal : propose(p) /\ Proposable(p)
  <2>1. PICK p \in Proposal : propose(p) /\ Proposable(p)
    BY <1>2
  <2>2. \/ Claimed(e, m, s)
        \/ p.type = "SetState" /\ p.msg = m /\ p.ep = e /\ p.kind = s
    BY <2>1, ProposeClaims DEF Calm, Proposes
  <2>3. CASE p.type = "SetState" /\ p.msg = m /\ p.ep = e /\ p.kind = s
    BY <2>1, <2>3 DEF Proposable, Claimed, NewlyClaimed
  <2> QED
    BY <2>2, <2>3
<1> QED
  BY <1>1, <1>2 DEF Calm, Proposes

\* Claims after a dispatch task has run.
LEMMA DispatchClaims ==
  ASSUME TypeInv, NEW d \in dispatching, dispatch_message(d),
         NEW e \in Endpoint, NEW m \in MessageId, NEW s \in MessageStatusKind,
         Claimed(e, m, s)'
  PROVE  Claimed(e, m, s) \/ NewlyClaimed(e, m, s)
<1>1. d \in Dispatch /\ d.ep \in Endpoint /\ d.msg \in MessageId
  BY DEF TypeInv, TypeOK, Dispatch
<1>2. PICK x : x = [d EXCEPT !.status = IF ep_state[d.ep] = "live" THEN "Sent" ELSE "Unreachable"]
  OBVIOUS
<1>3. /\ x.msg = d.msg /\ x.ep = d.ep
      /\ x.status = IF ep_state[d.ep] = "live" THEN "Sent" ELSE "Unreachable"
  BY <1>1, <1>2 DEF Dispatch
<1>4. dispatching' = (dispatching \ {d}) \cup {x}
  BY <1>2 DEF dispatch_message
<1>5. UNCHANGED <<pending, topic, resolving, waiter>>
  BY DEF dispatch_message, log_vars
<1>6. \A n \in Node : queue(n)' = queue(n) /\ Entries(n)' = Entries(n)
  BY <1>5 DEF queue, Entries
<1>7. CASE x.ep = e /\ x.msg = m /\ x.status = s
  <2>1. CASE ep_state[d.ep] = "live"
    <3>1. mail_box' = [mail_box EXCEPT ![e] = Append(@, m)]
      BY <1>3, <1>7, <2>1 DEF dispatch_message
    <3>2. mail_box'[e] = Append(mail_box[e], m) /\ mail_box[e] \in Seq(MessageId)
      BY <3>1 DEF TypeInv, TypeOK
    <3>3. Len(mail_box'[e]) = Len(mail_box[e]) + 1 /\ mail_box'[e][Len(mail_box[e]) + 1] = m
      BY <3>2
    <3>4. in_mail_box(e, m)'
      BY <3>2, <3>3 DEF in_mail_box
    <3> QED
      BY <1>3, <1>7, <2>1, <3>4 DEF NewlyClaimed
  <2>2. CASE ep_state[d.ep] # "live"
    BY <1>3, <1>7, <2>2 DEF NewlyClaimed
  <2> QED
    BY <2>1, <2>2
<1>8. CASE ~(x.ep = e /\ x.msg = m /\ x.status = s)
  BY <1>4, <1>5, <1>6, <1>8 DEF Claimed
<1> QED
  BY <1>7, <1>8

\* Claims after a result was delivered: the sender has the statuses of the result.
LEMMA ResolveClaims ==
  ASSUME TypeInv, NEW n \in Node, NEW r \in resolving[n], resolve_waiter(n, r),
         NEW e \in Endpoint, NEW m \in MessageId, NEW s \in MessageStatusKind,
         Claimed(e, m, s)'
  PROVE  Claimed(e, m, s)
<1>1. \A k \in Node : queue(k)' = queue(k) /\ Entries(k)' = Entries(k)
  BY DEF resolve_waiter, queue, Entries
<1>2. r.id \in MessageId
  BY DEF TypeInv, TypeOK, WaitAckResult
<1>3. \A k \in Node : resolving'[k] \subseteq resolving[k]
  BY DEF resolve_waiter, TypeInv, TypeOK
<1>4. \A k \in Node : waiter'[k][m].status = waiter[k][m].status
                          \/ (k = n /\ m = r.id /\ waiter'[k][m].status = r.status)
  <2>1. waiter \in [Node -> [MessageId -> Waiter]]
    BY DEF TypeInv, TypeOK
  <2>2. waiter' = [waiter EXCEPT ![n][r.id] =
                     IF waiter[n][r.id].kind = "waiting" THEN [kind |-> r.kind, status |-> r.status]
                     ELSE waiter[n][r.id]]
    BY DEF resolve_waiter
  <2> QED
    BY <1>2, <2>1, <2>2
<1>5. UNCHANGED dispatching
  BY DEF resolve_waiter
<1> QED
  BY <1>1, <1>3, <1>4, <1>5 DEF Claimed

\* Whatever is claimed after a step was claimed before it or is one of the new claims.
LEMMA ClaimStep ==
  ASSUME TypeInv, EffectsTaken, Reports, Next,
         NEW e \in Endpoint, NEW m \in MessageId, NEW s \in MessageStatusKind,
         Claimed(e, m, s)'
  PROVE  Claimed(e, m, s) \/ NewlyClaimed(e, m, s)
BY CalmOrNot, ApplyAdvances, ApplyClaims, DispatchClaims, ResolveClaims, CalmClaims

-----------------------------------------------------------------------------
(* The statuses are true: invariant of every behaviour. *)

\* What was pushed to a mail box and what an owner acked stays so.
HistoryKept ==
  \A e \in Endpoint, m \in MessageId :
    /\ in_mail_box(e, m) => in_mail_box(e, m)'
    /\ acked[e][m] \subseteq acked'[e][m]

\* A step that changes no mail box.
LEMMA MailKept ==
  ASSUME UNCHANGED mail_box, NEW e, NEW m
  PROVE  in_mail_box(e, m)' <=> in_mail_box(e, m)
BY DEF in_mail_box

\* The mail boxes after a dispatch task has run.
LEMMA DispatchMail ==
  ASSUME TypeInv, NEW d \in dispatching, dispatch_message(d),
         NEW e \in Endpoint, NEW m \in MessageId
  PROVE  in_mail_box(e, m)' <=>
           in_mail_box(e, m) \/ (d.ep = e /\ d.msg = m /\ ep_state[e] = "live")
<1>1. d.ep \in Endpoint /\ d.msg \in MessageId
  BY DEF TypeInv, TypeOK, Dispatch
<1>2. mail_box[e] \in Seq(MessageId)
  BY DEF TypeInv, TypeOK
<1>3. CASE d.ep = e /\ ep_state[e] = "live"
  <2>1. mail_box'[e] = Append(mail_box[e], d.msg)
    BY <1>3 DEF dispatch_message, TypeInv, TypeOK
  <2> QED
    BY <1>1, <1>2, <1>3, <2>1 DEF in_mail_box
<1>4. CASE ~(d.ep = e /\ ep_state[e] = "live")
  <2>1. mail_box'[e] = mail_box[e]
    BY <1>1, <1>4 DEF dispatch_message, TypeInv, TypeOK
  <2> QED
    BY <1>4, <2>1 DEF in_mail_box
<1> QED
  BY <1>3, <1>4

\* Only dispatch tasks push to mail boxes.
LEMMA MailUnchanged ==
  ASSUME Next, ~\E d \in dispatching : dispatch_message(d)
  PROVE  UNCHANGED mail_box
<1>1. CASE \E n \in SendNodes, m \in MessageId : send_message(n, m)
  BY <1>1 DEF send_message, ep_vars
<1>2. CASE \E n \in Node : Apply(n)
  BY <1>2 DEF Apply, apply_delegate_message, apply_set_state, apply_ep_online,
              apply_ep_offline, apply_ep_interest, apply, ep_vars
<1>3. CASE \E n \in Node, m \in MessageId : expire(n, m)
  BY <1>3 DEF expire, ep_vars
<1>4. CASE \E d \in dispatching : report_dispatch(d) \/ lose_report(d)
  BY <1>4 DEF report_dispatch, lose_report, ep_vars
<1>5. CASE \E n \in Node : \E r \in resolving[n] : resolve_waiter(n, r)
  BY <1>5 DEF resolve_waiter, ep_vars
<1>6. CASE \E e \in Endpoint, interests \in InterestChoices :
             create_endpoint(e, interests) \/ update_interest(e, interests)
  BY <1>6 DEF create_endpoint, update_interest
<1>7. CASE \E e \in Endpoint : register_endpoint(e) \/ delete_endpoint(e) \/ drop_endpoint(e)
                                 \/ propose_offline(e)
  BY <1>7 DEF register_endpoint, delete_endpoint, drop_endpoint, propose_offline
<1>8. CASE \E e \in Endpoint, m \in MessageId, kind \in AckChoices : single_ack(e, m, kind)
  BY <1>8 DEF single_ack
<1> QED
  BY <1>1, <1>2, <1>3, <1>4, <1>5, <1>6, <1>7, <1>8 DEF Next

\* Every step keeps the history.
LEMMA HistoryStep ==
  ASSUME TypeInv, Next
  PROVE  HistoryKept
<1>1. CASE \E d \in dispatching : dispatch_message(d)
  <2>1. UNCHANGED acked
    BY <1>1 DEF dispatch_message
  <2> QED
    BY <1>1, <2>1, DispatchMail DEF HistoryKept
<1>2. CASE \E e \in Endpoint, m \in MessageId, kind \in AckChoices : single_ack(e, m, kind)
  <2>1. UNCHANGED mail_box
    BY <1>2 DEF single_ack
  <2>2. \A e \in Endpoint, m \in MessageId : acked[e][m] \subseteq acked'[e][m]
    BY <1>2 DEF single_ack, TypeInv, TypeOK
  <2> QED
    BY <2>1, <2>2, MailKept DEF HistoryKept
<1>3. CASE UNCHANGED <<mail_box, acked>>
  BY <1>3, MailKept DEF HistoryKept
<1>4. CASE \E n \in SendNodes, m \in MessageId : send_message(n, m)
  BY <1>3, <1>4 DEF send_message, ep_vars
<1>5. CASE \E n \in Node : Apply(n)
  BY <1>3, <1>5 DEF Apply, apply_delegate_message, apply_set_state, apply_ep_online,
                    apply_ep_offline, apply_ep_interest, apply, ep_vars
<1>6. CASE \E n \in Node, m \in MessageId : expire(n, m)
  BY <1>3, <1>6 DEF expire, ep_vars
<1>7. CASE \E d \in dispatching : report_dispatch(d) \/ lose_report(d)
  BY <1>3, <1>7 DEF report_dispatch, lose_report, ep_vars
<1>8. CASE \E n \in Node : \E r \in resolving[n] : resolve_waiter(n, r)
  BY <1>3, <1>8 DEF resolve_waiter, ep_vars
<1>9. CASE \E e \in Endpoint, interests \in InterestChoices :
             create_endpoint(e, interests) \/ update_interest(e, interests)
  BY <1>3, <1>9 DEF create_endpoint, update_interest
<1>10. CASE \E e \in Endpoint : register_endpoint(e) \/ delete_endpoint(e) \/ drop_endpoint(e)
                                  \/ propose_offline(e)
  BY <1>3, <1>10 DEF register_endpoint, delete_endpoint, drop_endpoint, propose_offline
<1> QED
  BY <1>1, <1>2, <1>4, <1>5, <1>6, <1>7, <1>8, <1>9, <1>10 DEF Next

\* Every node routes to an endpoint through its host, and a dispatch task runs
\* there.
Routes ==
  /\ \A n, k \in Node : \A e \in topic[n].routing[k] : k = Host[e]
  /\ \A n \in Node : \A p \in Entries(n) : p.type = "EpOnline" => p.host = Host[p.ep]
  /\ \A d \in dispatching : d.node = Host[d.ep]

\* Sent is claimed only of endpoints that have the message, an ack only of those
\* whose owner made it.
Truthful ==
  \A e \in Endpoint, m \in MessageId :
    /\ Claimed(e, m, "Sent") => in_mail_box(e, m)
    /\ \A kind \in AckKind :
         Claimed(e, m, kind) => in_mail_box(e, m) /\ kind \in acked[e][m]

\* The results on the way and those delivered say what their statuses say.
ResultsJustified ==
  /\ \A n \in Node : \A r \in resolving[n] : Justified(r.id, r)
  /\ \A n \in Node, m \in MessageId : Justified(m, waiter[n][m])

\* The inductive invariant of every behaviour.
UInv ==
  /\ TypeInv
  /\ EffectsTaken
  /\ Reports
  /\ Routes
  /\ Truthful
  /\ ResultsJustified
  /\ DurableTargets

\* Claims stay true.
LEMMA TruthfulStep ==
  ASSUME TypeInv, EffectsTaken, Reports, Truthful, Next
  PROVE  Truthful'
<1>1. HistoryKept
  BY HistoryStep
<1>2. SUFFICES ASSUME NEW e \in Endpoint, NEW m \in MessageId
               PROVE  /\ Claimed(e, m, "Sent")' => in_mail_box(e, m)'
                      /\ \A kind \in AckKind :
                           Claimed(e, m, kind)' => in_mail_box(e, m)' /\ kind \in acked'[e][m]
  BY DEF Truthful
<1>3. in_mail_box(e, m) => in_mail_box(e, m)'
  BY <1>1 DEF HistoryKept
<1>4. ASSUME Claimed(e, m, "Sent")' PROVE in_mail_box(e, m)'
  <2>1. "Sent" \in MessageStatusKind /\ "Sent" \notin AckKind
    BY DEF MessageStatusKind, AckKind
  <2>2. Claimed(e, m, "Sent") \/ NewlyClaimed(e, m, "Sent")
    BY <1>4, <2>1, ClaimStep
  <2> QED
    BY <1>3, <2>1, <2>2 DEF Truthful, NewlyClaimed
<1>5. ASSUME NEW kind \in AckKind, Claimed(e, m, kind)'
      PROVE  in_mail_box(e, m)' /\ kind \in acked'[e][m]
  <2>1. kind \in MessageStatusKind /\ kind \notin {"Unsent", "Sending", "Sent", "Unreachable"}
    BY DEF MessageStatusKind, AckKind
  <2>2. Claimed(e, m, kind) \/ NewlyClaimed(e, m, kind)
    BY <1>5, <2>1, ClaimStep
  <2>3. acked[e][m] \subseteq acked'[e][m]
    BY <1>1 DEF HistoryKept
  <2> QED
    BY <1>3, <2>1, <2>2, <2>3 DEF Truthful, NewlyClaimed
<1> QED
  BY <1>4, <1>5

\* The entries of the logs after a step that does not apply one.
LEMMA ProposesEntries ==
  ASSUME TypeInv, Proposes, NEW n \in Node, NEW p \in Entries(n)'
  PROVE  p \in Entries(n) \/ (p \in Proposal /\ propose(p) /\ Proposable(p))
<1>1. CASE UNCHANGED pending
  BY <1>1 DEF Entries
<1>2. CASE \E x \in Proposal : propose(x) /\ Proposable(x)
  <2>1. PICK x \in Proposal : propose(x) /\ Proposable(x)
    BY <1>2
  <2>2. Entries(n)' = Entries(n) \cup {x}
    BY <2>1, EntriesPropose
  <2> QED
    BY <2>1, <2>2
<1> QED
  BY <1>1, <1>2 DEF Proposes

\* The tasks after a step: the routes of the node that applies an entry, the task
\* that ran, or the tasks there were.
LEMMA DispatchRoutes ==
  ASSUME TypeInv, Routes, NEW d \in dispatching, dispatch_message(d)
  PROVE  \A x \in dispatching' : x.node = Host[x.ep]
<1>1. d \in Dispatch
  BY DEF TypeInv, TypeOK
<1>2. PICK x : x = [d EXCEPT !.status = IF ep_state[d.ep] = "live" THEN "Sent" ELSE "Unreachable"]
  OBVIOUS
<1>3. x.node = d.node /\ x.ep = d.ep
  BY <1>1, <1>2 DEF Dispatch
<1>4. dispatching' = (dispatching \ {d}) \cup {x}
  BY <1>2 DEF dispatch_message
<1> QED
  BY <1>3, <1>4 DEF Routes

\* Steps that do not apply an entry keep reports, effects and routes.
LEMMA ProposesKeeps ==
  ASSUME UInv, Proposes, \A d \in dispatching' : d.node = Host[d.ep]
  PROVE  EffectsTaken' /\ Reports' /\ Routes' /\ DurableTargets'
<1>0. TypeInv /\ UNCHANGED topic
  BY DEF UInv, Proposes
<1>1. EffectsTaken' /\ DurableTargets'
  BY <1>0 DEF UInv, EffectsTaken, DurableTargets, queue, collect_addr_by_subjects
<1>2. Reports'
  <2>1. SUFFICES ASSUME NEW n \in Node, NEW p \in Entries(n)', p.type = "SetState"
                 PROVE  p.kind \in AckKind \cup {"Sent", "Unreachable"}
    BY DEF Reports
  <2>2. CASE p \in Entries(n)
    BY <2>1, <2>2 DEF UInv, Reports
  <2>3. CASE Proposable(p)
    <3>1. \A d \in dispatching : d.status # "Spawned" => d.status \in {"Sent", "Unreachable"}
      BY <1>0 DEF TypeInv, TypeOK, Dispatch
    <3> QED
      BY <2>1, <2>3, <3>1 DEF Proposable
  <2> QED
    BY <1>0, <2>2, <2>3, ProposesEntries
<1>3. Routes'
  <2>1. \A n \in Node : \A p \in Entries(n)' : p.type = "EpOnline" => p.host = Host[p.ep]
    BY <1>0, ProposesEntries DEF UInv, Routes, Proposable
  <2> QED
    BY <1>0, <2>1 DEF UInv, Routes
<1> QED
  BY <1>1, <1>2, <1>3

\* So does applying an entry.
LEMMA ApplyKeeps ==
  ASSUME UInv, NEW n \in Node, NEW t, Advances(n, t)
  PROVE  EffectsTaken' /\ Reports' /\ Routes' /\ DurableTargets'
<1>0. PICK p : p = Head(pending[n])
  OBVIOUS
<1>1. /\ Applied(n, t)
      /\ Delivers(topic[n], t, n, fresh_of(p), said_by(p))
      /\ \A k \in Node : t.routing[k] \subseteq topic[n].routing[k] \cup routes_of(p, k)
      /\ TypeInv
  BY <1>0 DEF Advances, UInv
<1>2. AppliedTo(n, t) /\ p \in Entries(n) /\ \A k \in Node : Entries(k)' \subseteq Entries(k)
  BY <1>0, <1>1, AppliedFields, EntriesApply
<1>3. EffectsTaken'
  BY <1>2 DEF AppliedTo, EffectsTaken, UInv
<1>4. Reports'
  BY <1>2 DEF Reports, UInv
<1>5. DurableTargets'
  <2>1. Covers(topic[n])
    BY DEF UInv, DurableTargets, Covers, queue
  <2>2. Covers(t)
    BY <1>1, <2>1 DEF Delivers
  <2>3. SUFFICES ASSUME NEW k \in Node, NEW m \in queue(k)'.held,
                        Header[m].target_kind = "Durable",
                        NEW e \in collect_addr_by_subjects(topic'[k], m)
                 PROVE  queue(k)'.status[m][e] # Absent
    BY DEF DurableTargets
  <2>4. CASE k = n
    <3>1. e \in collect_addr_by_subjects(t, m)
      BY <1>2, <2>3, <2>4 DEF AppliedTo, collect_addr_by_subjects
    <3> QED
      BY <1>2, <2>2, <2>3, <2>4, <3>1 DEF AppliedTo, Covers
  <2>5. CASE k # n
    BY <1>2, <2>3, <2>5 DEF AppliedTo, UInv, DurableTargets
  <2> QED
    BY <2>4, <2>5
<1>6. Routes'
  <2>1. ASSUME NEW i \in Node, NEW k \in Node, NEW e \in topic'[i].routing[k]
        PROVE  k = Host[e]
    <3>1. CASE i # n
      BY <1>2, <2>1, <3>1 DEF AppliedTo, UInv, Routes
    <3>2. CASE i = n
      <4>1. e \in topic[n].routing[k] \cup routes_of(p, k)
        BY <1>1, <1>2, <2>1, <3>2 DEF AppliedTo
      <4>2. CASE e \in topic[n].routing[k]
        BY <4>2 DEF UInv, Routes
      <4>3. CASE e \in routes_of(p, k)
        BY <1>2, <4>3 DEF routes_of, UInv, Routes
      <4> QED
        BY <4>1, <4>2, <4>3
    <3> QED
      BY <3>1, <3>2
  <2>2. ASSUME NEW x \in dispatching' PROVE x.node = Host[x.ep]
    <3>1. CASE x \in dispatching
      BY <3>1 DEF UInv, Routes
    <3>2. CASE x \notin dispatching
      <4>1. PICK d \in t.queue.dispatch :
              x = [node |-> n, msg |-> d[1], ep |-> d[2], status |-> "Spawned"]
        BY <1>2, <2>2, <3>2 DEF AppliedTo
      <4>2. topic[n].queue.dispatch = {}
        BY DEF UInv, EffectsTaken, queue
      <4>3. d[2] \in t.routing[n]
        BY <1>1, <4>2 DEF Delivers
      <4>4. d[2] \in topic'[n].routing[n]
        BY <1>2, <4>3 DEF AppliedTo
      <4> QED
        BY <2>1, <4>1, <4>4
    <3> QED
      BY <3>1, <3>2
  <2>3. \A k \in Node : \A x \in Entries(k)' : x.type = "EpOnline" => x.host = Host[x.ep]
    BY <1>2 DEF UInv, Routes
  <2> QED
    BY <2>1, <2>2, <2>3 DEF Routes
<1> QED
  BY <1>3, <1>4, <1>5, <1>6

\* Delivering a result keeps the results justified.
LEMMA ResolveResults ==
  ASSUME TypeInv, ResultsJustified, NEW n \in Node, NEW r \in resolving[n],
         resolve_waiter(n, r)
  PROVE  ResultsJustified'
<1>1. r.id \in MessageId
  BY DEF TypeInv, TypeOK, WaitAckResult
<1>2. \A k \in Node : resolving'[k] \subseteq resolving[k]
  BY DEF resolve_waiter, TypeInv, TypeOK
<1>3. PICK w : w = [kind |-> r.kind, status |-> r.status]
  OBVIOUS
<1>4. Justified(r.id, w)
  BY <1>3 DEF ResultsJustified, Justified
<1>5. ASSUME NEW k \in Node, NEW m \in MessageId PROVE Justified(m, waiter'[k][m])
  <2>1. waiter \in [Node -> [MessageId -> Waiter]]
    BY DEF TypeInv, TypeOK
  <2>2. waiter' = [waiter EXCEPT ![n][r.id] =
                     IF waiter[n][r.id].kind = "waiting" THEN w ELSE waiter[n][r.id]]
    BY <1>3 DEF resolve_waiter
  <2>3. waiter'[k][m] = waiter[k][m] \/ (m = r.id /\ waiter'[k][m] = w)
    BY <1>1, <2>1, <2>2
  <2>4. Justified(m, waiter[k][m])
    BY DEF ResultsJustified
  <2> QED
    BY <1>4, <2>3, <2>4
<1> QED
  BY <1>2, <1>5 DEF ResultsJustified

\* So does applying an entry.
LEMMA ApplyResults ==
  ASSUME TypeInv, EffectsTaken, ResultsJustified, NEW n \in Node, NEW t, Advances(n, t)
  PROVE  ResultsJustified'
<1>1. PICK p : p = Head(pending[n])
  OBVIOUS
<1>2. Applied(n, t) /\ Delivers(topic[n], t, n, fresh_of(p), said_by(p))
  BY <1>1 DEF Advances
<1>3. AppliedTo(n, t)
  BY <1>2, AppliedFields
<1>4. topic[n].queue.acks = {}
  BY DEF EffectsTaken, queue
<1>5. \A a \in t.queue.acks : Justified(a.id, a)
  BY <1>2, <1>4 DEF Delivers
<1>6. \A k \in Node : \A r \in resolving'[k] : r \in resolving[k] \/ r \in t.queue.acks
  BY <1>3 DEF AppliedTo
<1>7. UNCHANGED waiter
  BY <1>3 DEF AppliedTo
<1> QED
  BY <1>5, <1>6, <1>7 DEF ResultsJustified

\* The other steps give no result, at most a new wait.
LEMMA OtherResults ==
  ASSUME TypeInv, ResultsJustified, UNCHANGED resolving,
         \/ UNCHANGED waiter
         \/ \E n \in SendNodes, m \in MessageId : send_message(n, m)
  PROVE  ResultsJustified'
<1>1. CASE UNCHANGED waiter
  BY <1>1 DEF ResultsJustified
<1>2. CASE \E n \in SendNodes, m \in MessageId : send_message(n, m)
  <2>1. PICK n \in SendNodes, m \in MessageId : send_message(n, m)
    BY <1>2
  <2>2. waiter' = [waiter EXCEPT ![n][m] = Waiting]
    BY <2>1 DEF send_message
  <2>3. \A k \in Node, x \in MessageId : waiter'[k][x] = waiter[k][x] \/ waiter'[k][x] = Waiting
    BY <2>2 DEF TypeInv, TypeOK
  <2>4. \A x \in MessageId : Justified(x, Waiting)
    BY DEF Justified, Waiting
  <2> QED
    BY <2>3, <2>4 DEF ResultsJustified
<1> QED
  BY <1>1, <1>2

\* Every step keeps the results justified.
LEMMA ResultsStep ==
  ASSUME TypeInv, EffectsTaken, Reports, ResultsJustified, Next
  PROVE  ResultsJustified'
<1>1. CASE \E n \in SendNodes, m \in MessageId : send_message(n, m)
  <2>1. UNCHANGED resolving
    BY <1>1 DEF send_message
  <2> QED
    BY <1>1, <2>1, OtherResults
<1>2. CASE \E n \in Node : Apply(n)
  BY <1>2, ApplyAdvances, ApplyResults
<1>3. CASE \E n \in Node : \E r \in resolving[n] : resolve_waiter(n, r)
  BY <1>3, ResolveResults
<1>4. CASE UNCHANGED <<resolving, waiter>>
  BY <1>4, OtherResults
<1>5. CASE \E n \in Node, m \in MessageId : expire(n, m)
  BY <1>4, <1>5 DEF expire, log_vars
<1>6. CASE \E d \in dispatching : dispatch_message(d) \/ report_dispatch(d) \/ lose_report(d)
  BY <1>4, <1>6 DEF dispatch_message, report_dispatch, lose_report, log_vars
<1>7. CASE \E e \in Endpoint, interests \in InterestChoices :
             create_endpoint(e, interests) \/ update_interest(e, interests)
  BY <1>4, <1>7 DEF create_endpoint, update_interest
<1>8. CASE \E e \in Endpoint : register_endpoint(e) \/ delete_endpoint(e) \/ drop_endpoint(e)
                                 \/ propose_offline(e)
  BY <1>4, <1>8 DEF register_endpoint, delete_endpoint, drop_endpoint, propose_offline, log_vars
<1>9. CASE \E e \in Endpoint, m \in MessageId, kind \in AckChoices : single_ack(e, m, kind)
  BY <1>4, <1>9 DEF single_ack
<1> QED
  BY <1>1, <1>2, <1>3, <1>5, <1>6, <1>7, <1>8, <1>9 DEF Next

\* Initially the queues are new and the logs are empty.
LEMMA InitQueues ==
  ASSUME Init, NEW n \in Node
  PROVE  /\ queue(n) = new
         /\ topic[n].routing = [k \in Node |-> {}]
         /\ topic[n].interest = [e \in Endpoint |-> {}]
         /\ Entries(n) = {}
         /\ resolving[n] = {}
<1>1. topic[n] = from_durable
  BY DEF Init
<1>2. PICK rt, it : rt = [k \in Node |-> {}] /\ it = [e \in Endpoint |-> {}]
  OBVIOUS
<1>3. topic[n] = [routing |-> rt, interest |-> it, queue |-> new, panic |-> FALSE]
  BY <1>1, <1>2 DEF from_durable
<1>4. queue(n) = new /\ topic[n].routing = rt /\ topic[n].interest = it
  BY <1>3 DEF queue
<1>5. pending[n] = <<>> /\ resolving[n] = {}
  BY DEF Init
<1>6. Entries(n) = {}
  BY <1>5 DEF Entries
<1> QED
  BY <1>2, <1>4, <1>5, <1>6

\* Initially nothing is claimed.
LEMMA NothingClaimed ==
  ASSUME Init, NEW e \in Endpoint, NEW m \in MessageId, NEW s, s # Absent
  PROVE  ~Claimed(e, m, s)
<1>1. \A n \in Node : queue(n).held = {} /\ Entries(n) = {} /\ resolving[n] = {}
  BY InitQueues DEF new
<1>2. \A n \in Node : waiter[n][m].status[e] = Absent
  BY DEF Init, NoWaiter, NoStatus
<1>3. dispatching = {}
  BY DEF Init
<1> QED
  BY <1>1, <1>2, <1>3 DEF Claimed

\* The invariant holds initially.
LEMMA UInit == Init => UInv
<1> SUFFICES ASSUME Init PROVE UInv
  OBVIOUS
<1>1. TypeInv
  BY TypeInit
<1>2. \A n \in Node : /\ queue(n) = new
                      /\ topic[n].routing = [k \in Node |-> {}]
                      /\ Entries(n) = {}
                      /\ resolving[n] = {}
  BY InitQueues
<1>3. \A n \in Node, m \in MessageId : waiter[n][m] = NoWaiter
  BY DEF Init
<1>4. EffectsTaken /\ Reports /\ DurableTargets
  BY <1>2 DEF EffectsTaken, Reports, DurableTargets, new
<1>5. Routes
  BY <1>2 DEF Routes, Init
<1>6. Truthful
  BY NothingClaimed DEF Truthful, Absent, AckKind
<1>7. ResultsJustified
  BY <1>2, <1>3 DEF ResultsJustified, Justified, NoWaiter
<1> QED
  BY <1>1, <1>4, <1>5, <1>6, <1>7 DEF UInv

\* Every step keeps the invariant.
LEMMA UStep == UInv /\ [Next]_vars => UInv'
<1> SUFFICES ASSUME UInv, [Next]_vars PROVE UInv'
  OBVIOUS
<1>1. CASE UNCHANGED vars
  <2>1. UNCHANGED <<pending, topic, dispatching, resolving, waiter, mail_box, acked>>
    BY <1>1 DEF vars
  <2>2. TypeInv'
    BY TypeStep DEF UInv
  <2>3. \A n \in Node : queue(n)' = queue(n) /\ Entries(n)' = Entries(n)
    BY <2>1 DEF queue, Entries
  <2>4. \A e \in Endpoint, m \in MessageId : in_mail_box(e, m)' <=> in_mail_box(e, m)
    BY <2>1, MailKept
  <2>5. \A e \in Endpoint, m \in MessageId : \A s :
          Claimed(e, m, s)' <=> Claimed(e, m, s)
    BY <2>1, <2>3 DEF Claimed
  <2>6. Truthful'
    BY <2>1, <2>4, <2>5 DEF UInv, Truthful
  <2>7. EffectsTaken' /\ Reports' /\ Routes' /\ ResultsJustified'
    BY <2>1, <2>3 DEF UInv, EffectsTaken, Reports, Routes, ResultsJustified
  <2>8. DurableTargets'
    BY <2>1, <2>3 DEF UInv, DurableTargets, collect_addr_by_subjects
  <2> QED
    BY <2>2, <2>6, <2>7, <2>8 DEF UInv
<1>2. CASE Next
  <2>1. TypeInv'
    BY TypeStep DEF UInv
  <2>2. Truthful'
    BY <1>2, TruthfulStep DEF UInv
  <2>3. ResultsJustified'
    BY <1>2, ResultsStep DEF UInv
  <2>4. EffectsTaken' /\ Reports' /\ Routes' /\ DurableTargets'
    <3>1. CASE \E n \in Node : Apply(n)
      BY <3>1, ApplyAdvances, ApplyKeeps DEF UInv
    <3>2. CASE ~\E n \in Node : Apply(n)
      <4>1. Proposes /\ \A d \in dispatching' : d.node = Host[d.ep]
        <5>1. CASE Proposes /\ dispatching' \subseteq dispatching
          BY <5>1 DEF UInv, Routes
        <5>2. CASE \E d \in dispatching : dispatch_message(d)
          <6>1. Proposes
            BY <5>2 DEF dispatch_message, Proposes, log_vars
          <6> QED
            BY <5>2, <6>1, DispatchRoutes DEF UInv
        <5>3. CASE \E n \in Node : \E r \in resolving[n] : resolve_waiter(n, r)
          BY <5>1, <5>3 DEF resolve_waiter, Proposes
        <5> QED
          BY <1>2, <3>2, <5>1, <5>2, <5>3, CalmOrNot DEF UInv, Calm
      <4> QED
        BY <4>1, ProposesKeeps
    <3> QED
      BY <3>1, <3>2
  <2> QED
    BY <2>1, <2>2, <2>3, <2>4 DEF UInv
<1> QED
  BY <1>1, <1>2

\* The invariant holds in every behaviour.
LEMMA UInductive == Spec => []UInv
BY UInit, UStep, PTL DEF Spec

\* In every behaviour, also when ids are sent again, clocks stand still or reports
\* are lost, the sender of an Online or Push message is told Ok
\* (HoldMessage::resolve) only if each endpoint it was addressed to has the message
\* in its mail box and acked it as the header asks:
\* no status of a WaitAck is ever ahead of what happened.
THEOREM OkIsSound == Spec => []OkSound
<1>1. UInv => OkSound
  <2>1. SUFFICES ASSUME UInv, NEW n \in Node, NEW m \in MessageId,
                        waiter[n][m].kind = "Ok", Header[m].target_kind # "Durable",
                        NEW e \in Endpoint, waiter[n][m].status[e] # Absent
                 PROVE  really_reached(e, m)
    BY DEF OkSound
  <2>2. PICK s : s = waiter[n][m].status[e]
    OBVIOUS
  <2>3. is_reached(s, Header[m].ack_kind)
    BY <2>1, <2>2 DEF UInv, ResultsJustified, Justified
  <2>4. Claimed(e, m, s)
    BY <2>2 DEF Claimed
  <2>5. s \in {"Sent", "Received", "Processed"}
    BY <2>3 DEF is_reached
  <2>6. CASE s = "Sent"
    <3>1. Header[m].ack_kind = "Sent"
      BY <2>3, <2>6 DEF is_reached
    <3> QED
      BY <2>1, <2>4, <2>6, <3>1 DEF UInv, Truthful, really_reached
  <2>7. CASE s \in AckKind
    BY <2>1, <2>3, <2>4, <2>7 DEF UInv, Truthful, really_reached
  <2> QED
    BY <2>5, <2>6, <2>7 DEF AckKind
<1> QED
  BY <1>1, UInductive, PTL

\* In every behaviour and on every replica, a held durable message has every
\* endpoint that is interested in it among its targets, whether the interest was
\* there first, came with the endpoint or by an update (hold_new_message,
\* ep_online, update_ep_interest).
THEOREM DurableMessagesCover == Spec => []DurableTargets
<1>1. UInv => DurableTargets
  BY DEF UInv
<1> QED
  BY <1>1, UInductive, PTL

-----------------------------------------------------------------------------
(* Each message is handed to an endpoint once: orderly behaviours. *)

\* in_log in terms of the entries.
LEMMA InLogEntries ==
  ASSUME NEW n \in Node, NEW m
  PROVE  in_log(n, m) <=> \E p \in Entries(n) : p.type = "DelegateMessage" /\ p.msg = m
BY DEF in_log, Entries

\* Message m is in the mail box of e or on the way to it.
HandedOut(e, m) ==
  in_mail_box(e, m) \/ \E d \in dispatching : d.ep = e /\ d.msg = m

\* The host of e will not hand m to it any more: it has applied the message, and if
\* it holds it still the status says that it was handed out.
Spent(e, m) ==
  /\ sends[m] # 0
  /\ ~in_log(Host[e], m)
  /\ m \in queue(Host[e]).held => queue(Host[e]).status[m][e] \notin NotHanded

\* What was handed out is spent.
HandedSpent == \A e \in Endpoint, m \in MessageId : HandedOut(e, m) => Spent(e, m)

\* Sends are not forgotten.
LEMMA SendsStep ==
  ASSUME TypeInv, Next, NEW m \in MessageId, sends[m] # 0
  PROVE  sends'[m] # 0
<1>1. CASE \E n \in SendNodes, k \in MessageId : send_message(n, k)
  BY <1>1, ClusterAssumption DEF send_message, TypeInv, TypeOK
<1>2. CASE UNCHANGED sends
  BY <1>2
<1>3. CASE \E n \in Node : Apply(n)
  BY <1>2, <1>3 DEF Apply, apply_delegate_message, apply_set_state, apply_ep_online,
                    apply_ep_offline, apply_ep_interest, apply
<1>4. CASE \E n \in Node, k \in MessageId : expire(n, k)
  BY <1>2, <1>4 DEF expire
<1>5. CASE \E d \in dispatching : dispatch_message(d) \/ report_dispatch(d) \/ lose_report(d)
  BY <1>2, <1>5 DEF dispatch_message, report_dispatch, lose_report
<1>6. CASE \E n \in Node : \E r \in resolving[n] : resolve_waiter(n, r)
  BY <1>2, <1>6 DEF resolve_waiter
<1>7. CASE \E e \in Endpoint, interests \in InterestChoices :
             create_endpoint(e, interests) \/ update_interest(e, interests)
  BY <1>2, <1>7 DEF create_endpoint, update_interest
<1>8. CASE \E e \in Endpoint : register_endpoint(e) \/ delete_endpoint(e) \/ drop_endpoint(e)
                                 \/ propose_offline(e)
  BY <1>2, <1>8 DEF register_endpoint, delete_endpoint, drop_endpoint, propose_offline
<1>9. CASE \E e \in Endpoint, k \in MessageId, kind \in AckChoices : single_ack(e, k, kind)
  BY <1>2, <1>9 DEF single_ack
<1> QED
  BY <1>1, <1>3, <1>4, <1>5, <1>6, <1>7, <1>8, <1>9 DEF Next

\* Steps that apply no entry keep a pair spent: its message is not sent again.
LEMMA ProposesSpent ==
  ASSUME Orderly, TypeInv, Next, Proposes, NEW e \in Endpoint, NEW m \in MessageId, Spent(e, m)
  PROVE  Spent(e, m)'
<1>1. PICK h \in Node : h = Host[e]
  BY ClusterAssumption
<1>2. sends'[m] # 0
  BY SendsStep DEF Spent
<1>3. queue(h)' = queue(h)
  BY DEF Proposes, queue
<1>4. ~in_log(h, m)'
  <2>1. SUFFICES ASSUME in_log(h, m)' PROVE FALSE
    OBVIOUS
  <2>2. PICK p \in Entries(h)' : p.type = "DelegateMessage" /\ p.msg = m
    BY <2>1 DEF in_log, Entries
  <2>3. p \notin Entries(h)
    BY <1>1, <2>2, InLogEntries DEF Spent
  <2>4. Proposable(p)
    BY <2>3, ProposesEntries
  <2>5. sends[m] < MaxSends /\ sends[m] \in 0 .. MaxSends
    BY <2>2, <2>4 DEF Proposable, TypeInv, TypeOK
  <2>6. sends[m] = 0
    BY <2>5, ClusterAssumption DEF Orderly
  <2> QED
    BY <2>6 DEF Spent
<1> QED
  BY <1>1, <1>2, <1>3, <1>4 DEF Spent

\* The message an entry pushes is in the log before it is applied and not after.
LEMMA FreshOnce ==
  ASSUME IInv, NEW n \in Node, NEW t, Applied(n, t), NEW m \in fresh_of(Head(pending[n]))
  PROVE  /\ in_log(n, m) /\ ~in_log(n, m)' /\ m \in MessageId
         /\ sends[m] # 0 /\ m \notin queue(n).held
<1>0. TypeInv /\ TypeInv'
  BY AppliedType DEF IInv
<1>1. pending[n] \in Seq(Proposal) /\ pending[n] # <<>>
  BY <1>0 DEF TypeInv, TypeOK, Applied
<1>2. Head(pending[n]).type = "DelegateMessage" /\ m = Head(pending[n]).msg
  BY DEF fresh_of
<1>3. Head(pending[n]) = pending[n][1] /\ 1 \in 1 .. Len(pending[n])
  BY <1>1
<1>4. delegates(n, 1, m)
  BY <1>2, <1>3 DEF delegates
<1>5. Head(pending[n]) \in Proposal
  BY <1>0, <1>1, HeadType
<1>6. m \in MessageId
  BY <1>2, <1>5 DEF Proposal
<1>7. in_log(n, m)
  BY <1>0, <1>4, <1>6, InLogDelegates
<1>8. /\ m \notin queue(n).held
      /\ sends[m] # 0
      /\ \A j \in Nat : delegates(n, j, m) => 1 = j
  BY <1>4, <1>6 DEF IInv, LogFresh
<1>9. \A i \in Nat : ~delegates(n, i, m)'
  <2>1. SUFFICES ASSUME NEW i \in Nat, delegates(n, i, m)' PROVE FALSE
    OBVIOUS
  <2>2. i # 0 /\ delegates(n, i + 1, m)
    BY <1>0, <2>1, TailDelegates
  <2> QED
    BY <1>8, <2>2
<1>10. ~in_log(n, m)'
  <2>1. in_log(n, m)' => \E i \in Nat : delegates(n, i, m)'
    BY <1>0 DEF TypeInv, TypeOK, in_log, delegates
  <2> QED
    BY <1>9, <2>1
<1> QED
  BY <1>6, <1>7, <1>8, <1>10

\* Applying an entry keeps a pair spent.
LEMMA ApplySpent ==
  ASSUME IInv, UInv, NEW n \in Node, NEW t, Advances(n, t),
         NEW e \in Endpoint, NEW m \in MessageId, Spent(e, m)
  PROVE  Spent(e, m)'
<1>0. PICK p : p = Head(pending[n])
  OBVIOUS
<1>1. TypeInv /\ Applied(n, t) /\ Delivers(topic[n], t, n, fresh_of(p), said_by(p))
  BY <1>0 DEF Advances, UInv
<1>2. AppliedTo(n, t) /\ \A k \in Node : Entries(k)' \subseteq Entries(k)
  BY <1>1, AppliedFields, EntriesApply
<1>3. PICK h \in Node : h = Host[e]
  BY ClusterAssumption
<1>4. ~in_log(h, m)'
  <2>1. \A q \in Entries(h) : ~(q.type = "DelegateMessage" /\ q.msg = m)
    BY <1>3, InLogEntries DEF Spent
  <2>2. in_log(h, m)' => \E q \in Entries(h)' : q.type = "DelegateMessage" /\ q.msg = m
    BY DEF in_log, Entries
  <2> QED
    BY <1>2, <2>1, <2>2
<1>5. sends'[m] # 0
  BY <1>2 DEF AppliedTo, Spent
<1>6. ASSUME m \in queue(h)'.held PROVE queue(h)'.status[m][e] \notin NotHanded
  <2>1. CASE h # n
    BY <1>2, <1>3, <1>6, <2>1 DEF AppliedTo, Spent
  <2>2. CASE h = n
    <3>1. m \notin fresh_of(p)
      BY <1>0, <1>1, <1>3, <2>2, FreshOnce DEF Spent
    <3>2. m \in t.queue.held
      BY <1>2, <1>6, <2>2 DEF AppliedTo
    <3>3. m \in topic[n].queue.held
      BY <1>1, <3>1, <3>2 DEF Delivers
    <3>4. topic[n].queue.status[m][e] \notin NotHanded
      BY <1>3, <2>2, <3>3 DEF Spent, queue
    <3>5. t.queue.status[m][e] \notin NotHanded
      BY <1>1, <3>1, <3>2, <3>4 DEF Delivers
    <3> QED
      BY <1>2, <2>2, <3>5 DEF AppliedTo
  <2> QED
    BY <2>1, <2>2
<1> QED
  BY <1>3, <1>4, <1>5, <1>6 DEF Spent

\* A task that applying an entry spawns is for a pair that was not spent, and is then.
LEMMA SpawnSpent ==
  ASSUME IInv, UInv, NEW n \in Node, NEW t, Advances(n, t),
         NEW x \in dispatching', x \notin dispatching
  PROVE  /\ x.ep \in Endpoint /\ x.msg \in MessageId
         /\ ~Spent(x.ep, x.msg) /\ Spent(x.ep, x.msg)'
<1>0. PICK p : p = Head(pending[n])
  OBVIOUS
<1>1. TypeInv /\ Applied(n, t) /\ Delivers(topic[n], t, n, fresh_of(p), said_by(p))
  BY <1>0 DEF Advances, UInv
<1>2. AppliedTo(n, t) /\ \A k \in Node : Entries(k)' \subseteq Entries(k)
  BY <1>1, AppliedFields, EntriesApply
<1>3. PICK d \in t.queue.dispatch :
        x = [node |-> n, msg |-> d[1], ep |-> d[2], status |-> "Spawned"]
  BY <1>2 DEF AppliedTo
<1>4. x.node = n /\ x.msg = d[1] /\ x.ep = d[2]
  BY <1>3
<1>5. TypeInv' /\ Routes'
  BY <1>1, AppliedType, ApplyKeeps
<1>6. x.ep \in Endpoint /\ x.msg \in MessageId
  BY <1>5 DEF TypeInv, TypeOK, Dispatch
<1>7. Host[x.ep] = n
  BY <1>4, <1>5 DEF Routes
<1>8. PICK e \in Endpoint, m \in MessageId : e = x.ep /\ m = x.msg
  BY <1>6
<1>9. topic[n].queue.dispatch = {}
  BY DEF UInv, EffectsTaken, queue
<1>10. /\ m \in topic[n].queue.held \cup fresh_of(p)
       /\ m \notin fresh_of(p) => unhanded(topic[n].queue, d)
       /\ m \in t.queue.held => ~unhanded(t.queue, d)
  BY <1>1, <1>4, <1>8, <1>9 DEF Delivers
<1>11. /\ m \notin fresh_of(p) => topic[n].queue.status[m][e] \in NotHanded
       /\ m \in t.queue.held => t.queue.status[m][e] \notin NotHanded
  BY <1>4, <1>8, <1>10 DEF unhanded
<1>12. CASE m \in fresh_of(p)
  <2>1. in_log(n, m) /\ ~in_log(n, m)' /\ sends[m] # 0
    BY <1>0, <1>1, <1>12, FreshOnce
  <2>2. ~Spent(e, m)
    BY <1>7, <1>8, <2>1 DEF Spent
  <2>3. Spent(e, m)'
    BY <1>2, <1>7, <1>8, <1>11, <2>1 DEF Spent, AppliedTo
  <2> QED
    BY <1>6, <1>8, <2>2, <2>3
<1>13. CASE m \notin fresh_of(p)
  <2>1. m \in queue(n).held
    BY <1>10, <1>13 DEF queue
  <2>2. ~Spent(e, m)
    BY <1>7, <1>8, <1>11, <1>13, <2>1 DEF Spent, queue
  <2>3. sends[m] # 0
    BY <2>1 DEF IInv, HeldSent
  <2>4. ~in_log(n, m)
    BY <1>1, <2>1, InLogDelegates DEF IInv, LogFresh
  <2>5. ~in_log(n, m)'
    <3>1. \A q \in Entries(n) : ~(q.type = "DelegateMessage" /\ q.msg = m)
      BY <2>4, InLogEntries
    <3>2. in_log(n, m)' => \E q \in Entries(n)' : q.type = "DelegateMessage" /\ q.msg = m
      BY DEF in_log, Entries
    <3> QED
      BY <1>2, <3>1, <3>2
  <2>6. Spent(e, m)'
    BY <1>2, <1>7, <1>8, <1>11, <2>3, <2>5 DEF Spent, AppliedTo
  <2> QED
    BY <1>6, <1>8, <2>2, <2>6
<1> QED
  BY <1>12, <1>13

\* A spent pair stays spent.
LEMMA SpentStep ==
  ASSUME Orderly, IInv, UInv, Next, NEW e \in Endpoint, NEW m \in MessageId, Spent(e, m)
  PROVE  Spent(e, m)'
<1>0. TypeInv /\ Reports
  BY DEF UInv
<1>1. CASE \E n \in Node : Apply(n)
  BY <1>0, <1>1, ApplyAdvances, ApplySpent
<1>2. CASE Proposes
  BY <1>0, <1>2, ProposesSpent
<1>3. CASE \E d \in dispatching : dispatch_message(d)
  BY <1>2, <1>3 DEF dispatch_message, Proposes, log_vars
<1>4. CASE \E n \in Node : \E r \in resolving[n] : resolve_waiter(n, r)
  BY <1>2, <1>4 DEF resolve_waiter, Proposes
<1> QED
  BY <1>0, <1>1, <1>2, <1>3, <1>4, CalmOrNot DEF Calm

\* The task d has run: its record in the next state.
ran(d) == [d EXCEPT !.status = IF ep_state[d.ep] = "live" THEN "Sent" ELSE "Unreachable"]

\* What running it does to the tasks.
LEMMA DispatchTasks ==
  ASSUME TypeInv, NEW d \in dispatching, dispatch_message(d)
  PROVE  /\ d.status = "Spawned"
         /\ dispatching' = (dispatching \ {d}) \cup {ran(d)}
         /\ ran(d).ep = d.ep /\ ran(d).msg = d.msg /\ ran(d).status # "Spawned"
<1>1. d \in Dispatch
  BY DEF TypeInv, TypeOK
<1>2. PICK s : s = IF ep_state[d.ep] = "live" THEN "Sent" ELSE "Unreachable"
  OBVIOUS
<1>3. ran(d) = [d EXCEPT !.status = s] /\ s # "Spawned"
  BY <1>2 DEF ran
<1>4. d.status = "Spawned" /\ dispatching' = (dispatching \ {d}) \cup {[d EXCEPT !.status = s]}
  BY <1>2 DEF dispatch_message
<1> QED
  BY <1>1, <1>3, <1>4 DEF Dispatch

\* Two spawned tasks for one message and endpoint are the same task.
LEMMA OneTask ==
  ASSUME TypeInv, Routes, NEW c \in dispatching, NEW d \in dispatching,
         c.status = "Spawned", d.status = "Spawned", c.ep = d.ep, c.msg = d.msg
  PROVE  c = d
<1>1. c \in Dispatch /\ d \in Dispatch
  BY DEF TypeInv, TypeOK
<1>2. c.node = d.node
  BY DEF Routes
<1> QED
  BY <1>1, <1>2 DEF Dispatch

\* Other steps than applying an entry spawn no task.
LEMMA TasksStep ==
  ASSUME TypeInv, Next, NEW x \in dispatching', ~\E n \in Node : Apply(n)
  PROVE  x \in dispatching \/ (\E d \in dispatching : dispatch_message(d) /\ x = ran(d))
<1>1. CASE \E d \in dispatching : dispatch_message(d)
  BY <1>1, DispatchTasks
<1>2. CASE \E n \in Node : \E r \in resolving[n] : resolve_waiter(n, r)
  BY <1>2 DEF resolve_waiter
<1> QED
  BY <1>1, <1>2, CalmOrNot DEF Calm

\* A message enters a mail box only when the dispatch task for it runs.
LEMMA MailStep ==
  ASSUME TypeInv, Next, NEW e \in Endpoint, NEW m \in MessageId, in_mail_box(e, m)'
  PROVE  \/ in_mail_box(e, m)
         \/ \E d \in dispatching : /\ dispatch_message(d)
                                   /\ d.ep = e /\ d.msg = m /\ ep_state[e] = "live"
<1>1. CASE \E d \in dispatching : dispatch_message(d)
  BY <1>1, DispatchMail
<1>2. CASE UNCHANGED mail_box
  BY <1>2, MailKept
<1>3. CASE ~\E d \in dispatching : dispatch_message(d)
  BY <1>2, <1>3, MailUnchanged
<1> QED
  BY <1>1, <1>3

\* What was handed out stays spent.
LEMMA HandedSpentStep ==
  ASSUME Orderly, IInv, UInv, HandedSpent, Next
  PROVE  HandedSpent'
<1>0. TypeInv /\ Reports
  BY DEF UInv
<1>1. SUFFICES ASSUME NEW e \in Endpoint, NEW m \in MessageId, HandedOut(e, m)'
               PROVE  Spent(e, m)'
  BY DEF HandedSpent
<1>2. ASSUME HandedOut(e, m) PROVE Spent(e, m)'
  BY <1>2, SpentStep DEF HandedSpent
<1>3. CASE in_mail_box(e, m)'
  BY <1>0, <1>2, <1>3, MailStep DEF HandedOut
<1>4. CASE \E x \in dispatching' : x.ep = e /\ x.msg = m
  <2>1. PICK x \in dispatching' : x.ep = e /\ x.msg = m
    BY <1>4
  <2>2. CASE x \in dispatching
    BY <1>2, <2>1, <2>2 DEF HandedOut
  <2>3. CASE x \notin dispatching
    <3>1. CASE \E n \in Node : Apply(n)
      <4>1. PICK n \in Node : Apply(n)
        BY <3>1
      <4>2. PICK t : Advances(n, t)
        BY <1>0, <4>1, ApplyAdvances
      <4> QED
        BY <2>1, <2>3, <4>2, SpawnSpent
    <3>2. CASE ~\E n \in Node : Apply(n)
      <4>1. PICK d \in dispatching : dispatch_message(d) /\ x = ran(d)
        BY <1>0, <2>3, <3>2, TasksStep
      <4>2. d.ep = e /\ d.msg = m
        BY <1>0, <2>1, <4>1, DispatchTasks
      <4> QED
        BY <1>2, <4>2 DEF HandedOut
    <3> QED
      BY <3>1, <3>2
  <2> QED
    BY <2>2, <2>3
<1> QED
  BY <1>1, <1>3, <1>4 DEF HandedOut

\* A message on its way to an endpoint is not there yet.
NotThereYet ==
  \A d \in dispatching : d.status = "Spawned" => ~in_mail_box(d.ep, d.msg)

\* It stays so: a pair is spawned once and its task runs once.
LEMMA NotThereYetStep ==
  ASSUME IInv, UInv, HandedSpent, NotThereYet, Next
  PROVE  NotThereYet'
<1>0. TypeInv /\ Reports /\ Routes /\ TypeInv'
  BY TypeStep DEF UInv
<1>1. SUFFICES ASSUME NEW x \in dispatching', x.status = "Spawned"
               PROVE  ~in_mail_box(x.ep, x.msg)'
  BY DEF NotThereYet
<1>2. PICK e \in Endpoint, m \in MessageId : e = x.ep /\ m = x.msg
  BY <1>0 DEF TypeInv, TypeOK, Dispatch
<1>3. SUFFICES ASSUME in_mail_box(e, m)' PROVE FALSE
  BY <1>2
<1>4. CASE x \in dispatching
  <2>1. ~in_mail_box(e, m)
    BY <1>1, <1>2, <1>4 DEF NotThereYet
  <2>2. PICK d \in dispatching : dispatch_message(d) /\ d.ep = e /\ d.msg = m
    BY <1>0, <1>3, <2>1, MailStep
  <2>3. d.status = "Spawned" /\ dispatching' = (dispatching \ {d}) \cup {ran(d)}
          /\ ran(d).status # "Spawned"
    BY <1>0, <2>2, DispatchTasks
  <2>4. x = d
    BY <1>0, <1>1, <1>2, <1>4, <2>2, <2>3, OneTask
  <2> QED
    BY <1>1, <2>3, <2>4
<1>5. CASE x \notin dispatching
  <2>1. CASE \E n \in Node : Apply(n)
    <3>1. PICK n \in Node : Apply(n)
      BY <2>1
    <3>2. PICK t : Advances(n, t)
      BY <1>0, <3>1, ApplyAdvances
    <3>3. ~Spent(e, m)
      BY <1>2, <1>5, <3>2, SpawnSpent
    <3>4. ~in_mail_box(e, m)
      BY <3>3 DEF HandedSpent, HandedOut
    <3>5. UNCHANGED mail_box
      BY <1>0, <3>2, AppliedFields DEF Advances, AppliedTo
    <3> QED
      BY <1>3, <3>4, <3>5, MailKept
  <2>2. CASE ~\E n \in Node : Apply(n)
    BY <1>0, <1>1, <1>5, <2>2, TasksStep, DispatchTasks
  <2> QED
    BY <2>1, <2>2
<1> QED
  BY <1>4, <1>5

\* No mail box holds a message twice.
MailOnce ==
  \A e \in Endpoint : \A i, j \in 1 .. Len(mail_box[e]) : mail_box[e][i] = mail_box[e][j] => i = j

\* It stays so.
LEMMA MailOnceStep ==
  ASSUME TypeInv, NotThereYet, MailOnce, Next
  PROVE  MailOnce'
<1>1. CASE \E d \in dispatching : dispatch_message(d)
  <2>1. PICK d \in dispatching : dispatch_message(d)
    BY <1>1
  <2>2. d.ep \in Endpoint /\ d.msg \in MessageId /\ d.status = "Spawned"
    BY <2>1 DEF TypeInv, TypeOK, Dispatch, dispatch_message
  <2>3. SUFFICES ASSUME NEW e \in Endpoint, NEW i \in 1 .. Len(mail_box'[e]),
                        NEW j \in 1 .. Len(mail_box'[e]), mail_box'[e][i] = mail_box'[e][j]
                 PROVE  i = j
    BY DEF MailOnce
  <2>4. mail_box[e] \in Seq(MessageId)
    BY DEF TypeInv, TypeOK
  <2>5. CASE mail_box'[e] = mail_box[e]
    BY <2>3, <2>5 DEF MailOnce
  <2>6. CASE mail_box'[e] # mail_box[e]
    <3>1. d.ep = e /\ mail_box'[e] = Append(mail_box[e], d.msg)
      BY <2>1, <2>2, <2>6 DEF dispatch_message, TypeInv, TypeOK
    <3>2. \A k \in 1 .. Len(mail_box[e]) : mail_box[e][k] # d.msg
      BY <2>2, <3>1 DEF NotThereYet, in_mail_box
    <3>3. \A k, l \in 1 .. Len(mail_box[e]) : mail_box[e][k] = mail_box[e][l] => k = l
      BY DEF MailOnce
    <3> QED
      BY <2>2, <2>3, <2>4, <3>1, <3>2, <3>3
  <2> QED
    BY <2>5, <2>6
<1>2. CASE ~\E d \in dispatching : dispatch_message(d)
  BY <1>2, MailUnchanged DEF MailOnce
<1> QED
  BY <1>1, <1>2

-----------------------------------------------------------------------------
(* A failure has a reason: orderly behaviours. *)

\* An endpoint that has left does not come back.
LEMMA GoneStep ==
  ASSUME TypeInv, Next, NEW e \in Endpoint, Gone(e)
  PROVE  Gone(e)'
<1>1. CASE UNCHANGED ep_state
  BY <1>1 DEF Gone
<1>2. CASE \E n \in SendNodes, m \in MessageId : send_message(n, m)
  BY <1>1, <1>2 DEF send_message, ep_vars
<1>3. CASE \E n \in Node : Apply(n)
  BY <1>1, <1>3 DEF Apply, apply_delegate_message, apply_set_state, apply_ep_online,
                    apply_ep_offline, apply_ep_interest, apply, ep_vars
<1>4. CASE \E n \in Node, m \in MessageId : expire(n, m)
  BY <1>1, <1>4 DEF expire, ep_vars
<1>5. CASE \E d \in dispatching : dispatch_message(d) \/ report_dispatch(d) \/ lose_report(d)
  BY <1>1, <1>5 DEF dispatch_message, report_dispatch, lose_report, ep_vars
<1>6. CASE \E n \in Node : \E r \in resolving[n] : resolve_waiter(n, r)
  BY <1>1, <1>6 DEF resolve_waiter, ep_vars
<1>7. CASE \E f \in Endpoint, interests \in InterestChoices : create_endpoint(f, interests)
  BY <1>7 DEF create_endpoint, TypeInv, TypeOK, Gone
<1>8. CASE \E f \in Endpoint, interests \in InterestChoices : update_interest(f, interests)
  BY <1>1, <1>8 DEF update_interest
<1>9. CASE \E f \in Endpoint : register_endpoint(f) \/ delete_endpoint(f) \/ drop_endpoint(f)
  BY <1>9 DEF register_endpoint, delete_endpoint, drop_endpoint, TypeInv, TypeOK, Gone
<1>10. CASE \E f \in Endpoint : propose_offline(f)
  BY <1>1, <1>10 DEF propose_offline
<1>11. CASE \E f \in Endpoint, m \in MessageId, kind \in AckChoices : single_ack(f, m, kind)
  BY <1>1, <1>11 DEF single_ack
<1> QED
  BY <1>2, <1>3, <1>4, <1>5, <1>6, <1>7, <1>8, <1>9, <1>10, <1>11 DEF Next

\* The EpOffline of an endpoint follows its end.
OfflineGone ==
  \A n \in Node : \A p \in Entries(n) : p.type = "EpOffline" => p.ep \in Endpoint /\ Gone(p.ep)

\* It stays so.
LEMMA OfflineGoneStep ==
  ASSUME UInv, OfflineGone, Next
  PROVE  OfflineGone'
<1>0. TypeInv /\ Reports
  BY DEF UInv
<1>1. SUFFICES ASSUME NEW n \in Node, NEW p \in Entries(n)', p.type = "EpOffline"
               PROVE  p.ep \in Endpoint /\ Gone(p.ep)'
  BY DEF OfflineGone
<1>2. ASSUME p.ep \in Endpoint /\ Gone(p.ep) PROVE Gone(p.ep)'
  <2>1. PICK e \in Endpoint : e = p.ep
    BY <1>2
  <2>2. Gone(e)'
    BY <1>0, <1>2, <2>1, GoneStep
  <2> QED
    BY <2>1, <2>2
<1>3. CASE p \in Entries(n)
  BY <1>1, <1>2, <1>3 DEF OfflineGone
<1>4. CASE \E k \in Node : Apply(k)
  <2>1. PICK k \in Node : Apply(k)
    BY <1>4
  <2>2. PICK t : Applied(k, t)
    BY <1>0, <2>1, ApplyAdvances DEF Advances
  <2> QED
    BY <1>0, <1>3, <2>2, EntriesApply
<1>5. CASE Proposes
  <2>1. CASE p \in Proposal /\ Proposable(p)
    <3>1. p.ep \in Endpoint
      BY <1>1, <2>1 DEF Proposal
    <3> QED
      BY <1>1, <1>2, <2>1, <3>1 DEF Proposable
  <2> QED
    BY <1>0, <1>3, <1>5, <2>1, ProposesEntries
<1>6. CASE UNCHANGED pending
  BY <1>3, <1>6 DEF Entries
<1>7. CASE \E d \in dispatching : dispatch_message(d)
  BY <1>6, <1>7 DEF dispatch_message, log_vars
<1>8. CASE \E k \in Node : \E r \in resolving[k] : resolve_waiter(k, r)
  BY <1>6, <1>8 DEF resolve_waiter
<1> QED
  BY <1>0, <1>4, <1>5, <1>7, <1>8, CalmOrNot DEF Calm

\* The task that should have brought m to e did not find e: m will not come.
Missed(e, m) ==
  /\ Spent(e, m)
  /\ ~in_mail_box(e, m)
  /\ \A d \in dispatching : ~(d.ep = e /\ d.msg = m /\ d.status = "Spawned")

\* What is missed stays missed.
LEMMA MissedStep ==
  ASSUME Orderly, IInv, UInv, Next, NEW e \in Endpoint, NEW m \in MessageId, Missed(e, m)
  PROVE  Missed(e, m)'
<1>0. TypeInv /\ Reports
  BY DEF UInv
<1>1. Spent(e, m)'
  BY SpentStep DEF Missed
<1>2. ~in_mail_box(e, m)'
  <2>1. SUFFICES ASSUME in_mail_box(e, m)' PROVE FALSE
    OBVIOUS
  <2>2. PICK d \in dispatching : dispatch_message(d) /\ d.ep = e /\ d.msg = m
    BY <1>0, <2>1, MailStep DEF Missed
  <2> QED
    BY <2>2 DEF dispatch_message, Missed
<1>3. ASSUME NEW x \in dispatching', x.ep = e, x.msg = m, x.status = "Spawned" PROVE FALSE
  <2>1. x \notin dispatching
    BY <1>3 DEF Missed
  <2>2. CASE \E n \in Node : Apply(n)
    <3>1. PICK n \in Node : Apply(n)
      BY <2>2
    <3>2. PICK t : Advances(n, t)
      BY <1>0, <3>1, ApplyAdvances
    <3> QED
      BY <1>3, <2>1, <3>2, SpawnSpent DEF Missed
  <2>3. CASE ~\E n \in Node : Apply(n)
    BY <1>0, <1>3, <2>1, <2>3, TasksStep, DispatchTasks
  <2> QED
    BY <2>2, <2>3
<1> QED
  BY <1>1, <1>2, <1>3 DEF Missed

\* Unreachable is claimed only of endpoints that have left or missed the message.
UnreachableTrue ==
  \A e \in Endpoint, m \in MessageId :
    Claimed(e, m, "Unreachable") => Gone(e) \/ Missed(e, m)

\* It stays so.
LEMMA UnreachableStep ==
  ASSUME Orderly, IInv, UInv, HandedSpent, NotThereYet, OfflineGone, UnreachableTrue, Next
  PROVE  UnreachableTrue'
<1>0. TypeInv /\ Reports /\ EffectsTaken /\ Routes
  BY DEF UInv
<1>1. SUFFICES ASSUME NEW e \in Endpoint, NEW m \in MessageId, Claimed(e, m, "Unreachable")'
               PROVE  Gone(e)' \/ Missed(e, m)'
  BY DEF UnreachableTrue
<1>2. "Unreachable" \in MessageStatusKind /\ "Unreachable" \notin AckKind
  BY DEF MessageStatusKind, AckKind
<1>3. CASE Claimed(e, m, "Unreachable")
  BY <1>0, <1>3, GoneStep, MissedStep DEF UnreachableTrue
<1>4. CASE \E n \in Node : \E p \in Entries(n) : p.type = "EpOffline" /\ p.ep = e
  BY <1>0, <1>4, GoneStep DEF OfflineGone
<1>5. CASE \E d \in dispatching : /\ dispatch_message(d)
                                  /\ d.ep = e /\ d.msg = m /\ ep_state[e] # "live"
  <2>1. PICK d \in dispatching : /\ dispatch_message(d)
                                 /\ d.ep = e /\ d.msg = m /\ ep_state[e] # "live"
    BY <1>5
  <2>2. /\ d.status = "Spawned" /\ dispatching' = (dispatching \ {d}) \cup {ran(d)}
        /\ ran(d).status # "Spawned"
    BY <1>0, <2>1, DispatchTasks
  <2>3. HandedOut(e, m)
    BY <2>1 DEF HandedOut
  <2>4. Spent(e, m)'
    BY <2>3, SpentStep DEF HandedSpent
  <2>5. ~in_mail_box(e, m)
    BY <2>1, <2>2 DEF NotThereYet
  <2>6. ~in_mail_box(e, m)'
    BY <1>0, <2>1, <2>5, DispatchMail
  <2>7. \A x \in dispatching' : ~(x.ep = e /\ x.msg = m /\ x.status = "Spawned")
    BY <1>0, <2>1, <2>2, OneTask
  <2> QED
    BY <2>4, <2>6, <2>7 DEF Missed
<1>6. Claimed(e, m, "Unreachable") \/ NewlyClaimed(e, m, "Unreachable")
  BY <1>0, <1>1, <1>2, ClaimStep
<1> QED
  BY <1>2, <1>3, <1>4, <1>5, <1>6 DEF NewlyClaimed

\* The inductive invariant of orderly behaviours, on top of IInv and UInv.
OInv ==
  /\ HandedSpent
  /\ NotThereYet
  /\ MailOnce
  /\ OfflineGone
  /\ UnreachableTrue

\* It holds initially.
LEMMA OInit == Init => OInv
<1> SUFFICES ASSUME Init PROVE OInv
  OBVIOUS
<1>1. dispatching = {} /\ \A n \in Node : pending[n] = <<>>
  BY DEF Init
<1>2. \A e \in Endpoint : mail_box[e] = <<>>
  BY DEF Init
<1>3. \A e \in Endpoint, m \in MessageId : ~in_mail_box(e, m)
  BY <1>2 DEF in_mail_box
<1>4. \A n \in Node : Entries(n) = {}
  BY <1>1 DEF Entries
<1>5. HandedSpent /\ NotThereYet /\ MailOnce /\ OfflineGone
  BY <1>1, <1>2, <1>3, <1>4 DEF HandedSpent, HandedOut, NotThereYet, MailOnce, OfflineGone
<1>6. UnreachableTrue
  <2>1. SUFFICES ASSUME NEW e \in Endpoint, NEW m \in MessageId
                 PROVE  ~Claimed(e, m, "Unreachable")
    BY DEF UnreachableTrue
  <2> QED
    BY NothingClaimed DEF Absent
<1> QED
  BY <1>5, <1>6 DEF OInv

\* Every step keeps it.
LEMMA OStep ==
  ASSUME Orderly
  PROVE  OInv /\ IInv /\ UInv /\ [Next]_vars => OInv'
<1> SUFFICES ASSUME OInv, IInv, UInv, [Next]_vars PROVE OInv'
  OBVIOUS
<1>1. CASE Next
  BY <1>1, HandedSpentStep, NotThereYetStep, MailOnceStep, OfflineGoneStep, UnreachableStep
     DEF OInv, UInv
<1>2. CASE UNCHANGED vars
  <2>1. /\ UNCHANGED <<pending, topic, dispatching, resolving, waiter, sends>>
        /\ UNCHANGED <<ep_state, mail_box>>
    BY <1>2 DEF vars
  <2>2. /\ \A n \in Node : queue(n)' = queue(n) /\ Entries(n)' = Entries(n)
        /\ \A n, m : in_log(n, m)' <=> in_log(n, m)
        /\ \A e, m : in_mail_box(e, m)' <=> in_mail_box(e, m)
    BY <2>1 DEF queue, Entries, in_log, in_mail_box
  <2>3. \A e \in Endpoint, m \in MessageId : \A s :
          Claimed(e, m, s)' <=> Claimed(e, m, s)
    BY <2>1, <2>2 DEF Claimed
  <2>4. \A e \in Endpoint, m \in MessageId :
          /\ HandedOut(e, m)' <=> HandedOut(e, m)
          /\ Spent(e, m)' <=> Spent(e, m)
          /\ Missed(e, m)' <=> Missed(e, m)
    <3>1. \A e \in Endpoint : Host[e] \in Node
      BY ClusterAssumption
    <3>2. \A e \in Endpoint, m \in MessageId :
            /\ HandedOut(e, m)' <=> HandedOut(e, m)
            /\ Spent(e, m)' <=> Spent(e, m)
      BY <2>1, <2>2, <3>1 DEF HandedOut, Spent
    <3> QED
      BY <2>1, <2>2, <3>2 DEF Missed
  <2>5. HandedSpent' /\ UnreachableTrue'
    BY <2>1, <2>3, <2>4 DEF OInv, HandedSpent, UnreachableTrue, Gone
  <2>6. NotThereYet' /\ MailOnce' /\ OfflineGone'
    BY <2>1, <2>2 DEF OInv, NotThereYet, MailOnce, OfflineGone, Gone
  <2> QED
    BY <2>5, <2>6 DEF OInv
<1> QED
  BY <1>1, <1>2

\* The invariant holds in every orderly behaviour.
LEMMA OInductive ==
  ASSUME Orderly
  PROVE  Spec => [](IInv /\ UInv /\ OInv)
<1>1. Spec => []IInv
  BY Inductive
<1>2. OInv /\ IInv /\ UInv /\ [Next]_vars => OInv'
  BY OStep
<1> QED
  BY <1>1, <1>2, UInductive, OInit, PTL DEF Spec

\* In every orderly behaviour no endpoint is handed a message twice, whatever is
\* lost, retried or applied late: send_unsent marks what it hands out before the
\* task is spawned, only the host of an endpoint spawns one, and no later entry
\* takes the mark back while the message is held.
THEOREM DeliversOnce ==
  ASSUME Orderly
  PROVE  Spec => []DeliveredOnce
<1>1. OInv => DeliveredOnce
  BY DEF OInv, MailOnce, NotThereYet, DeliveredOnce
<1> QED
  BY <1>1, OInductive, PTL

\* In every orderly behaviour a sender is told Err only if an endpoint among its
\* targets failed the message, has left, or did not get it because it was not
\* registered when its dispatch task looked for it.
THEOREM ErrIsSound ==
  ASSUME Orderly
  PROVE  Spec => []ErrSound
<1>1. UInv /\ OInv => ErrSound
  <2>1. SUFFICES ASSUME UInv, OInv, NEW n \in Node, NEW m \in MessageId,
                        waiter[n][m].kind = "Err"
                 PROVE  \E e \in Endpoint :
                          /\ waiter[n][m].status[e] # Absent
                          /\ \/ "Failed" \in acked[e][m]
                             \/ ep_state[e] \in {"deleted", "dropped"}
                             \/ ~in_mail_box(e, m)
    BY DEF ErrSound
  <2>2. PICK e \in Endpoint : is_failed(waiter[n][m].status[e])
    BY <2>1 DEF UInv, ResultsJustified, Justified
  <2>3. PICK s : s = waiter[n][m].status[e]
    OBVIOUS
  <2>4. s \in {"Failed", "Unreachable"} /\ s # Absent
    BY <2>2, <2>3 DEF is_failed, Absent
  <2>5. Claimed(e, m, s)
    BY <2>3 DEF Claimed
  <2>6. CASE s = "Failed"
    <3>1. "Failed" \in acked[e][m]
      BY <2>1, <2>5, <2>6 DEF UInv, Truthful, AckKind
    <3> QED
      BY <2>3, <2>4, <3>1
  <2>7. CASE s = "Unreachable"
    <3>1. Gone(e) \/ Missed(e, m)
      BY <2>1, <2>5, <2>7 DEF OInv, UnreachableTrue
    <3> QED
      BY <2>3, <2>4, <3>1 DEF Gone, Missed
  <2> QED
    BY <2>4, <2>6, <2>7
<1> QED
  BY <1>1, OInductive, PTL

-----------------------------------------------------------------------------
(* No replica forgets a message: what polling attends to. *)

\* The messages that the queue of t should be sending.
to_send(t) == IF Blocking THEN get_front(t.queue) ELSE t.queue.held

\* Replica n has nothing to do for message m of t.
Idle(t, n, m) ==
  /\ \A e \in t.routing[n] : t.queue.status[m][e] # "Unsent"
  /\ ~message_is_resolved(t.queue, m, {})

\* Replica n has nothing left to do in t.
Attended(t, n) == \A m \in to_send(t) : Idle(t, n, m)

\* Whether a message is resolved depends on its statuses, and on the clock in one
\* direction.
LEMMA ResolvedByStatus ==
  ASSUME NEW q, NEW r, NEW m, r.status[m] = q.status[m], NEW past,
         message_is_resolved(r, m, {})
  PROVE  message_is_resolved(q, m, past)
BY DEF message_is_resolved

\* A message that was polled for the endpoints of eps and is not resolved.
Served(q, m, eps, past) ==
  /\ \A e \in eps : q.status[m][e] # "Unsent"
  /\ ~message_is_resolved(q, m, past)

\* send_unsent serves the messages that are not resolved.
LEMMA SendServes ==
  ASSUME NEW q, FiniteQueue(q), NEW ms \in SUBSET MessageId, NEW eps \in SUBSET Endpoint,
         NEW sent, sent = send_unsent(q, ms, eps), NEW m \in ms, NEW past,
         ~message_is_resolved(q, m, past)
  PROVE  Served(sent, m, eps, past)
<1>1. SentTo(q, sent, ms, eps)
  BY SendUnsentStatus
<1>2. m \in MessageId
  OBVIOUS
<1>3. ~message_is_resolved(sent, m, past)
  BY <1>2, SendUnsentResolved
<1>4. ASSUME NEW e \in eps PROVE sent.status[m][e] # "Unsent"
  BY <1>1, <1>2 DEF SentTo
<1> QED
  BY <1>3, <1>4 DEF Served

\* The front of a blocking queue after flush: what stands first behind the popped
\* entries, and it is not resolved.
LEMMA BlockingFront ==
  ASSUME NEW q, FiniteQueue(q), QueueConsistent(q), NEW past, NEW out, out = popped(q, past),
         NEW m, m \in (ids(first(q.time_id \ out)) \cap q.held) \ ids(out)
  PROVE  ~message_is_resolved(q, m, past)
<1>1. PICK p \in first(q.time_id \ out) : p[2] = m
  BY DEF ids
<1>2. p \in q.time_id /\ p \notin out /\ \A r \in q.time_id \ out : p[1] <= r[1]
  BY <1>1 DEF first
<1>3. \A r \in q.time_id : r[1] \in Nat
  BY DEF FiniteQueue, Queue
<1>4. PICK r \in q.time_id : r[1] <= p[1] /\ ~poppable(q, r, past)
  BY <1>2 DEF popped
<1>5. r \notin out
  BY <1>3, <1>4 DEF popped
<1>6. r[1] = p[1]
  BY <1>2, <1>3, <1>4, <1>5
<1>7. r = p
  BY <1>2, <1>6 DEF QueueConsistent
<1>8. \A x \in q.time_id : x[1] < p[1] => x[2] # p[2]
  BY <1>2, <1>3 DEF QueueConsistent
<1> QED
  BY <1>1, <1>4, <1>7, <1>8 DEF poppable

\* update_and_flush attends to the messages it polls; the others must be idle.
LEMMA PollAttends ==
  ASSUME NEW u, FiniteTopic(u), QueueConsistent(u.queue), NEW n \in Node,
         NEW ms \in SUBSET MessageId, NEW past, NEW r, r = update_and_flush(u, n, ms, past),
         \A m \in to_send(u) \ ms : Idle(u, n, m)
  PROVE  Attended(r, n)
<1>1. PICK q : q = u.queue
  OBVIOUS
<1>2. PICK eps : eps = u.routing[n]
  OBVIOUS
<1>3. FiniteQueue(q) /\ eps \in SUBSET Endpoint /\ QueueConsistent(q)
  BY <1>1, <1>2 DEF FiniteTopic, Topic
<1>4. r.queue = poll_and_flush(q, ms, eps, past) /\ r.routing = u.routing
  BY <1>1, <1>2, UpdateAndFlushPolled
<1>5. ASSUME NEW sent, NEW m \in r.queue.held, r.queue.status[m] = sent.status[m],
             Served(sent, m, eps, past)
      PROVE  Idle(r, n, m)
  BY <1>2, <1>4, <1>5, ResolvedByStatus DEF Served, Idle
<1>6. CASE ~Blocking
  <2>1. PICK x : x = r.queue
    OBVIOUS
  <2>2. x = flush_nonblocking(q, ms, eps, past)
    BY <1>4, <1>6, <2>1 DEF poll_and_flush
  <2>3. PICK sent : sent = send_unsent(q, ms \cap q.held, eps)
    OBVIOUS
  <2>4. KeepsStatus(sent, x) /\ Polled(q, x, eps)
    BY <1>3, <2>2, <2>3, FlushNonblockingPolled
  <2>5. x.held = q.held \ nonblocking_out(q, ms, eps, past)
    BY <1>3, <2>2, FlushNonblockingLeaves DEF Leave
  <2>6. SUFFICES ASSUME NEW m \in x.held PROVE Idle(r, n, m)
    BY <1>6, <2>1 DEF Attended, to_send
  <2>7. m \in q.held /\ m \in MessageId /\ x.status[m] = sent.status[m]
    BY <1>3, <2>4, <2>5 DEF KeepsStatus, FiniteQueue, Queue
  <2>8. CASE m \in ms
    <3>1. PICK ps : ps = ms \cap q.held
      OBVIOUS
    <3>2. ps \in SUBSET MessageId /\ m \in ps /\ sent = send_unsent(q, ps, eps)
      BY <2>3, <2>7, <2>8, <3>1
    <3>3. ~message_is_resolved(sent, m, past)
      BY <2>3, <2>5, <2>7, <2>8 DEF nonblocking_out
    <3>4. ~message_is_resolved(q, m, past)
      BY <1>3, <2>7, <3>2, <3>3, SendUnsentResolved
    <3>5. Served(sent, m, eps, past)
      BY <1>3, <3>2, <3>4, SendServes
    <3> QED
      BY <1>5, <2>1, <2>6, <2>7, <3>5
  <2>9. CASE m \notin ms
    <3>1. Idle(u, n, m)
      BY <1>1, <1>6, <2>7, <2>9 DEF to_send
    <3>2. PICK ps : ps = ms \cap q.held
      OBVIOUS
    <3>3. ps \in SUBSET MessageId /\ m \notin ps /\ sent = send_unsent(q, ps, eps)
      BY <2>3, <2>9, <3>2
    <3>4. SentTo(q, sent, ps, eps)
      BY <1>3, <3>3, SendUnsentStatus
    <3>5. \A e \in Endpoint : x.status[m][e] = q.status[m][e]
      BY <2>7, <3>3, <3>4 DEF SentTo
    <3>6. x.status[m] \in StatusMap /\ q.status[m] \in StatusMap
      BY <1>3, <2>4, <2>7 DEF Polled, FiniteQueue, Queue
    <3>7. x.status[m] = q.status[m]
      BY <3>5, <3>6 DEF StatusMap
    <3> QED
      BY <1>1, <1>4, <2>1, <3>1, <3>7, ResolvedByStatus DEF Idle
  <2> QED
    BY <2>8, <2>9
<1>7. CASE Blocking /\ get_front(q) \cap ms = {}
  <2>1. r.queue = q
    BY <1>4, <1>7 DEF poll_and_flush
  <2>2. to_send(r) = to_send(u) /\ to_send(u) = get_front(q)
    BY <1>1, <1>7, <2>1 DEF to_send
  <2> QED
    BY <1>1, <1>4, <1>7, <2>1, <2>2 DEF Attended, Idle
<1>8. CASE Blocking /\ get_front(q) \cap ms # {}
  <2>1. PICK x : x = r.queue
    OBVIOUS
  <2>2. x = flush_blocking(q, eps, past)
    BY <1>4, <1>8, <2>1 DEF poll_and_flush
  <2>3. PICK out : out = popped(q, past)
    OBVIOUS
  <2>4. PICK next : next = (ids(first(q.time_id \ out)) \cap q.held) \ ids(out)
    OBVIOUS
  <2>5. PICK ps : ps = ids(out) \cup next
    OBVIOUS
  <2>6. PICK sent : sent = send_unsent(q, ps, eps)
    OBVIOUS
  <2>7. KeepsStatus(sent, x)
    BY <1>3, <2>2, <2>3, <2>4, <2>5, <2>6, FlushBlockingPolled
  <2>8. x.held = q.held \ ids(out) /\ x.time_id = q.time_id \ out
    <3>1. Leave(q, flush_blocking(q, eps, past), ids(popped(q, past)), popped(q, past),
                Cardinality(popped(q, past)))
      BY <1>3, FlushBlockingLeaves
    <3>2. Leave(q, x, ids(out), out, Cardinality(out))
      BY <2>2, <2>3, <3>1
    <3> QED
      BY <3>2 DEF Leave
  <2>9. get_front(x) = next
    BY <2>4, <2>8 DEF get_front
  <2>10. SUFFICES ASSUME NEW m \in next PROVE Idle(r, n, m)
    BY <1>8, <2>1, <2>9 DEF Attended, to_send
  <2>11. m \in x.held /\ x.status[m] = sent.status[m]
    BY <2>4, <2>7, <2>8 DEF KeepsStatus
  <2>12. ~message_is_resolved(q, m, past)
    BY <1>3, <2>3, <2>4, BlockingFront
  <2>13. ps \in SUBSET MessageId /\ m \in ps
    <3>1. out \in SUBSET q.time_id
      BY <2>3 DEF popped
    <3>2. ids(out) \in SUBSET MessageId
      BY <1>3, <3>1, IdsType
    <3> QED
      BY <1>3, <2>4, <2>5, <3>2 DEF FiniteQueue, Queue
  <2>14. Served(sent, m, eps, past)
    BY <1>3, <2>6, <2>12, <2>13, SendServes
  <2> QED
    BY <1>5, <2>1, <2>11, <2>14
<1> QED
  BY <1>6, <1>7, <1>8

\* Operations on parts of the topic: the messages that are not polled keep their
\* statuses, and an endpoint that a route is added for has nothing unsent.
LEMMA OperatesAttends ==
  ASSUME NEW t, FiniteTopic(t), QueueConsistent(t.queue), NEW n \in Node, Attended(t, n),
         NEW r, NEW routing, NEW interest, NEW st, NEW ms, NEW past,
         Operates(t, r, n, routing, interest, st, ms, past),
         \A m \in t.queue.held \ ms :
           /\ st[m] = t.queue.status[m]
           /\ \A e \in routing[n] \ t.routing[n] : st[m][e] # "Unsent"
  PROVE  Attended(r, n)
<1>1. /\ routing \in [Node -> SUBSET Endpoint] /\ interest \in [Endpoint -> SUBSET Subject]
      /\ st \in [MessageId -> StatusMap] /\ ms \in SUBSET MessageId
  BY DEF Operates
<1>2. PICK u : u = WithParts(t, routing, interest, st)
  OBVIOUS
<1>3. r = update_and_flush(u, n, ms, past)
  BY <1>2 DEF Operates
<1>4. Parted(t, u, routing, interest, st)
  BY <1>1, <1>2, PartsOf
<1>5. SameQueue(t, u)
  BY <1>1, <1>2, StatusChange
<1>6. FiniteTopic(u) /\ QueueConsistent(u.queue)
  BY <1>5, SameConsistent DEF SameQueue
<1>7. ASSUME NEW m \in to_send(u) \ ms PROVE Idle(u, n, m)
  <2>1. m \in to_send(t)
    BY <1>5, <1>7 DEF to_send, get_front, SameQueue, SameIndex
  <2>2. Idle(t, n, m) /\ m \in t.queue.held
    BY <2>1 DEF Attended, to_send, get_front
  <2>3. u.queue.status[m] = t.queue.status[m] /\ u.routing = routing
    BY <1>4, <1>7, <2>2 DEF Parted
  <2>4. \A e \in routing[n] : u.queue.status[m][e] # "Unsent"
    BY <1>4, <1>7, <2>2, <2>3 DEF Parted, Idle
  <2> QED
    BY <2>2, <2>3, <2>4, ResolvedByStatus DEF Idle
<1> QED
  BY <1>1, <1>3, <1>6, <1>7, PollAttends

\* Replica n has nothing left to do in r if it had nothing left in t.
Attends(t, r, n) == QueueConsistent(t.queue) /\ Attended(t, n) => Attended(r, n)

\* t knows nothing of endpoint e.
Unborn(t, e) ==
  /\ \A k \in Node : e \notin t.routing[k]
  /\ t.interest[e] = {}
  /\ \A m \in t.queue.held : t.queue.status[m][e] = Absent

\* What t does not know, other than e, r does not know either.
KeepsUnborn(t, r, e) == \A f \in Endpoint : f # e /\ Unborn(t, f) => Unborn(r, f)

\* Polling tells a topic of no endpoint.
LEMMA UnbornPolled ==
  ASSUME NEW u, NEW r, NEW eps, NEW e \in Endpoint, Unborn(u, e), Polled(u.queue, r.queue, eps),
         r.routing = u.routing, r.interest = u.interest
  PROVE  Unborn(r, e)
<1>1. \A m \in r.queue.held : m \in u.queue.held /\ r.queue.status[m][e] = Absent
  BY DEF Polled, PolledStatus, Unborn, Absent
<1> QED
  BY <1>1 DEF Unborn

\* Operations on parts of the topic that do not touch e.
LEMMA OperatesUnborn ==
  ASSUME NEW t, FiniteTopic(t), NEW n \in Node, NEW r, NEW routing, NEW interest, NEW st,
         NEW ms, NEW past, Operates(t, r, n, routing, interest, st, ms, past),
         NEW e \in Endpoint, \A k \in Node : e \notin routing[k], interest[e] = {},
         \A m \in t.queue.held : st[m][e] = Absent
  PROVE  Unborn(r, e)
<1>1. /\ routing \in [Node -> SUBSET Endpoint] /\ interest \in [Endpoint -> SUBSET Subject]
      /\ st \in [MessageId -> StatusMap] /\ ms \in SUBSET MessageId
  BY DEF Operates
<1>2. PICK u : u = WithParts(t, routing, interest, st)
  OBVIOUS
<1>3. r = update_and_flush(u, n, ms, past)
  BY <1>2 DEF Operates
<1>4. Parted(t, u, routing, interest, st)
  BY <1>1, <1>2, PartsOf
<1>5. FiniteTopic(u) /\ Unborn(u, e)
  BY <1>4 DEF Parted, Unborn
<1>6. Polled(u.queue, r.queue, u.routing[n]) /\ r.routing = u.routing /\ r.interest = u.interest
  BY <1>1, <1>3, <1>5, UpdateAndFlushPolled
<1> QED
  BY <1>5, <1>6, UnbornPolled

\* apply_set_state.
LEMMA SetStateAttends ==
  ASSUME NEW t, FiniteTopic(t), NEW n \in Node, NEW m \in MessageId, NEW e \in Endpoint,
         NEW kind \in MessageStatusKind, NEW past, NEW r, r = set_state(t, n, m, e, kind, past)
  PROVE  Attends(t, r, n) /\ KeepsUnborn(t, r, e)
<1>1. PICK st : st = acked_by(t.queue, m, e, kind)
  OBVIOUS
<1>2. PICK routing, interest : routing = t.routing /\ interest = t.interest
  OBVIOUS
<1>3. Operates(t, r, n, routing, interest, st, {m}, past)
  BY <1>1, <1>2, SetStateOperates
<1>4. t.queue.status \in [MessageId -> StatusMap] /\ t.queue.held \subseteq MessageId
  BY DEF FiniteTopic, FiniteQueue, Queue
<1>5. /\ \A x \in t.queue.held \ {m} : st[x] = t.queue.status[x]
      /\ \A x \in t.queue.held, f \in Endpoint : f # e => st[x][f] = t.queue.status[x][f]
  BY <1>1, <1>4 DEF acked_by, StatusMap
<1>6. Attends(t, r, n)
  <2>1. \A x \in t.queue.held \ {m} :
          /\ st[x] = t.queue.status[x]
          /\ \A f \in routing[n] \ t.routing[n] : st[x][f] # "Unsent"
    BY <1>2, <1>5
  <2> QED
    BY <1>3, <2>1, OperatesAttends DEF Attends
<1>7. ASSUME NEW f \in Endpoint, f # e, Unborn(t, f) PROVE Unborn(r, f)
  <2>1. /\ \A k \in Node : f \notin routing[k]
        /\ interest[f] = {}
        /\ \A x \in t.queue.held : st[x][f] = Absent
    BY <1>2, <1>5, <1>7 DEF Unborn
  <2> QED
    BY <1>3, <2>1, OperatesUnborn
<1> QED
  BY <1>6, <1>7 DEF KeepsUnborn

\* Statuses st differ from those of t in what ms has for e only.
DiffersFor(t, st, e, ms) ==
  /\ \A x \in t.queue.held \ ms : st[x] = t.queue.status[x]
  /\ \A x \in t.queue.held, f \in Endpoint : f # e => st[x][f] = t.queue.status[x][f]

\* What offering messages to an endpoint leaves of the statuses.
LEMMA OfferedStatus ==
  ASSUME NEW t, FiniteTopic(t), NEW e \in Endpoint, NEW ms,
         NEW st, st = offered_to(t.queue.status, e, ms)
  PROVE  DiffersFor(t, st, e, ms)
<1>1. t.queue.status \in [MessageId -> StatusMap] /\ t.queue.held \subseteq MessageId
  BY DEF FiniteTopic, FiniteQueue, Queue
<1> QED
  BY <1>1 DEF offered_to, StatusMap, DiffersFor

\* apply_ep_interest.
LEMMA EpInterestAttends ==
  ASSUME NEW t, FiniteTopic(t), NEW n \in Node, NEW e \in Endpoint,
         NEW interests \in SUBSET Subject, NEW past,
         NEW r, r = update_ep_interest(t, n, e, interests, past)
  PROVE  Attends(t, r, n) /\ KeepsUnborn(t, r, e)
<1>1. PICK ms : ms = durable_about(t, interests)
  OBVIOUS
<1>2. PICK st : st = offered_to(t.queue.status, e, ms)
  OBVIOUS
<1>3. PICK routing, interest : routing = t.routing /\ interest = [t.interest EXCEPT ![e] = interests]
  OBVIOUS
<1>4. Operates(t, r, n, routing, interest, st, ms, past)
  BY <1>1, <1>2, <1>3, EpInterestOperates
<1>5. /\ \A x \in t.queue.held \ ms : st[x] = t.queue.status[x]
      /\ \A x \in t.queue.held, f \in Endpoint : f # e => st[x][f] = t.queue.status[x][f]
  <2>1. DiffersFor(t, st, e, ms)
    BY <1>2, OfferedStatus
  <2> QED
    BY <2>1 DEF DiffersFor
<1>6. Attends(t, r, n)
  <2>1. \A x \in t.queue.held \ ms :
          /\ st[x] = t.queue.status[x]
          /\ \A f \in routing[n] \ t.routing[n] : st[x][f] # "Unsent"
    BY <1>3, <1>5
  <2> QED
    BY <1>4, <2>1, OperatesAttends DEF Attends
<1>7. ASSUME NEW f \in Endpoint, f # e, Unborn(t, f) PROVE Unborn(r, f)
  <2>1. t.interest \in [Endpoint -> SUBSET Subject]
    BY DEF FiniteTopic, Topic
  <2>2. /\ \A k \in Node : f \notin routing[k]
        /\ interest[f] = {}
        /\ \A x \in t.queue.held : st[x][f] = Absent
    BY <1>3, <1>5, <1>7, <2>1 DEF Unborn
  <2> QED
    BY <1>4, <2>2, OperatesUnborn
<1> QED
  BY <1>6, <1>7 DEF KeepsUnborn

\* apply_ep_online, of an endpoint the topic did not know.
LEMMA EpOnlineAttends ==
  ASSUME NEW t, FiniteTopic(t), NEW n \in Node, NEW e \in Endpoint,
         NEW interests \in SUBSET Subject, NEW host \in Node, NEW past, Unborn(t, e),
         NEW r, r = ep_online(t, n, e, interests, host, past)
  PROVE  Attends(t, r, n) /\ KeepsUnborn(t, r, e)
<1>1. PICK ms : ms = {m \in durable_about(t, t.interest[e] \cup interests) :
                        t.queue.status[m][e] = Absent}
  OBVIOUS
<1>2. PICK st : st = offered_to(t.queue.status, e, ms)
  OBVIOUS
<1>3. PICK interest : interest = [t.interest EXCEPT ![e] = @ \cup interests]
  OBVIOUS
<1>4. PICK routing : routing = [t.routing EXCEPT ![host] = @ \cup {e}]
  OBVIOUS
<1>5. Operates(t, r, n, routing, interest, st, ms, past)
  BY <1>1, <1>2, <1>3, <1>4, EpOnlineOperates
<1>6. /\ \A x \in t.queue.held \ ms : st[x] = t.queue.status[x]
      /\ \A x \in t.queue.held, f \in Endpoint : f # e => st[x][f] = t.queue.status[x][f]
  <2>1. DiffersFor(t, st, e, ms)
    BY <1>2, OfferedStatus
  <2> QED
    BY <2>1 DEF DiffersFor
<1>7. t.routing \in [Node -> SUBSET Endpoint] /\ t.interest \in [Endpoint -> SUBSET Subject]
  BY DEF FiniteTopic, Topic
<1>8. Attends(t, r, n)
  <2>1. \A f \in routing[n] \ t.routing[n] : f = e
    BY <1>4, <1>7
  <2>2. \A x \in t.queue.held \ ms :
          /\ st[x] = t.queue.status[x]
          /\ \A f \in routing[n] \ t.routing[n] : st[x][f] # "Unsent"
    BY <1>6, <2>1 DEF Unborn, Absent
  <2> QED
    BY <1>5, <2>2, OperatesAttends DEF Attends
<1>9. ASSUME NEW f \in Endpoint, f # e, Unborn(t, f) PROVE Unborn(r, f)
  <2>1. /\ \A k \in Node : f \notin routing[k]
        /\ interest[f] = {}
        /\ \A x \in t.queue.held : st[x][f] = Absent
    BY <1>3, <1>4, <1>6, <1>7, <1>9 DEF Unborn
  <2> QED
    BY <1>5, <2>1, OperatesUnborn
<1> QED
  BY <1>8, <1>9 DEF KeepsUnborn

\* apply_ep_offline.
LEMMA EpOfflineAttends ==
  ASSUME NEW t, FiniteTopic(t), NEW n \in Node, NEW host \in Node, NEW e \in Endpoint,
         NEW past, NEW r, r = ep_offline(t, n, host, e, past)
  PROVE  Attends(t, r, n) /\ \A f \in Endpoint : Unborn(t, f) => Unborn(r, f)
<1>1. PICK ms : ms = {m \in t.queue.held : t.queue.status[m][e] # Absent}
  OBVIOUS
<1>2. PICK st : st = lost_by(t.queue.status, e, ms)
  OBVIOUS
<1>3. PICK interest : interest = [t.interest EXCEPT ![e] = {}]
  OBVIOUS
<1>4. PICK routing : routing = [t.routing EXCEPT ![host] = @ \ {e}]
  OBVIOUS
<1>5. Operates(t, r, n, routing, interest, st, ms, past)
  BY <1>1, <1>2, <1>3, <1>4, EpOfflineOperates
<1>6. /\ t.queue.status \in [MessageId -> StatusMap] /\ t.queue.held \subseteq MessageId
      /\ t.interest \in [Endpoint -> SUBSET Subject]
      /\ t.routing \in [Node -> SUBSET Endpoint]
  BY DEF FiniteTopic, FiniteQueue, Queue, Topic
<1>7. /\ \A x \in t.queue.held \ ms : st[x] = t.queue.status[x]
      /\ \A x \in t.queue.held, f \in Endpoint :
           t.queue.status[x][f] = Absent => st[x][f] = Absent
  BY <1>1, <1>2, <1>6 DEF lost_by, StatusMap
<1>8. Attends(t, r, n)
  <2>1. routing[n] \subseteq t.routing[n]
    BY <1>4, <1>6
  <2>2. \A x \in t.queue.held \ ms :
          /\ st[x] = t.queue.status[x]
          /\ \A f \in routing[n] \ t.routing[n] : st[x][f] # "Unsent"
    BY <1>7, <2>1
  <2> QED
    BY <1>5, <2>2, OperatesAttends DEF Attends
<1>9. ASSUME NEW f \in Endpoint, Unborn(t, f) PROVE Unborn(r, f)
  <2>1. /\ \A k \in Node : f \notin routing[k]
        /\ interest[f] = {}
        /\ \A x \in t.queue.held : st[x][f] = Absent
    BY <1>3, <1>4, <1>6, <1>7, <1>9 DEF Unborn
  <2> QED
    BY <1>5, <2>1, OperatesUnborn
<1> QED
  BY <1>8, <1>9

\* Pushing and polling a fresh message.
LEMMA HoldAttends ==
  ASSUME NEW t, FiniteTopic(t), NEW n \in Node, NEW m \in MessageId, NEW eps,
         NEW time \in Nat, NEW past, FreshFor(t, m, time),
         NEW r, r = hold(t, n, m, eps, time, past)
  PROVE  /\ Attended(t, n) => Attended(r, n)
         /\ \A f \in Endpoint : f \notin eps /\ Unborn(t, f) => Unborn(r, f)
<1>1. PICK q : q = push(t.queue, m, wait_ack(eps), time)
  OBVIOUS
<1>2. FiniteQueue(t.queue) /\ t \in Topic /\ wait_ack(eps) \in StatusMap
        /\ t.queue.held \subseteq MessageId
  BY WaitAckType DEF FiniteTopic, FiniteQueue, Queue
<1>3. /\ FiniteQueue(q)
      /\ q.held = t.queue.held \cup {m}
      /\ \A k \in MessageId : q.status[k] = IF k = m THEN wait_ack(eps) ELSE t.queue.status[k]
  BY <1>1, <1>2, PushStatus
<1>4. Pushed(t.queue, q, m, time)
  BY <1>1, <1>2, PushType
<1>5. QueueConsistent(q)
  BY <1>2, <1>4, PushConsistent DEF FreshFor
<1>6. q.time_id = t.queue.time_id \cup {<<time, m>>}
  <2>1. \A p \in t.queue.time_id : p[1] \in Nat /\ p[1] < time
    BY <1>2 DEF FreshFor, FiniteQueue, Queue
  <2>2. ~\E p \in t.queue.time_id : p[1] = time
    BY <2>1
  <2> QED
    BY <1>4, <2>2 DEF Pushed
<1>7. PICK u : u = [t EXCEPT !.queue = q]
  OBVIOUS
<1>8. FiniteTopic(u) /\ u.queue = q /\ u.routing = t.routing /\ u.interest = t.interest
  BY <1>2, <1>3, <1>7, WithQueueType DEF Topic
<1>9. r = update_and_flush(u, n, {m}, past)
  BY <1>1, <1>7 DEF hold
<1>10. ASSUME Attended(t, n) PROVE Attended(r, n)
  <2>1. ASSUME NEW x \in to_send(u) \ {m} PROVE x \in to_send(t)
    <3>1. CASE Blocking
      <4>1. x \in ids(first(q.time_id)) /\ x \in q.held
        BY <1>8, <2>1, <3>1 DEF to_send, get_front
      <4>2. PICK p \in first(q.time_id) : p[2] = x
        BY <4>1 DEF ids
      <4>3. p \in q.time_id /\ \A y \in q.time_id : p[1] <= y[1]
        BY <4>2 DEF first
      <4>4. p \in t.queue.time_id
        BY <1>6, <2>1, <4>2, <4>3
      <4>5. p \in first(t.queue.time_id)
        BY <1>6, <4>3, <4>4 DEF first
      <4>6. x \in ids(first(t.queue.time_id)) /\ x \in t.queue.held
        BY <1>3, <2>1, <4>1, <4>2, <4>5 DEF ids
      <4> QED
        BY <3>1, <4>6 DEF to_send, get_front
    <3>2. CASE ~Blocking
      BY <1>3, <1>8, <2>1, <3>2 DEF to_send
    <3> QED
      BY <3>1, <3>2
  <2>2. ASSUME NEW x \in to_send(u) \ {m} PROVE Idle(u, n, x)
    <3>1. Idle(t, n, x) /\ x \in t.queue.held
      BY <1>10, <2>1, <2>2 DEF Attended, to_send, get_front
    <3>2. u.queue.status[x] = t.queue.status[x]
      BY <1>2, <1>3, <1>8, <2>2, <3>1
    <3> QED
      BY <1>8, <3>1, <3>2, ResolvedByStatus DEF Idle
  <2>3. {m} \in SUBSET MessageId
    OBVIOUS
  <2> QED
    BY <1>5, <1>8, <1>9, <2>2, <2>3, PollAttends
<1>11. ASSUME NEW f \in Endpoint, f \notin eps, Unborn(t, f) PROVE Unborn(r, f)
  <2>1. wait_ack(eps)[f] = Absent
    BY <1>11 DEF wait_ack
  <2>2. Unborn(u, f)
    BY <1>2, <1>3, <1>8, <1>11, <2>1 DEF Unborn
  <2>3. Polled(u.queue, r.queue, u.routing[n]) /\ r.routing = u.routing /\ r.interest = u.interest
    BY <1>8, <1>9, UpdateAndFlushPolled
  <2> QED
    BY <2>2, <2>3, UnbornPolled
<1> QED
  BY <1>10, <1>11

\* Taking messages out and telling senders.
LEMMA TellsAttends ==
  ASSUME NEW t, NEW r, NEW n \in Node, Tells(t, r, n), ~Blocking \/ to_send(r) \subseteq to_send(t)
  PROVE  /\ Attended(t, n) => Attended(r, n)
         /\ \A f \in Endpoint : Unborn(t, f) => Unborn(r, f)
<1>1. /\ r.queue.held \subseteq t.queue.held
      /\ \A x \in r.queue.held : r.queue.status[x] = t.queue.status[x]
      /\ r.routing = t.routing /\ r.interest = t.interest
  BY DEF Tells, Delivers, KeepsStatus
<1>2. ASSUME Attended(t, n) PROVE Attended(r, n)
  <2>1. SUFFICES ASSUME NEW x \in to_send(r) PROVE Idle(r, n, x)
    BY DEF Attended
  <2>2. x \in r.queue.held /\ x \in to_send(t)
    BY <1>1 DEF to_send, get_front
  <2>3. Idle(t, n, x)
    BY <1>2, <2>2 DEF Attended
  <2> QED
    BY <1>1, <2>2, <2>3, ResolvedByStatus DEF Idle
<1>3. \A f \in Endpoint : Unborn(t, f) => Unborn(r, f)
  BY <1>1 DEF Unborn
<1> QED
  BY <1>2, <1>3

\* The queue is not both blocking and of the kind that drops its oldest message when
\* it is full: hold_new_message does not poll the message behind the dropped one.
DropsUnblocked == ~(Blocking /\ OverflowPolicy = "DropOld")

\* put_in_queue.
LEMMA PutInQueueAttends ==
  ASSUME DropsUnblocked, NEW t, FiniteTopic(t), NEW n \in Node, NEW m \in MessageId, NEW eps,
         NEW time \in Nat, NEW past, FreshFor(t, m, time), ~t.panic,
         NEW r, r = put_in_queue(t, n, m, eps, time, past)
  PROVE  /\ Attended(t, n) => Attended(r, n)
         /\ \A f \in Endpoint : f \notin eps /\ Unborn(t, f) => Unborn(r, f)
<1>1. CASE OverflowPolicy = "None" \/ t.queue.size < OverflowSize
  <2>1. r = hold(t, n, m, eps, time, past)
    BY <1>1 DEF put_in_queue
  <2> QED
    BY <2>1, HoldAttends
<1>2. CASE ~(OverflowPolicy = "None" \/ t.queue.size < OverflowSize) /\ OverflowPolicy = "RejectNew"
  <2>1. r = fail(t, m, "Overflow")
    BY <1>2 DEF put_in_queue
  <2>2. Tells(t, r, n)
    <3>1. allowed(m, "Overflow")
      BY <1>2 DEF allowed
    <3> QED
      BY <2>1, <3>1, FailDelivers
  <2>3. SameIndex(t.queue, r.queue)
    BY <2>1, FailType
  <2>4. to_send(r) = to_send(t)
    BY <2>3 DEF SameIndex, to_send, get_front
  <2> QED
    BY <2>2, <2>4, TellsAttends
<1>3. CASE ~(OverflowPolicy = "None" \/ t.queue.size < OverflowSize) /\ OverflowPolicy # "RejectNew"
  <2>1. PICK room : room = drop_old(t)
    OBVIOUS
  <2>2. ~Blocking
    BY <1>3, OverflowAssumption DEF DropsUnblocked
  <2>3. t.queue.size \in Int
    BY DEF FiniteTopic, FiniteQueue, Queue
  <2>4. t.queue.size >= 1
    BY <1>3, <2>3, OverflowAssumption
  <2>5. /\ room.panic = t.panic
        /\ QueueConsistent(room.queue)
        /\ Shrunk(t.queue, room.queue)
    BY <2>1, <2>4, DropOldRoom DEF FreshFor
  <2>6. FiniteTopic(room) /\ Tells(t, room, n)
    BY <1>3, <2>1, DropOldType, DropOldDelivers
  <2>7. FreshFor(room, m, time)
    BY <2>5 DEF FreshFor, Shrunk
  <2>8. r = hold(room, n, m, eps, time, past)
    BY <1>3, <2>1, <2>5 DEF put_in_queue
  <2>9. /\ Attended(t, n) => Attended(room, n)
        /\ \A f \in Endpoint : Unborn(t, f) => Unborn(room, f)
    BY <2>2, <2>6, TellsAttends
  <2>10. /\ Attended(room, n) => Attended(r, n)
         /\ \A f \in Endpoint : f \notin eps /\ Unborn(room, f) => Unborn(r, f)
    BY <2>6, <2>7, <2>8, HoldAttends
  <2> QED
    BY <2>9, <2>10
<1> QED
  BY <1>1, <1>2, <1>3

\* apply_delegate_message.
LEMMA HoldNewMessageAttends ==
  ASSUME DropsUnblocked, NEW t, FiniteTopic(t), NEW n \in Node, NEW m \in MessageId,
         NEW time \in Nat, NEW past, FreshFor(t, m, time), ~t.panic,
         Header[m].target_kind # "Available",
         NEW r, r = hold_new_message(t, n, m, time, past)
  PROVE  /\ Attended(t, n) => Attended(r, n)
         /\ \A f \in Endpoint : Unborn(t, f) => Unborn(r, f)
<1>1. PICK all : all = collect_addr_by_subjects(t, m)
  OBVIOUS
<1>2. PICK kind : kind = Header[m].target_kind
  OBVIOUS
<1>3. kind \in {"Durable", "Online", "Push"}
  BY <1>2, HeaderAssumption DEF MessageHeader, MessageTargetKind
<1>4. \A f \in Endpoint : Unborn(t, f) => f \notin all
  BY <1>1 DEF Unborn, collect_addr_by_subjects
<1>5. CASE kind = "Push" /\ all = {}
  <2>1. r = fail(t, m, "NoAvailableTarget")
    BY <1>1, <1>2, <1>5 DEF hold_new_message
  <2>2. Tells(t, r, n)
    <3>1. allowed(m, "NoAvailableTarget")
      BY <1>2, <1>5 DEF allowed
    <3> QED
      BY <2>1, <3>1, FailDelivers
  <2>3. SameIndex(t.queue, r.queue)
    BY <2>1, FailType
  <2>4. to_send(r) = to_send(t)
    BY <2>3 DEF SameIndex, to_send, get_front
  <2> QED
    BY <2>2, <2>4, TellsAttends
<1>6. CASE kind = "Push" /\ all # {}
  <2>1. PICK eps : eps = select_ep(m, all)
    OBVIOUS
  <2>2. r = put_in_queue(t, n, m, eps, time, past) /\ eps \subseteq all
    BY <1>1, <1>2, <1>6, <2>1 DEF hold_new_message, select_ep
  <2> QED
    BY <1>4, <2>2, PutInQueueAttends
<1>7. CASE kind \in {"Durable", "Online"}
  <2>1. r = put_in_queue(t, n, m, all, time, past)
    BY <1>1, <1>2, <1>7 DEF hold_new_message
  <2> QED
    BY <1>4, <2>1, PutInQueueAttends
<1> QED
  BY <1>3, <1>5, <1>6, <1>7

-----------------------------------------------------------------------------
(* No replica forgets a message: orderly behaviours. *)

\* Entry p tells a topic of endpoint e.
About(p, e) == p.type \in {"SetState", "EpOnline", "EpInterest"} /\ p.ep = e

\* The i-th entry node n has to apply is the EpOnline of e.
onlines(n, i, e) ==
  /\ i \in 1 .. Len(pending[n])
  /\ pending[n][i].type = "EpOnline"
  /\ pending[n][i].ep = e

\* Nothing is known of an endpoint that was not created.
NewUnknown ==
  \A e \in Endpoint :
    ep_state[e] = "new" =>
      /\ \A n \in Node : Unborn(topic[n], e) /\ \A p \in Entries(n) : ~About(p, e)
      /\ \A m \in MessageId : ~HandedOut(e, m)

\* A node learns of an endpoint by its EpOnline first.
OnlineFirst ==
  \A n \in Node, e \in Endpoint, i \in Nat :
    onlines(n, i, e) =>
      Unborn(topic[n], e) /\ \A j \in 1 .. (i - 1) : ~About(pending[n][j], e)

\* Every replica has nothing left to do.
AllAttended == \A n \in Node : Attended(topic[n], n)

\* What applying the next entry of node n gives for them.
AttendsTo(n, t) ==
  /\ Applied(n, t)
  /\ Attended(t, n)
  /\ \A f \in Endpoint : Unborn(topic[n], f) /\ ~About(Head(pending[n]), f) => Unborn(t, f)

\* Applying an entry gives that.
LEMMA ApplyAttends ==
  ASSUME Orderly, DropsUnblocked, IInv, OnlineFirst, AllAttended, NEW n \in Node, Apply(n)
  PROVE  \E t : AttendsTo(n, t)
<1>1. /\ FiniteTopic(topic[n]) /\ ~topic[n].panic /\ Attended(topic[n], n)
      /\ QueueConsistent(topic[n].queue) /\ clock \in [Node -> Nat \ {0}] /\ TypeInv
  BY DEF IInv, TypeInv, TypeOK, TopicsFinite, NoPanic, QueuesConsistent, queue, AllAttended
<1>2. pending[n] # <<>> /\ pending[n] \in Seq(Proposal)
  BY DEF Apply, apply_delegate_message, apply_set_state, apply_ep_online, apply_ep_offline,
         apply_ep_interest, next_is, IInv, TypeInv, TypeOK
<1>3. PICK p : p = Head(pending[n])
  OBVIOUS
<1>4. p \in Proposal /\ p = pending[n][1] /\ 1 \in 1 .. Len(pending[n])
  BY <1>1, <1>2, <1>3, HeadType
<1>5. PICK u, past : u = topic[n] /\ past = expired[n]
  OBVIOUS
<1>6. FiniteTopic(u) /\ QueueConsistent(u.queue) /\ Attended(u, n) /\ ~u.panic
  BY <1>1, <1>5
<1>7. CASE apply_delegate_message(n)
  <2>1. p.type = "DelegateMessage" /\ p.msg \in MessageId
    BY <1>3, <1>4, <1>7 DEF apply_delegate_message, next_is, Proposal
  <2>2. PICK step \in ClockStep :
          /\ clock' = [clock EXCEPT ![n] = @ + step]
          /\ apply(n, hold_new_message(topic[n], n, p.msg, clock[n] + step, expired[n]))
    BY <1>3, <1>7 DEF apply_delegate_message
  <2>3. PICK m, time : m = p.msg /\ time = clock[n] + step
    OBVIOUS
  <2>4. PICK t : t = hold_new_message(u, n, m, time, past)
    OBVIOUS
  <2>5. /\ step \in Nat \ {0} /\ time \in Nat /\ time # 0 /\ clock' \in [Node -> Nat \ {0}]
        /\ m \in MessageId
    BY <1>1, <2>1, <2>2, <2>3, ClusterAssumption DEF Orderly
  <2>6. FreshFor(u, m, time)
    <3>1. delegates(n, 1, m)
      BY <1>4, <2>1, <2>3 DEF delegates
    <3>2. m \notin u.queue.held
      BY <1>5, <2>5, <3>1 DEF IInv, LogFresh, queue
    <3>3. \A x \in u.queue.time_id : x[1] \in Nat /\ x[1] <= clock[n]
      BY <1>5, <1>6 DEF IInv, ClockAhead, queue, FiniteTopic, FiniteQueue, Queue
    <3>4. \A x \in u.queue.time_id : x[1] < time
      BY <1>1, <2>3, <2>5, <3>3
    <3> QED
      BY <1>6, <2>5, <3>2, <3>4 DEF FreshFor
  <2>7. Header[m].target_kind # "Available"
    BY <2>5 DEF Orderly
  <2>8. /\ Attended(u, n) => Attended(t, n)
        /\ \A f \in Endpoint : Unborn(u, f) => Unborn(t, f)
    BY <1>6, <2>4, <2>5, <2>6, <2>7, HoldNewMessageAttends
  <2>9. FiniteTopic(t)
    BY <1>6, <2>4, <2>5, HoldNewMessageType
  <2>10. Applied(n, t)
    BY <1>2, <1>5, <2>2, <2>3, <2>4, <2>5, <2>9 DEF Applied
  <2> QED
    BY <1>5, <1>6, <2>8, <2>10 DEF AttendsTo
<1>8. CASE apply_set_state(n)
  <2>1. /\ p.type = "SetState" /\ p.msg \in MessageId /\ p.ep \in Endpoint
        /\ p.kind \in MessageStatusKind
    BY <1>3, <1>4, <1>8 DEF apply_set_state, next_is, Proposal
  <2>2. PICK m, e, kind : m = p.msg /\ e = p.ep /\ kind = p.kind
    OBVIOUS
  <2>3. PICK t : t = set_state(u, n, m, e, kind, past)
    OBVIOUS
  <2>4. m \in MessageId /\ e \in Endpoint /\ kind \in MessageStatusKind
    BY <2>1, <2>2
  <2>5. Attends(u, t, n) /\ KeepsUnborn(u, t, e)
    BY <1>6, <2>3, <2>4, SetStateAttends
  <2>6. FiniteTopic(t)
    BY <1>6, <2>3, <2>4, SetStateSteady DEF Steady
  <2>7. Applied(n, t)
    BY <1>1, <1>2, <1>3, <1>5, <1>8, <2>2, <2>3, <2>6 DEF Applied, apply_set_state
  <2> QED
    BY <1>3, <1>5, <1>6, <2>1, <2>2, <2>5, <2>7 DEF AttendsTo, Attends, KeepsUnborn, About
<1>9. CASE apply_ep_online(n)
  <2>1. /\ p.type = "EpOnline" /\ p.ep \in Endpoint /\ p.host \in Node
        /\ p.interests \in SUBSET Subject
    BY <1>3, <1>4, <1>9 DEF apply_ep_online, next_is, Proposal
  <2>2. PICK e, interests, host : e = p.ep /\ interests = p.interests /\ host = p.host
    OBVIOUS
  <2>3. PICK t : t = ep_online(u, n, e, interests, host, past)
    OBVIOUS
  <2>4. e \in Endpoint /\ interests \in SUBSET Subject /\ host \in Node
    BY <2>1, <2>2
  <2>5. onlines(n, 1, e)
    BY <1>4, <2>1, <2>2 DEF onlines
  <2>6. Unborn(u, e)
    BY <1>5, <2>4, <2>5 DEF OnlineFirst
  <2>7. Attends(u, t, n) /\ KeepsUnborn(u, t, e)
    BY <1>6, <2>3, <2>4, <2>6, EpOnlineAttends
  <2>8. FiniteTopic(t)
    BY <1>6, <2>3, <2>4, EpOnlineSteady DEF Steady
  <2>9. Applied(n, t)
    BY <1>1, <1>2, <1>3, <1>5, <1>9, <2>2, <2>3, <2>8 DEF Applied, apply_ep_online
  <2> QED
    BY <1>3, <1>5, <1>6, <2>1, <2>2, <2>7, <2>9 DEF AttendsTo, Attends, KeepsUnborn, About
<1>10. CASE apply_ep_offline(n)
  <2>1. p.type = "EpOffline" /\ p.ep \in Endpoint /\ p.host \in Node
    BY <1>3, <1>4, <1>10 DEF apply_ep_offline, next_is, Proposal
  <2>2. PICK e, host : e = p.ep /\ host = p.host
    OBVIOUS
  <2>3. PICK t : t = ep_offline(u, n, host, e, past)
    OBVIOUS
  <2>4. e \in Endpoint /\ host \in Node
    BY <2>1, <2>2
  <2>5. Attends(u, t, n) /\ \A f \in Endpoint : Unborn(u, f) => Unborn(t, f)
    BY <1>6, <2>3, <2>4, EpOfflineAttends
  <2>6. FiniteTopic(t)
    BY <1>6, <2>3, <2>4, EpOfflineSteady DEF Steady
  <2>7. Applied(n, t)
    BY <1>1, <1>2, <1>3, <1>5, <1>10, <2>2, <2>3, <2>6 DEF Applied, apply_ep_offline
  <2> QED
    BY <1>5, <1>6, <2>5, <2>7 DEF AttendsTo, Attends
<1>11. CASE apply_ep_interest(n)
  <2>1. p.type = "EpInterest" /\ p.ep \in Endpoint /\ p.interests \in SUBSET Subject
    BY <1>3, <1>4, <1>11 DEF apply_ep_interest, next_is, Proposal
  <2>2. PICK e, interests : e = p.ep /\ interests = p.interests
    OBVIOUS
  <2>3. PICK t : t = update_ep_interest(u, n, e, interests, past)
    OBVIOUS
  <2>4. e \in Endpoint /\ interests \in SUBSET Subject
    BY <2>1, <2>2
  <2>5. Attends(u, t, n) /\ KeepsUnborn(u, t, e)
    BY <1>6, <2>3, <2>4, EpInterestAttends
  <2>6. FiniteTopic(t)
    BY <1>6, <2>3, <2>4, EpInterestSteady DEF Steady
  <2>7. Applied(n, t)
    BY <1>1, <1>2, <1>3, <1>5, <1>11, <2>2, <2>3, <2>6 DEF Applied, apply_ep_interest
  <2> QED
    BY <1>3, <1>5, <1>6, <2>1, <2>2, <2>5, <2>7 DEF AttendsTo, Attends, KeepsUnborn, About
<1> QED
  BY <1>7, <1>8, <1>9, <1>10, <1>11 DEF Apply

\* Every node's topic after an entry was applied.
LEMMA AttendedFields ==
  ASSUME TypeInv, AllAttended, NEW n \in Node, NEW t, AttendsTo(n, t)
  PROVE  /\ AllAttended'
         /\ \A k \in Node, f \in Endpoint :
              Unborn(topic[k], f) /\ (k = n => ~About(Head(pending[n]), f)) => Unborn(topic'[k], f)
<1>1. AppliedTo(n, t)
  BY AppliedFields DEF AttendsTo
<1>2. /\ topic'[n].routing = t.routing /\ topic'[n].interest = t.interest
      /\ topic'[n].queue.held = t.queue.held /\ topic'[n].queue.status = t.queue.status
      /\ topic'[n].queue.time_id = t.queue.time_id
      /\ \A k \in Node : k # n => topic'[k] = topic[k]
  BY <1>1 DEF AppliedTo, queue
<1>3. Attended(topic'[n], n)
  <2>1. to_send(topic'[n]) = to_send(t)
    BY <1>2 DEF to_send, get_front
  <2>2. \A x : Idle(t, n, x) => Idle(topic'[n], n, x)
    BY <1>2, ResolvedByStatus DEF Idle
  <2> QED
    BY <2>1, <2>2 DEF Attended, AttendsTo
<1>4. AllAttended'
  BY <1>2, <1>3 DEF AllAttended
<1>5. \A f : Unborn(t, f) => Unborn(topic'[n], f)
  BY <1>2 DEF Unborn
<1> QED
  BY <1>2, <1>4, <1>5 DEF AttendsTo

\* Endpoints do not become new again.
LEMMA NewStep ==
  ASSUME TypeInv, Next, NEW e \in Endpoint, ep_state'[e] = "new"
  PROVE  ep_state[e] = "new"
<1>1. CASE UNCHANGED ep_state
  BY <1>1
<1>2. CASE \E n \in SendNodes, m \in MessageId : send_message(n, m)
  BY <1>1, <1>2 DEF send_message, ep_vars
<1>3. CASE \E n \in Node : Apply(n)
  BY <1>1, <1>3 DEF Apply, apply_delegate_message, apply_set_state, apply_ep_online,
                    apply_ep_offline, apply_ep_interest, apply, ep_vars
<1>4. CASE \E n \in Node, m \in MessageId : expire(n, m)
  BY <1>1, <1>4 DEF expire, ep_vars
<1>5. CASE \E d \in dispatching : dispatch_message(d) \/ report_dispatch(d) \/ lose_report(d)
  BY <1>1, <1>5 DEF dispatch_message, report_dispatch, lose_report, ep_vars
<1>6. CASE \E n \in Node : \E r \in resolving[n] : resolve_waiter(n, r)
  BY <1>1, <1>6 DEF resolve_waiter, ep_vars
<1>7. CASE \E f \in Endpoint, interests \in InterestChoices : create_endpoint(f, interests)
  BY <1>7 DEF create_endpoint, TypeInv, TypeOK
<1>8. CASE \E f \in Endpoint, interests \in InterestChoices : update_interest(f, interests)
  BY <1>1, <1>8 DEF update_interest
<1>9. CASE \E f \in Endpoint : register_endpoint(f) \/ delete_endpoint(f) \/ drop_endpoint(f)
  BY <1>9 DEF register_endpoint, delete_endpoint, drop_endpoint, TypeInv, TypeOK
<1>10. CASE \E f \in Endpoint : propose_offline(f)
  BY <1>1, <1>10 DEF propose_offline
<1>11. CASE \E f \in Endpoint, m \in MessageId, kind \in AckChoices : single_ack(f, m, kind)
  BY <1>1, <1>11 DEF single_ack
<1> QED
  BY <1>2, <1>3, <1>4, <1>5, <1>6, <1>7, <1>8, <1>9, <1>10, <1>11 DEF Next

\* Tasks are spawned for endpoints the node has a route to.
LEMMA SpawnRouted ==
  ASSUME TypeInv, EffectsTaken, NEW n \in Node, NEW t, Advances(n, t),
         NEW x \in dispatching', x \notin dispatching
  PROVE  x.ep \in topic'[n].routing[n]
<1>1. Applied(n, t) /\ topic[n].queue.dispatch = {}
  BY DEF Advances, EffectsTaken, queue
<1>2. AppliedTo(n, t)
  BY <1>1, AppliedFields
<1>3. PICK d \in t.queue.dispatch :
        x = [node |-> n, msg |-> d[1], ep |-> d[2], status |-> "Spawned"]
  BY <1>2 DEF AppliedTo
<1>4. d[2] \in t.routing[n]
  BY <1>1, <1>3 DEF Advances, Delivers
<1> QED
  BY <1>2, <1>3, <1>4 DEF AppliedTo

\* A step that applies no entry leaves the topics alone and may propose.
LEMMA ApplyOrProposes ==
  ASSUME TypeInv, Next, ~\E n \in Node : Apply(n)
  PROVE  Proposes
<1>1. CASE \E d \in dispatching : dispatch_message(d)
  BY <1>1 DEF dispatch_message, Proposes, log_vars
<1>2. CASE \E n \in Node : \E r \in resolving[n] : resolve_waiter(n, r)
  BY <1>2 DEF resolve_waiter, Proposes
<1> QED
  BY <1>1, <1>2, CalmOrNot DEF Calm

\* Nothing is proposed about an endpoint that stays new.
LEMMA NothingProposedAbout ==
  ASSUME NEW e \in Endpoint, ep_state[e] = "new", ep_state'[e] = "new",
         \A m \in MessageId : ~HandedOut(e, m),
         NEW p \in Proposal, Proposable(p)
  PROVE  ~About(p, e)
<1> SUFFICES ASSUME About(p, e) PROVE FALSE
  OBVIOUS
<1>1. p.ep = e /\ p.type \in {"SetState", "EpOnline", "EpInterest"}
  BY DEF About
<1>2. CASE p.type = "SetState"
  <2>1. p.msg \in MessageId
    BY <1>2 DEF Proposal
  <2>2. PICK m \in MessageId : m = p.msg
    BY <2>1
  <2>3. HandedOut(e, m)
    BY <1>1, <1>2, <2>2 DEF Proposable, HandedOut
  <2> QED
    BY <2>3
<1>3. CASE p.type = "EpOnline"
  BY <1>1, <1>3 DEF Proposable
<1>4. CASE p.type = "EpInterest"
  BY <1>1, <1>4 DEF Proposable
<1> QED
  BY <1>1, <1>2, <1>3, <1>4

\* What is handed out of a step was on its way, or is for an endpoint of the node that
\* applied an entry.
LEMMA HandedOutStep ==
  ASSUME UInv, Next, NEW e \in Endpoint, NEW m \in MessageId, HandedOut(e, m)', ~HandedOut(e, m)
  PROVE  \E n \in Node : Apply(n) /\ e \in topic'[n].routing[n]
<1>0. TypeInv /\ Reports /\ EffectsTaken
  BY DEF UInv
<1>1. ~in_mail_box(e, m)'
  BY <1>0, MailStep DEF HandedOut
<1>2. PICK x \in dispatching' : x.ep = e /\ x.msg = m
  BY <1>1 DEF HandedOut
<1>3. x \notin dispatching
  BY <1>2 DEF HandedOut
<1>4. CASE \E n \in Node : Apply(n)
  <2>1. PICK n \in Node : Apply(n)
    BY <1>4
  <2>2. PICK t : Advances(n, t)
    BY <1>0, <2>1, ApplyAdvances
  <2> QED
    BY <1>0, <1>2, <1>3, <2>1, <2>2, SpawnRouted
<1>5. CASE ~\E n \in Node : Apply(n)
  <2>1. PICK d \in dispatching : dispatch_message(d) /\ x = ran(d)
    BY <1>0, <1>3, <1>5, TasksStep
  <2>2. d.ep = e /\ d.msg = m
    BY <1>0, <1>2, <2>1, DispatchTasks
  <2> QED
    BY <2>2 DEF HandedOut
<1> QED
  BY <1>4, <1>5

\* Nothing becomes known of an endpoint that was not created.
LEMMA NewUnknownStep ==
  ASSUME Orderly, DropsUnblocked, IInv, UInv, NewUnknown, OnlineFirst, AllAttended, Next
  PROVE  NewUnknown'
<1>0. TypeInv
  BY DEF UInv
<1>1. SUFFICES ASSUME NEW e \in Endpoint, ep_state'[e] = "new"
               PROVE  /\ \A n \in Node : Unborn(topic'[n], e) /\ \A p \in Entries(n)' : ~About(p, e)
                      /\ \A m \in MessageId : ~HandedOut(e, m)'
  BY DEF NewUnknown
<1>2. ep_state[e] = "new"
  BY <1>0, <1>1, NewStep
<1>3. /\ \A n \in Node : Unborn(topic[n], e) /\ \A p \in Entries(n) : ~About(p, e)
      /\ \A m \in MessageId : ~HandedOut(e, m)
  BY <1>2 DEF NewUnknown
<1>4. \A n \in Node : Unborn(topic'[n], e) /\ \A p \in Entries(n)' : ~About(p, e)
  <2>1. CASE \E k \in Node : Apply(k)
    <3>1. PICK k \in Node : Apply(k)
      BY <2>1
    <3>2. PICK t : AttendsTo(k, t)
      BY <3>1, ApplyAttends
    <3>3. Head(pending[k]) \in Entries(k) /\ \A n \in Node : Entries(n)' \subseteq Entries(n)
      BY <1>0, <3>2, EntriesApply DEF AttendsTo
    <3>4. ~About(Head(pending[k]), e)
      BY <1>3, <3>3
    <3>5. \A n \in Node : Unborn(topic'[n], e)
      BY <1>0, <1>3, <3>2, <3>4, AttendedFields
    <3> QED
      BY <1>3, <3>3, <3>5
  <2>2. CASE ~\E k \in Node : Apply(k)
    <3>1. Proposes
      BY <1>0, <2>2, ApplyOrProposes
    <3>2. \A n \in Node : Unborn(topic'[n], e)
      BY <1>3, <3>1 DEF Proposes
    <3>3. ASSUME NEW n \in Node, NEW p \in Entries(n)' PROVE ~About(p, e)
      <4>1. p \in Entries(n) \/ (p \in Proposal /\ Proposable(p))
        BY <1>0, <3>1, <3>3, ProposesEntries
      <4> QED
        BY <1>1, <1>2, <1>3, <4>1, NothingProposedAbout
    <3> QED
      BY <3>2, <3>3
  <2> QED
    BY <2>1, <2>2
<1>5. ASSUME NEW m \in MessageId, HandedOut(e, m)' PROVE FALSE
  BY <1>3, <1>4, <1>5, HandedOutStep DEF Unborn
<1> QED
  BY <1>4, <1>5

\* Every replica goes on having nothing left to do.
LEMMA AllAttendedStep ==
  ASSUME Orderly, DropsUnblocked, IInv, OnlineFirst, AllAttended, Next
  PROVE  AllAttended'
<1>0. TypeInv
  BY DEF IInv
<1>1. CASE \E n \in Node : Apply(n)
  BY <1>0, <1>1, ApplyAttends, AttendedFields
<1>2. CASE ~\E n \in Node : Apply(n)
  BY <1>0, <1>2, ApplyOrProposes DEF Proposes, AllAttended
<1> QED
  BY <1>1, <1>2

\* The EpOnline of an endpoint stays the first that a node learns of it, when an entry
\* is applied.
LEMMA OnlineFirstApply ==
  ASSUME TypeInv, OnlineFirst, AllAttended, NEW k \in Node, NEW t, AttendsTo(k, t)
  PROVE  OnlineFirst'
<1>1. SUFFICES ASSUME NEW n \in Node, NEW e \in Endpoint, NEW i \in Nat, onlines(n, i, e)'
               PROVE  /\ Unborn(topic'[n], e)
                      /\ \A j \in 1 .. (i - 1) : ~About(pending'[n][j], e)
  BY DEF OnlineFirst
<1>2. /\ pending \in [Node -> Seq(Proposal)]
      /\ pending[k] # <<>>
      /\ pending' = [pending EXCEPT ![k] = Tail(@)]
  BY DEF TypeInv, TypeOK, AttendsTo, Applied, apply
<1>3. CASE n # k
  <2>1. pending'[n] = pending[n]
    BY <1>2, <1>3
  <2>2. onlines(n, i, e)
    BY <1>1, <2>1 DEF onlines
  <2>3. Unborn(topic[n], e) /\ \A j \in 1 .. (i - 1) : ~About(pending[n][j], e)
    BY <2>2 DEF OnlineFirst
  <2>4. Unborn(topic'[n], e)
    BY <1>3, <2>3, AttendedFields
  <2> QED
    BY <2>1, <2>3, <2>4
<1>4. CASE n = k
  <2>1. pending'[k] = Tail(pending[k]) /\ Head(pending[k]) = pending[k][1]
    BY <1>2
  <2>2. Len(pending'[k]) = Len(pending[k]) - 1 /\ Len(pending[k]) \in Nat
    BY <1>2, <2>1
  <2>3. \A j \in 1 .. Len(pending'[k]) : pending'[k][j] = pending[k][j + 1]
    BY <1>2, <2>1, <2>2
  <2>4. /\ i \in 1 .. Len(pending'[k])
        /\ pending'[k][i].type = "EpOnline" /\ pending'[k][i].ep = e
    BY <1>1, <1>4 DEF onlines
  <2>5. PICK l : l = i + 1
    OBVIOUS
  <2>6. l \in Nat /\ l \in 1 .. Len(pending[k]) /\ pending'[k][i] = pending[k][l]
    BY <2>2, <2>3, <2>4, <2>5
  <2>7. onlines(k, l, e)
    BY <2>4, <2>6 DEF onlines
  <2>8. Unborn(topic[k], e) /\ \A j \in 1 .. (l - 1) : ~About(pending[k][j], e)
    BY <2>6, <2>7 DEF OnlineFirst
  <2>9. 1 \in 1 .. (l - 1)
    BY <2>4, <2>5
  <2>10. ~About(Head(pending[k]), e)
    BY <2>1, <2>8, <2>9
  <2>11. Unborn(topic'[k], e)
    BY <2>8, <2>10, AttendedFields
  <2>12. ASSUME NEW j \in 1 .. (i - 1) PROVE ~About(pending'[k][j], e)
    <3>1. j \in 1 .. Len(pending'[k]) /\ j + 1 \in 1 .. (l - 1)
      BY <2>2, <2>4, <2>5
    <3>2. pending'[k][j] = pending[k][j + 1]
      BY <2>3, <3>1
    <3> QED
      BY <2>8, <3>1, <3>2
  <2> QED
    BY <1>4, <2>11, <2>12
<1> QED
  BY <1>3, <1>4

\* When something is proposed.
LEMMA OnlineFirstPropose ==
  ASSUME TypeInv, NewUnknown, OnlineFirst, UNCHANGED topic,
         NEW p \in Proposal, propose(p), Proposable(p)
  PROVE  OnlineFirst'
<1>1. SUFFICES ASSUME NEW n \in Node, NEW e \in Endpoint, NEW i \in Nat, onlines(n, i, e)'
               PROVE  /\ Unborn(topic'[n], e)
                      /\ \A j \in 1 .. (i - 1) : ~About(pending'[n][j], e)
  BY DEF OnlineFirst
<1>2. pending[n] \in Seq(Proposal) /\ pending'[n] = Append(pending[n], p)
  BY DEF TypeInv, TypeOK, propose
<1>3. Len(pending'[n]) = Len(pending[n]) + 1 /\ Len(pending[n]) \in Nat
  BY <1>2
<1>4. \A j \in 1 .. Len(pending[n]) : pending'[n][j] = pending[n][j]
  BY <1>2
<1>5. pending'[n][Len(pending[n]) + 1] = p
  BY <1>2
<1>6. /\ i \in 1 .. Len(pending'[n])
      /\ pending'[n][i].type = "EpOnline" /\ pending'[n][i].ep = e
  BY <1>1 DEF onlines
<1>7. SUFFICES Unborn(topic[n], e) /\ \A j \in 1 .. (i - 1) : ~About(pending[n][j], e)
  <2>1. \A j \in 1 .. (i - 1) : j \in 1 .. Len(pending[n])
    BY <1>3, <1>6
  <2> QED
    BY <1>4, <1>7, <2>1
<1>8. CASE i \in 1 .. Len(pending[n])
  <2>1. onlines(n, i, e)
    BY <1>4, <1>6, <1>8 DEF onlines
  <2> QED
    BY <2>1 DEF OnlineFirst
<1>9. CASE i = Len(pending[n]) + 1
  <2>1. p.type = "EpOnline" /\ p.ep = e
    BY <1>5, <1>6, <1>9
  <2>2. ep_state[e] = "new"
    BY <2>1 DEF Proposable
  <2>3. Unborn(topic[n], e) /\ \A x \in Entries(n) : ~About(x, e)
    BY <2>2 DEF NewUnknown
  <2>4. \A j \in 1 .. (i - 1) : pending[n][j] \in Entries(n)
    BY <1>3, <1>9 DEF Entries
  <2> QED
    BY <2>3, <2>4
<1> QED
  BY <1>3, <1>6, <1>8, <1>9

\* In every step.
LEMMA OnlineFirstStep ==
  ASSUME Orderly, DropsUnblocked, IInv, NewUnknown, OnlineFirst, AllAttended, Next
  PROVE  OnlineFirst'
<1>0. TypeInv
  BY DEF IInv
<1>1. CASE \E n \in Node : Apply(n)
  BY <1>0, <1>1, ApplyAttends, OnlineFirstApply
<1>2. CASE ~\E n \in Node : Apply(n)
  <2>1. Proposes
    BY <1>0, <1>2, ApplyOrProposes
  <2>2. CASE UNCHANGED <<topic, pending>>
    BY <2>2 DEF OnlineFirst, onlines
  <2> QED
    BY <1>0, <2>1, <2>2, OnlineFirstPropose DEF Proposes
<1> QED
  BY <1>1, <1>2

\* What no replica forgetting a message rests on, on top of IInv and UInv.
NInv == NewUnknown /\ OnlineFirst /\ AllAttended

\* It holds initially.
LEMMA NInit == Init => NInv
<1> SUFFICES ASSUME Init PROVE NInv
  OBVIOUS
<1>1. \A n \in Node : /\ queue(n) = new
                      /\ topic[n].routing = [k \in Node |-> {}]
                      /\ topic[n].interest = [e \in Endpoint |-> {}]
                      /\ Entries(n) = {}
  BY InitQueues
<1>2. \A n \in Node : topic[n].queue.held = {} /\ topic[n].queue.time_id = {}
  BY <1>1 DEF queue, new
<1>3. dispatching = {} /\ \A n \in Node : pending[n] = <<>>
  BY DEF Init
<1>4. \A e \in Endpoint : mail_box[e] = <<>>
  BY DEF Init
<1>5. \A e \in Endpoint, m \in MessageId : ~HandedOut(e, m)
  BY <1>3, <1>4 DEF in_mail_box, HandedOut
<1>6. \A n \in Node, e \in Endpoint : Unborn(topic[n], e)
  BY <1>1, <1>2 DEF Unborn
<1>7. NewUnknown
  BY <1>1, <1>5, <1>6 DEF NewUnknown
<1>8. OnlineFirst
  BY <1>3 DEF OnlineFirst, onlines
<1>9. AllAttended
  BY <1>2 DEF AllAttended, Attended, to_send, get_front
<1> QED
  BY <1>7, <1>8, <1>9 DEF NInv

\* Every step keeps it.
LEMMA NStep ==
  ASSUME Orderly, DropsUnblocked
  PROVE  NInv /\ IInv /\ UInv /\ [Next]_vars => NInv'
<1> SUFFICES ASSUME NInv, IInv, UInv, [Next]_vars PROVE NInv'
  OBVIOUS
<1>1. CASE Next
  BY <1>1, NewUnknownStep, OnlineFirstStep, AllAttendedStep DEF NInv
<1>2. CASE UNCHANGED vars
  <2>1. UNCHANGED <<pending, topic, dispatching, ep_state, mail_box>>
    BY <1>2 DEF vars
  <2>2. \A n \in Node : Entries(n)' = Entries(n)
    BY <2>1 DEF Entries
  <2>3. \A e, m : HandedOut(e, m)' <=> HandedOut(e, m)
    BY <2>1 DEF HandedOut, in_mail_box
  <2>4. NewUnknown'
    BY <2>1, <2>2, <2>3 DEF NInv, NewUnknown
  <2>5. OnlineFirst' /\ AllAttended'
    BY <2>1 DEF NInv, OnlineFirst, onlines, AllAttended
  <2> QED
    BY <2>4, <2>5 DEF NInv
<1> QED
  BY <1>1, <1>2

\* In every orderly behaviour, unless the queue is a blocking one that drops its
\* oldest message, no replica is left with something only an event of somebody else
\* would make it do: no message it should be sending has an unsent endpoint it hosts,
\* and none waits although it is resolved. The polls of MessageQueue happen in each
\* place where something became possible (set_state, ep_online, ep_offline,
\* update_ep_interest, hold_new_message and flushing itself).
THEOREM NothingIsForgotten ==
  ASSUME Orderly, DropsUnblocked
  PROVE  Spec => []NothingForgotten
<1>1. AllAttended => NothingForgotten
  <2>1. SUFFICES ASSUME AllAttended, NEW n \in Node, NEW m \in sendable(n)
                 PROVE  /\ \A e \in topic[n].routing[n] : ~is_unsent(queue(n).status[m][e])
                        /\ ~message_is_resolved(queue(n), m, {})
    BY DEF NothingForgotten
  <2>2. m \in to_send(topic[n])
    BY <2>1 DEF sendable, to_send, queue
  <2>3. Idle(topic[n], n, m)
    BY <2>1, <2>2 DEF AllAttended, Attended
  <2> QED
    BY <2>3 DEF Idle, is_unsent, queue
<1>2. NInv /\ IInv /\ UInv /\ [Next]_vars => NInv'
  BY NStep
<1>3. NInv => AllAttended
  BY DEF NInv
<1> QED
  BY <1>1, <1>2, <1>3, NInit, OInductive, PTL DEF Spec

-----------------------------------------------------------------------------
(* To its clients the topic is what Messaging promises. *)

\* A message that was not sent has no waiter, one that was sent has or had one, and
\* a waiter that waits knows nothing yet.
Asked ==
  \A m \in MessageId :
    /\ sends[m] = 0 => \A n \in Node : waiter[n][m] = NoWaiter
    /\ sends[m] # 0 => \E n \in Node : waiter[n][m].kind # "none"
    /\ \A n \in Node : waiter[n][m].kind = "waiting" => waiter[n][m] = Waiting

\* The steps by which clients and endpoints see something, and the others.
LEMMA VisibleSteps ==
  ASSUME Next
  PROVE  \/ \E n \in SendNodes, m \in MessageId : send_message(n, m)
         \/ \E d \in dispatching : dispatch_message(d)
         \/ \E n \in Node : \E r \in resolving[n] : resolve_waiter(n, r)
         \/ \E e \in Endpoint, interests \in InterestChoices : create_endpoint(e, interests)
         \/ \E e \in Endpoint : register_endpoint(e) \/ delete_endpoint(e) \/ drop_endpoint(e)
         \/ \E e \in Endpoint, m \in MessageId, kind \in AckChoices : single_ack(e, m, kind)
         \/ UNCHANGED <<waiter, sends, ep_state, mail_box, acked>>
<1>1. ASSUME NEW n \in Node, Apply(n)
      PROVE  UNCHANGED <<waiter, sends, ep_state, mail_box, acked>>
  <2>1. \E t : apply(n, t)
    BY <1>1 DEF Apply, apply_delegate_message, apply_set_state, apply_ep_online,
                apply_ep_offline, apply_ep_interest
  <2> QED
    BY <2>1 DEF apply, ep_vars
<1>2. CASE \E n \in Node, m \in MessageId : expire(n, m)
  BY <1>2 DEF expire, ep_vars
<1>3. CASE \E d \in dispatching : report_dispatch(d) \/ lose_report(d)
  BY <1>3 DEF report_dispatch, lose_report, ep_vars
<1>4. CASE \E e \in Endpoint, interests \in InterestChoices : update_interest(e, interests)
  BY <1>4 DEF update_interest
<1>5. CASE \E e \in Endpoint : propose_offline(e)
  BY <1>5 DEF propose_offline
<1> QED
  BY <1>1, <1>2, <1>3, <1>4, <1>5 DEF Next

\* The waiters after a send.
LEMMA SendWaiters ==
  ASSUME TypeInv, NEW n \in SendNodes, NEW m \in MessageId, send_message(n, m)
  PROVE  /\ n \in Node
         /\ UNCHANGED <<ep_state, mail_box, acked>>
         /\ waiter' = [waiter EXCEPT ![n][m] = Waiting]
         /\ \A k \in Node, x \in MessageId :
              waiter'[k][x] = IF k = n /\ x = m THEN Waiting ELSE waiter[k][x]
         /\ \A x \in MessageId : sends'[x] = IF x = m THEN sends[m] + 1 ELSE sends[x]
<1>1. n \in Node
  BY ClusterAssumption
<1>2. waiter \in [Node -> [MessageId -> Waiter]] /\ sends \in [MessageId -> 0 .. MaxSends]
  BY DEF TypeInv, TypeOK
<1>3. /\ waiter' = [waiter EXCEPT ![n][m] = Waiting]
      /\ sends' = [sends EXCEPT ![m] = @ + 1]
      /\ UNCHANGED <<ep_state, mail_box, acked>>
  BY DEF send_message, ep_vars
<1> QED
  BY <1>1, <1>2, <1>3

\* The waiters after a result was delivered.
LEMMA ResolveWaiters ==
  ASSUME TypeInv, NEW n \in Node, NEW r \in resolving[n], resolve_waiter(n, r)
  PROVE  /\ r.id \in MessageId /\ r.kind \in ResultKind /\ r.status \in StatusMap
         /\ UNCHANGED <<ep_state, mail_box, acked, sends>>
         /\ \A k \in Node, x \in MessageId :
              waiter'[k][x] = IF k = n /\ x = r.id /\ waiter[k][x].kind = "waiting"
                              THEN [kind |-> r.kind, status |-> r.status]
                              ELSE waiter[k][x]
<1>1. r \in WaitAckResult
  BY DEF TypeInv, TypeOK
<1>2. r.id \in MessageId /\ r.kind \in ResultKind /\ r.status \in StatusMap
  BY <1>1 DEF WaitAckResult
<1>3. waiter \in [Node -> [MessageId -> Waiter]]
  BY DEF TypeInv, TypeOK
<1>4. PICK w : w = [kind |-> r.kind, status |-> r.status]
  OBVIOUS
<1>5. waiter' = [waiter EXCEPT ![n][r.id] =
                   IF waiter[n][r.id].kind = "waiting" THEN w ELSE waiter[n][r.id]]
  BY <1>4 DEF resolve_waiter
<1>6. UNCHANGED <<ep_state, mail_box, acked, sends>>
  BY DEF resolve_waiter, ep_vars
<1>7. \A k \in Node, x \in MessageId :
        waiter'[k][x] = IF k = n /\ x = r.id /\ waiter[k][x].kind = "waiting"
                        THEN w ELSE waiter[k][x]
  BY <1>2, <1>3, <1>5
<1> QED
  BY <1>2, <1>4, <1>6, <1>7

\* Sends and waiters go together.
LEMMA AskedStep == TypeInv /\ Asked /\ [Next]_vars => Asked'
<1> SUFFICES ASSUME TypeInv, Asked, [Next]_vars PROVE Asked'
  OBVIOUS
<1>1. CASE \E n \in SendNodes, m \in MessageId : send_message(n, m)
  <2>1. PICK n \in SendNodes, m \in MessageId : send_message(n, m)
    BY <1>1
  <2>2. /\ n \in Node
        /\ \A k \in Node, x \in MessageId :
             waiter'[k][x] = IF k = n /\ x = m THEN Waiting ELSE waiter[k][x]
        /\ \A x \in MessageId : sends'[x] = IF x = m THEN sends[m] + 1 ELSE sends[x]
    BY <2>1, SendWaiters
  <2>3. sends[m] \in Nat
    BY ClusterAssumption DEF TypeInv, TypeOK
  <2>4. sends[m] + 1 # 0 /\ Waiting.kind = "waiting"
    BY <2>3 DEF Waiting
  <2> QED
    BY <2>2, <2>4 DEF Asked
<1>2. CASE \E n \in Node : \E r \in resolving[n] : resolve_waiter(n, r)
  <2>0. PICK n \in Node : \E r \in resolving[n] : resolve_waiter(n, r)
    BY <1>2
  <2>1. PICK r \in resolving[n] : resolve_waiter(n, r)
    BY <2>0
  <2>2. PICK w : w = [kind |-> r.kind, status |-> r.status]
    OBVIOUS
  <2>3. /\ r.kind \in ResultKind
        /\ sends' = sends
        /\ \A k \in Node, x \in MessageId :
             waiter'[k][x] = IF k = n /\ x = r.id /\ waiter[k][x].kind = "waiting"
                             THEN w ELSE waiter[k][x]
    BY <2>1, <2>2, ResolveWaiters
  <2>4. w.kind # "none" /\ w.kind # "waiting"
    BY <2>2, <2>3 DEF ResultKind
  <2>5. NoWaiter.kind = "none"
    BY DEF NoWaiter
  <2> QED
    BY <2>3, <2>4, <2>5 DEF Asked
<1>3. CASE UNCHANGED <<waiter, sends>>
  BY <1>3 DEF Asked
<1>4. CASE UNCHANGED vars
  BY <1>3, <1>4 DEF vars
<1>5. CASE \E d \in dispatching : dispatch_message(d)
  BY <1>3, <1>5 DEF dispatch_message
<1>6. CASE \E e \in Endpoint, interests \in InterestChoices : create_endpoint(e, interests)
  BY <1>3, <1>6 DEF create_endpoint
<1>7. CASE \E e \in Endpoint : register_endpoint(e) \/ delete_endpoint(e) \/ drop_endpoint(e)
  BY <1>3, <1>7 DEF register_endpoint, delete_endpoint, drop_endpoint
<1>8. CASE \E e \in Endpoint, m \in MessageId, kind \in AckChoices : single_ack(e, m, kind)
  BY <1>3, <1>8 DEF single_ack
<1> QED
  BY <1>1, <1>2, <1>3, <1>4, <1>5, <1>6, <1>7, <1>8, VisibleSteps

\* The waiters ws become vs by changing the one of n and m to w.
ChangesOne(ws, vs, n, m, w) ==
  \A k \in Node, x \in MessageId : vs[k][x] = IF k = n /\ x = m THEN w ELSE ws[k][x]

\* The answers change accordingly.
AnswersOne(ws, vs, n, m, a) == answers(vs) = [answers(ws) EXCEPT ![n][m] = a]

\* One answer changes with one waiter.
LEMMA AnswersAfter ==
  ASSUME NEW ws, NEW vs, NEW n \in Node, NEW m \in MessageId, NEW w, ChangesOne(ws, vs, n, m, w)
  PROVE  AnswersOne(ws, vs, n, m, answer(w))
<1>1. PICK f : f = answers(ws)
  OBVIOUS
<1>2. PICK g : g = answers(vs)
  OBVIOUS
<1>3. PICK a : a = answer(w)
  OBVIOUS
<1>4. ASSUME NEW k \in Node PROVE g[k] = IF k = n THEN [f[n] EXCEPT ![m] = a] ELSE f[k]
  <2>1. \A x \in MessageId : g[k][x] = IF k = n /\ x = m THEN a ELSE f[k][x]
    BY <1>1, <1>2, <1>3 DEF answers, ChangesOne
  <2>2. /\ g[k] = [x \in MessageId |-> g[k][x]]
        /\ f[k] = [x \in MessageId |-> f[k][x]] /\ f[n] = [x \in MessageId |-> f[n][x]]
    BY <1>1, <1>2 DEF answers
  <2> QED
    BY <2>1, <2>2
<1>5. g = [f EXCEPT ![n] = [f[n] EXCEPT ![m] = a]]
  <2>1. f = [k \in Node |-> f[k]] /\ g = [k \in Node |-> g[k]]
    BY <1>1, <1>2 DEF answers
  <2> QED
    BY <1>4, <2>1
<1> QED
  BY <1>1, <1>2, <1>3, <1>5 DEF AnswersOne

\* Nobody is told anything before a send, and nothing but that it waits after it.
LEMMA EmptyAnswers == answer(NoWaiter) = Promise!Unasked /\ answer(Waiting) = Promise!Pending
BY DEF answer, NoWaiter, Waiting, NoStatus, Promise!Unasked, Promise!Pending

\* send_message sends.
LEMMA SendPromised ==
  ASSUME Orderly, TypeInv, Asked, NEW n \in SendNodes, NEW m \in MessageId, send_message(n, m)
  PROVE  Promise!Send(n, m)
<1>1. /\ n \in Node
      /\ UNCHANGED <<ep_state, mail_box, acked>>
      /\ \A k \in Node, x \in MessageId :
           waiter'[k][x] = IF k = n /\ x = m THEN Waiting ELSE waiter[k][x]
  BY SendWaiters
<1>2. sends[m] = 0
  BY ClusterAssumption DEF send_message, Orderly, TypeInv, TypeOK
<1>3. \A k \in Node : answers(waiter)[k][m] = Promise!Unasked
  BY <1>2, EmptyAnswers DEF Asked, answers
<1>4. answers(waiter') = [answers(waiter) EXCEPT ![n][m] = Promise!Pending]
  <2>1. ChangesOne(waiter, waiter', n, m, Waiting)
    BY <1>1 DEF ChangesOne
  <2>2. AnswersOne(waiter, waiter', n, m, Promise!Pending)
    BY <1>1, <2>1, EmptyAnswers, AnswersAfter
  <2> QED
    BY <2>2 DEF AnswersOne
<1> QED
  BY <1>1, <1>3, <1>4 DEF Promise!Send

\* What the endpoints have and whether they reached the expectation is what the
\* properties of the topic say.
LEMMA SameWords ==
  ASSUME NEW e \in Endpoint, NEW m \in MessageId
  PROVE  /\ Promise!has(e, m) <=> in_mail_box(e, m)
         /\ acked[e][m] \subseteq AckKind /\ really_reached(e, m) => Promise!reached(e, m)
<1>1. Promise!has(e, m) <=> in_mail_box(e, m)
  BY DEF Promise!has, in_mail_box
<1>2. ASSUME acked[e][m] \subseteq AckKind, really_reached(e, m) PROVE Promise!reached(e, m)
  <2>1. in_mail_box(e, m)
    BY <1>2 DEF really_reached
  <2>2. CASE Header[m].ack_kind = "Sent"
    BY <1>1, <2>1, <2>2 DEF Promise!reached
  <2>3. CASE Header[m].ack_kind # "Sent"
    <3>1. PICK kind \in acked[e][m] : is_reached(kind, Header[m].ack_kind)
      BY <1>2, <2>3 DEF really_reached
    <3>2. kind \in {k \in AckKind : is_reached(k, Header[m].ack_kind)}
      BY <1>2, <3>1
    <3> QED
      BY <1>1, <2>1, <3>1, <3>2 DEF Promise!reached
  <2> QED
    BY <2>2, <2>3
<1> QED
  BY <1>1, <1>2

\* An endpoint that is out of reach failed.
LEMMA SameFailure ==
  ASSUME NEW e \in Endpoint, NEW m \in MessageId,
         "Failed" \in acked[e][m] \/ ep_state[e] \in {"deleted", "dropped"} \/ ~in_mail_box(e, m)
  PROVE  Promise!failed(e, m)
<1>1. ep_state[e] \in {"deleted", "dropped"} => places(ep_state)[e] = "gone"
  BY DEF places, whereabouts
<1> QED
  BY <1>1, SameWords DEF Promise!failed

\* The answer that a waiter gets is true.
LEMMA AnswerTrue ==
  ASSUME TypeInv, ResultsJustified, OkSound, ErrSound, NEW n \in Node, NEW m \in MessageId,
         waiter[n][m].kind \in ResultKind
  PROVE  Promise!truthful(m, answer(waiter[n][m]))
<1>1. PICK w : w = waiter[n][m]
  OBVIOUS
<1>2. PICK a : a = answer(w)
  OBVIOUS
<1>3. a.kind = w.kind /\ a.targets = {e \in Endpoint : w.status[e] # Absent}
  BY <1>2 DEF answer
<1>4. Justified(m, w)
  BY <1>1 DEF ResultsJustified
<1>5. CASE w.kind = "Ok"
  <2>1. ASSUME Header[m].target_kind # "Durable", NEW e \in a.targets PROVE Promise!reached(e, m)
    <3>1. really_reached(e, m) /\ e \in Endpoint
      BY <1>1, <1>3, <1>5, <2>1 DEF OkSound
    <3>2. acked[e][m] \subseteq AckKind
      BY <3>1 DEF TypeInv, TypeOK
    <3> QED
      BY <3>1, <3>2, SameWords
  <2> QED
    BY <1>1, <1>2, <1>3, <1>5, <2>1 DEF Promise!truthful
<1>6. CASE w.kind = "Err"
  <2>1. PICK e \in Endpoint :
          /\ w.status[e] # Absent
          /\ \/ "Failed" \in acked[e][m]
             \/ ep_state[e] \in {"deleted", "dropped"}
             \/ ~in_mail_box(e, m)
    BY <1>1, <1>6 DEF ErrSound
  <2>2. e \in a.targets /\ Promise!failed(e, m)
    BY <1>3, <2>1, SameFailure
  <2> QED
    BY <1>1, <1>2, <1>3, <1>6, <2>2 DEF Promise!truthful
<1>7. CASE w.kind \in {"Overflow", "NoAvailableTarget"}
  <2>1. allowed(m, w.kind) /\ a.targets = {}
    BY <1>3, <1>4, <1>7 DEF Justified
  <2> QED
    BY <1>1, <1>2, <1>3, <1>7, <2>1 DEF Promise!truthful, allowed
<1> QED
  BY <1>1, <1>5, <1>6, <1>7 DEF ResultKind

\* Every answer that was given is true.
AnswersTrue ==
  \A n \in Node, m \in MessageId :
    waiter[n][m].kind \in ResultKind => Promise!truthful(m, answer(waiter[n][m]))

\* The task of resolve_ack answers, or nobody waits any more.
LEMMA ResolvePromised ==
  ASSUME TypeInv, Asked, AnswersTrue', NEW n \in Node, NEW r \in resolving[n],
         resolve_waiter(n, r)
  PROVE  \/ Promise!Answer(n, r.id)
         \/ answers(waiter') = answers(waiter)
<1>1. /\ r.id \in MessageId /\ r.kind \in ResultKind /\ r.status \in StatusMap
      /\ UNCHANGED <<ep_state, mail_box, acked, sends>>
      /\ \A k \in Node, x \in MessageId :
           waiter'[k][x] = IF k = n /\ x = r.id /\ waiter[k][x].kind = "waiting"
                           THEN [kind |-> r.kind, status |-> r.status]
                           ELSE waiter[k][x]
  BY ResolveWaiters
<1>2. PICK m \in MessageId : m = r.id
  BY <1>1
<1>3. PICK w : w = [kind |-> r.kind, status |-> r.status]
  OBVIOUS
<1>4. CASE waiter[n][m].kind = "waiting"
  <2>1. ChangesOne(waiter, waiter', n, m, w)
    BY <1>1, <1>2, <1>3, <1>4 DEF ChangesOne
  <2>2. AnswersOne(waiter, waiter', n, m, answer(w))
    BY <2>1, AnswersAfter
  <2>3. answers(waiter)[n][m] = Promise!Pending
    BY <1>4, EmptyAnswers DEF Asked, answers
  <2>4. waiter'[n][m] = w
    BY <2>1 DEF ChangesOne
  <2>5. Promise!truthful(m, answer(w))
    <3>1. w.kind \in ResultKind
      BY <1>1, <1>3
    <3>2. (Promise!truthful(m, answer(waiter[n][m])))'
      BY <2>4, <3>1 DEF AnswersTrue
    <3> QED
      BY <1>1, <2>4, <3>2 DEF Promise!truthful, Promise!reached, Promise!failed, Promise!has
  <2>6. PICK eps : eps = {e \in Endpoint : r.status[e] # Absent}
    OBVIOUS
  <2>7. answer(w) = [kind |-> r.kind, targets |-> eps] /\ eps \in SUBSET Endpoint
    BY <1>3, <2>6 DEF answer
  <2>8. PICK a : a = answer(w)
    OBVIOUS
  <2>9. /\ a = [kind |-> r.kind, targets |-> eps]
        /\ Promise!truthful(m, a)
        /\ answers(waiter') = [answers(waiter) EXCEPT ![n][m] = a]
    BY <2>2, <2>5, <2>7, <2>8 DEF AnswersOne
  <2>10. r.kind \in {"Ok", "Err", "Overflow", "NoAvailableTarget"}
    BY <1>1 DEF ResultKind
  <2> QED
    BY <1>1, <1>2, <2>3, <2>7, <2>9, <2>10 DEF Promise!Answer
<1>5. CASE waiter[n][m].kind # "waiting"
  BY <1>1, <1>2, <1>5 DEF answers
<1> QED
  BY <1>4, <1>5

\* The task of dispatch_message delivers, or the endpoint is not there.
LEMMA DispatchPromised ==
  ASSUME TypeInv, Asked, HandedSpent, NotThereYet, NEW d \in dispatching, dispatch_message(d)
  PROVE  \/ \E e \in Endpoint, m \in MessageId : Promise!Deliver(e, m)
         \/ UNCHANGED mail_box
<1>1. PICK e \in Endpoint, m \in MessageId : e = d.ep /\ m = d.msg
  BY DEF TypeInv, TypeOK, Dispatch
<1>2. d.status = "Spawned" /\ UNCHANGED <<waiter, ep_state, acked>>
  BY DEF dispatch_message
<1>3. CASE ep_state[e] = "live"
  <2>1. mail_box' = [mail_box EXCEPT ![e] = Append(@, m)]
    BY <1>1, <1>3 DEF dispatch_message
  <2>2. ~Promise!has(e, m)
    BY <1>1, <1>2, SameWords DEF NotThereYet
  <2>3. sends[m] # 0
    BY <1>1 DEF HandedSpent, HandedOut, Spent
  <2>4. PICK n \in Node : waiter[n][m].kind # "none"
    BY <2>3 DEF Asked
  <2>5. answers(waiter)[n][m] # Promise!Unasked
    BY <2>4 DEF answers, answer, Promise!Unasked
  <2>6. places(ep_state)[e] = "here"
    BY <1>3 DEF places, whereabouts
  <2> QED
    BY <1>2, <2>1, <2>2, <2>5, <2>6 DEF Promise!Deliver
<1>4. CASE ep_state[e] # "live"
  <2>1. mail_box' = [mail_box EXCEPT ![e] = mail_box[e]]
    BY <1>1, <1>4 DEF dispatch_message
  <2> QED
    BY <2>1 DEF TypeInv, TypeOK
<1> QED
  BY <1>3, <1>4

\* An endpoint arrives when it is registered and leaves when it is deleted or
\* dropped; being proposed, or dropped after it was deleted, shows nothing.
LEMMA EndpointPromised ==
  ASSUME TypeInv, NEW e \in Endpoint, NEW s \in EpState,
         \/ ep_state[e] = "new" /\ s = "proposed"
         \/ ep_state[e] = "proposed" /\ s = "live"
         \/ ep_state[e] = "live" /\ s \in {"deleted", "dropped"}
         \/ ep_state[e] = "deleted" /\ s = "dropped",
         ep_state' = [ep_state EXCEPT ![e] = s],
         UNCHANGED <<waiter, mail_box, acked>>
  PROVE  Promise!Arrive(e) \/ Promise!Leave(e) \/ places(ep_state') = places(ep_state)
<1>1. ep_state \in [Endpoint -> EpState]
  BY DEF TypeInv, TypeOK
<1>2. PICK p, q : p = places(ep_state) /\ q = places(ep_state')
  OBVIOUS
<1>3. \A f \in Endpoint : q[f] = IF f = e THEN whereabouts(s) ELSE p[f]
  BY <1>1, <1>2 DEF places
<1>4. p = [f \in Endpoint |-> p[f]] /\ q = [f \in Endpoint |-> q[f]]
  BY <1>2 DEF places
<1>5. q = [p EXCEPT ![e] = whereabouts(s)]
  BY <1>3, <1>4
<1>6. p[e] = whereabouts(ep_state[e])
  BY <1>2 DEF places
<1>7. CASE ep_state[e] = "proposed" /\ s = "live"
  <2>1. whereabouts(ep_state[e]) = "coming" /\ whereabouts(s) = "here"
    BY <1>7 DEF whereabouts
  <2> QED
    BY <1>2, <1>5, <1>6, <2>1 DEF Promise!Arrive
<1>8. CASE ep_state[e] = "live" /\ s \in {"deleted", "dropped"}
  <2>1. whereabouts(ep_state[e]) = "here" /\ whereabouts(s) = "gone"
    BY <1>8 DEF whereabouts
  <2> QED
    BY <1>2, <1>5, <1>6, <2>1 DEF Promise!Leave
<1>9. CASE \/ ep_state[e] = "new" /\ s = "proposed"
           \/ ep_state[e] = "deleted" /\ s = "dropped"
  <2>1. whereabouts(ep_state[e]) = whereabouts(s)
    BY <1>9 DEF whereabouts
  <2>2. q = p
    BY <1>4, <1>5, <1>6, <2>1
  <2> QED
    BY <1>2, <2>2
<1> QED
  BY <1>7, <1>8, <1>9

\* The acks of owners are acknowledgements.
LEMMA AckPromised ==
  ASSUME NEW e \in Endpoint, NEW m \in MessageId, NEW kind, single_ack(e, m, kind)
  PROVE  Promise!Acknowledge(e, m, kind)
<1>1. Promise!has(e, m)
  BY DEF single_ack, Promise!has
<1>2. UNCHANGED <<waiter, ep_state, mail_box>>
  BY DEF single_ack
<1> QED
  BY <1>1, <1>2 DEF single_ack, Promise!Acknowledge

\* Every step of the cluster is one of Messaging, or shows nothing.
LEMMA StepPromised ==
  ASSUME Orderly
  PROVE  TypeInv /\ Asked /\ HandedSpent /\ NotThereYet /\ AnswersTrue' /\ [Next]_vars
           => [Promise!Next]_(Promise!promised)
<1> SUFFICES ASSUME TypeInv, Asked, HandedSpent, NotThereYet, AnswersTrue', [Next]_vars
             PROVE  Promise!Next \/ UNCHANGED Promise!promised
  OBVIOUS
<1>1. ASSUME answers(waiter') = answers(waiter), places(ep_state') = places(ep_state),
             UNCHANGED <<mail_box, acked>>
      PROVE  UNCHANGED Promise!promised
  BY <1>1 DEF Promise!promised
<1>2. CASE \E n \in SendNodes, m \in MessageId : send_message(n, m)
  <2>1. PICK n \in SendNodes, m \in MessageId : send_message(n, m)
    BY <1>2
  <2>2. Promise!Send(n, m) /\ n \in Node
    BY <2>1, SendPromised, ClusterAssumption
  <2> QED
    BY <2>2 DEF Promise!Next
<1>3. CASE \E d \in dispatching : dispatch_message(d)
  <2>1. PICK d \in dispatching : dispatch_message(d)
    BY <1>3
  <2>2. UNCHANGED <<waiter, ep_state, acked>>
    BY <2>1 DEF dispatch_message
  <2>3. CASE \E e \in Endpoint, m \in MessageId : Promise!Deliver(e, m)
    BY <2>3 DEF Promise!Next
  <2>4. CASE UNCHANGED mail_box
    BY <1>1, <2>2, <2>4
  <2> QED
    BY <2>1, <2>3, <2>4, DispatchPromised
<1>4. CASE \E n \in Node : \E r \in resolving[n] : resolve_waiter(n, r)
  <2>1. PICK n \in Node : \E r \in resolving[n] : resolve_waiter(n, r)
    BY <1>4
  <2>2. PICK r \in resolving[n] : resolve_waiter(n, r)
    BY <2>1
  <2>3. r.id \in MessageId /\ UNCHANGED <<ep_state, mail_box, acked>>
    BY <2>2, ResolveWaiters
  <2>4. CASE Promise!Answer(n, r.id)
    BY <2>3, <2>4 DEF Promise!Next
  <2>5. CASE answers(waiter') = answers(waiter)
    BY <1>1, <2>3, <2>5
  <2> QED
    BY <2>2, <2>4, <2>5, ResolvePromised
<1>5. ASSUME NEW e \in Endpoint, NEW s \in EpState,
             \/ ep_state[e] = "new" /\ s = "proposed"
             \/ ep_state[e] = "proposed" /\ s = "live"
             \/ ep_state[e] = "live" /\ s \in {"deleted", "dropped"}
             \/ ep_state[e] = "deleted" /\ s = "dropped",
             ep_state' = [ep_state EXCEPT ![e] = s],
             UNCHANGED <<waiter, mail_box, acked>>
      PROVE  Promise!Next \/ UNCHANGED Promise!promised
  <2>1. CASE Promise!Arrive(e) \/ Promise!Leave(e)
    BY <2>1 DEF Promise!Next
  <2>2. CASE places(ep_state') = places(ep_state)
    BY <1>1, <1>5, <2>2
  <2> QED
    BY <1>5, <2>1, <2>2, EndpointPromised
<1>6. CASE \E e \in Endpoint, interests \in InterestChoices : create_endpoint(e, interests)
  BY <1>5, <1>6 DEF create_endpoint, EpState
<1>7. CASE \E e \in Endpoint : register_endpoint(e)
  BY <1>5, <1>7 DEF register_endpoint, EpState
<1>8. CASE \E e \in Endpoint : delete_endpoint(e)
  BY <1>5, <1>8 DEF delete_endpoint, EpState
<1>9. CASE \E e \in Endpoint : drop_endpoint(e)
  BY <1>5, <1>9 DEF drop_endpoint, EpState
<1>10. CASE \E e \in Endpoint, m \in MessageId, kind \in AckChoices : single_ack(e, m, kind)
  <2>1. PICK e \in Endpoint, m \in MessageId, kind \in AckChoices : single_ack(e, m, kind)
    BY <1>10
  <2>2. Promise!Acknowledge(e, m, kind) /\ kind \in {"Received", "Processed", "Failed"}
    BY <2>1, AckPromised, ClusterAssumption
  <2> QED
    BY <2>2 DEF Promise!Next
<1>11. CASE UNCHANGED <<waiter, sends, ep_state, mail_box, acked>>
  BY <1>1, <1>11
<1>12. CASE UNCHANGED vars
  BY <1>1, <1>12 DEF vars
<1> QED
  BY <1>2, <1>3, <1>4, <1>6, <1>7, <1>8, <1>9, <1>10, <1>11, <1>12, VisibleSteps

\* In every orderly behaviour the replicated topic is, to its clients, what
\* Messaging promises: a message reaches an endpoint at most once, while it is in
\* local_endpoints and after somebody sent it, and the waiter of send_message gets
\* one answer, which is true of the endpoints it names when resolve_ack gives it.
THEOREM ClusterImplementsMessaging ==
  ASSUME Orderly
  PROVE  Spec => ImplementsMessaging
<1>1. Init => Promise!Init
  <2> SUFFICES ASSUME Init PROVE Promise!Init
    OBVIOUS
  <2>1. \A n \in Node, m \in MessageId : answer(waiter[n][m]) = Promise!Unasked
    BY EmptyAnswers DEF Init
  <2>2. answers(waiter) = [n \in Node |-> [m \in MessageId |-> Promise!Unasked]]
    BY <2>1 DEF answers
  <2>3. places(ep_state) = [e \in Endpoint |-> "coming"]
    BY DEF Init, places, whereabouts
  <2> QED
    BY <2>2, <2>3 DEF Init, Promise!Init
<1>2. Init => Asked
  BY DEF Init, Asked, NoWaiter
<1>3. TypeInv /\ Asked /\ [Next]_vars => Asked'
  BY AskedStep
<1>4. TypeInv /\ ResultsJustified /\ OkSound /\ ErrSound => AnswersTrue
  BY AnswerTrue DEF AnswersTrue
<1>5. UInv => TypeInv /\ ResultsJustified
  BY DEF UInv
<1>6. OInv => HandedSpent /\ NotThereYet
  BY DEF OInv
<1>7. Spec => [](IInv /\ UInv /\ OInv)
  BY OInductive
<1>8. Spec => []OkSound /\ []ErrSound
  BY OkIsSound, ErrIsSound, PTL
<1>9. TypeInv /\ Asked /\ HandedSpent /\ NotThereYet /\ AnswersTrue' /\ [Next]_vars
        => [Promise!Next]_(Promise!promised)
  BY StepPromised
<1> QED
  BY <1>1, <1>2, <1>3, <1>4, <1>5, <1>6, <1>7, <1>8, <1>9, PTL
     DEF Spec, ImplementsMessaging, Promise!Spec

=============================================================================
