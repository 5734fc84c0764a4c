---------------------------- MODULE ClusterProofs ----------------------------
(***************************************************************************)
(* Theorems about Cluster: type correctness for every instance, and, when  *)
(* no message id is sent twice and clocks advance between two pushes, the  *)
(* consistency and the bound of every queue, the absence of panics and     *)
(* that no waiting sender is forgotten.                                    *)
(***************************************************************************)
EXTENDS Cluster, TopicProofs

-----------------------------------------------------------------------------
(* Type correctness. *)

\* Every replica's queue has finitely many entries.
TopicsFinite == \A n \in Node : FiniteTopic(topic[n])

\* An endpoint owes at most one EpOffline for each of delete_endpoint and drop.
OfflinesOwed ==
  \A e \in Endpoint :
    /\ ep_state[e] \in {"new", "proposed", "live"} => offlines[e] = 0
    /\ ep_state[e] = "deleted" => offlines[e] <= 1

\* The inductive form of TypeOK.
TypeInv == TypeOK /\ TopicsFinite /\ OfflinesOwed

\* The topic that apply leaves: t without the effects of the entry.
Cleared(t) == [t EXCEPT !.queue.dispatch = {}, !.queue.acks = {}]

\* Taking the effects out keeps the type and the indexes of the queue.
LEMMA ClearedType ==
  ASSUME NEW t, FiniteTopic(t)
  PROVE  /\ FiniteTopic(Cleared(t))
         /\ SameIndex(t.queue, Cleared(t).queue)
         /\ Cleared(t).panic = t.panic
<1> DEFINE q == [t.queue EXCEPT !.dispatch = {}, !.acks = {}]
<1>1. t \in Topic /\ FiniteQueue(t.queue)
  BY DEF FiniteTopic
<1>2. FiniteQueue(q) /\ SameIndex(t.queue, q)
  BY <1>1 DEF FiniteQueue, Queue, SameIndex
<1>3. Cleared(t) = [t EXCEPT !.queue = q]
  BY <1>1 DEF Cleared, FiniteQueue, Queue, Topic
<1> HIDE DEF q
<1>4. Cleared(t).queue = q /\ Cleared(t).panic = t.panic /\ FiniteTopic(Cleared(t))
  BY <1>1, <1>2, <1>3, WithQueueType
<1> QED
  BY <1>2, <1>4

\* A proposal enters every node's log (Node::propose).
LEMMA ProposeType ==
  ASSUME TypeInv, NEW p \in Proposal, propose(p)
  PROVE  pending' \in [Node -> Seq(Proposal)]
BY DEF TypeInv, TypeOK, propose

\* The head of a log is a proposal, the rest is a log.
LEMMA HeadType ==
  ASSUME TypeInv, NEW n \in Node, pending[n] # <<>>
  PROVE  Head(pending[n]) \in Proposal /\ Tail(pending[n]) \in Seq(Proposal)
BY DEF TypeInv, TypeOK

\* What applying the next entry with the resulting topic t does to each variable.
Applied(n, t) ==
  /\ pending[n] # <<>>
  /\ FiniteTopic(t)
  /\ apply(n, t)
  /\ clock' \in [Node -> Nat \ {0}]

\* Applying an entry keeps the types.
LEMMA AppliedType ==
  ASSUME TypeInv, NEW n \in Node, NEW t, Applied(n, t)
  PROVE  TypeInv'
<1> USE DEF TypeInv, TypeOK
<1>1. pending' \in [Node -> Seq(Proposal)]
  BY HeadType DEF Applied, apply
<1>2. FiniteTopic(Cleared(t)) /\ Cleared(t) \in Topic
  BY ClearedType DEF Applied, FiniteTopic
<1>3. topic' = [topic EXCEPT ![n] = Cleared(t)]
  BY DEF Applied, apply, Cleared
<1>4. topic' \in [Node -> Topic] /\ TopicsFinite'
  BY <1>2, <1>3 DEF TopicsFinite
<1>5. t.queue.dispatch \in SUBSET (MessageId \X Endpoint) /\ t.queue.acks \in SUBSET WaitAckResult
  BY DEF Applied, FiniteTopic, FiniteQueue, Queue
<1>6. \A d \in t.queue.dispatch :
        [node |-> n, msg |-> d[1], ep |-> d[2], status |-> "Spawned"] \in Dispatch
  BY <1>5 DEF Dispatch
<1>7. dispatching' \subseteq Dispatch
  BY <1>6 DEF Applied, apply
<1>8. resolving' \in [Node -> SUBSET WaitAckResult]
  BY <1>5 DEF Applied, apply
<1>9. clock' \in [Node -> Nat \ {0}]
  BY DEF Applied
<1>10. UNCHANGED <<expired, waiter, sends, ep_state, offlines, updates, mail_box, acked>>
  BY DEF Applied, apply, ep_vars
<1>11. OfflinesOwed'
  BY <1>10 DEF OfflinesOwed
<1> QED
  BY <1>1, <1>4, <1>7, <1>8, <1>9, <1>10, <1>11

\* Node n applies the DelegateMessage of m at the time its clock then shows.
DelegateApplied(n, t, m) ==
  /\ Head(pending[n]).type = "DelegateMessage"
  /\ m = Head(pending[n]).msg
  /\ \E step \in ClockStep :
       /\ clock' = [clock EXCEPT ![n] = @ + step]
       /\ t = hold_new_message(topic[n], n, m, clock[n] + step, expired[n])

\* Node n applies another entry.
OtherApplied(n, t) ==
  /\ Head(pending[n]).type # "DelegateMessage"
  /\ Steady(topic[n], t)
  /\ UNCHANGED clock

\* Applying an entry is one of the two.
LEMMA ApplyCases ==
  ASSUME TypeInv, NEW n \in Node, Apply(n)
  PROVE  \E t : /\ Applied(n, t)
                /\ \/ \E m \in MessageId : DelegateApplied(n, t, m)
                   \/ OtherApplied(n, t)
<1> DEFINE p == Head(pending[n])
<1>1. /\ FiniteTopic(topic[n])
      /\ clock \in [Node -> Nat \ {0}]
  BY DEF TypeInv, TypeOK, TopicsFinite
<1>2. pending[n] # <<>>
  BY DEF Apply, apply_delegate_message, apply_set_state, apply_ep_online, apply_ep_offline,
         apply_ep_interest, next_is
<1>3. p \in Proposal
  BY <1>2, HeadType
<1> HIDE DEF p
<1>4. CASE apply_delegate_message(n)
  <2>1. p.type = "DelegateMessage" /\ p.msg \in MessageId
    BY <1>3, <1>4 DEF apply_delegate_message, next_is, p, Proposal
  <2>2. PICK step \in ClockStep :
          /\ clock' = [clock EXCEPT ![n] = @ + step]
          /\ apply(n, hold_new_message(topic[n], n, p.msg, clock[n] + step, expired[n]))
    BY <1>4 DEF apply_delegate_message, p
  <2> DEFINE t == hold_new_message(topic[n], n, p.msg, clock[n] + step, expired[n])
  <2>3. step \in Nat /\ clock[n] + step \in Nat /\ clock' \in [Node -> Nat \ {0}]
    BY <1>1, <2>2, ClusterAssumption
  <2>4. FiniteTopic(t)
    BY <1>1, <2>1, <2>3, HoldNewMessageType
  <2>5. Applied(n, t)
    BY <1>2, <2>2, <2>3, <2>4 DEF Applied
  <2>6. DelegateApplied(n, t, p.msg)
    BY <2>1, <2>2 DEF DelegateApplied, p
  <2> QED
    BY <2>1, <2>5, <2>6
<1>5. CASE apply_set_state(n)
  <2> DEFINE t == set_state(topic[n], n, p.msg, p.ep, p.kind, expired[n])
  <2>1. /\ p.type = "SetState" /\ p.msg \in MessageId /\ p.ep \in Endpoint
        /\ p.kind \in MessageStatusKind
    BY <1>3, <1>5 DEF apply_set_state, next_is, p, Proposal
  <2>2. Steady(topic[n], t) /\ apply(n, t) /\ UNCHANGED clock
    BY <1>1, <1>5, <2>1, SetStateSteady DEF apply_set_state, p
  <2> QED
    BY <1>1, <1>2, <2>1, <2>2 DEF Applied, OtherApplied, Steady, p
<1>6. CASE apply_ep_online(n)
  <2> DEFINE t == ep_online(topic[n], n, p.ep, p.interests, p.host, expired[n])
  <2>1. /\ p.type = "EpOnline" /\ p.ep \in Endpoint /\ p.host \in Node
        /\ p.interests \in SUBSET Subject
    BY <1>3, <1>6 DEF apply_ep_online, next_is, p, Proposal
  <2>2. Steady(topic[n], t) /\ apply(n, t) /\ UNCHANGED clock
    BY <1>1, <1>6, <2>1, EpOnlineSteady DEF apply_ep_online, p
  <2> QED
    BY <1>1, <1>2, <2>1, <2>2 DEF Applied, OtherApplied, Steady, p
<1>7. CASE apply_ep_offline(n)
  <2> DEFINE t == ep_offline(topic[n], n, p.host, p.ep, expired[n])
  <2>1. p.type = "EpOffline" /\ p.ep \in Endpoint /\ p.host \in Node
    BY <1>3, <1>7 DEF apply_ep_offline, next_is, p, Proposal
  <2>2. Steady(topic[n], t) /\ apply(n, t) /\ UNCHANGED clock
    BY <1>1, <1>7, <2>1, EpOfflineSteady DEF apply_ep_offline, p
  <2> QED
    BY <1>1, <1>2, <2>1, <2>2 DEF Applied, OtherApplied, Steady, p
<1>8. CASE apply_ep_interest(n)
  <2> DEFINE t == update_ep_interest(topic[n], n, p.ep, p.interests, expired[n])
  <2>1. p.type = "EpInterest" /\ p.ep \in Endpoint /\ p.interests \in SUBSET Subject
    BY <1>3, <1>8 DEF apply_ep_interest, next_is, p, Proposal
  <2>2. Steady(topic[n], t) /\ apply(n, t) /\ UNCHANGED clock
    BY <1>1, <1>8, <2>1, EpInterestSteady DEF apply_ep_interest, p
  <2> QED
    BY <1>1, <1>2, <2>1, <2>2 DEF Applied, OtherApplied, Steady, p
<1> QED
  BY <1>4, <1>5, <1>6, <1>7, <1>8 DEF Apply

\* The initial state is well typed.
LEMMA TypeInit == Init => TypeInv
<1> SUFFICES ASSUME Init PROVE TypeInv
  OBVIOUS
<1>1. FiniteTopic(from_durable) /\ from_durable \in Topic
  BY FromDurableType DEF FiniteTopic
<1>2. topic \in [Node -> Topic] /\ TopicsFinite
  BY <1>1 DEF Init, TopicsFinite
<1>3. NoWaiter \in Waiter
  BY DEF NoWaiter, Waiter, NoStatus, StatusMap
<1>4. waiter \in [Node -> [MessageId -> Waiter]]
  BY <1>3 DEF Init
<1>5. sends \in [MessageId -> 0 .. MaxSends] /\ updates \in [Endpoint -> 0 .. MaxInterestUpdates]
  BY ClusterAssumption DEF Init
<1>6. pending \in [Node -> Seq(Proposal)] /\ mail_box \in [Endpoint -> Seq(MessageId)]
  BY DEF Init
<1> QED
  BY <1>2, <1>4, <1>5, <1>6 DEF Init, TypeInv, TypeOK, OfflinesOwed, EpState

\* Every step keeps the types.
LEMMA TypeStep == TypeInv /\ [Next]_vars => TypeInv'
<1> SUFFICES ASSUME TypeInv, [Next]_vars PROVE TypeInv'
  OBVIOUS
<1>t. TypeOK /\ TopicsFinite /\ OfflinesOwed
  BY DEF TypeInv
<1>1. ASSUME NEW n \in SendNodes, NEW m \in MessageId, send_message(n, m)
      PROVE  TypeInv'
  <2>1. [type |-> "DelegateMessage", msg |-> m] \in Proposal
    BY DEF Proposal
  <2>2. pending' \in [Node -> Seq(Proposal)]
    BY <1>1, <2>1, ProposeType DEF send_message
  <2>3. Waiting \in Waiter /\ n \in Node
    BY ClusterAssumption DEF Waiting, Waiter, NoStatus, StatusMap
  <2>4. waiter' \in [Node -> [MessageId -> Waiter]]
    BY <1>t, <1>1, <2>3 DEF send_message, TypeOK
  <2>5. sends' \in [MessageId -> 0 .. MaxSends]
    BY <1>t, <1>1, ClusterAssumption DEF send_message, TypeOK
  <2>6. UNCHANGED <<topic, clock, expired, dispatching, resolving, ep_state, offlines, updates,
                    mail_box, acked>>
    BY <1>1 DEF send_message, ep_vars
  <2> QED
    BY <1>t, <2>2, <2>4, <2>5, <2>6 DEF TypeInv, TypeOK, TopicsFinite, OfflinesOwed
<1>2. ASSUME NEW n \in Node, Apply(n) PROVE TypeInv'
  BY <1>2, ApplyCases, AppliedType
<1>3. ASSUME NEW n \in Node, NEW m \in MessageId, expire(n, m) PROVE TypeInv'
  <2>1. expired' \in [Node -> SUBSET MessageId]
    BY <1>t, <1>3 DEF expire, TypeOK
  <2>2. UNCHANGED <<pending, topic, clock, dispatching, resolving, waiter, sends, ep_state,
                    offlines, updates, mail_box, acked>>
    BY <1>3 DEF expire, log_vars, ep_vars
  <2> QED
    BY <1>t, <2>1, <2>2 DEF TypeInv, TypeOK, TopicsFinite, OfflinesOwed
<1>4. ASSUME NEW d \in dispatching, dispatch_message(d) PROVE TypeInv'
  <2>1. d \in Dispatch
    BY <1>t DEF TypeOK
  <2>2. \A s \in {"Sent", "Unreachable"} : [d EXCEPT !.status = s] \in Dispatch
    BY <2>1 DEF Dispatch
  <2>3. dispatching' \subseteq Dispatch
    BY <1>t, <1>4, <2>2 DEF dispatch_message, TypeOK
  <2>4. d.ep \in Endpoint /\ d.msg \in MessageId
    BY <2>1 DEF Dispatch
  <2>5. mail_box' \in [Endpoint -> Seq(MessageId)]
    BY <1>t, <1>4, <2>4 DEF dispatch_message, TypeOK
  <2>6. UNCHANGED <<pending, topic, clock, resolving, expired, waiter, sends, ep_state, offlines,
                    updates, acked>>
    BY <1>4 DEF dispatch_message, log_vars
  <2> QED
    BY <1>t, <2>3, <2>5, <2>6 DEF TypeInv, TypeOK, TopicsFinite, OfflinesOwed
<1>5. ASSUME NEW d \in dispatching, report_dispatch(d) PROVE TypeInv'
  <2>1. d \in Dispatch
    BY <1>t DEF TypeOK
  <2>2. [type |-> "SetState", msg |-> d.msg, ep |-> d.ep, kind |-> d.status] \in Proposal
    BY <1>5, <2>1 DEF report_dispatch, Dispatch, Proposal, MessageStatusKind
  <2>3. pending' \in [Node -> Seq(Proposal)]
    BY <1>5, <2>2, ProposeType DEF report_dispatch
  <2>4. dispatching' \subseteq Dispatch
    BY <1>t, <1>5 DEF report_dispatch, TypeOK
  <2>5. UNCHANGED <<topic, clock, expired, resolving, waiter, sends, ep_state, offlines, updates,
                    mail_box, acked>>
    BY <1>5 DEF report_dispatch, ep_vars
  <2> QED
    BY <1>t, <2>3, <2>4, <2>5 DEF TypeInv, TypeOK, TopicsFinite, OfflinesOwed
<1>6. ASSUME NEW d \in dispatching, lose_report(d) PROVE TypeInv'
  <2>1. dispatching' \subseteq Dispatch
    BY <1>t, <1>6 DEF lose_report, TypeOK
  <2>2. UNCHANGED <<pending, topic, clock, resolving, expired, waiter, sends, ep_state, offlines,
                    updates, mail_box, acked>>
    BY <1>6 DEF lose_report, log_vars, ep_vars
  <2> QED
    BY <1>t, <2>1, <2>2 DEF TypeInv, TypeOK, TopicsFinite, OfflinesOwed
<1>7. ASSUME NEW n \in Node, NEW r \in resolving[n], resolve_waiter(n, r) PROVE TypeInv'
  <2>1. r.id \in MessageId /\ r.kind \in ResultKind /\ r.status \in StatusMap
    BY <1>t DEF TypeOK, WaitAckResult
  <2>2. [kind |-> r.kind, status |-> r.status] \in Waiter
    BY <2>1 DEF Waiter
  <2>3. waiter' \in [Node -> [MessageId -> Waiter]]
    BY <1>t, <1>7, <2>1, <2>2 DEF resolve_waiter, TypeOK
  <2>4. resolving' \in [Node -> SUBSET WaitAckResult]
    BY <1>t, <1>7 DEF resolve_waiter, TypeOK
  <2>5. UNCHANGED <<pending, topic, clock, expired, dispatching, sends, ep_state, offlines,
                    updates, mail_box, acked>>
    BY <1>7 DEF resolve_waiter, ep_vars
  <2> QED
    BY <1>t, <2>3, <2>4, <2>5 DEF TypeInv, TypeOK, TopicsFinite, OfflinesOwed
<1>8. ASSUME NEW e \in Endpoint, NEW interests \in InterestChoices,
             create_endpoint(e, interests)
      PROVE  TypeInv'
  <2>1. [type |-> "EpOnline", ep |-> e, interests |-> interests, host |-> Host[e]] \in Proposal
    BY ClusterAssumption DEF Proposal
  <2>2. pending' \in [Node -> Seq(Proposal)]
    BY <1>8, <2>1, ProposeType DEF create_endpoint
  <2>3. ep_state' \in [Endpoint -> EpState] /\ OfflinesOwed'
    BY <1>t, <1>8 DEF create_endpoint, TypeOK, EpState, OfflinesOwed
  <2> QED
    BY <1>t, <1>8, <2>2, <2>3 DEF create_endpoint, TypeInv, TypeOK, TopicsFinite
<1>9. ASSUME NEW e \in Endpoint, NEW interests \in InterestChoices,
             update_interest(e, interests)
      PROVE  TypeInv'
  <2>1. [type |-> "EpInterest", ep |-> e, interests |-> interests] \in Proposal
    BY ClusterAssumption DEF Proposal
  <2>2. pending' \in [Node -> Seq(Proposal)]
    BY <1>9, <2>1, ProposeType DEF update_interest
  <2>3. updates' \in [Endpoint -> 0 .. MaxInterestUpdates]
    BY <1>t, <1>9, ClusterAssumption DEF update_interest, TypeOK
  <2> QED
    BY <1>t, <1>9, <2>2, <2>3 DEF update_interest, TypeInv, TypeOK, TopicsFinite, OfflinesOwed
<1>10. ASSUME NEW e \in Endpoint, register_endpoint(e) PROVE TypeInv'
  <2>1. ep_state' \in [Endpoint -> EpState] /\ OfflinesOwed'
    BY <1>t, <1>10 DEF register_endpoint, TypeOK, EpState, OfflinesOwed
  <2> QED
    BY <1>t, <1>10, <2>1 DEF register_endpoint, log_vars, TypeInv, TypeOK, TopicsFinite
<1>11. ASSUME NEW e \in Endpoint, delete_endpoint(e) \/ drop_endpoint(e) PROVE TypeInv'
  <2>1. /\ ep_state' \in [Endpoint -> EpState]
        /\ offlines' \in [Endpoint -> 0 .. 2]
        /\ OfflinesOwed'
    <3>1. \/ ep_state[e] = "live" /\ offlines[e] = 0
          \/ ep_state[e] = "deleted" /\ offlines[e] \in 0 .. 1 /\ drop_endpoint(e)
      BY <1>t, <1>11 DEF delete_endpoint, drop_endpoint, TypeOK, OfflinesOwed
    <3>2. offlines' = [offlines EXCEPT ![e] = @ + 1]
      BY <1>11 DEF delete_endpoint, drop_endpoint
    <3>3. offlines' \in [Endpoint -> 0 .. 2]
      BY <1>t, <3>1, <3>2 DEF TypeOK
    <3>4. CASE delete_endpoint(e)
      BY <1>t, <3>1, <3>2, <3>3, <3>4 DEF delete_endpoint, TypeOK, EpState, OfflinesOwed
    <3>5. CASE drop_endpoint(e)
      BY <1>t, <3>1, <3>2, <3>3, <3>5 DEF drop_endpoint, TypeOK, EpState, OfflinesOwed
    <3> QED
      BY <1>11, <3>4, <3>5
  <2>2. UNCHANGED <<pending, topic, clock, resolving, expired, dispatching, waiter, sends,
                    updates, mail_box, acked>>
    BY <1>11 DEF delete_endpoint, drop_endpoint, log_vars
  <2> QED
    BY <1>t, <2>1, <2>2 DEF TypeInv, TypeOK, TopicsFinite
<1>12. ASSUME NEW e \in Endpoint, propose_offline(e) PROVE TypeInv'
  <2>1. [type |-> "EpOffline", ep |-> e, host |-> Host[e]] \in Proposal
    BY ClusterAssumption DEF Proposal
  <2>2. pending' \in [Node -> Seq(Proposal)]
    BY <1>12, <2>1, ProposeType DEF propose_offline
  <2>3. offlines' \in [Endpoint -> 0 .. 2] /\ OfflinesOwed'
    BY <1>t, <1>12 DEF propose_offline, TypeOK, OfflinesOwed
  <2> QED
    BY <1>t, <1>12, <2>2, <2>3 DEF propose_offline, TypeInv, TypeOK, TopicsFinite
<1>13. ASSUME NEW e \in Endpoint, NEW m \in MessageId, NEW kind \in AckChoices,
              single_ack(e, m, kind)
       PROVE  TypeInv'
  <2>1. kind \in AckKind /\ kind \in MessageStatusKind
    BY ClusterAssumption DEF AckKind, MessageStatusKind
  <2>2. [type |-> "SetState", msg |-> m, ep |-> e, kind |-> kind] \in Proposal
    BY <2>1 DEF Proposal
  <2>3. pending' \in [Node -> Seq(Proposal)]
    BY <1>13, <2>2, ProposeType DEF single_ack
  <2>4. acked' \in [Endpoint -> [MessageId -> SUBSET AckKind]]
    BY <1>t, <1>13, <2>1 DEF single_ack, TypeOK
  <2> QED
    BY <1>t, <1>13, <2>3, <2>4 DEF single_ack, TypeInv, TypeOK, TopicsFinite, OfflinesOwed
<1>14. CASE UNCHANGED vars
  BY <1>t, <1>14 DEF vars, TypeInv, TypeOK, TopicsFinite, OfflinesOwed
<1> QED
  BY <1>1, <1>2, <1>3, <1>4, <1>5, <1>6, <1>7, <1>8, <1>9, <1>10, <1>11, <1>12, <1>13, <1>14
     DEF Next

\* Every variable keeps its type in every behaviour: the queues stay queues
\* whatever is applied to them, an endpoint never owes more than two EpOffline
\* proposals (delete_endpoint and drop), and the budgets of the model hold.
THEOREM TypeCorrect == Spec => []TypeOK
<1>1. TypeInv => TypeOK
  BY DEF TypeInv
<1> QED
  BY <1>1, TypeInit, TypeStep, PTL DEF Spec

-----------------------------------------------------------------------------
(* The queues and the waiting senders. *)

\* Clients send each message id once, a node's clock advances between two
\* pushes, and nobody asks for the target kind the code has not implemented.
Orderly ==
  /\ MaxSends <= 1
  /\ 0 \notin ClockStep
  /\ \A m \in MessageId : Header[m].target_kind # "Available"

\* The i-th entry node n has to apply is the DelegateMessage of m.
delegates(n, i, m) ==
  /\ i \in 1 .. Len(pending[n])
  /\ pending[n][i].type = "DelegateMessage"
  /\ pending[n][i].msg = m

\* A message still to be applied by a node was sent, is not held there and is in
\* the node's log once.
LogFresh ==
  \A n \in Node, m \in MessageId, i \in Nat :
    delegates(n, i, m) =>
      /\ m \notin queue(n).held
      /\ sends[m] # 0
      /\ \A j \in Nat : delegates(n, j, m) => i = j

\* A held message was sent.
HeldSent == \A n \in Node : \A m \in queue(n).held : sends[m] # 0

\* No entry of a queue is later than its node's clock.
ClockAhead == \A n \in Node : \A p \in queue(n).time_id : p[1] <= clock[n]

\* The size counters respect the overflow config.
Sized == \A n \in Node : WithinSize(topic[n])

\* The inductive invariant.
IInv ==
  /\ TypeInv
  /\ LogFresh
  /\ HeldSent
  /\ QueuesConsistent
  /\ ClockAhead
  /\ Sized
  /\ NoPanic
  /\ WaiterAccounted

\* in_log in terms of delegates.
LEMMA InLogDelegates ==
  ASSUME TypeInv, NEW n \in Node, NEW m \in MessageId
  PROVE  in_log(n, m) <=> \E i \in Nat : delegates(n, i, m)
BY DEF TypeInv, TypeOK, in_log, delegates

\* What a proposal adds to a log: its own entry at the end.
LEMMA ProposeDelegates ==
  ASSUME TypeInv, NEW p \in Proposal, propose(p), NEW n \in Node, NEW m, NEW i \in Nat
  PROVE  delegates(n, i, m)' <=>
           \/ delegates(n, i, m)
           \/ i = Len(pending[n]) + 1 /\ p.type = "DelegateMessage" /\ p.msg = m
<1>1. pending[n] \in Seq(Proposal) /\ pending'[n] = Append(pending[n], p)
  BY DEF TypeInv, TypeOK, propose
<1>2. Len(pending'[n]) = Len(pending[n]) + 1 /\ Len(pending[n]) \in Nat
  BY <1>1
<1>3. \A j \in 1 .. Len(pending[n]) : pending'[n][j] = pending[n][j]
  BY <1>1
<1>4. pending'[n][Len(pending[n]) + 1] = p
  BY <1>1
<1>5. CASE i \in 1 .. Len(pending[n])
  BY <1>2, <1>3, <1>5 DEF delegates
<1>6. CASE i = Len(pending[n]) + 1
  BY <1>2, <1>4, <1>6 DEF delegates
<1>7. CASE i \notin 1 .. Len(pending[n]) + 1
  BY <1>2, <1>7 DEF delegates
<1> QED
  BY <1>2, <1>5, <1>6, <1>7

\* What applying an entry leaves of the logs: the entries behind it.
LEMMA TailDelegates ==
  ASSUME TypeInv, NEW n \in Node, NEW t, Applied(n, t), NEW k \in Node, NEW m, NEW i \in Nat
  PROVE  delegates(k, i, m)' <=>
           IF k = n THEN i # 0 /\ delegates(n, i + 1, m) ELSE delegates(k, i, m)
<1>1. /\ pending \in [Node -> Seq(Proposal)]
      /\ pending[n] # <<>>
      /\ pending' = [pending EXCEPT ![n] = Tail(@)]
  BY DEF TypeInv, TypeOK, Applied, apply
<1>2. CASE k # n
  <2>1. pending'[k] = pending[k]
    BY <1>1, <1>2
  <2> QED
    BY <1>2, <2>1 DEF delegates
<1>3. CASE k = n
  <2>1. pending'[n] = Tail(pending[n])
    BY <1>1
  <2>2. Len(pending'[n]) = Len(pending[n]) - 1 /\ Len(pending[n]) \in Nat
    BY <1>1, <2>1
  <2>3. \A j \in 1 .. Len(pending'[n]) : pending'[n][j] = pending[n][j + 1]
    BY <1>1, <2>1, <2>2
  <2>4. i \in 1 .. Len(pending'[n]) <=> i # 0 /\ i + 1 \in 1 .. Len(pending[n])
    BY <2>2
  <2> QED
    BY <1>3, <2>3, <2>4 DEF delegates
<1> QED
  BY <1>2, <1>3

\* The state of the queues, of the results on the way and of the senders.
queue_vars == <<topic, clock, resolving, waiter, sends>>

\* A step that neither sends nor applies nor resolves keeps the invariant, also
\* when it proposes something other than a message.
LEMMA QuietStep ==
  ASSUME IInv, TypeInv', UNCHANGED queue_vars,
         \/ UNCHANGED pending
         \/ \E p \in Proposal : p.type # "DelegateMessage" /\ propose(p)
  PROVE  IInv'
<1> USE DEF IInv
<1>1. \A n \in Node : topic'[n] = topic[n] /\ clock'[n] = clock[n] /\ resolving'[n] = resolving[n]
  BY DEF queue_vars
<1>2. waiter' = waiter /\ sends' = sends
  BY DEF queue_vars
<1>3. \A n \in Node : queue(n)' = queue(n)
  BY <1>1 DEF queue
<1>4. \A n \in Node, m \in MessageId, i \in Nat : delegates(n, i, m)' <=> delegates(n, i, m)
  <2>1. CASE UNCHANGED pending
    BY <2>1 DEF delegates
  <2>2. CASE \E p \in Proposal : p.type # "DelegateMessage" /\ propose(p)
    BY <2>2, ProposeDelegates
  <2> QED
    BY <2>1, <2>2
<1>5. LogFresh'
  BY <1>2, <1>3, <1>4 DEF LogFresh
<1>6. HeldSent' /\ QueuesConsistent' /\ ClockAhead' /\ Sized' /\ NoPanic'
  BY <1>1, <1>2, <1>3 DEF HeldSent, QueuesConsistent, ClockAhead, Sized, NoPanic
<1>7. \A n \in Node, m \in MessageId : in_log(n, m)' <=> in_log(n, m)
  <2> SUFFICES ASSUME NEW n \in Node, NEW m \in MessageId
               PROVE  in_log(n, m)' <=> in_log(n, m)
    OBVIOUS
  <2>1. in_log(n, m) <=> \E i \in Nat : delegates(n, i, m)
    BY InLogDelegates
  <2>2. Len(pending'[n]) \in Nat
    BY DEF TypeInv, TypeOK
  <2>3. in_log(n, m)' <=> \E i \in Nat : delegates(n, i, m)'
    <3> HIDE DEF IInv
    <3> QED
      BY <2>2 DEF in_log, delegates
  <2> QED
    BY <1>4, <2>1, <2>3
<1>8. WaiterAccounted'
  BY <1>1, <1>2, <1>3, <1>7 DEF WaiterAccounted
<1> QED
  BY <1>5, <1>6, <1>8

\* Sending a message (Topic::send_message) keeps the invariant: its id is new.
LEMMA SendStep ==
  ASSUME Orderly, IInv, TypeInv', NEW n \in SendNodes, NEW m \in MessageId, send_message(n, m)
  PROVE  IInv'
<1> DEFINE p == [type |-> "DelegateMessage", msg |-> m]
<1>1. p \in Proposal /\ p.type = "DelegateMessage" /\ p.msg = m
  BY DEF Proposal
<1>2. propose(p)
  BY DEF send_message
<1> HIDE DEF p
<1>3. /\ TypeInv /\ LogFresh /\ HeldSent /\ QueuesConsistent /\ ClockAhead /\ Sized /\ NoPanic
      /\ WaiterAccounted
  BY DEF IInv
<1>4. /\ sends \in [MessageId -> Nat]
      /\ sends[m] = 0
      /\ sends' = [sends EXCEPT ![m] = 1]
  <2>1. sends \in [MessageId -> 0 .. MaxSends] /\ MaxSends \in Nat
    BY <1>3, ClusterAssumption DEF TypeInv, TypeOK
  <2>2. sends[m] \in 0 .. MaxSends /\ sends[m] < MaxSends /\ MaxSends <= 1
    BY <2>1 DEF Orderly, send_message
  <2>3. sends[m] = 0
    BY <2>1, <2>2
  <2>4. sends \in [MessageId -> Nat]
    BY <2>1
  <2>5. sends' = [sends EXCEPT ![m] = sends[m] + 1]
    BY DEF send_message
  <2> QED
    BY <2>3, <2>4, <2>5
<1>5. topic' = topic /\ clock' = clock /\ resolving' = resolving /\ n \in Node
  BY ClusterAssumption DEF send_message
<1>6. \A k \in Node : queue(k)' = queue(k)
  BY <1>5 DEF queue
<1>7. \A k \in Node, j \in Nat : ~delegates(k, j, m)
  BY <1>3, <1>4 DEF LogFresh
<1>8. \A k \in Node : m \notin queue(k).held
  BY <1>3, <1>4 DEF HeldSent
<1>9. \A k \in Node, x \in MessageId, j \in Nat :
        delegates(k, j, x)' <=> delegates(k, j, x) \/ (j = Len(pending[k]) + 1 /\ x = m)
  BY <1>1, <1>2, <1>3, ProposeDelegates
<1>10. \A x \in MessageId : sends'[x] = IF x = m THEN 1 ELSE sends[x]
  BY <1>4
<1>11. LogFresh'
  <2> SUFFICES ASSUME NEW k \in Node, NEW x \in MessageId, NEW j \in Nat, delegates(k, j, x)'
               PROVE  /\ x \notin queue(k).held
                      /\ sends'[x] # 0
                      /\ \A l \in Nat : delegates(k, l, x)' => j = l
    BY <1>6 DEF LogFresh
  <2>1. CASE x = m
    BY <1>7, <1>8, <1>9, <1>10, <2>1
  <2>2. CASE x # m
    BY <1>3, <1>9, <1>10, <2>2 DEF LogFresh
  <2> QED
    BY <2>1, <2>2
<1>12. HeldSent'
  BY <1>3, <1>6, <1>8, <1>10 DEF HeldSent, TypeInv, TypeOK, TopicsFinite, FiniteTopic,
                                  FiniteQueue, Queue, queue
<1>13. QueuesConsistent' /\ ClockAhead' /\ Sized' /\ NoPanic'
  BY <1>3, <1>5, <1>6 DEF QueuesConsistent, ClockAhead, Sized, NoPanic
<1>14. WaiterAccounted'
  <2> SUFFICES ASSUME NEW k \in Node, NEW x \in MessageId, waiter'[k][x].kind = "waiting"
               PROVE  in_log(k, x)' \/ x \in queue(k).held \/ \E r \in resolving[k] : r.id = x
    BY <1>5, <1>6 DEF WaiterAccounted
  <2>1. \A j \in Nat : delegates(k, j, x)' => in_log(k, x)'
    BY DEF delegates, in_log
  <2>2. CASE x = m
    <3>1. PICK l \in Nat : l = Len(pending[k]) + 1
      BY <1>3 DEF TypeInv, TypeOK
    <3>2. delegates(k, l, x)'
      BY <1>9, <2>2, <3>1
    <3> QED
      BY <2>1, <3>1, <3>2
  <2>3. CASE x # m
    <3>1. waiter[k][x].kind = "waiting"
      BY <1>3, <1>5, <2>3 DEF send_message, TypeInv, TypeOK
    <3>2. in_log(k, x) => in_log(k, x)'
      BY <1>3, <1>9, <2>1, InLogDelegates
    <3> QED
      BY <1>3, <3>1, <3>2 DEF WaiterAccounted
  <2> QED
    BY <2>2, <2>3
<1> QED
  BY <1>11, <1>12, <1>13, <1>14 DEF IInv

\* Delivering a result (ProposalContext::resolve_ack) keeps the invariant: the
\* sender that the result was for does not wait any more.
LEMMA ResolveStep ==
  ASSUME IInv, TypeInv', NEW n \in Node, NEW r \in resolving[n], resolve_waiter(n, r)
  PROVE  IInv'
<1>1. /\ TypeInv /\ LogFresh /\ HeldSent /\ QueuesConsistent /\ ClockAhead /\ Sized /\ NoPanic
      /\ WaiterAccounted
  BY DEF IInv
<1>2. topic' = topic /\ clock' = clock /\ pending' = pending /\ sends' = sends
  BY DEF resolve_waiter
<1>3. \A k \in Node : queue(k)' = queue(k)
  BY <1>2 DEF queue
<1>4. LogFresh' /\ HeldSent' /\ QueuesConsistent' /\ ClockAhead' /\ Sized' /\ NoPanic'
  BY <1>1, <1>2, <1>3
     DEF LogFresh, delegates, HeldSent, QueuesConsistent, ClockAhead, Sized, NoPanic
<1>5. WaiterAccounted'
  <2> SUFFICES ASSUME NEW k \in Node, NEW x \in MessageId, waiter'[k][x].kind = "waiting"
               PROVE  in_log(k, x) \/ x \in queue(k).held \/ \E a \in resolving'[k] : a.id = x
    BY <1>2, <1>3 DEF WaiterAccounted, in_log
  <2>1. r.id \in MessageId /\ r.kind \in ResultKind
    BY <1>1 DEF TypeInv, TypeOK, WaitAckResult
  <2>2. "waiting" \notin ResultKind
    BY DEF ResultKind
  <2>3. waiter[k][x].kind = "waiting" /\ (k # n \/ x # r.id)
    BY <1>1, <2>1, <2>2 DEF resolve_waiter, TypeInv, TypeOK
  <2>4. \A a \in resolving[k] : a.id = x => a \in resolving'[k]
    BY <1>1, <2>3 DEF resolve_waiter, TypeInv, TypeOK
  <2> QED
    BY <1>1, <2>3, <2>4 DEF WaiterAccounted
<1> QED
  BY <1>4, <1>5 DEF IInv

\* What applying an entry with the resulting topic t must give for the invariant.
Keeps(n, t) ==
  /\ QueueConsistent(t.queue)
  /\ WithinSize(t)
  /\ ~t.panic
  /\ \A p \in t.queue.time_id : p[1] <= clock'[n]
  /\ \A x \in t.queue.held : x \in queue(n).held \/ delegates(n, 1, x)
  /\ \A x \in MessageId :
       /\ x \in queue(n).held \/ delegates(n, 1, x)
       /\ x \notin t.queue.held
       => \E a \in t.queue.acks : a.id = x
  /\ \A k \in Node : k # n => clock'[k] = clock[k]

\* Entries other than messages give it.
LEMMA OtherKeeps ==
  ASSUME IInv, NEW n \in Node, NEW t, Applied(n, t), OtherApplied(n, t)
  PROVE  Keeps(n, t)
<1>1. Steady(topic[n], t) /\ clock' = clock /\ \A x : ~delegates(n, 1, x)
  <2>1. \A x : delegates(n, 1, x) => Head(pending[n]).type = "DelegateMessage"
    BY DEF delegates, IInv, TypeInv, TypeOK
  <2> QED
    BY <2>1 DEF OtherApplied
<1>2. QueueConsistent(topic[n].queue)
  BY DEF IInv, QueuesConsistent, queue
<1>3. QueueConsistent(t.queue) /\ Shrunk(topic[n].queue, t.queue) /\ t.panic = topic[n].panic
  BY <1>1, <1>2 DEF Steady
<1>4. t.queue.size \in Int /\ topic[n].queue.size \in Int
  BY DEF Applied, FiniteTopic, FiniteQueue, Queue, IInv, TypeInv, TopicsFinite
<1>5. WithinSize(t) /\ ~t.panic
  BY <1>3, <1>4, OverflowAssumption DEF IInv, Sized, WithinSize, NoPanic, Shrunk
<1> QED
  BY <1>1, <1>3, <1>5 DEF Keeps, Shrunk, IInv, ClockAhead, queue

\* Messages give it: a message that is applied is fresh for the queue.
LEMMA DelegateKeeps ==
  ASSUME Orderly, IInv, NEW n \in Node, NEW t, Applied(n, t), NEW m \in MessageId,
         DelegateApplied(n, t, m)
  PROVE  Keeps(n, t)
<1>1. delegates(n, 1, m) /\ \A x : delegates(n, 1, x) => x = m
  <2>1. pending[n] \in Seq(Proposal) /\ pending[n] # <<>>
    BY DEF IInv, TypeInv, TypeOK, Applied
  <2>2. Head(pending[n]) = pending[n][1] /\ 1 \in 1 .. Len(pending[n])
    BY <2>1
  <2> QED
    BY <2>2 DEF DelegateApplied, delegates
<1>2. PICK step \in ClockStep :
        /\ clock' = [clock EXCEPT ![n] = @ + step]
        /\ t = hold_new_message(topic[n], n, m, clock[n] + step, expired[n])
  BY DEF DelegateApplied
<1>3. /\ step \in Nat \ {0}
      /\ clock \in [Node -> Nat \ {0}]
      /\ clock[n] + step \in Nat \ {0}
      /\ clock'[n] = clock[n] + step
      /\ \A k \in Node : k # n => clock'[k] = clock[k]
  BY <1>2, ClusterAssumption DEF Orderly, IInv, TypeInv, TypeOK
<1>4. FiniteTopic(topic[n]) /\ WithinSize(topic[n]) /\ ~topic[n].panic
  BY DEF IInv, TypeInv, TopicsFinite, Sized, NoPanic
<1>5. FreshFor(topic[n], m, clock[n] + step)
  <2>1. QueueConsistent(topic[n].queue)
    BY DEF IInv, QueuesConsistent, queue
  <2>2. m \notin topic[n].queue.held
    BY <1>1 DEF IInv, LogFresh, queue
  <2>3. \A p \in topic[n].queue.time_id : p[1] \in Nat /\ p[1] <= clock[n]
    BY <1>4 DEF IInv, ClockAhead, queue, FiniteTopic, FiniteQueue, Queue
  <2> QED
    BY <1>3, <2>1, <2>2, <2>3 DEF FreshFor
<1>6. Header[m].target_kind # "Available"
  BY DEF Orderly
<1>7. Offered(topic[n], t, m, clock[n] + step) /\ WithinSize(t) /\ ~t.panic
  BY <1>2, <1>3, <1>4, <1>5, <1>6, HoldNewMessageOffered
<1> QED
  BY <1>1, <1>3, <1>7 DEF Keeps, Offered, queue

\* Applying an entry keeps the invariant.
LEMMA ApplyStep ==
  ASSUME IInv, TypeInv', NEW n \in Node, NEW t, Applied(n, t), Keeps(n, t)
  PROVE  IInv'
<1>1. /\ TypeInv /\ LogFresh /\ HeldSent /\ QueuesConsistent /\ ClockAhead /\ Sized /\ NoPanic
      /\ WaiterAccounted
  BY DEF IInv
<1>2. /\ topic' = [topic EXCEPT ![n] = Cleared(t)]
      /\ resolving' = [resolving EXCEPT ![n] = @ \cup t.queue.acks]
      /\ waiter' = waiter
      /\ sends' = sends
      /\ FiniteTopic(t)
  BY DEF Applied, apply, Cleared
<1>3. SameIndex(t.queue, Cleared(t).queue) /\ Cleared(t).panic = t.panic
  BY <1>2, ClearedType
<1>4. topic'[n] = Cleared(t) /\ \A k \in Node : k # n => topic'[k] = topic[k]
  BY <1>1, <1>2 DEF TypeInv, TypeOK
<1>5. /\ queue(n)'.held = t.queue.held
      /\ queue(n)'.time_id = t.queue.time_id
      /\ \A k \in Node : k # n => queue(k)' = queue(k)
  BY <1>3, <1>4 DEF queue, SameIndex
<1>6. t.queue.held \subseteq MessageId /\ queue(n).held \subseteq MessageId
  BY <1>1, <1>2 DEF FiniteTopic, FiniteQueue, Queue, TypeInv, TopicsFinite, queue
<1>7. \A k \in Node, x \in MessageId, i \in Nat :
        delegates(k, i, x)' <=>
          IF k = n THEN i # 0 /\ delegates(n, i + 1, x) ELSE delegates(k, i, x)
  BY <1>1, TailDelegates
<1>8. LogFresh'
  <2> SUFFICES ASSUME NEW k \in Node, NEW x \in MessageId, NEW i \in Nat, delegates(k, i, x)'
               PROVE  /\ x \notin queue(k)'.held
                      /\ sends[x] # 0
                      /\ \A j \in Nat : delegates(k, j, x)' => i = j
    BY <1>2 DEF LogFresh
  <2>1. CASE k # n
    BY <1>1, <1>5, <1>7, <2>1 DEF LogFresh
  <2>2. CASE k = n
    <3>1. i # 0 /\ delegates(n, i + 1, x) /\ i + 1 \in Nat
      BY <1>7, <2>2
    <3>2. x \notin queue(n).held /\ sends[x] # 0 /\ \A l \in Nat : delegates(n, l, x) => i + 1 = l
      BY <1>1, <3>1 DEF LogFresh
    <3>3. ~delegates(n, 1, x)
      BY <3>1, <3>2
    <3>4. x \notin t.queue.held
      BY <3>2, <3>3 DEF Keeps
    <3>5. ASSUME NEW j \in Nat, delegates(k, j, x)' PROVE i = j
      BY <1>7, <2>2, <3>2, <3>5
    <3> QED
      BY <1>5, <2>2, <3>2, <3>4, <3>5
  <2> QED
    BY <2>1, <2>2
<1>9. HeldSent'
  <2> SUFFICES ASSUME NEW k \in Node, NEW x \in queue(k)'.held PROVE sends[x] # 0
    BY <1>2 DEF HeldSent
  <2>1. CASE k # n
    BY <1>1, <1>5, <2>1 DEF HeldSent
  <2>2. CASE k = n
    BY <1>1, <1>5, <1>6, <2>2 DEF Keeps, HeldSent, LogFresh
  <2> QED
    BY <2>1, <2>2
<1>10. QueuesConsistent'
  <2>1. QueueConsistent(queue(n)')
    BY <1>3, <1>4, SameConsistent DEF Keeps, queue
  <2> QED
    BY <1>1, <1>5, <2>1 DEF QueuesConsistent
<1>11. ClockAhead'
  BY <1>1, <1>5 DEF Keeps, ClockAhead
<1>12. Sized' /\ NoPanic'
  BY <1>1, <1>3, <1>4 DEF Keeps, Sized, NoPanic, WithinSize, SameIndex
<1>13. WaiterAccounted'
  <2> SUFFICES ASSUME NEW k \in Node, NEW x \in MessageId, waiter[k][x].kind = "waiting"
               PROVE  in_log(k, x)' \/ x \in queue(k)'.held \/ \E r \in resolving'[k] : r.id = x
    BY <1>2 DEF WaiterAccounted
  <2>1. \A j \in Nat : delegates(k, j, x)' => in_log(k, x)'
    BY DEF delegates, in_log
  <2>2. resolving[k] \subseteq resolving'[k] /\ t.queue.acks \subseteq resolving'[n]
    BY <1>1, <1>2 DEF TypeInv, TypeOK
  <2>3. in_log(k, x) \/ x \in queue(k).held \/ \E r \in resolving[k] : r.id = x
    BY <1>1 DEF WaiterAccounted
  <2>4. CASE \E r \in resolving[k] : r.id = x
    BY <2>2, <2>4
  <2>5. CASE x \in queue(k).held
    BY <1>5, <2>2, <2>5 DEF Keeps
  <2>6. CASE in_log(k, x)
    <3>1. PICK i \in Nat : delegates(k, i, x)
      BY <1>1, <2>6, InLogDelegates
    <3>2. CASE k # n
      BY <1>7, <2>1, <3>1, <3>2
    <3>3. CASE k = n /\ i = 1
      BY <1>5, <2>2, <3>1, <3>3 DEF Keeps
    <3>4. CASE k = n /\ i # 1
      <4>1. i # 0
        BY <3>1 DEF delegates
      <4>2. i - 1 \in Nat /\ i - 1 # 0 /\ (i - 1) + 1 = i
        BY <3>4, <4>1
      <4>3. delegates(k, i - 1, x)'
        BY <1>7, <3>1, <3>4, <4>2
      <4> QED
        BY <2>1, <4>2, <4>3
    <3> QED
      BY <3>2, <3>3, <3>4
  <2> QED
    BY <2>3, <2>4, <2>5, <2>6
<1> QED
  BY <1>8, <1>9, <1>10, <1>11, <1>12, <1>13 DEF IInv

\* The invariant holds initially.
LEMMA IInvInit == Init => IInv
<1> SUFFICES ASSUME Init PROVE IInv
  OBVIOUS
<1>1. TypeInv
  BY TypeInit
<1>2. \A n \in Node : pending[n] = <<>> /\ topic[n] = from_durable /\ clock[n] = 1
  BY DEF Init
<1>3. /\ from_durable.queue = new
      /\ new.held = {} /\ new.time_id = {} /\ new.size = 0
      /\ \A m \in MessageId : new.id_time[m] = 0
      /\ ~from_durable.panic
  BY DEF from_durable, new
<1>4. QueueConsistent(new)
  BY <1>3, FS_EmptySet DEF QueueConsistent
<1>5. \A n \in Node : queue(n) = new
  BY <1>2, <1>3 DEF queue
<1>6. \A n \in Node, i \in Nat, m \in MessageId : ~delegates(n, i, m)
  BY <1>2 DEF delegates
<1>7. LogFresh /\ HeldSent /\ QueuesConsistent /\ ClockAhead /\ NoPanic
  BY <1>2, <1>3, <1>4, <1>5, <1>6 DEF LogFresh, HeldSent, QueuesConsistent, ClockAhead, NoPanic
<1>8. Sized
  BY <1>2, <1>3, OverflowAssumption DEF Sized, WithinSize
<1>9. WaiterAccounted
  BY DEF Init, NoWaiter, WaiterAccounted
<1> QED
  BY <1>1, <1>7, <1>8, <1>9 DEF IInv

\* Every step keeps the invariant.
LEMMA IInvStep ==
  ASSUME Orderly
  PROVE  IInv /\ [Next]_vars => IInv'
<1> SUFFICES ASSUME IInv, [Next]_vars PROVE IInv'
  OBVIOUS
<1>1. TypeInv'
  BY TypeStep DEF IInv
<1>2. TypeOK
  BY DEF IInv, TypeInv
<1>3. ASSUME NEW n \in SendNodes, NEW m \in MessageId, send_message(n, m) PROVE IInv'
  BY <1>1, <1>3, SendStep
<1>4. ASSUME NEW n \in Node, Apply(n) PROVE IInv'
  <2>1. PICK t : /\ Applied(n, t)
                 /\ \/ \E m \in MessageId : DelegateApplied(n, t, m)
                    \/ OtherApplied(n, t)
    BY <1>4, ApplyCases DEF IInv
  <2>2. Keeps(n, t)
    BY <2>1, DelegateKeeps, OtherKeeps
  <2> QED
    BY <1>1, <2>1, <2>2, ApplyStep
<1>5. ASSUME NEW n \in Node, NEW r \in resolving[n], resolve_waiter(n, r) PROVE IInv'
  BY <1>1, <1>5, ResolveStep
<1>6. ASSUME NEW n \in Node, NEW m \in MessageId, expire(n, m) PROVE IInv'
  BY <1>1, <1>6, QuietStep DEF expire, log_vars, queue_vars
<1>7. ASSUME NEW d \in dispatching, dispatch_message(d) \/ lose_report(d) PROVE IInv'
  BY <1>1, <1>7, QuietStep DEF dispatch_message, lose_report, log_vars, queue_vars
<1>8. ASSUME NEW d \in dispatching, report_dispatch(d) PROVE IInv'
  <2> DEFINE p == [type |-> "SetState", msg |-> d.msg, ep |-> d.ep, kind |-> d.status]
  <2>1. p \in Proposal
    BY <1>2, <1>8 DEF report_dispatch, TypeOK, Dispatch, Proposal, MessageStatusKind
  <2>2. propose(p) /\ UNCHANGED queue_vars
    BY <1>8 DEF report_dispatch, queue_vars
  <2>3. p.type # "DelegateMessage"
    OBVIOUS
  <2> HIDE DEF p
  <2> QED
    BY <1>1, <2>1, <2>2, <2>3, QuietStep
<1>9. ASSUME NEW e \in Endpoint, NEW interests \in InterestChoices, create_endpoint(e, interests)
      PROVE  IInv'
  <2> DEFINE p == [type |-> "EpOnline", ep |-> e, interests |-> interests, host |-> Host[e]]
  <2>1. p \in Proposal
    BY ClusterAssumption DEF Proposal
  <2>2. propose(p) /\ UNCHANGED queue_vars
    BY <1>9 DEF create_endpoint, queue_vars
  <2>3. p.type # "DelegateMessage"
    OBVIOUS
  <2> HIDE DEF p
  <2> QED
    BY <1>1, <2>1, <2>2, <2>3, QuietStep
<1>10. ASSUME NEW e \in Endpoint, NEW interests \in InterestChoices, update_interest(e, interests)
       PROVE  IInv'
  <2> DEFINE p == [type |-> "EpInterest", ep |-> e, interests |-> interests]
  <2>1. p \in Proposal
    BY ClusterAssumption DEF Proposal
  <2>2. propose(p) /\ UNCHANGED queue_vars
    BY <1>10 DEF update_interest, queue_vars
  <2>3. p.type # "DelegateMessage"
    OBVIOUS
  <2> HIDE DEF p
  <2> QED
    BY <1>1, <2>1, <2>2, <2>3, QuietStep
<1>11. ASSUME NEW e \in Endpoint, register_endpoint(e) \/ delete_endpoint(e) \/ drop_endpoint(e)
       PROVE  IInv'
  BY <1>1, <1>11, QuietStep
     DEF register_endpoint, delete_endpoint, drop_endpoint, log_vars, queue_vars
<1>12. ASSUME NEW e \in Endpoint, propose_offline(e) PROVE IInv'
  <2> DEFINE p == [type |-> "EpOffline", ep |-> e, host |-> Host[e]]
  <2>1. p \in Proposal
    BY ClusterAssumption DEF Proposal
  <2>2. propose(p) /\ UNCHANGED queue_vars
    BY <1>12 DEF propose_offline, queue_vars
  <2>3. p.type # "DelegateMessage"
    OBVIOUS
  <2> HIDE DEF p
  <2> QED
    BY <1>1, <2>1, <2>2, <2>3, QuietStep
<1>13. ASSUME NEW e \in Endpoint, NEW m \in MessageId, NEW kind \in AckChoices,
              single_ack(e, m, kind)
       PROVE  IInv'
  <2> DEFINE p == [type |-> "SetState", msg |-> m, ep |-> e, kind |-> kind]
  <2>1. p \in Proposal
    BY ClusterAssumption DEF Proposal, MessageStatusKind
  <2>2. propose(p) /\ UNCHANGED queue_vars
    BY <1>13 DEF single_ack, queue_vars
  <2>3. p.type # "DelegateMessage"
    OBVIOUS
  <2> HIDE DEF p
  <2> QED
    BY <1>1, <2>1, <2>2, <2>3, QuietStep
<1>14. CASE UNCHANGED vars
  BY <1>1, <1>14, QuietStep DEF vars, queue_vars
<1> QED
  BY <1>3, <1>4, <1>5, <1>6, <1>7, <1>8, <1>9, <1>10, <1>11, <1>12, <1>13, <1>14 DEF Next

\* The invariant holds in every orderly behaviour.
LEMMA Inductive ==
  ASSUME Orderly
  PROVE  Spec => []IInv
BY IInvInit, IInvStep, PTL DEF Spec

\* In every orderly behaviour the indexes and the size counter of every replica's
\* queue agree after every entry (MessageQueue::push, pop, remove and flush).
THEOREM QueuesStayConsistent ==
  ASSUME Orderly
  PROVE  Spec => []QueuesConsistent
<1>1. IInv => QueuesConsistent
  BY DEF IInv
<1> QED
  BY <1>1, Inductive, PTL

\* In every orderly behaviour no replica holds more messages than the overflow
\* config allows (hold_new_message makes room, or refuses, before it pushes).
THEOREM SizeStaysBounded ==
  ASSUME Orderly
  PROVE  Spec => []SizeBounded
<1>1. IInv => SizeBounded
  BY DEF IInv, SizeBounded, Sized, WithinSize, QueuesConsistent, QueueConsistent, queue
<1> QED
  BY <1>1, Inductive, PTL

\* In every orderly behaviour pop() finds a message whenever a full queue makes
\* room: no replica panics while it applies an entry.
THEOREM NeverPanics ==
  ASSUME Orderly
  PROVE  Spec => []NoPanic
<1>1. IInv => NoPanic
  BY DEF IInv
<1> QED
  BY <1>1, Inductive, PTL

\* In every orderly behaviour a sender that waits has its message in the log, in
\* the queue of its node, or its result on the way: every path that takes a
\* message out of the queue, and every early return, calls resolve_ack.
THEOREM NoWaiterForgotten ==
  ASSUME Orderly
  PROVE  Spec => []WaiterAccounted
<1>1. IInv => WaiterAccounted
  BY DEF IInv
<1> QED
  BY <1>1, Inductive, PTL
=============================================================================
