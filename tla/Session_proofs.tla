---------------------------- MODULE Session_proofs ----------------------------
(***************************************************************************)
(* The output of a connection, for any number of messages: they are sent   *)
(* in order, by one output actor, which never comes to an empty queue.     *)
(***************************************************************************)
EXTENDS Session, TLAPS

\* The UI thread delivers within the bound.
DeliverBounded == ui = "deliver" => delivered < MaxMessages

IInv ==
  /\ TypeOK
  /\ SentInOrder
  /\ OneActor
  /\ WritesSomething
  /\ DeliverBounded

-----------------------------------------------------------------------------
\* What a push and a pop do to the order.
LEMMA PushInOrder ==
  ASSUME TypeOK, SentInOrder, Deliver, delivered < MaxMessages, UNCHANGED sent
  PROVE  /\ SentInOrder'
         /\ queue' \in Seq(1..MaxMessages) /\ queue' # <<>>
         /\ delivered' \in 0..MaxMessages
<1>1. delivered + 1 \in 1..MaxMessages
  BY SessionAssumption DEF TypeOK
<1>2. queue' \in Seq(1..MaxMessages) /\ Len(queue') = Len(queue) + 1
  BY <1>1 DEF TypeOK, Deliver
<1>3. \A i \in 1..Len(queue') : queue'[i] = Len(sent) + i
  <2>1. ASSUME NEW i \in 1..Len(queue') PROVE queue'[i] = Len(sent) + i
    <3>1. CASE i \in 1..Len(queue)
      BY <3>1 DEF TypeOK, SentInOrder, Deliver
    <3>2. CASE i = Len(queue) + 1
      BY <3>2 DEF TypeOK, SentInOrder, Deliver
    <3>3. QED
      BY <1>2, <2>1, <3>1, <3>2 DEF TypeOK
  <2>2. QED
    BY <2>1
<1>4. QED
  BY <1>1, <1>2, <1>3 DEF TypeOK, SentInOrder, Deliver

LEMMA PopInOrder ==
  ASSUME TypeOK, SentInOrder, queue # <<>>, UNCHANGED delivered,
         sent' = Append(sent, Head(queue)), queue' = Tail(queue)
  PROVE  /\ SentInOrder'
         /\ queue' \in Seq(1..MaxMessages) /\ sent' \in Seq(1..MaxMessages)
<1>1. Head(queue) \in 1..MaxMessages /\ Head(queue) = Len(sent) + 1
  <2>1. queue \in Seq(1..MaxMessages) /\ queue # <<>>
    BY DEF TypeOK
  <2>2. Head(queue) = queue[1] /\ 1 \in 1..Len(queue)
    BY <2>1
  <2>3. queue[1] = Len(sent) + 1
    BY <2>2 DEF SentInOrder
  <2>4. Len(sent) + 1 \in 1..MaxMessages
    <3>1. Len(sent) \in Nat /\ Len(queue) \in Nat /\ delivered \in 0..MaxMessages
      BY DEF TypeOK
    <3>2. delivered = Len(sent) + Len(queue)
      BY DEF SentInOrder
    <3>3. QED
      BY <2>2, <3>1, <3>2, SessionAssumption
  <2>5. QED
    BY <2>2, <2>3, <2>4
<1>2. sent' \in Seq(1..MaxMessages) /\ Len(sent') = Len(sent) + 1
  BY <1>1 DEF TypeOK
<1>3. queue' \in Seq(1..MaxMessages) /\ Len(queue') = Len(queue) - 1
  BY DEF TypeOK
<1>4. \A i \in 1..Len(sent') : sent'[i] = i
  BY <1>1, <1>2 DEF TypeOK, SentInOrder
<1>5. \A i \in 1..Len(queue') : queue'[i] = Len(sent') + i
  BY <1>2, <1>3 DEF TypeOK, SentInOrder
<1>6. QED
  BY <1>2, <1>3, <1>4, <1>5 DEF TypeOK, SentInOrder

LEMMA IInvInit == Init => IInv
BY SessionAssumption DEF Init, IInv, TypeOK, SentInOrder, OneActor, Incarnations,
   ActorPlaces, WritesSomething, DeliverBounded, stopped

LEMMA IInvStep == IInv /\ [Next]_vars => IInv'
<1> SUFFICES ASSUME IInv, [Next]_vars PROVE IInv'
  OBVIOUS
<1> USE DEF IInv, OneActor, Incarnations, ActorPlaces, WritesSomething, DeliverBounded,
            stopped, timer, history
<1>1. CASE UiWrite
  BY <1>1 DEF UiWrite, TypeOK, SentInOrder
<1>2. CASE UiDeliver
  <2>1. SentInOrder' /\ queue' \in Seq(1..MaxMessages) /\ queue' # <<>>
        /\ delivered' \in 0..MaxMessages
    BY <1>2, PushInOrder DEF UiDeliver
  <2>2. QED
    BY <1>2, <2>1 DEF UiDeliver, TypeOK
<1>3. CASE IoDeliver
  <2>1. SentInOrder' /\ queue' \in Seq(1..MaxMessages) /\ queue' # <<>>
        /\ delivered' \in 0..MaxMessages
    BY <1>3, PushInOrder DEF IoDeliver
  <2>2. QED
    BY <1>3, <2>1 DEF IoDeliver, TypeOK
<1>4. CASE UiSignal
  BY <1>4 DEF UiSignal, Expire, EndWaits, TypeOK, SentInOrder
<1>5. CASE IoSignal
  BY <1>5 DEF IoSignal, Expire, EndWaits, TypeOK, SentInOrder
<1>6. CASE Awake
  BY <1>6 DEF Awake, TypeOK, SentInOrder
<1>7. CASE Check
  BY <1>7 DEF Check, TypeOK, SentInOrder
<1>8. CASE Reset
  BY <1>8 DEF Reset, EndWaits, TypeOK, SentInOrder
<1>9. CASE Wait
  BY <1>9 DEF Wait, TypeOK, SentInOrder
<1>10. CASE StartWrite
  BY <1>10 DEF StartWrite, TypeOK, SentInOrder
<1>11. CASE Written
  <2>1. queue # <<>>
    BY <1>11 DEF Written
  <2>2. SentInOrder' /\ queue' \in Seq(1..MaxMessages) /\ sent' \in Seq(1..MaxMessages)
    BY <1>11, <2>1, PopInOrder DEF Written
  <2>3. QED
    BY <1>11, <2>2 DEF Written, TypeOK
<1>12. CASE WriteFails
  BY <1>12 DEF WriteFails, Close, EndWaits, TypeOK, SentInOrder
<1>13. CASE ReadFails
  BY <1>13 DEF ReadFails, Close, EndWaits, TypeOK, SentInOrder
<1>14. CASE Remove
  BY <1>14 DEF Remove, TypeOK, SentInOrder
<1>15. CASE RemoveCancel
  BY <1>15 DEF RemoveCancel, EndWaits, TypeOK, SentInOrder
<1>16. CASE UNCHANGED vars
  BY <1>16 DEF vars, TypeOK, SentInOrder
<1>17. QED
  BY <1>1, <1>2, <1>3, <1>4, <1>5, <1>6, <1>7, <1>8, <1>9, <1>10, <1>11, <1>12, <1>13,
     <1>14, <1>15, <1>16 DEF Next, Actor

LEMMA Invariance == Spec => []IInv
BY IInvInit, IInvStep, PTL DEF Spec

-----------------------------------------------------------------------------
\* Nothing is ever counted below zero, queued or sent that was not delivered.
THEOREM TypeCorrect == Spec => []TypeOK
BY Invariance, PTL DEF IInv

\* The peer gets what was delivered, in order, once, and the rest is queued.
THEOREM SendsInOrder == Spec => []SentInOrder
BY Invariance, PTL DEF IInv

\* An open session has one output actor, never two and never none.
THEOREM SingleActor == Spec => []OneActor
BY Invariance, PTL DEF IInv

\* front() and pop_front() are never called on an empty output queue of a
\* session that is open.
THEOREM NeverWritesNothing == Spec => []WritesSomething
BY Invariance, PTL DEF IInv
=============================================================================
