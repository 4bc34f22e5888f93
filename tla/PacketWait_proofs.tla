-------------------------- MODULE PacketWait_proofs --------------------------
(***************************************************************************)
(* No consumer sleeps over a packet, for any number of queues, any order   *)
(* of locking and any bound.  TypeOK gives the places of the threads;      *)
(* MutexInv that a pusher and a consumer that is making up its mind are    *)
(* never in the same queue; ArmedEmpty carries what the consumer saw at    *)
(* its test over to its sleep.                                             *)
(***************************************************************************)
EXTENDS PacketWait, TLAPS

\* What a consumer saw when it decided to wait is true until it sleeps.
ArmedEmpty == \A q \in Queues : At(q, "armed") => packets[q] = 0

\* After the join no thread of the playback is left.
Joined == stopper \in {"join", "clear"} => Exited

IInv ==
  /\ TypeOK
  /\ MutexInv
  /\ Joined
  /\ ArmedEmpty
  /\ NoMissedPacket

LEMMA SeekOrderType == \A i \in 1..Len(SeekOrder) : SeekOrder[i] \in Queues
BY PacketWaitAssumption

LEMMA HeldType == held \in 0..Len(SeekOrder) => HeldBySeek \subseteq Queues
BY SeekOrderType, PacketWaitAssumption DEF HeldBySeek

\* A wakeup only turns sleepers into threads that want the mutex.
LEMMA WakeType ==
  ASSUME TypeOK, NEW q \in Queues
  PROVE  /\ Wake(q) \in [Queues -> Places]
         /\ \A r \in Queues : Wake(q)[r] # consumer[r]
              => r = q /\ consumer[r] = "asleep" /\ Wake(q)[r] = "woken"
         /\ Wake(q)[q] # "asleep"
BY DEF TypeOK, Wake, At, Places

-----------------------------------------------------------------------------
LEMMA TypeInit == Init => TypeOK
<1> SUFFICES ASSUME Init PROVE TypeOK
  OBVIOUS
<1>1. Len(SeekOrder) \in Nat /\ Len(NotifyOrder) \in Nat
  BY PacketWaitAssumption
<1>2. QED
  BY <1>1, PacketWaitAssumption DEF Init, TypeOK, Places

LEMMA TypeConsume ==
  ASSUME TypeOK, NEW q \in Queues, Consume(q) \/ SpuriousWake(q)
  PROVE  TypeOK'
<1> USE DEF TypeOK, Places, stopped, Goto, queueVars, producerVars, stopperVars
<1>1. CASE Enter(q) \/ Exit(q) \/ Leave(q) \/ Arm(q)
  BY <1>1 DEF Enter, Exit, Leave, Arm
<1>2. CASE Sleep(q) \/ Relock(q) \/ SpuriousWake(q)
  BY <1>2 DEF Sleep, Relock, SpuriousWake
<1>3. CASE Decode(q)
  <2>1. PICK n \in 0..packets[q] : packets' = [packets EXCEPT ![q] = n]
    BY <1>3 DEF Decode
  <2>2. packets' \in [Queues -> 0..MaxPackets]
    BY <2>1, PacketWaitAssumption
  <2>3. QED
    BY <1>3, <2>2 DEF Decode
<1>4. QED
  BY <1>1, <1>2, <1>3 DEF Consume

LEMMA TypePush ==
  ASSUME TypeOK, NEW q \in Queues, PushBack(q)
  PROVE  /\ packets' \in [Queues -> 0..MaxPackets]
         /\ consumer' \in [Queues -> Places]
BY WakeType, PacketWaitAssumption DEF TypeOK, PushBack

LEMMA TypeProduce ==
  ASSUME TypeOK, Seek \/ ProducerExit \/ \E q \in Queues : Produce(q)
  PROVE  TypeOK'
<1> USE DEF TypeOK, queueVars, producerVars, stopperVars
<1>1. CASE SeekLock
  <2>1. held + 1 \in 1..Len(SeekOrder) /\ held' = held + 1
    BY <1>1, PacketWaitAssumption DEF SeekLock
  <2>2. SeekOrder[held + 1] \in Queues
    BY <2>1, SeekOrderType
  <2>3. QED
    BY <1>1, <2>1, <2>2 DEF SeekLock
<1>2. CASE SeekUnlock
  <2>1. 0 \in 0..Len(SeekOrder)
    BY PacketWaitAssumption
  <2>2. QED
    BY <1>2, <2>1 DEF SeekUnlock
<1>3. ASSUME NEW q \in Queues, SeekPush(q) PROVE TypeOK'
  BY <1>3, TypePush DEF SeekPush
<1>4. ASSUME NEW q \in Queues, Produce(q) PROVE TypeOK'
  BY <1>4, TypePush DEF Produce
<1>5. CASE ProducerExit
  BY <1>5 DEF ProducerExit
<1>6. QED
  BY <1>1, <1>2, <1>3, <1>4, <1>5 DEF Seek

LEMMA TypeStop == TypeOK /\ Stop => TypeOK'
<1> SUFFICES ASSUME TypeOK, Stop PROVE TypeOK'
  OBVIOUS
<1> USE DEF TypeOK, Places, stopped, queueVars, producerVars, stopperVars
<1>1. CASE StopBegin
  BY <1>1 DEF StopBegin
<1>2. CASE StopNotify
  <2>1. notified' \in 0..Len(NotifyOrder) /\ notified + 1 \in 1..Len(NotifyOrder)
    BY <1>2, PacketWaitAssumption DEF StopNotify
  <2>2. NotifyOrder[notified + 1] \in Queues
    BY <2>1, PacketWaitAssumption
  <2>3. consumer' \in [Queues -> Places]
    BY <1>2, <2>2, WakeType DEF StopNotify
  <2>4. QED
    BY <1>2, <2>1, <2>3 DEF StopNotify
<1>3. CASE StopJoin
  <2>1. 0 \in 0..Len(NotifyOrder)
    BY PacketWaitAssumption
  <2>2. QED
    BY <1>3, <2>1 DEF StopJoin
<1>4. CASE StopClear
  BY <1>4, PacketWaitAssumption DEF StopClear
<1>5. CASE Play
  BY <1>5 DEF Play
<1>6. QED
  BY <1>1, <1>2, <1>3, <1>4, <1>5 DEF Stop

LEMMA TypeStep == TypeOK /\ [Next]_vars => TypeOK'
<1> SUFFICES ASSUME TypeOK, [Next]_vars PROVE TypeOK'
  OBVIOUS
<1>1. CASE UNCHANGED vars
  BY <1>1 DEF vars, TypeOK
<1>2. QED
  BY <1>1, TypeConsume, TypeProduce, TypeStop DEF Next

\* Queues stay within their bound and every thread is at a known place.
THEOREM TypeCorrect == Spec => []TypeOK
BY TypeInit, TypeStep, PTL DEF Spec

-----------------------------------------------------------------------------
LEMMA IInvInit == Init => IInv
<1> SUFFICES ASSUME Init PROVE IInv
  OBVIOUS
<1>1. TypeOK
  BY TypeInit
<1>2. HeldBySeek = {}
  BY DEF Init, HeldBySeek
<1>3. MutexInv
  BY <1>2 DEF Init, MutexInv
<1>4. ArmedEmpty /\ NoMissedPacket /\ Joined
  BY DEF Init, ArmedEmpty, NoMissedPacket, At, Joined
<1>5. QED
  BY <1>1, <1>3, <1>4 DEF IInv

\* A step of a consumer leaves the mutexes of the others alone.
LEMMA MutexConsume ==
  ASSUME IInv, NEW q \in Queues, Consume(q) \/ SpuriousWake(q)
  PROVE  MutexInv'
<1>1. HeldBySeek' = HeldBySeek /\ producer' = producer /\ held' = held
  BY DEF HeldBySeek, Consume, Enter, Exit, Leave, Arm, Sleep, Relock, Decode, SpuriousWake,
         producerVars
<1>2. consumer \in [Queues -> Places] /\ HeldBySeek \subseteq Queues /\ MutexInv
  BY HeldType DEF IInv, TypeOK
<1> USE DEF MutexInv, At, Goto
<1>3. CASE Enter(q) \/ Relock(q)
  <2>1. /\ q \notin locked
        /\ locked' = locked \cup {q}
        /\ consumer' = [consumer EXCEPT ![q] = "check"]
    BY <1>3 DEF Enter, Relock
  <2>2. QED
    BY <1>1, <1>2, <2>1
<1>4. CASE Leave(q) \/ Sleep(q)
  <2>1. PICK place \in {"decode", "asleep"} : consumer' = [consumer EXCEPT ![q] = place]
    BY <1>4 DEF Leave, Sleep
  <2>2. consumer[q] \in {"check", "armed"} /\ locked' = locked \ {q}
    BY <1>4 DEF Leave, Sleep
  <2>3. QED
    BY <1>1, <1>2, <2>1, <2>2
<1>5. CASE Arm(q)
  BY <1>1, <1>2, <1>5 DEF Arm, queueVars
<1>6. CASE Exit(q) \/ SpuriousWake(q) \/ Decode(q)
  <2>1. PICK place \in {"exited", "woken", "top"} : consumer' = [consumer EXCEPT ![q] = place]
    BY <1>6 DEF Exit, SpuriousWake, Decode
  <2>2. consumer[q] \notin {"check", "armed"} /\ locked' = locked
    BY <1>6 DEF Exit, SpuriousWake, Decode, queueVars
  <2>3. QED
    BY <1>1, <1>2, <2>1, <2>2
<1>7. QED
  BY <1>3, <1>4, <1>5, <1>6 DEF Consume

\* What the consumer saw stays true: only it removes packets, only under the
\* mutex are any added.
LEMMA EmptyConsume ==
  ASSUME IInv, NEW q \in Queues, Consume(q) \/ SpuriousWake(q)
  PROVE  ArmedEmpty' /\ NoMissedPacket'
<1> USE DEF IInv, TypeOK, Places, ArmedEmpty, NoMissedPacket, At, Goto, queueVars
<1>1. CASE Enter(q) \/ Relock(q) \/ Leave(q) \/ Exit(q) \/ SpuriousWake(q)
  BY <1>1 DEF Enter, Relock, Leave, Exit, SpuriousWake
<1>2. CASE Arm(q)
  BY <1>2 DEF Arm
<1>3. CASE Sleep(q)
  BY <1>3 DEF Sleep
<1>4. CASE Decode(q)
  BY <1>4 DEF Decode
<1>5. QED
  BY <1>1, <1>2, <1>3, <1>4 DEF Consume

\* A push: nobody is at its test in that queue, and who slept there is awake.
LEMMA PushStep ==
  ASSUME IInv, NEW q \in Queues, PushBack(q), consumer[q] \notin {"check", "armed"},
         UNCHANGED <<locked, producer, held>>
  PROVE  MutexInv' /\ ArmedEmpty' /\ NoMissedPacket'
<1> USE DEF IInv, MutexInv, ArmedEmpty, NoMissedPacket, At
<1>1. HeldBySeek' = HeldBySeek
  BY DEF HeldBySeek
<1>2. /\ consumer' = Wake(q)
      /\ \A r \in Queues : r # q => packets'[r] = packets[r]
  BY DEF PushBack, TypeOK
<1>3. \A r \in Queues : consumer'[r] \in {"check", "armed"} <=> consumer[r] \in {"check", "armed"}
  BY <1>2, WakeType
<1>4. HeldBySeek \subseteq Queues
  BY HeldType DEF TypeOK
<1>5. MutexInv'
  BY <1>1, <1>3, <1>4
<1>6. ArmedEmpty' /\ NoMissedPacket'
  BY <1>2, WakeType
<1>7. QED
  BY <1>5, <1>6

LEMMA InvProduce ==
  ASSUME IInv, Seek \/ ProducerExit \/ \E q \in Queues : Produce(q)
  PROVE  MutexInv' /\ ArmedEmpty' /\ NoMissedPacket'
<1> USE DEF IInv
<1>1. CASE SeekLock
  <2>1. held + 1 \in 1..Len(SeekOrder) /\ held' = held + 1 /\ held \in Nat
    BY <1>1, PacketWaitAssumption DEF SeekLock, TypeOK
  <2>2. HeldBySeek' = HeldBySeek \cup {SeekOrder[held + 1]}
    BY <2>1 DEF HeldBySeek
  <2>3. SeekOrder[held + 1] \in Queues
    BY <2>1, SeekOrderType
  <2>4. HeldBySeek \subseteq Queues
    BY HeldType DEF TypeOK
  <2>5. consumer' = consumer /\ packets' = packets /\ producer' = "seek"
        /\ SeekOrder[held + 1] \notin locked /\ locked' = locked \cup {SeekOrder[held + 1]}
    BY <1>1 DEF SeekLock
  <2>6. MutexInv'
    BY <2>2, <2>3, <2>4, <2>5 DEF MutexInv
  <2>7. QED
    BY <2>5, <2>6 DEF ArmedEmpty, NoMissedPacket, At
<1>2. CASE SeekUnlock
  <2>1. HeldBySeek' = {}
    BY <1>2 DEF SeekUnlock, HeldBySeek
  <2>2. QED
    BY <1>2, <2>1 DEF SeekUnlock, MutexInv, ArmedEmpty, NoMissedPacket, At
<1>3. ASSUME NEW q \in Queues, SeekPush(q)
      PROVE MutexInv' /\ ArmedEmpty' /\ NoMissedPacket'
  <2>1. consumer[q] \notin {"check", "armed"}
    BY <1>3 DEF SeekPush, MutexInv
  <2>2. QED
    BY <1>3, <2>1, PushStep DEF SeekPush, producerVars
<1>4. ASSUME NEW q \in Queues, Produce(q)
      PROVE MutexInv' /\ ArmedEmpty' /\ NoMissedPacket'
  <2>1. consumer[q] \notin {"check", "armed"}
    BY <1>4 DEF Produce, MutexInv
  <2>2. QED
    BY <1>4, <2>1, PushStep DEF Produce, producerVars
<1>5. CASE ProducerExit
  BY <1>5 DEF ProducerExit, queueVars, MutexInv, HeldBySeek, ArmedEmpty, NoMissedPacket, At
<1>6. QED
  BY <1>1, <1>2, <1>3, <1>4, <1>5 DEF Seek

LEMMA InvStop ==
  ASSUME IInv, Stop
  PROVE  MutexInv' /\ ArmedEmpty' /\ NoMissedPacket'
<1> USE DEF IInv
<1>1. HeldBySeek' = HeldBySeek /\ locked' = locked /\ held' = held
  BY DEF HeldBySeek, Stop, StopBegin, StopNotify, StopJoin, StopClear, Play, queueVars, producerVars
<1>2. CASE StopBegin \/ StopJoin
  BY <1>1, <1>2 DEF StopBegin, StopJoin, MutexInv, ArmedEmpty, NoMissedPacket, At, queueVars, producerVars
<1>3. CASE StopNotify
  <2>1. NotifyOrder[notified + 1] \in Queues
    <3>1. notified + 1 \in 1..Len(NotifyOrder)
      BY <1>3, PacketWaitAssumption DEF StopNotify, TypeOK
    <3>2. QED
      BY <3>1, PacketWaitAssumption
  <2>2. consumer' = Wake(NotifyOrder[notified + 1]) /\ packets' = packets /\ producer' = producer
    BY <1>3 DEF StopNotify, queueVars, producerVars
  <2>3. HeldBySeek \subseteq Queues
    BY HeldType DEF TypeOK
  <2>4. \A r \in Queues : consumer'[r] \in {"check", "armed"} <=> consumer[r] \in {"check", "armed"}
    BY <2>1, <2>2, WakeType
  <2>5. MutexInv'
    BY <1>1, <2>2, <2>3, <2>4 DEF MutexInv
  <2>6. QED
    BY <2>1, <2>2, <2>5, WakeType DEF ArmedEmpty, NoMissedPacket, At
<1>4. CASE StopClear
  BY <1>1, <1>4 DEF StopClear, MutexInv, ArmedEmpty, NoMissedPacket, At, producerVars
<1>5. CASE Play
  <2>1. \A q \in Queues : consumer'[q] = "top"
    BY <1>5 DEF Play
  <2>2. \A q \in Queues : consumer[q] \notin {"check", "armed"}
    BY <1>5 DEF Play, Joined, Exited, At
  <2>3. HeldBySeek = {} /\ held = 0
    BY <1>5 DEF Play, Joined, Exited, MutexInv, HeldBySeek
  <2>4. QED
    BY <1>1, <1>5, <2>1, <2>2, <2>3 DEF Play, MutexInv, ArmedEmpty, NoMissedPacket, At, queueVars
<1>6. QED
  BY <1>2, <1>3, <1>4, <1>5 DEF Stop

\* A thread that ended does nothing, and no new one starts before the clear.
LEMMA JoinedStep ==
  ASSUME IInv, Next
  PROVE  Joined'
<1> USE DEF IInv, Joined, Exited, At
<1>1. CASE Stop
  BY <1>1 DEF Stop, StopBegin, StopNotify, StopJoin, StopClear, Play, queueVars, producerVars
<1>2. ASSUME NEW q \in Queues, Consume(q) \/ SpuriousWake(q) PROVE Joined'
  <2>1. stopper' = stopper
    BY <1>2 DEF Consume, Enter, Exit, Leave, Arm, Sleep, Relock, Decode, SpuriousWake,
                stopperVars, producerVars
  <2>2. consumer[q] # "exited"
    BY <1>2 DEF Consume, Enter, Exit, Leave, Arm, Sleep, Relock, Decode, SpuriousWake
  <2>3. QED
    BY <2>1, <2>2
<1>3. CASE Seek \/ ProducerExit \/ \E q \in Queues : Produce(q)
  <2>1. stopper' = stopper /\ producer # "exited"
    BY <1>3 DEF Seek, SeekLock, SeekPush, SeekUnlock, ProducerExit, Produce, stopperVars
  <2>2. QED
    BY <2>1
<1>4. QED
  BY <1>1, <1>2, <1>3 DEF Next

LEMMA IInvStep == IInv /\ [Next]_vars => IInv'
<1> SUFFICES ASSUME IInv, [Next]_vars PROVE IInv'
  OBVIOUS
<1>1. CASE UNCHANGED vars
  BY <1>1 DEF vars, IInv, TypeOK, MutexInv, HeldBySeek, Joined, Exited, ArmedEmpty, NoMissedPacket, At
<1>2. CASE Next
  <2>1. TypeOK'
    BY <1>2, TypeStep DEF IInv
  <2>2. MutexInv' /\ ArmedEmpty' /\ NoMissedPacket'
    BY <1>2, MutexConsume, EmptyConsume, InvProduce, InvStop DEF Next
  <2>3. QED
    BY <1>2, <2>1, <2>2, JoinedStep DEF IInv
<1>3. QED
  BY <1>1, <1>2

\* Nobody sleeps over a packet, whatever pushes, seeks and stops.
THEOREM NobodySleepsOverAPacket == Spec => []NoMissedPacket
<1>1. IInv => NoMissedPacket
  BY DEF IInv
<1>2. QED
  BY <1>1, IInvInit, IInvStep, PTL DEF Spec
=============================================================================
