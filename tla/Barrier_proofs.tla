--------------------------- MODULE Barrier_proofs ---------------------------
(***************************************************************************)
(* The barrier's counters for every number of threads and parties: the     *)
(* invariant IInv is inductive, and from it follow what CMedia relies on   *)
(* and that the barrier implements the Gate.                               *)
(***************************************************************************)
EXTENDS Barrier, FiniteSetTheorems, TLAPS

\* What makes CountMeansMissing inductive: no local `gen` (and no resize) is from the
\* future, so that a new generation starts with nobody gathered.
GenInThePast ==
  /\ disturbed <= generation
  /\ \A t \in Threads : gen[t] <= generation

IInv ==
  /\ TypeOK
  /\ GenInThePast
  /\ CountMeansMissing
  /\ NoSleeperLeftBehind

\* The threads of the current generation are finitely many.
LEMMA GatheredFinite ==
  /\ Gathered \subseteq Threads
  /\ IsFiniteSet(Gathered)
  /\ Cardinality(Gathered) \in Nat
BY BarrierAssumption, FS_Subset, FS_CardinalityType DEF Gathered

\* Above zero the unsigned decrement is the plain one.
LEMMA MinusOne ==
  ASSUME NEW a \in 1..UMax
  PROVE  Minus(a, 1) = a - 1
BY BarrierAssumption DEF Minus

-----------------------------------------------------------------------------
LEMMA TypeInit == Init => TypeOK
<1> SUFFICES ASSUME Init PROVE TypeOK
  OBVIOUS
<1>1. stored \in BOOLEAN /\ overlapped \in BOOLEAN
  BY Zenon DEF Init
<1>2. QED
  BY <1>1, BarrierAssumption DEF Init, TypeOK

LEMMA TypeStep == TypeOK /\ [Next]_vars => TypeOK'
<1> SUFFICES ASSUME TypeOK, [Next]_vars PROVE TypeOK'
  OBVIOUS
<1> USE BarrierAssumption DEF TypeOK
<1>1. ASSUME OpenGate, Overlap PROVE TypeOK'
  BY <1>1 DEF OpenGate, WakeSleepers, Overlap
<1>2. CASE NotifyAll
  BY <1>1, <1>2 DEF NotifyAll
<1>3. CASE SetThresholdStore \/ SetThresholdCount \/ SetThresholdLost
  <2>1. stored' \in BOOLEAN /\ overlapped' \in BOOLEAN
    BY <1>3, Zenon DEF SetThresholdStore, SetThresholdCount, SetThresholdLost, SetThresholdEnd
  <2>2. CASE SetThresholdStore
    <3>1. threshold' \in 1..UMax
      BY <2>2 DEF SetThresholdStore
    <3>2. QED
      BY <2>1, <2>2, <3>1 DEF SetThresholdStore
  <2>3. CASE SetThresholdCount
    <3>1. count' \in 0..UMax
      BY <2>3 DEF SetThresholdCount
    <3>2. disturbed' \in Int
      BY <2>3 DEF SetThresholdCount
    <3>3. QED
      BY <2>1, <2>3, <3>1, <3>2 DEF SetThresholdCount, SetThresholdEnd
  <2>4. CASE SetThresholdLost
    BY <2>1, <2>4 DEF SetThresholdLost, SetThresholdEnd
  <2>5. QED
    BY <1>3, <2>2, <2>3, <2>4
<1>4. ASSUME NEW x \in Thresholds, SetThresholdRead(x) PROVE TypeOK'
  <2>1. Minus(threshold, count) \in 0..UMax
    BY DEF Minus
  <2>2. QED
    BY <1>4, <2>1 DEF SetThresholdRead, counters
<1>5. ASSUME NEW t \in Threads, WaitLast(t) PROVE TypeOK'
  BY <1>1, <1>5 DEF WaitLast
<1>6. ASSUME NEW t \in Threads, WaitSleep(t) PROVE TypeOK'
  <2>1. Minus(count, 1) \in 0..UMax
    BY DEF Minus
  <2>2. QED
    BY <1>6, <2>1 DEF WaitSleep, Overlap
<1>7. ASSUME NEW t \in Threads, WaitReturn(t) \/ WaitAgain(t) \/ SpuriousWake(t)
      PROVE TypeOK'
  BY <1>7 DEF WaitReturn, WaitAgain, SpuriousWake, counters, setter
<1>8. CASE UNCHANGED vars
  BY <1>8 DEF vars, setter
<1>9. QED
  BY <1>2, <1>3, <1>4, <1>5, <1>6, <1>7, <1>8 DEF Next, SetThreshold, Wait

\* The counters are unsigned ints and every thread is in a known place.
THEOREM TypeCorrect == Spec => []TypeOK
BY TypeInit, TypeStep, PTL DEF Spec

-----------------------------------------------------------------------------
LEMMA IInvInit == Init => IInv
<1> SUFFICES ASSUME Init PROVE IInv
  OBVIOUS
<1>1. TypeOK
  BY TypeInit
<1>2. Gathered = {} /\ Released = {}
  BY DEF Init, Gathered, Released
<1>3. GenInThePast
  BY DEF Init, GenInThePast
<1>4. CountMeansMissing
  BY <1>2, FS_EmptySet, BarrierAssumption DEF Init, CountMeansMissing
<1>5. QED
  BY <1>1, <1>2, <1>3, <1>4 DEF IInv, NoSleeperLeftBehind

\* Opening the gate starts a generation nobody has joined and wakes everybody.
LEMMA OpenGateStep ==
  ASSUME IInv, OpenGate
  PROVE  /\ Gathered' = {}
         /\ Released' = {t \in Threads : pc[t] # "out"}
         /\ GenInThePast'
         /\ CountMeansMissing'
         /\ NoSleeperLeftBehind'
<1> USE DEF IInv, TypeOK
<1>1. GenInThePast'
  BY DEF OpenGate, GenInThePast
<1>2. \A t \in Threads : gen'[t] # generation'
  BY DEF OpenGate, GenInThePast
<1>3. Gathered' = {}
  BY <1>2 DEF Gathered
<1>4. \A t \in Threads : pc'[t] = IF pc[t] = "asleep" THEN "awake" ELSE pc[t]
  BY DEF OpenGate, WakeSleepers
<1>5. Released' = {t \in Threads : pc[t] # "out"}
  BY <1>2, <1>4 DEF Released
<1>6. CountMeansMissing'
  <2>1. count' = threshold' /\ threshold' \in 1..UMax
    BY DEF OpenGate
  <2>2. QED
    BY <1>3, <2>1, FS_EmptySet, BarrierAssumption DEF CountMeansMissing
<1>7. NoSleeperLeftBehind'
  BY <1>4, <1>5 DEF NoSleeperLeftBehind
<1>8. QED
  BY <1>1, <1>3, <1>5, <1>6, <1>7

\* A thread that goes to sleep joins the gathered and takes one off the count.
LEMMA WaitSleepStep ==
  ASSUME IInv, NEW t \in Threads, WaitSleep(t)
  PROVE  /\ Gathered' = Gathered \cup {t}
         /\ t \notin Gathered
         /\ Released' = Released
         /\ CountMeansMissing'
<1> USE DEF IInv, TypeOK
<1>1. /\ pc[t] = "out"
      /\ pc' = [pc EXCEPT ![t] = "asleep"]
      /\ gen' = [gen EXCEPT ![t] = generation]
      /\ generation' = generation /\ threshold' = threshold /\ disturbed' = disturbed
      /\ count' = Minus(count, 1) /\ Minus(count, 1) # 0
  BY DEF WaitSleep
<1>2. \A u \in Threads : /\ pc'[u] = IF u = t THEN "asleep" ELSE pc[u]
                         /\ gen'[u] = IF u = t THEN generation ELSE gen[u]
  BY <1>1
<1>3. Gathered' = Gathered \cup {t} /\ t \notin Gathered
  BY <1>1, <1>2 DEF Gathered
<1>4. Released' = Released
  BY <1>1, <1>2 DEF Released
<1>5. CountMeansMissing'
  <2> SUFFICES ASSUME ~stored', disturbed' # generation'
               PROVE  count' \in 1..threshold' /\ Cardinality(Gathered') = threshold' - count'
    BY DEF CountMeansMissing
  <2>1. count \in 1..threshold /\ Cardinality(Gathered) = threshold - count
    BY <1>1 DEF CountMeansMissing, WaitSleep, Overlap
  <2>2. count' = count - 1 /\ count' # 0
    BY <1>1, <2>1, MinusOne, BarrierAssumption
  <2>3. Cardinality(Gathered') = Cardinality(Gathered) + 1
    BY <1>3, GatheredFinite, FS_AddElement
  <2>4. QED
    BY <1>1, <2>1, <2>2, <2>3, GatheredFinite
<1>6. QED
  BY <1>3, <1>4, <1>5

LEMMA IInvStep == IInv /\ [Next]_vars => IInv'
<1> SUFFICES ASSUME IInv, [Next]_vars PROVE IInv'
  OBVIOUS
<1>0. TypeOK /\ TypeOK'
  BY TypeStep DEF IInv
<1>1. CASE NotifyAll
  BY <1>0, <1>1, OpenGateStep DEF NotifyAll, IInv
<1>2. ASSUME NEW t \in Threads, WaitLast(t) PROVE IInv'
  BY <1>0, <1>2, OpenGateStep DEF WaitLast, IInv
<1>3. ASSUME NEW t \in Threads, WaitSleep(t) PROVE IInv'
  <2>1. GenInThePast'
    BY <1>3, <1>0 DEF WaitSleep, GenInThePast, IInv, TypeOK
  <2>2. \A u \in Threads : u # t => pc'[u] = pc[u]
    BY <1>3, <1>0 DEF WaitSleep, TypeOK
  <2>3. t \notin Released
    BY <1>3 DEF WaitSleep, Released
  <2>4. NoSleeperLeftBehind'
    BY <1>3, <2>2, <2>3, WaitSleepStep DEF NoSleeperLeftBehind, IInv, Released
  <2>5. QED
    BY <1>0, <1>3, <2>1, <2>4, WaitSleepStep DEF IInv
<1>4. ASSUME NEW t \in Threads, WaitReturn(t) PROVE IInv'
  <2>1. /\ UNCHANGED <<counters, gen, stored, disturbed>>
        /\ \A u \in Threads : pc'[u] = IF u = t THEN "out" ELSE pc[u]
        /\ gen[t] # generation
    BY <1>0, <1>4 DEF WaitReturn, setter, TypeOK
  <2>2. Gathered' = Gathered
    BY <2>1 DEF Gathered, counters
  <2>3. QED
    BY <1>0, <2>1, <2>2 DEF IInv, CountMeansMissing, GenInThePast,
       NoSleeperLeftBehind, Released, counters
<1>5. ASSUME NEW t \in Threads, WaitAgain(t) PROVE IInv'
  <2>1. /\ UNCHANGED <<counters, gen, stored, disturbed>>
        /\ \A u \in Threads : pc'[u] = IF u = t THEN "asleep" ELSE pc[u]
        /\ gen[t] = generation /\ pc[t] = "awake"
    BY <1>0, <1>5 DEF WaitAgain, setter, TypeOK
  <2>2. Gathered' = Gathered
    BY <2>1 DEF Gathered, counters
  <2>3. QED
    BY <1>0, <2>1, <2>2 DEF IInv, CountMeansMissing, GenInThePast,
       NoSleeperLeftBehind, Released, counters
<1>6. ASSUME NEW t \in Threads, SpuriousWake(t) PROVE IInv'
  <2>1. /\ UNCHANGED <<counters, gen, stored, disturbed>>
        /\ \A u \in Threads : pc'[u] = IF u = t THEN "awake" ELSE pc[u]
        /\ pc[t] = "asleep"
    BY <1>0, <1>6 DEF SpuriousWake, setter, TypeOK
  <2>2. Gathered' = Gathered
    BY <2>1 DEF Gathered, counters
  <2>3. QED
    BY <1>0, <2>1, <2>2 DEF IInv, CountMeansMissing, GenInThePast,
       NoSleeperLeftBehind, Released, counters
<1>7. ASSUME NEW x \in Thresholds, SetThresholdRead(x) PROVE IInv'
  <2>1. UNCHANGED <<counters, pc, gen, stored, disturbed>>
    BY <1>7 DEF SetThresholdRead
  <2>2. QED
    BY <1>0, <2>1 DEF IInv, CountMeansMissing, GenInThePast, NoSleeperLeftBehind,
       Released, Gathered, counters
<1>8. CASE SetThresholdStore
  <2>1. UNCHANGED <<generation, pc, gen, disturbed>> /\ stored'
    BY <1>8 DEF SetThresholdStore
  <2>2. QED
    BY <1>0, <2>1 DEF IInv, CountMeansMissing, GenInThePast, NoSleeperLeftBehind,
       Released
<1>9. CASE SetThresholdCount \/ SetThresholdLost
  <2>1. UNCHANGED <<threshold, generation, pc, gen>>
    BY <1>9 DEF SetThresholdCount, SetThresholdLost, SetThresholdEnd
  <2>2. Gathered' = Gathered /\ Released' = Released
    BY <2>1 DEF Gathered, Released
  <2>3. CountMeansMissing'
    <3> SUFFICES ASSUME disturbed' # generation'
                 PROVE  count' \in 1..threshold' /\ Cardinality(Gathered') = threshold' - count'
      BY DEF CountMeansMissing
    <3>1. SetThresholdCount /\ used = 0 /\ Gathered = {}
      BY <1>9, <2>1 DEF SetThresholdCount, SetThresholdLost
    <3>2. count' = threshold /\ threshold \in 1..UMax
      BY <1>0, <3>1, BarrierAssumption DEF SetThresholdCount, TypeOK
    <3>3. QED
      BY <2>1, <2>2, <3>1, <3>2, FS_EmptySet, BarrierAssumption
  <2>4. GenInThePast'
    BY <1>9, <1>0, <2>1 DEF SetThresholdCount, SetThresholdLost, IInv, GenInThePast, TypeOK
  <2>5. NoSleeperLeftBehind'
    BY <2>1, <2>2 DEF IInv, NoSleeperLeftBehind
  <2>6. QED
    BY <1>0, <2>3, <2>4, <2>5 DEF IInv
<1>10. CASE UNCHANGED vars
  BY <1>0, <1>10 DEF vars, setter, IInv, CountMeansMissing, GenInThePast,
     NoSleeperLeftBehind, Released, Gathered
<1>11. QED
  BY <1>1, <1>2, <1>3, <1>4, <1>5, <1>6, <1>7, <1>8, <1>9, <1>10
     DEF Next, SetThreshold, Wait

LEMMA Invariance == Spec => []IInv
BY IInvInit, IInvStep, PTL DEF Spec

\* used(), is_active() and the test for the last arrival are exact, but between
\* the two stores of a threshold(x), and in the generation in which one that met
\* waiters, or lost its m_count to theirs, has ended.
THEOREM CountCorrect == Spec => []CountMeansMissing
<1>1. IInv => CountMeansMissing
  BY DEF IInv
<1>2. QED
  BY <1>1, Invariance, PTL

\* Whoever opens the barrier wakes every thread that sleeps in it.
THEOREM WakesEverybody == Spec => []NoSleeperLeftBehind
<1>1. IInv => NoSleeperLeftBehind
  BY DEF IInv
<1>2. QED
  BY <1>1, Invariance, PTL

-----------------------------------------------------------------------------
\* The arrival that completes the group is the one that finds all but itself
\* gathered: its count is one.
LEMMA LastFindsOthers ==
  ASSUME IInv, NEW t \in Threads, WaitLast(t), ~stored, disturbed # generation
  PROVE  /\ Gathered \subseteq Threads \ {t}
         /\ Cardinality(Gathered) + 1 = threshold
<1>1. Gathered \subseteq Threads \ {t}
  BY DEF Gathered, WaitLast
<1>2. count \in 1..threshold /\ Cardinality(Gathered) = threshold - count
  BY DEF IInv, CountMeansMissing
<1>3. count = 1
  BY <1>2, MinusOne, BarrierAssumption DEF WaitLast, IInv, TypeOK
<1>4. QED
  BY <1>1, <1>2, <1>3 DEF IInv, TypeOK

\* With as many threads as parties, the last one passes only when all the
\* others are inside wait().
THEOREM RendezvousHolds == Spec => Rendezvous
<1>1. IInv /\ [Next]_vars =>
        [ \A t \in Threads :
            WaitLast(t) /\ ~stored /\ disturbed # generation /\ threshold = Cardinality(Threads)
              => Gathered = Threads \ {t} ]_vars
  <2> SUFFICES ASSUME IInv, NEW t \in Threads, WaitLast(t), ~stored, disturbed # generation,
                      threshold = Cardinality(Threads)
               PROVE  Gathered = Threads \ {t}
    OBVIOUS
  <2>1. Gathered \subseteq Threads \ {t} /\ Cardinality(Gathered) + 1 = threshold
    BY LastFindsOthers
  <2>2. IsFiniteSet(Threads \ {t}) /\ Cardinality(Threads \ {t}) = Cardinality(Threads) - 1
    BY BarrierAssumption, FS_RemoveElement
  <2>3. QED
    BY <2>1, <2>2, GatheredFinite, FS_Subset DEF IInv, TypeOK
<1>2. QED
  BY <1>1, Invariance, PTL DEF Spec, Rendezvous

-----------------------------------------------------------------------------
\* A barrier that is never resized keeps the constructor's threshold.
NeverResized ==
  /\ threshold = Parties
  /\ argument = 0
  /\ ~stored
  /\ disturbed = -1

LEMMA NeverResizedInvariant ==
  ASSUME Thresholds = {}
  PROVE  Spec => []NeverResized
<1>1. Init => NeverResized
  BY DEF Init, NeverResized
<1>2. NeverResized /\ [Next]_vars => NeverResized'
  BY DEF NeverResized, Next, SetThreshold, SetThresholdRead, SetThresholdStore,
     SetThresholdCount, SetThresholdLost, SetThresholdEnd, Overlap, NotifyAll, OpenGate, Wait, WaitLast, WaitSleep, WaitReturn, WaitAgain,
     SpuriousWake, setter, counters, vars
<1>3. QED
  BY <1>1, <1>2, PTL DEF Spec

\* The instance counts with its own copy of Cardinality.
LEMMA GateCardinality == \A S : G!Cardinality(S) = Cardinality(S)
BY DEF G!Cardinality, Cardinality

\* Every step of a barrier that is never resized is a step of the gate.
LEMMA GateStep ==
  ASSUME Thresholds = {}, IInv, NeverResized, [Next]_vars
  PROVE  [G!GateNext]_<<Gathered, Released>>
<1> USE DEF IInv, TypeOK
<1>1. disturbed # generation /\ threshold = Parties /\ ~stored
  BY DEF NeverResized
<1>2. ASSUME NEW t \in Threads, pc[t] = "out"
      PROVE  t \in G!Outside
  BY <1>2 DEF G!Outside, Gathered, Released
<1>3. Gathered \cup Released = {t \in Threads : pc[t] # "out"}
  BY DEF Gathered, Released
<1>4. CASE NotifyAll
  <2>1. Gathered' = {} /\ Released' = Released \cup Gathered
    BY <1>3, <1>4, OpenGateStep DEF NotifyAll
  <2>2. QED
    BY <2>1 DEF G!GateNext, G!Break
<1>5. ASSUME NEW t \in Threads, WaitLast(t) PROVE G!Complete(t)
  <2>1. Gathered' = {} /\ Released' = Released \cup Gathered
    BY <1>3, <1>5, OpenGateStep DEF WaitLast
  <2>2. t \in G!Outside
    BY <1>2, <1>5 DEF WaitLast
  <2>3. Cardinality(Gathered) + 1 = Parties
    BY <1>1, <1>5, LastFindsOthers
  <2>4. QED
    BY <2>1, <2>2, <2>3, GateCardinality DEF G!Complete
<1>6. ASSUME NEW t \in Threads, WaitSleep(t) PROVE G!Hold(t)
  <2>1. /\ Gathered' = Gathered \cup {t} /\ t \notin Gathered
        /\ Released' = Released /\ CountMeansMissing'
    BY <1>6, WaitSleepStep
  <2>2. t \in G!Outside
    BY <1>2, <1>6 DEF WaitSleep
  <2>3. disturbed' # generation' /\ threshold' = Parties /\ ~stored'
    BY <1>1, <1>6 DEF WaitSleep, Overlap
  <2>4. Cardinality(Gathered') = Cardinality(Gathered) + 1
    BY <2>1, GatheredFinite, FS_AddElement
  <2>5. Cardinality(Gathered) + 1 < Parties
    <3>1. count' \in 1..Parties /\ Cardinality(Gathered') = Parties - count'
      BY <2>1, <2>3 DEF CountMeansMissing
    <3>2. QED
      BY <2>4, <3>1, GatheredFinite, BarrierAssumption
  <2>6. QED
    BY <2>1, <2>2, <2>5, GateCardinality DEF G!Hold
<1>7. ASSUME NEW t \in Threads, WaitReturn(t) PROVE G!Leave(t)
  <2>1. /\ generation' = generation /\ gen' = gen
        /\ \A u \in Threads : pc'[u] = IF u = t THEN "out" ELSE pc[u]
        /\ gen[t] # generation /\ pc[t] # "out"
    BY <1>7 DEF WaitReturn, counters
  <2>2. Gathered' = Gathered
    BY <2>1 DEF Gathered
  <2>3. t \in Released /\ Released' = Released \ {t}
    BY <2>1 DEF Released
  <2>4. QED
    BY <2>2, <2>3 DEF G!Leave
<1>8. ASSUME NEW t \in Threads, WaitAgain(t) \/ SpuriousWake(t)
      PROVE  UNCHANGED <<Gathered, Released>>
  <2>1. /\ generation' = generation /\ gen' = gen
        /\ \A u \in Threads : pc'[u] # "out" <=> pc[u] # "out"
    BY <1>8 DEF WaitAgain, SpuriousWake, counters
  <2>2. QED
    BY <2>1 DEF Gathered, Released
<1>9. ASSUME SetThreshold PROVE FALSE
  BY <1>9 DEF SetThreshold, SetThresholdStore, SetThresholdCount,
     SetThresholdLost, SetThresholdEnd, NeverResized
<1>10. CASE UNCHANGED vars
  BY <1>10 DEF vars, Gathered, Released
<1>11. QED
  BY <1>4, <1>5, <1>6, <1>7, <1>8, <1>9, <1>10 DEF Next, Wait, G!GateNext

\* The safety part of ImplementsGate, for any number of threads and parties:
\* the code's counter and generation realise the gate.
THEOREM Refinement ==
  ASSUME Thresholds = {}
  PROVE  Spec => G!GateInit /\ [][G!GateNext]_<<Gathered, Released>>
<1>1. Init => G!GateInit
  BY DEF Init, G!GateInit, Gathered, Released
<1>2. IInv /\ NeverResized /\ [Next]_vars => [G!GateNext]_<<Gathered, Released>>
  BY GateStep
<1>3. QED
  BY <1>1, <1>2, Invariance, NeverResizedInvariant, PTL DEF Spec
=============================================================================
