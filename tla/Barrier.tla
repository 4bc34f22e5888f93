------------------------------- MODULE Barrier -------------------------------
(***************************************************************************)
(* mrv::barrier (core/mrvBarrier.h), the rendezvous the playback threads   *)
(* of an image meet at when a clip reaches one of its ends, and that       *)
(* CMedia::stop, CMedia::seek and the exit of a thread break open with     *)
(* notify_all().                                                           *)
(*                                                                         *)
(* A thread is outside of wait(), asleep in m_cond, or awake again and     *)
(* about to recheck the generation.  Taking m_mutex, changing the counters *)
(* and going to sleep is one step, because the condition variable gives    *)
(* the mutex up and sleeps atomically.  The setter threshold(x) takes no   *)
(* lock: it is three steps, a read and two stores, with anything in        *)
(* between, and its store of m_count may be lost to another thread's.      *)
(***************************************************************************)
EXTENDS Integers, FiniteSets

CONSTANTS
  Threads,        \* the threads that may call wait()
  Parties,        \* the count given to the constructor
  Thresholds,     \* what threshold(x) is called with; {} if it never is
  UMax,           \* largest value of an unsigned int
  MaxGeneration   \* bound on m_generation, so that TLC's graph is finite

\* barrier(0) and threshold(0) throw; the counters are unsigned.
ASSUME BarrierAssumption ==
  /\ IsFiniteSet(Threads)
  /\ UMax \in Nat
  /\ Parties \in 1..UMax
  /\ Thresholds \subseteq 1..UMax
  /\ MaxGeneration \in Nat

VARIABLES
  threshold,      \* m_threshold
  count,          \* m_count
  generation,     \* m_generation
  pc,             \* where each thread is: "out", "asleep" or "awake"
  gen,            \* the local `gen` of each thread's call of wait()
  argument,       \* x of the threshold(x) under way, 0 when there is none
  used,           \* the local `used` of that call
  stored,         \* that call has stored m_threshold and not yet m_count
  overlapped,     \* a wait() or notify_all() changed m_count since it began
  disturbed       \* history: generation in which a threshold(x) upset the count

counters == <<threshold, count, generation>>
setter == <<argument, used, stored, overlapped>>
vars == <<threshold, count, generation, pc, gen, setter, disturbed>>

TypeOK ==
  /\ threshold \in 1..UMax
  /\ count \in 0..UMax
  /\ generation \in Nat
  /\ pc \in [Threads -> {"out", "asleep", "awake"}]
  /\ gen \in [Threads -> Nat]
  /\ argument \in Thresholds \cup {0}
  /\ used \in 0..UMax
  /\ stored \in BOOLEAN
  /\ overlapped \in BOOLEAN
  /\ disturbed \in Int

Init ==
  /\ threshold = Parties
  /\ count = Parties
  /\ generation = 0
  /\ pc = [t \in Threads |-> "out"]
  /\ gen = [t \in Threads |-> 0]
  /\ argument = 0
  /\ used = 0
  /\ stored = FALSE
  /\ overlapped = FALSE
  /\ disturbed = -1

-----------------------------------------------------------------------------
\* Threads inside a wait() of the current generation.
Gathered == {t \in Threads : pc[t] # "out" /\ gen[t] = generation}

\* Threads a change of generation has released and that have yet to return.
Released == {t \in Threads : pc[t] # "out" /\ gen[t] # generation}

\* The difference of two unsigned ints, which wraps below zero.
Minus(a, b) == IF a >= b THEN a - b ELSE UMax + 1 + a - b

\* Mutants: m_cond.notify_one(), and a notification before the sleep only.
WakeOneSleeper ==
  LET sleepers == {t \in Threads : pc[t] = "asleep"}
  IN  [t \in Threads |-> IF sleepers # {} /\ t = CHOOSE s \in sleepers : TRUE
                            THEN "awake" ELSE pc[t]]
WakeNobody == pc

\* m_cond.notify_all(): every sleeper becomes runnable.
WakeSleepers == [t \in Threads |-> IF pc[t] = "asleep" THEN "awake" ELSE pc[t]]

\* A wait() or notify_all() changes m_count, perhaps during a threshold(x).
Overlap ==
  /\ overlapped' = (argument # 0)
  /\ UNCHANGED <<argument, used, stored>>

\* Mutants: a generation that starts with the old count, or one thread short.
OpenGateKeepsCount ==
  /\ generation < MaxGeneration
  /\ generation' = generation + 1
  /\ pc' = WakeSleepers
  /\ UNCHANGED <<threshold, count, gen, disturbed>>

OpenGateOneShort ==
  /\ generation < MaxGeneration
  /\ generation' = generation + 1
  /\ count' = IF threshold = 1 THEN 1 ELSE threshold - 1
  /\ pc' = WakeSleepers
  /\ UNCHANGED <<threshold, gen, disturbed>>

\* m_generation++, m_count = m_threshold, m_cond.notify_all().
OpenGate ==
  /\ generation < MaxGeneration
  /\ generation' = generation + 1
  /\ count' = threshold
  /\ pc' = WakeSleepers
  /\ UNCHANGED <<threshold, gen, disturbed>>

\* wait() by the thread that brings the count to zero: it releases the others
\* and returns true without sleeping.
WaitLast(t) ==
  /\ pc[t] = "out"
  /\ Minus(count, 1) = 0
  /\ OpenGate
  /\ Overlap

\* wait() by any other thread: it remembers the generation and sleeps.
WaitSleep(t) ==
  /\ pc[t] = "out"
  /\ Minus(count, 1) # 0
  /\ count' = Minus(count, 1)
  /\ pc' = [pc EXCEPT ![t] = "asleep"]
  /\ gen' = [gen EXCEPT ![t] = generation]
  /\ Overlap
  /\ UNCHANGED <<threshold, generation, disturbed>>

\* Mutant: `if (gen == m_generation)` in the place of `while`.
WaitReturnUnchecked(t) ==
  /\ pc[t] = "awake"
  /\ pc' = [pc EXCEPT ![t] = "out"]
  /\ UNCHANGED <<counters, gen, setter, disturbed>>

\* A woken thread finds another generation in `while (gen == m_generation)`
\* and returns false ...
WaitReturn(t) ==
  /\ pc[t] = "awake"
  /\ gen[t] # generation
  /\ pc' = [pc EXCEPT ![t] = "out"]
  /\ UNCHANGED <<counters, gen, setter, disturbed>>

\* ... or its own, and sleeps again.
WaitAgain(t) ==
  /\ pc[t] = "awake"
  /\ gen[t] = generation
  /\ pc' = [pc EXCEPT ![t] = "asleep"]
  /\ UNCHANGED <<counters, gen, setter, disturbed>>

\* The condition variable may wake a sleeper without a notification.
SpuriousWake(t) ==
  /\ pc[t] = "asleep"
  /\ pc' = [pc EXCEPT ![t] = "awake"]
  /\ UNCHANGED <<counters, gen, setter, disturbed>>

\* notify_all() by stop(), seek(), the destructor or an exiting thread.
NotifyAll ==
  /\ OpenGate
  /\ Overlap

\* threshold(x) reads how many wait ...
SetThresholdRead(x) ==
  /\ argument = 0
  /\ argument' = x
  /\ used' = Minus(threshold, count)
  /\ overlapped' = FALSE
  /\ UNCHANGED <<counters, pc, gen, stored, disturbed>>

\* ... stores m_threshold ...
SetThresholdStore ==
  /\ argument # 0
  /\ ~stored
  /\ threshold' = argument
  /\ stored' = TRUE
  /\ UNCHANGED <<count, generation, pc, gen, argument, used, overlapped, disturbed>>

\* ... and is through once it has stored m_count.
SetThresholdEnd ==
  /\ stored
  /\ argument' = 0
  /\ used' = 0
  /\ stored' = FALSE
  /\ overlapped' = FALSE
  /\ UNCHANGED <<threshold, generation, pc, gen>>

\* The store of m_count, from what threshold(x) read.
SetThresholdCount ==
  /\ SetThresholdEnd
  /\ count' = IF used > threshold THEN 0 ELSE threshold - used
  /\ disturbed' = IF used # 0 \/ Gathered # {} THEN generation ELSE disturbed

\* The data race: a wait() or notify_all() that had begun before stores its own
\* m_count over it.
SetThresholdLost ==
  /\ overlapped
  /\ SetThresholdEnd
  /\ disturbed' = generation
  /\ UNCHANGED count

-----------------------------------------------------------------------------
\* The steps of a thread inside wait().
Wait(t) ==
  \/ WaitLast(t)
  \/ WaitSleep(t)
  \/ WaitReturn(t)
  \/ WaitAgain(t)
  \/ SpuriousWake(t)

SetThreshold ==
  \/ \E x \in Thresholds : SetThresholdRead(x)
  \/ SetThresholdStore
  \/ SetThresholdCount
  \/ SetThresholdLost

Next ==
  \/ NotifyAll
  \/ SetThreshold
  \/ \E t \in Threads : Wait(t)

Spec == Init /\ [][Next]_vars

\* The scheduler runs a thread that is awake, and every playing thread comes to
\* the end of its clip and calls wait() again.  Nobody has to call notify_all().
Fairness ==
  \A t \in Threads :
    /\ WF_vars(WaitLast(t) \/ WaitSleep(t))
    /\ WF_vars(WaitReturn(t))

FairSpec == Spec /\ Fairness

-----------------------------------------------------------------------------
\* The counter says how many threads are missing: used() and is_active(), which
\* the callers read, are exact, and the last arrival is the one that finds 1.
\* Two things upset it: a threshold(x) under way that has stored m_threshold and
\* not yet m_count, whoever waits or not; and a threshold(x) that met waiters or
\* lost its m_count to theirs, and that one never beyond the generation in which
\* it ended.
CountMeansMissing ==
  ~stored /\ disturbed # generation =>
    /\ count \in 1..threshold
    /\ Cardinality(Gathered) = threshold - count

\* No released thread is left asleep: whoever changes the generation wakes all
\* sleepers, so that a stop() cannot leave one of two waiters behind.
NoSleeperLeftBehind == \A t \in Released : pc[t] = "awake"

\* With as many threads as parties and no resize that upset the count, the
\* barrier lets the last one pass only when every other thread is inside wait(): the decode thread cannot
\* start the next loop while the video thread still plays the last one.
Rendezvous ==
  [][ \A t \in Threads :
        WaitLast(t) /\ ~stored /\ disturbed # generation /\ threshold = Cardinality(Threads)
          => Gathered = Threads \ {t} ]_vars

\* Every waiting thread returns when all of them keep coming (until the bound
\* on the generations is reached).
EveryWaitReturns ==
  \A t \in Threads : pc[t] # "out" ~> pc[t] = "out" \/ generation = MaxGeneration

-----------------------------------------------------------------------------
\* The barrier implements the gate: the threads gathering are those of the
\* current generation, the threads leaving are those of an older one.
G == INSTANCE Gate WITH gathering <- Gathered, leaving <- Released

ImplementsGate == G!GateSpec
=============================================================================
