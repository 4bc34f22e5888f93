----------------------------- MODULE PacketWait -----------------------------
(***************************************************************************)
(* How the threads of a playing image wait for packets: one consumer per   *)
(* packet queue (wait_image, wait_audio, wait_subtitle), the decode thread *)
(* that fills the queues, and CMedia::stop(), which ends the playback,     *)
(* wakes the consumers and joins the threads.                              *)
(*                                                                         *)
(* A consumer checks and goes to sleep under the queue's mutex, and so     *)
(* does whoever pushes a packet; stop() sets _playback and notifies the    *)
(* condition variables under no mutex.  The check and the sleep of a       *)
(* consumer are therefore two steps, and a sleep, which releases the mutex *)
(* and registers the sleeper at once, is one.                              *)
(***************************************************************************)
EXTENDS Naturals, Sequences

CONSTANTS
  Queues,       \* the packet queues, each with its consumer thread
  NotifyOrder,  \* the order stop() notifies them in: audio, video, subtitle
  SeekOrder,    \* the order seek_to_position() locks them in
  Storing,      \* queues whose consumer may find its frame in a store (audio)
  MaxPackets    \* bound on the packets in a queue

ASSUME PacketWaitAssumption ==
  /\ MaxPackets \in Nat \ {0}
  /\ NotifyOrder \in Seq(Queues)
  /\ SeekOrder \in Seq(Queues)
  /\ Storing \subseteq Queues

VARIABLES
  playback,   \* _playback: "playing" in either direction, or "stopped"
  packets,    \* length of each queue
  locked,     \* queues whose mutex is held between two steps
  consumer,   \* where each consumer is
  producer,   \* the decode thread: "idle", "seek" or "exited"
  held,       \* the queues seek_to_position() has locked so far
  stopper,    \* the UI thread: "idle", "notify", "join" or "clear"
  notified    \* how many conditions stop() has notified

vars == <<playback, packets, locked, consumer, producer, held, stopper, notified>>
queueVars == <<packets, locked>>
producerVars == <<producer, held>>
stopperVars == <<stopper, notified>>

\* "top": at the test of the loop; "check": in wait_*(), holding the mutex;
\* "armed": decided to wait, still holding it; "asleep"; "woken": wants the
\* mutex back; "decode": left wait_*(), about to decode; "exited".
Places == {"top", "check", "armed", "asleep", "woken", "decode", "exited"}

TypeOK ==
  /\ playback \in {"playing", "stopped"}
  /\ packets \in [Queues -> 0..MaxPackets]
  /\ locked \subseteq Queues
  /\ consumer \in [Queues -> Places]
  /\ producer \in {"idle", "seek", "exited"}
  /\ held \in 0..Len(SeekOrder)
  /\ stopper \in {"idle", "notify", "join", "clear"}
  /\ notified \in 0..Len(NotifyOrder)

\* play() has emptied the queues and started the threads.
Init ==
  /\ playback = "playing"
  /\ packets = [q \in Queues |-> 0]
  /\ locked = {}
  /\ consumer = [q \in Queues |-> "top"]
  /\ producer = "idle"
  /\ held = 0
  /\ stopper = "idle"
  /\ notified = 0

-----------------------------------------------------------------------------
stopped == playback = "stopped"

At(q, place) == consumer[q] = place
Goto(q, place) == consumer' = [consumer EXCEPT ![q] = place]

\* while ( !img->stopped() ) wait_image();
Enter(q) ==
  /\ At(q, "top")
  /\ ~stopped
  /\ q \notin locked
  /\ locked' = locked \cup {q}
  /\ Goto(q, "check")
  /\ UNCHANGED <<playback, packets, producerVars, stopperVars>>

Exit(q) ==
  /\ At(q, "top")
  /\ stopped
  /\ Goto(q, "exited")
  /\ UNCHANGED <<playback, queueVars, producerVars, stopperVars>>

\* if ( stopped() || ! packets.empty() ) break;  wait_audio() also leaves when
\* the store has the frame already.
Leave(q) ==
  /\ At(q, "check")
  /\ stopped \/ packets[q] > 0 \/ q \in Storing
  /\ locked' = locked \ {q}
  /\ Goto(q, "decode")
  /\ UNCHANGED <<playback, packets, producerVars, stopperVars>>

\* Mutant: a test made before the mutex is taken.
ArmUnlocked(q) ==
  /\ At(q, "check")
  /\ ~stopped
  /\ packets[q] = 0
  /\ locked' = locked \ {q}
  /\ Goto(q, "armed")
  /\ UNCHANGED <<playback, packets, producerVars, stopperVars>>

\* The test failed: the consumer is going to wait.
Arm(q) ==
  /\ At(q, "check")
  /\ ~stopped
  /\ packets[q] = 0
  /\ Goto(q, "armed")
  /\ UNCHANGED <<playback, queueVars, producerVars, stopperVars>>

\* CONDITION_WAIT releases the mutex and sleeps ...
Sleep(q) ==
  /\ At(q, "armed")
  /\ locked' = locked \ {q}
  /\ Goto(q, "asleep")
  /\ UNCHANGED <<playback, packets, producerVars, stopperVars>>

\* ... and takes the mutex back before it returns to the test.
Relock(q) ==
  /\ At(q, "woken")
  /\ q \notin locked
  /\ locked' = locked \cup {q}
  /\ Goto(q, "check")
  /\ UNCHANGED <<playback, packets, producerVars, stopperVars>>

SpuriousWake(q) ==
  /\ At(q, "asleep")
  /\ Goto(q, "woken")
  /\ UNCHANGED <<playback, queueVars, producerVars, stopperVars>>

\* decode_video(), decode_audio(): takes the mutex and pops what it decodes,
\* which may be nothing (a marker that is not due stays, and so does anything
\* behind a frame that a store has).
Decode(q) ==
  /\ At(q, "decode")
  /\ q \notin locked
  /\ \E n \in 0..packets[q] : packets' = [packets EXCEPT ![q] = n]
  /\ Goto(q, "top")
  /\ UNCHANGED <<playback, locked, producerVars, stopperVars>>

\* Mutant: a notification of another queue's condition.
WakeNobody(q) == consumer

\* notify_one() and notify_all() on a queue with a single consumer.
Wake(q) ==
  IF At(q, "asleep") THEN [consumer EXCEPT ![q] = "woken"] ELSE consumer

\* push_back() and the markers: under the mutex, with a notify_one().
PushBack(q) ==
  /\ packets[q] < MaxPackets
  /\ packets' = [packets EXCEPT ![q] = @ + 1]
  /\ consumer' = Wake(q)

\* frame(): the decode thread queues a packet.
Produce(q) ==
  /\ producer = "idle"
  /\ ~stopped
  /\ q \notin locked
  /\ PushBack(q)
  /\ UNCHANGED <<playback, locked, producerVars, stopperVars>>

\* The mutexes seek_to_position() has taken so far.
HeldBySeek == {SeekOrder[i] : i \in 1..held}

\* seek_to_position() holds all the mutexes while it queues a whole seek.
SeekLock ==
  /\ \/ producer = "idle" /\ ~stopped
     \/ producer = "seek"
  /\ held < Len(SeekOrder)
  /\ SeekOrder[held + 1] \notin locked
  /\ locked' = locked \cup {SeekOrder[held + 1]}
  /\ held' = held + 1
  /\ producer' = "seek"
  /\ UNCHANGED <<playback, packets, consumer, stopperVars>>

SeekPush(q) ==
  /\ producer = "seek"
  /\ held = Len(SeekOrder)
  /\ q \in HeldBySeek
  /\ PushBack(q)
  /\ UNCHANGED <<playback, locked, producerVars, stopperVars>>

SeekUnlock ==
  /\ producer = "seek"
  /\ held = Len(SeekOrder)
  /\ locked' = locked \ HeldBySeek
  /\ held' = 0
  /\ producer' = "idle"
  /\ UNCHANGED <<playback, packets, consumer, stopperVars>>

ProducerExit ==
  /\ producer = "idle"
  /\ stopped
  /\ producer' = "exited"
  /\ UNCHANGED <<playback, queueVars, consumer, held, stopperVars>>

\* stop(): _playback = kStopped, with no mutex held.  The end of a clip that
\* does not loop, or a thread that exits, sets it too, and notifies nobody.
StopBegin ==
  /\ stopper = "idle"
  /\ playback' = "stopped"
  /\ stopper' = "notify"
  /\ UNCHANGED <<queueVars, consumer, producerVars, notified>>

\* Mutant: a stop() that forgets the first of the conditions.
StopNotifyLate ==
  /\ stopper = "notify"
  /\ notified < Len(NotifyOrder)
  /\ consumer' = IF notified = 0 THEN consumer ELSE Wake(NotifyOrder[notified + 1])
  /\ notified' = notified + 1
  /\ UNCHANGED <<playback, queueVars, producerVars, stopper>>

\* _audio_packets.cond().notify_all(), then video, then subtitle.
StopNotify ==
  /\ stopper = "notify"
  /\ notified < Len(NotifyOrder)
  /\ consumer' = Wake(NotifyOrder[notified + 1])
  /\ notified' = notified + 1
  /\ UNCHANGED <<playback, queueVars, producerVars, stopper>>

Exited == producer = "exited" /\ \A q \in Queues : At(q, "exited")

\* wait_for_threads() returns when every thread has ended.
StopJoin ==
  /\ stopper = "notify"
  /\ notified = Len(NotifyOrder)
  /\ Exited
  /\ notified' = 0
  /\ stopper' = "join"
  /\ UNCHANGED <<playback, queueVars, consumer, producerVars>>

\* clear_packets().
StopClear ==
  /\ stopper = "join"
  /\ packets' = [q \in Queues |-> 0]
  /\ stopper' = "clear"
  /\ UNCHANGED <<playback, locked, consumer, producerVars, notified>>

\* The next play() starts new threads on the empty queues.
Play ==
  /\ stopper = "clear"
  /\ playback' = "playing"
  /\ consumer' = [q \in Queues |-> "top"]
  /\ producer' = "idle"
  /\ stopper' = "idle"
  /\ UNCHANGED <<queueVars, held, notified>>

-----------------------------------------------------------------------------
Consume(q) ==
  \/ Enter(q)
  \/ Exit(q)
  \/ Leave(q)
  \/ Arm(q)
  \/ Sleep(q)
  \/ Relock(q)
  \/ Decode(q)

Seek ==
  \/ SeekLock
  \/ SeekUnlock
  \/ \E q \in Queues : SeekPush(q)

Stop ==
  \/ StopBegin
  \/ StopNotify
  \/ StopJoin
  \/ StopClear
  \/ Play

Next ==
  \/ Stop
  \/ Seek
  \/ ProducerExit
  \/ \E q \in Queues : Consume(q) \/ SpuriousWake(q) \/ Produce(q)

Spec == Init /\ [][Next]_vars

\* The scheduler runs every thread that can run, and a mutex that is released
\* again and again is at some time given to a thread that wants it.  What is
\* queued is decoded in the end: the frame a consumer is at moves on, so that a
\* marker falls due.  Nobody has to press stop, seek or produce, but a stop and
\* a seek that began go on.
Fairness ==
  /\ \A q \in Queues :
       /\ WF_vars(Leave(q) \/ Arm(q))
       /\ WF_vars(Sleep(q) \/ Exit(q))
       /\ SF_vars(Enter(q))
       /\ SF_vars(Relock(q))
       /\ SF_vars(Decode(q))
       /\ SF_vars(Decode(q) /\ packets'[q] < packets[q])
  /\ SF_vars(SeekLock /\ producer = "seek")
  /\ WF_vars(SeekUnlock)
  /\ WF_vars(ProducerExit)
  /\ WF_vars(StopNotify)
  /\ WF_vars(StopJoin)

FairSpec == Spec /\ Fairness

-----------------------------------------------------------------------------
\* A mutex has one owner: a consumer inside wait_*(), or seek_to_position().
MutexInv ==
  /\ \A q \in Queues :
       q \in locked <=> consumer[q] \in {"check", "armed"} \/ q \in HeldBySeek
  /\ \A q \in HeldBySeek : consumer[q] \notin {"check", "armed"}
  /\ producer # "seek" => held = 0

\* No lost wakeup on the producer's side: nobody sleeps over a packet, however
\* pushes, seeks, decodes and stops interleave, because a push happens under
\* the mutex the consumer holds from its test to its sleep.
NoMissedPacket == \A q \in Queues : At(q, "asleep") => packets[q] = 0

\* The same as seen by the consumer: whoever waits while a packet is there goes
\* on to decode (or to leave, when the playback ends).  The seek that holds all
\* the mutexes cannot keep it waiting for ever.
WaitersAreServed ==
  \A q \in Queues : packets[q] > 0 ~> consumer[q] \in {"decode", "exited"}

\* A consumer that sleeps when stop() comes to its condition does leave.
StopWakesSleepers ==
  \A q \in Queues :
    (/\ stopper = "notify"
     /\ At(q, "asleep")
     /\ \E i \in notified + 1 .. Len(NotifyOrder) : NotifyOrder[i] = q)
      ~> At(q, "exited")

\* What CMedia.cpp:2925 says of the notifications of stop(): "to make sure that
\* audio thread exits any wait lock".  It does not hold of a consumer between
\* its test and its sleep: stop() sets _playback and notifies under no mutex,
\* so that the notification may come before the sleep and nobody repeats it.
StopEndsEveryWait == stopper = "notify" ~> Exited
=============================================================================
