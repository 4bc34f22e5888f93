# A TLA+ verification of mrViewer: playback, reels and network

mrViewer is a flipbook and video player. Its own core logic, the part that is
neither a file format, nor a widget, nor a shader, is the playback engine: every
open image (`CMedia`) plays with up to four threads of its own (decode, video,
audio, subtitle) that meet in packet queues and at a barrier, while the user
interface starts, stops, seeks and loops them, and while other viewers on the
network do the same. This directory holds TLA+ models of that engine, the TLC
configurations that check them, and proofs that TLAPS checks.

Paths are relative to `src/mrViewer/src/` unless they start with `src/`.

## 1. Inventory

| component | source | state it keeps | operations | models |
|---|---|---|---|---|
| thread barrier | core/mrvBarrier.h | threshold, count, generation | wait, notify_all, threshold(x) | Barrier, Gate |
| waiting for packets | core/mrvPacketQueue.h, wait_image / wait_audio / wait_subtitle in core/CMedia.cpp, CMedia_audio.cpp, aviImage.cpp | a deque, a mutex and a condition per queue | push_back, pop_front, wait, the notifications of stop() | PacketWait |
| playback of a sequence | core/mrvPlayback.cpp, core/CMedia.cpp | `_playback`, `_frame`, `_threads`, the barriers, the local frame and step of each thread, the packets and loop markers | decode_thread, video_thread, handle_loop, check_loop, play, stop, seek, frame, loop_at_start/end, wait_for_threads | Playback |
| player commands | gui/mrvImageView.cpp, gui/mrvImageBrowser.cpp | the view's `_playback` and `_frame`, the command list with its mutex | timeout, handle_commands, play, stop, seek; step_frame, changing images | Playback (the first five), Reel (the rest), Sync (commands of the network) |
| network | core/mrvServer.cpp, core/mrvClient.cpp | per connection: socket, output queue, timer; the list of connections; `network_active` | deliver, await_output, start/handle_write, handle_read, parse, write, stop, remove | Session (the output of a connection), Sync (what the messages do) |
| packets of a movie | core/aviImage.cpp, core/CMedia_audio.cpp | position in the file, `_dts`, `_expected`, seek and preroll segments in two queues | seek_to_position, queue_packets, fetch, frame, do_seek, decode_video, decode_audio | Movie |
| stores | core/CMedia.cpp, CMedia_audio.cpp, aviImage.cpp | image and audio caches | limit_video_store, find_image, find_audio, and for sound alike | Movie (those of a movie) |
| reel and edit list | gui/mrvReel.cpp, gui/mrvTimeline.cpp, gui/mrvImageBrowser.cpp | images with positions and frames, marks, the current clip (twice: browser and view) | index, location, local_to_global, global_to_local, adjust_timeline, load, insert, remove, exchange, drag, pick, seek, step_frame | Reel |

How they interact. The decode thread pushes packets and loop markers (under the
mutex of a queue, with a notification); the video and audio threads sleep on
the queues and take packets; at the end of a clip all of them meet at the loop
barrier and each runs `handle_loop()`, which turns the direction (swing), stops
(no loop) or stops and leaves a `kSeek` command for the UI thread (loop). The UI
thread polls the commands from a timer with `commands_mutex` held, and `stop()`s
an image by setting a flag, breaking the barriers open, notifying the conditions
and joining the threads, each for a second at most. The network threads parse
messages into the same command list and send what the user does to the others.

What is hard here: flags that several threads read and write with no lock
(`_playback` is a single variable that all threads and the UI set); conditions
notified without their mutex; joins with a timeout that is not looked at; a
decode thread that runs ahead of the one that shows; commands served long after
they were given; a timer that is used as a condition variable. What makes each
component correct, in a sentence:

* barrier: nobody goes past it before all have come or somebody broke it open,
  and everybody does then;
* waiting: nobody sleeps while there is a packet, or after the end of playback;
* playback: every frame is shown, in order, until the end; a loop comes round
  for ever; when the view has stopped nothing of the playback is left; no seek
  meets a running thread;
* a movie: what is shown and heard is the frame of the moment, no packet is left
  out, and the threads, which throttle one another by the length of queues and
  stores, come to the end;
* a reel: the two ways from a frame of the view to a frame of a clip agree, and the
  browser and the view agree on the clip;
* a connection: what is delivered is sent, in order, once;
* viewers that are connected: messages come to an end, and then all show the same.

The parts of the program that are not modelled, and why, are in section 7.

## 2. Modules

Each module has one action per step that other threads can observe between, and
one variable per member that the code shares. Definitions keep the names of the
code where TLA+ allows it; `PROJECT.json` maps each of them to its lines.

**Gate** is the abstract barrier: threads gather, the last to come lets all of
them leave, `Break` lets them leave at any time. It has neither counter nor
generation.

**Barrier** is `mrv::barrier`: three unsigned counters that wrap at `UMax + 1`, the
local `gen` of a `wait()`, a condition variable with spurious wakeups, and
`threshold(x)`, which takes no lock and is therefore three steps: what it reads
(`SetThresholdRead`), the store of `m_threshold` (`SetThresholdStore`) and that of `m_count`
(`SetThresholdCount`), which a `wait()` or `notify_all()` under way at the same time may store
over (`SetThresholdLost`). `stored` is the window between the two stores. `Gathered` and
`Released` are the refinement mapping to `Gate`. `disturbed` is a history variable:
the last generation in which a resize met waiters or lost its count. `MCBarrier` adds the
symmetry.

**PacketWait** is the protocol on the mutex and the condition of each queue:
`Enter, Arm, Sleep, Relock, Leave` are the lines of `wait_image()` (and its copies),
`Decode` what decode_video() or decode_audio() takes, `Produce` a push,
`SeekLock, SeekPush, SeekUnlock` a seek that holds all mutexes, `StopBegin,
StopNotify, StopJoin, StopClear, Play` the calls of the UI thread. A queue is only
its length here: which packets a consumer takes is a choice.

**Playback** is the playback of an image sequence, in the foreground and outside
an edit list, that plays once, loops or swings (`looping`, chosen before it is
played): the decode and video threads of mrvPlayback.cpp line by line, and
the UI thread as the stages of a call (`ui` = "stop", "notify", "join", "shut",
"seek", "start"), because every call the user or a command makes is a
composition of `stop()`, `seek()` and `play()`. It takes the barrier from `Gate` and the
waiting of a consumer as an enabling condition (justified by Barrier and
PacketWait; the wakeup that `stop()` may lose is the matter of PacketWait alone).
A join that cannot succeed, because the threads are stuck or the image plays
again, ends in `ui = "timeout"`, where the model stops: what a thread does that
outlived its join is not modelled. Two things of the code have no effect in this
scope and are left out: the `_seek_req` branch of the threads (a seek finds the
image stopped, which is the theorem SeekIsAlone), and the packets that
`loop_at_end()` erases (only a movie queues packets past the end).

**Session** is the output of one connection of the server: an output actor made of
completion handlers that the network thread runs one by one (`Awake, Check,
Reset, Wait, StartWrite, Written, WriteFails`), and the deliveries and removals
that the UI thread makes in between. The mutex of a session covers `deliver()` and
`start_write()` and not the rest, as in the code. Boost.Asio is used by what its
documentation promises: a new expiry or a cancel ends the waits under way, whose
handlers then run.

**Movie** is a movie with one picture and one sound stream in one file, from the file to
what is shown: `File` is the sequence of packets that `av_read_frame()` gives, which are in
the order of their time stamps as far as the picture goes. The decode
thread asks for packets (`Request` is fetch() with its `_expected` discipline, `ReadPacket` the
loop of queue_packets(), `SeekResult` and `Commit` are seek_to_position() with its segments of
seek or preroll and their end); the video thread takes segments, markers and packets
(`VideoSeek`, `VideoPreroll`, `VideoMarker`, `VideoPacket`), sends them to a decoder that
is `Delay` packets behind, stores images, drops old ones (`Limited`, `LimitedByAge`) and
shows what find_image() finds; the audio thread likewise. `Scrub` is do_seek() of a
stopped movie, in which the UI thread decodes. A thread that works on a queue has its
mutex, so that decoding a segment is one step with it held. The barrier, `stop()` and
the joins are what Playback shows of them (`EndPass`, `Join`). `sought` is history: the next
frame shown was sought in the file. `MCMovie` is a file of two groups of three pictures.
Three details are left out. `loop_at_end()` drops packets from past the end of the
clip and the decoder's delay (core/CMedia.cpp:3913-3929, 3940-3959), which a file whose sound ends with
its picture does not have. A packet of a preroll whose samples are stored already is
decoded all the same into the buffer that the next samples are taken from
(core/CMedia_audio.cpp:2090-2096), so that, backwards, stored samples may be shifted; what is heard is
followed forwards only. And what a thread does with its queue's mutex held is one step.

**Reel** is one reel and what the UI thread makes of it with the clips stopped. A
command is a chain of calls that read what the calls before them left, so each is a
function from state to state (a record `r`) composed as the code composes it:
`Sought` is ImageBrowser::seek(), `Refreshed` adjust_timeline() and set_timeline(),
`MatchTreeOrder` the order of the tree, and the actions are the commands. Two
preferences are chosen at the start: `switching`, and `selection`, with which a mark also
moves the end of the slider (`MarkedMin`, `MarkedMax`). `edited` is history: a clip was taken out
or moved. `MCReel` has three clips, one a still.

**Sync** is a server and its clients. Each viewer has a UI thread, which makes the calls
(`Seek, Stop, Play, Zoomed`) of the user or of a command it serves with
commands_mutex held (`HandleCommand`), and a network thread, which parses a message
with that mutex held (`Parse, Answer` or `PushCommands, Parsed`) and in the server passes it on
(`Forward`). A link is a queue: Session shows that a connection keeps the order. Of a
view there is its frame, the frame of its image and whether it plays. `races` is
history: which of five races were lost (section 3).

`*_proofs` modules hold the theorems of section 6.

## 3. Runs that pass

| run | question | bounds, and why they are enough |
|---|---|---|
| barrier_loop | can anyone pass the barrier early, or stay behind, when it is used again and again? | 3 threads, 3 parties, 4 generations: a thread of generation n can meet generation n+2, which is all a stale `gen` can do |
| barrier_resize | what does the counter mean when threshold(x), in three unlocked steps, races with wait()? | 3 threads, thresholds 1 and 2 from 2, integers mod 8: the difference wraps and the threshold goes up and down |
| wait_serve | can a consumer sleep over a packet, or be kept from it by seeks? | 2 consumers, one of which may find its frame in a store, 2 packets per queue: the seek holds one mutex while it waits for the other |
| play_once | does a clip that is played end, and is nothing left over? | 3 frames, a read-ahead of 4 (more than the clip), 2 plays either way, a stop and a seek at any time |
| play_round | does the decode thread, which is ahead, ever turn the pass the video thread is in, and does a loop through the UI thread come round for ever? | 3 frames, read-ahead 3, loops and swings, 2 plays in either direction, a stop; both threads may queue a command |
| movie_play | is the frame of the moment shown and heard, and does a movie come to its end? | 6 frames in two groups of three (key frames 1 and 4) and sound behind each, so that a seek to 2, 5 or 6 has to decode on from a key frame; a decoder one packet behind; 2 packets, 2 images and 2 samples are enough to be full, so that each thread waits for each other one; 2 asks of the user (play either way, scrub to any frame) and stops |
| reel_edit | do the maps between frames agree, and does a seek land where it should, whatever was done to the reel? | clips of 2, 3 and 1 frames that start at frames 1, 11 and 4, two of them loaded; 5 commands of 22 kinds: enough to load a third, take one out, switch the edit list, mark and seek; steps by 1 and by 3 frames, more than a clip |
| session_output | is everything sent in order by one actor? | 4 messages, 2 delivering threads: a message can be written, one queued, one pushed and one lost to the race of section 4 |
| sync_share | do messages end, and do the viewers then agree? | a server and 2 clients, the least with somebody to pass a message on to; 2 frames; each of seven short sessions: two seeks, a seek or a play while a client connects (a seek also as the second), a play and a stop, a play and a seek, a seek and a fit, by any user at any time |

What they show, by property.

* `Rendezvous`, `EveryWaitReturns`, `ImplementsGate` (Barrier): the counter and the
  generation realise the gate.
* `CountMeansMissing`: outside of the two stores of a resize, and until one meets
  waiters or races with them, the counter is the number of threads that are missing; `NoSleeperLeftBehind`: a change of generation leaves
  nobody asleep, resized or not.
* `NoMissedPacket`, `WaitersAreServed`, `StopWakesSleepers` (PacketWait): the
  producer's side loses no wakeup, a seek that holds all mutexes delays the
  consumers only for its time, and who sleeps when `stop()` notifies does end.
* `QuietWhenStopped`: an idle view that is stopped has no thread, no packet, nobody
  at the barrier, and is at the frame of its image. `SeekFindsItStopped`: a seek of
  the UI thread never runs against a decode thread. `ClipEnds`: a clip that does not
  loop comes to the end it was sent to (or somebody stops it, or a join times out).
* `PassEndsAfterLastFrame`: the decode thread, which comes to the end of a pass
  first, stops or turns nothing before the video thread has shown the last frame;
  `NoFrameSkipped`: the image moves by one frame at a time, turns included;
  `MarkersOfThisPass`: the video thread never decodes with the markers of another
  pass in its queue.
* `ComesRound`: both ends of a clip in a loop are shown again and again, as long as
  nobody stops it; `ReadAheadGoesOn`: in such a loop a decode thread that waits for
  room gets it (in a swing it may not: `stall`, section 4).
* `SegmentsAreClosed` (Movie): a seek_end always comes with its beginning, which
  decode_audio() asserts; `PacketsInOrder`: playing forwards, nothing is left out of the
  queue and nothing is in it twice, whatever `_expected` spares; `ImagesBounded` and
  `ShowsFrame`: the store is limited by age, to its bound and what one packet brings, and yet
  never loses the image that is about to be shown; `ScrubShowsFrame`: nor does a stopped movie show the image of another
  frame, be it a key frame or not; both except only a frame that was sought, not played through, and is the last
  of its group (section 4); `SoundInStep`: the samples heard are those of the frame; `PassEndsAtTheEnd`:
  as in Playback; `MovieEnds`: the three threads never wait for one another for ever.
* `InOrder`, `ForegroundIsCurrent`, `LocalAndGlobalAgree` (Reel): clips do not overlap,
  the timeline goes from frame 1 to the end of the last one or, with the preference for the
  selection, from mark to mark; browser and view agree on the current clip, and the sum of durations that
  local_to_global() makes is the position that global_to_local() looks for, until a clip is
  taken out or moved; `LandsOnFrame`: a seek, a step or a change of clip leaves the clip
  of this frame in the foreground, at it; `SwitchKeepsFrame`: switching the edit list on or
  off keeps clip and frame; `StepsComeBack`: a step on and one back return.
* `MessagesEnd` (Sync): what the users do makes finitely many messages, though the
  server sends again what it does for a client; `NobodySilenced`: the two threads that
  switch network_active off and on never leave it off; `ViewersAgree`: once all is
  quiet, every client plays if the server does, and is at its frame if not. Five
  races of the code break it, each named by a history variable that the property
  excepts: *muted* (what a user does while the network thread parses is not sent),
  *overtook* (the server sends something between parsing a message and passing it on),
  *silenced* (fit_image() puts back, without the mutex, the network_active it found while
  a message was parsed), *stale* (a client that plays makes commands of a seek, the last
  of them to play on, while a command that stops it waits: the server, which got the two
  in the other order of playing and stopping, has stopped), *late* (who connects while the
  one or the other plays is told a frame, not that it plays). The least session in
  which *stale* is lost, a seek, a play and a stop with one client, has three million
  states and is beyond the run's bounds; the theorem of section 6 covers it. Where none is lost
  the property still depends on the server sending again what it does for a client, which
  its mutant takes away.
* `SentInOrder`, `OneActor`, `WritesSomething`, `SleeperSends` (Session): a peer gets what was
  delivered in order and once; an open connection has exactly one output actor, whose
  queue is not empty when it writes or pops; a delivery that finds it asleep is sent.

Every property of these runs has a mutant: a changed definition of the code
(kept next to the original and marked as such) under which TLC finds it violated.

## 4. Runs that TLC refutes

Each states what a comment or the change log says, and TLC finds a behaviour of
the code that does otherwise.

| run | what it shows |
|---|---|
| wait_stop | `stop()` sets `_playback` and notifies with no mutex held (core/CMedia.cpp:2929). A consumer between its test and its sleep is not woken again: the join times out. |
| selfjoin | In a loop both threads may find the clip at its end and each wants to leave a `kSeek`. The UI thread serves the first with `commands_mutex` held and joins the second thread, which waits for that mutex (core/mrvPlayback.cpp:501): the join times out and the thread is given up. |
| stall | In a swing the decode thread may turn and fill the queue for the way back before the video thread, past the same barrier, empties it (core/mrvPlayback.cpp:1192). In a clip no longer than the read-ahead nothing more is ever queued, and in a longer one the decode thread then finds the memory full, counted from a frame that no longer moves: both threads wait. play_round checks the order of what a swing shows, which holds all the same, and not that it goes on. |

selfjoin is an invariant; the others are liveness counterexamples and are found
under the fairness of section 5.

More was seen while modelling. The properties of section 3 except it, as their
comments say; what they leave out is listed here.

* Playback. The `kSeek` of a loop is served after the user has stopped the clip, which
  then jumps to its other end (core/mrvPlayback.cpp:506). With marks, `check_loop()`
  compares with them and returns the ends of the clip (:283), so that a loop leaves the
  marks and `ComesRound` fails. When the user changes the way of looping while the
  threads turn, they may turn differently (:386). A memory of no more than two frames
  makes both threads wait for one another (core/CMedia.cpp:3050; `ThrottledEarly`).
* Session. A message delivered when `await_output()` has found the queue empty and not yet
  reset its timer waits for the next delivery (core/mrvServer.cpp:1938).
* Movie. stop() clears the packets and not `_expected`, so that a step right after it reads
  on with packets missing and shows an older image (core/CMedia.cpp:2938). A seek to the
  frame before a key frame goes to the key frame (core/aviImage.cpp:1018): another image is
  shown.
* Barrier. Between the two stores of threshold(x) (core/mrvBarrier.h:58-60) used() and
  is_active() are wrong with nobody waiting, and a resize that races with a wait() may lose
  its count.
* Reel. Taking a clip out of the middle leaves a gap that local_to_global() does not count
  and global_to_local() does (gui/mrvImageBrowser.cpp:5153, gui/mrvReel.h:58). In an
  edit list, first_frame() and last_frame() set the frame of the view and then seek it,
  which is no seek at all (gui/mrvImageView.cpp:11079, :11111). A step back by more than a
  frame from near the start goes past the end (:11012). Marks are taken back to those
  of another clip (gui/mrvTimeline.cpp:127), and after a switch to a clip that starts
  later the timeline starts at the last frame of the clip before (:173).
* Sync. The server sends what it does for a client to all of them, the one it came from
  too (gui/mrvImageView.cpp:3747), while core/mrvServer.cpp:1898 says that one is skipped:
  it is skipped when the message is passed on, but not when it is served. A seek
  of a view that plays is sent as a seek, a stop at the old frame and a play, so that
  the others play on from the old frame (gui/mrvImageBrowser.cpp:4851). The sync_image
  of a new client is passed on to the others, whose answers, made of their own frames,
  undo a seek of the server's user; and a new client is not told that the server plays.
  src/docs/HISTORY.txt:147 says that connections no longer deactivate themselves: the
  race of fit_image() is left.

## 5. Fairness

* Barrier: a thread that is awake runs, and a playing thread comes back to the
  barrier. Nobody has to break it open, and a spurious wakeup need not come.
* PacketWait: a thread that can run does (weak fairness); a mutex that is given back
  again and again is at some time given to a thread that wants it, and the frame a
  consumer is at moves on, so that what is queued is taken in the end (strong
  fairness). The user need not stop, the producer need not push or seek, but a
  seek or a stop that began goes on.
* Playback: weak fairness of each thread, and of the UI thread's own steps (its event
  loop and timer come round). The user need not do anything. Nothing is assumed about
  the order of threads.
* Movie: weak fairness of the video and audio threads and of what ends a pass; strong
  fairness of the decode thread, because the mutexes of the queues it needs are free again
  and again, not for good, while the other two work. The user need not do anything.
* Sync: weak fairness of the UI thread and of the network thread of each viewer, and
  of the server's acceptor. Users need not act, clients need not connect, and a
  playback need not go on.
* Reel has no fairness: its commands end in the step they are given in.
* Session: the network thread runs the handlers that are due, a write ends, a
  `deliver()` that began ends. Strong fairness where messages to forward may take the
  network thread again and again, since Asio runs its handlers in the order they came.

Deadlock is checked in wait_serve; elsewhere the system may stop (a clip that has
ended, a user that does nothing, a connection that is closed, or the bound on the
generations), and the cfg says so.

## 6. Proofs

TLC checks small instances; these theorems hold for every value of the constants
that satisfies the assumption named in the module. All are proved by `tlapm` with
Z3, Zenon and LS4, and nothing is taken on trust.

**Barrier_proofs.** Any finite set of threads, number of parties, thresholds, and
width of the integers. `IInv` joins typing, what the counter means in an undisturbed
generation outside of the two stores of a resize, and that a thread of an older generation is awake. The counter alone is not
inductive: it needs that generations only grow past those the threads remember.
`RendezvousHolds` follows because the last to come finds count = 1, that is, all
others gathered. `Refinement` is the safety part of `ImplementsGate`: with no resize,
each step of the code is a step of the gate or leaves it unchanged.

**PacketWait_proofs.** Any number of queues and any orders of locking and notifying.
`IInv` adds to typing that each mutex has one owner (`MutexInv`), that nobody is armed or
asleep over a packet, and that all consumers have ended once the threads are joined.
The point of the argument: a consumer holds the mutex from its test to its sleep,
so a push falls before the test or after the sleep, and then it wakes.

**Playback_proofs.** Any clip, marks, way of looping, read-ahead and number of plays,
stops and seeks. `IInv` consists of typing; what the local variables are where they
are used (`LocalsFit`); that who is at the barrier is in its `wait()` (`GateInv`); that the
last thread to end leaves the image stopped and no thread object is dropped
before all have ended (`GoneInv`); and how far the UI thread is with what it was asked
to do (`JobInv`). `StoppedIsQuiet` and `SeekIsAlone` follow. They hold up to a join that
times out, where the model stops.

**Session_proofs.** Any number of messages. The messages in flight and queued are
those after what was sent, and there is exactly one incarnation of the output actor
(a wait, an ended wait, a write or a running handler); from the latter,
the front of the queue is there whenever it is written or popped.

**Playback_pass_proofs.** Any clip without marks, any way of looping and read-ahead. `PInv`
says whether a thread's place fits its frame (`OutOfLoop`), why a thread may leave its
loop (`EndInv`), that the video thread is at most a frame from what is shown
(`NearInv`), and which pass each thread is in (`PassInv`): the two are in the same one, or one is
past the barrier and the other has turned. `MarkersAreFresh`, `EveryFrameShown` and
`PassEndsInTime` follow. With marks they are false (section 4), which is why `Unmarked` is
a hypothesis.

**Movie_proofs.** Any file whose pictures come in the order of their frames, any
interleaving with the sound, any decoder delay and bounds. The invariant has four parts.
`Control`: places and frames are of their kind, a movie that plays has threads, nobody
else decodes while the UI thread scrubs, the video thread is at the frame shown or at the
next one (`OneStepAhead`), shows frames of the clip and waits at the barrier with another.
`Data`: the types, both queues consist of closed segments, and the decoder holds at most
`Delay` pictures. `Order`, forwards: the pictures in the queue follow one another up to
the last one read from the file (`Chained`), `expected` is the frame the decode thread asks
for next, and a beginning is only ever the first thing in the queue (`Fresh`), so that what
play() sought is handled before the frame moves. `Room`, forwards: what is stored between
two frames shown. `PacketsInOrder` alone is not inductive: it needs `Chained` to tie the queue
to the place in the file, and `expected` to exclude a second seek. While the loop of
queue_packets() runs, the queues are in neither state: `Ready(q, open)` says that a queue is
closed but for a segment begun and not yet ended, and `Through` what the whole
loop makes of it. The theorems are `TypeIsCorrect`, `SegmentsHaveEnds`, `PicturesInOrder`,
`StoreIsBounded`, and, from `Control` alone, `PassIsShown` and `MovesByOneFrame`.

**Sync_proofs.** Any clients, clip and sessions. `TypeCorrect` says in particular that
every frame on the way is one of the clip. For `NobodyIsSilenced`, commands_mutex has one
owner (`OneOwner`), and whoever finds network_active off finds the thread that is to
switch it on again (`OffForATime`): `handle_commands()` saves the value with the mutex held,
so that it never saves what `parse()` has set.

`ViewersWillAgree` says that all agree once nothing is under way, which is inductive only
as a statement about everything that is. `Ahead(c)` is all that client c will still do for the
server, in that order: the calls it is in, its commands, the message it parses and those on the
way to it. A sequence has a last word on whether the view plays (`Plays`) and on which frame it
shows (`Shows`), and the lemmas say what becomes of it when sequences are joined, cut or
replaced by what is made of them (`CallsSay`, `CommandsSay`). The invariant, `WillAgree(c)`: unless
something that the server has still to do or to hear from c (`Said`) will change whether
the server plays, the last word of `Ahead(c)` is that c plays if and only if the server does;
and likewise for the frame. A call of the server takes from `Said` and adds to `Ahead` at once;
a client's own call changes the client and adds to `Said`, which leaves the conclusion open
until the server has done it and said so to all, this client included. A message that is
passed on adds something to `Ahead` that the server does not do in that step, so it must be
something the server will say after it, or has done to no effect (`Passing`): this is where a
message of the server in between, the race *overtook*, breaks it. The rest says who talks to
whom (`Wired`), what a client that connects has sent (`Waiting`), that what stops a view for
others is followed by a frame (`StopsThenSeeks`), and that only the server sends what it does for
others (`ServesInTurn`, from `OffForATime` and `ZoomsAlone`). The absence of each of the five races
is used in a step of the proof: *muted* in `Sent`, *overtook* in `KeepsPassing`,
*silenced* in `KeepsTurns`, *stale* in `ClientPushes`, *late* in `KeepsWaiting` and
`ConnectionAgrees`. The theorem covers the sessions that are too large for TLC (section 3).

**Reel_proofs.** Any number of clips of any lengths, and any commands. A command is a
composition of functions on a record, so the invariant is a predicate of that record, and
each function has a lemma that says what it keeps. A reel is `Good`: the view shows one of its
clips (`Whole`), the browser knows its place (`Current`), and an edit list is in order, with
the timeline from its start to its end, or from mark to mark (`Settled`). Until a clip is taken out or moved it is
`Near` too: no clip is past the place it has in a reel without gaps, which keeps a
reel that is not an edit list ready to become one. `TypeIsCorrect`, `ClipsAreInOrder`,
`ViewShowsItsClip` and `FramesAgree` are the invariants of the run; `MovesLandOnFrames`,
`SwitchesKeepFrames` and `StepIsUndone` its action properties, the last by the modular
arithmetic of step_frame(), in every state.

**Loops.** The loops of the code over packets, images and clips are recursive functions of
the model. What one of them computes is shown once, by a lemma that gives the
sequence of its steps, and a set of numbers that has 0 and each successor has every number
(`SetInduction`, from the well-foundedness of `<`, which the library states of a set and
not of an operator).

Only model-checked: all liveness properties (fairness and ENABLED are out of the
prover's reach), the findings, what is shown and heard of a movie (`ShowsFrame`,
`ScrubShowsFrame`, `SoundInStep`: they hold of files with sound for every frame and of
stores that are not smaller than what the decoder gives back at once, and would need an
invariant on the contents of the stores). The types of Barrier, PacketWait, Playback and Session are
proved and no longer among their runs' invariants.

## 7. What is not modelled, and why

Most of the source is not control: of its lines, the greater part draws, lays out
windows, reads and writes files through libraries, or converts pixels. The modules
cover the part that decides what is shown and when.

* Playback: audio and subtitle threads, the right eye of a stereo pair and the
  background reel, which meet at the same barriers with other counts (the audio
  thread is in Movie); the edit list's change of clip at the fg_bg barrier.
* Movie: subtitles, a second file for the sound (with its offset, whose seek leaves the
  beginning of a segment out, core/aviImage.cpp:1127), loops (Playback has them), the
  right eye, jumps; the store of a sequence and the search for a missing frame on disk.
* Reel: cutting, trimming and sliding clips in the EDL window, transitions, several reels, the
  background reel; clips that are opened twice or change their range.
* Sync: the other kinds of messages (each sets a value of the view), a connection that is
  closed while others go on, `server::remove()`'s list, and the deadline of an attempt to
  connect; the delivery of the single messages is Session's.
* Session: the deque under a real data race (push and pop at its two ends are taken as
  atomic).
* image, movie and audio formats, savers, OpenTimelineIO, libAMF and libACESclip:
  decoding through third-party libraries, data rather than control.
* pixels, colour, timecode and drawing: floating point and OpenGL, one thread.
* widgets, preferences, translations, build: callbacks of a single thread, layout, data.
* audio engines: they block for the time of the samples.

## 8. What is left

In the order of what matters most to the viewer.

1. Marks and a change of the way of looping during playback, once the code turns one way:
   the hypotheses `Unmarked` and `looping` of Playback then go.
2. A list of connections in Sync that shrinks, with `server::remove()` going over it.
3. The edit list in Playback: `handle_loop()` moves to the next clip over the fg_bg barrier,
   composed with Reel's positions.
4. A second file for the sound in Movie, and the cache of an image sequence.
5. `ShowsFrame` as a theorem, from an invariant on the contents of the stores of a movie.
