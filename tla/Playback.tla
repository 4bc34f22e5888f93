------------------------------ MODULE Playback ------------------------------
(***************************************************************************)
(* The playback of an image sequence in the foreground, outside an edit    *)
(* list: CMedia's play(), stop() and seek(), the decode thread, which runs *)
(* ahead and queues a packet per frame, the video thread, which takes a    *)
(* packet and shows a frame, and the UI thread, which serves the user and  *)
(* the commands that the two leave for it.  The loop barrier is the Gate   *)
(* that module Barrier implements; how a consumer sleeps on an empty queue *)
(* is the matter of module PacketWait, and is an enabling condition here.  *)
(*                                                                         *)
(* An action is what a thread does between two accesses to what the others *)
(* share.  A join that cannot succeed ends in "timeout", where the model   *)
(* stops: what a thread does that outlived its join is left out.           *)
(***************************************************************************)
EXTENDS Integers, Sequences

CONSTANTS
  First, Last,       \* first_frame(), last_frame(): the range of the clip
  MarkIn, MarkOut,   \* display_minimum(), display_maximum() of the timeline
  Loopings,          \* what the view may loop: "NoLoop", "Loop" or "PingPong"
  Ahead,             \* max_image_frames(), once the image memory is full
  Plays, Stops, Seeks  \* bounds on what the user does

ASSUME PlaybackAssumption ==
  /\ First \in Int /\ Last \in Int /\ First <= Last
  /\ MarkIn \in First..Last /\ MarkOut \in MarkIn..Last
  /\ Loopings \subseteq {"NoLoop", "Loop", "PingPong"}
  /\ Ahead \in Nat
  /\ Plays \in Nat /\ Stops \in Nat /\ Seeks \in Nat

kForwards == 1
kBackwards == -1
kStopped == 0

Playing == {kBackwards, kForwards}
Clip == First..Last

\* The threads of a sequence without audio or subtitles.
Players == {"video", "decode"}

VARIABLES
  playback,      \* CMedia::_playback
  viewPlayback,  \* ImageView::_playback
  viewFrame,     \* ImageView::_frame
  imgFrame,      \* CMedia::_frame
  packets,       \* _video_packets: frames and the two kinds of loop marker
  gathering, leaving,  \* the loop barrier
  threads,       \* _threads: "none" or "started"
  pc,            \* where each thread is
  frame, step,   \* its local variables
  commands,      \* ImageView::commands: the frames of the kSeek's
  cmdOwner,      \* who holds commands_mutex between two steps: "none" or "ui"
  ui,            \* where the UI thread is
  job,           \* what it is doing: "stop", "seek" or "play"
  target,        \* the frame of the seek under way
  resume,        \* the direction to play in after it
  looping,       \* ImageView::looping(), chosen before the clip is played
  left           \* the plays, stops and seeks the user may still ask for

gate == <<gathering, leaving>>
locals == <<pc, frame, step>>
view == <<viewPlayback, viewFrame>>
mail == <<commands, cmdOwner>>
user == <<looping, left>>
uiVars == <<ui, job, target, resume, user>>
vars == <<playback, view, imgFrame, packets, gate, threads, locals, mail, uiVars>>

G == INSTANCE Gate WITH Threads <- Players, Parties <- 2

VideoPlaces == {"top", "wait", "step", "decode", "show", "gate", "gated", "clear",
                "handle", "loop", "break", "push", "turn", "quit", "exited"}
DecodePlaces == {"top", "step", "mark", "gate", "gated", "handle", "loop", "break",
                 "push", "again", "frame", "quit", "exited"}

Packet == [kind : {"frame", "loopStart", "loopEnd"}, dts : (First - 2)..(Last + 2)]
Budget == [play : 0..Plays, stop : 0..Stops, seek : 0..Seeks]

TypeOK ==
  /\ playback \in Playing \cup {kStopped}
  /\ viewPlayback \in Playing \cup {kStopped}
  /\ viewFrame \in Clip
  /\ imgFrame \in Clip
  /\ packets \in Seq(Packet)
  /\ gathering \subseteq Players
  /\ leaving \subseteq Players
  /\ threads \in {"none", "started"}
  /\ pc \in [Players -> VideoPlaces \cup DecodePlaces]
  /\ pc["video"] \in VideoPlaces /\ pc["decode"] \in DecodePlaces
  /\ frame \in [Players -> Int]
  /\ step \in [Players -> Playing \cup {kStopped}]
  /\ commands \in Seq(Clip)
  /\ cmdOwner \in {"none", "ui"}
  /\ ui \in {"idle", "stop", "notify", "join", "shut", "seek", "start", "timeout"}
  /\ job \in {"stop", "seek", "play"}
  /\ target \in Clip
  /\ resume \in Playing \cup {kStopped}
  /\ looping \in Loopings
  /\ left \in Budget

\* An image has been loaded, and the user has moved to one of the frames between
\* the marks.
Init ==
  /\ playback = kStopped
  /\ viewPlayback = kStopped
  /\ viewFrame \in MarkIn..MarkOut
  /\ imgFrame = viewFrame
  /\ packets = <<>>
  /\ G!GateInit
  /\ threads = "none"
  /\ pc = [t \in Players |-> "exited"]
  /\ frame = [t \in Players |-> First]
  /\ step = [t \in Players |-> kStopped]
  /\ commands = <<>>
  /\ cmdOwner = "none"
  /\ ui = "idle"
  /\ job = "stop"
  /\ target = First
  /\ resume = kStopped
  /\ left = [play |-> Plays, stop |-> Stops, seek |-> Seeks]
  /\ looping \in Loopings

-----------------------------------------------------------------------------
stopped == playback = kStopped

At(t, place) == pc[t] = place
Goto(t, place) == pc' = [pc EXCEPT ![t] = place]

\* check_loop(): has this frame left the range that is played?
LoopEnd(f) == f > MarkOut
LoopStart(f) == ~LoopEnd(f) /\ f < MarkIn
InLoop(f) == ~LoopEnd(f) /\ ~LoopStart(f)

\* The frame handle_loop() goes back to from a frame at one of the ends.
Wrapped(f) == IF LoopEnd(f) THEN First ELSE Last
ReflectedWrong(f) == IF LoopEnd(f) THEN First ELSE Last   \* mutant: swapped
Reflected(f) == IF LoopEnd(f) THEN Last ELSE First
Reversed(f) == IF LoopEnd(f) THEN kBackwards ELSE kForwards

\* while ( !img->stopped() && view->playback() != kStopped )
Running == ~stopped /\ viewPlayback # kStopped

-----------------------------------------------------------------------------
\* The video thread.

\* The exit of a loop, in both threads.
Quit(t) ==
  /\ At(t, "top")
  /\ ~Running
  /\ Goto(t, "quit")
  /\ UNCHANGED <<playback, view, imgFrame, packets, gate, threads, frame, step, mail, uiVars>>

VideoTop ==
  /\ At("video", "top")
  /\ Running
  /\ Goto("video", "wait")
  /\ UNCHANGED <<playback, view, imgFrame, packets, gate, threads, frame, step, mail, uiVars>>

\* wait_image(): until there is a packet or the image is stopped.
WaitImage ==
  /\ At("video", "wait")
  /\ stopped \/ packets # <<>>
  /\ Goto("video", "step")
  /\ UNCHANGED <<playback, view, imgFrame, packets, gate, threads, frame, step, mail, uiVars>>

\* int step = (int) img->playback();  if ( step == 0 ) break;
VideoStep ==
  /\ At("video", "step")
  /\ step' = [step EXCEPT !["video"] = playback]
  /\ Goto("video", IF stopped THEN "quit" ELSE "decode")
  /\ UNCHANGED <<playback, view, imgFrame, packets, gate, threads, frame, mail, uiVars>>

\* decode_video(): what it leaves in the queue.  A marker stays until the frame
\* it was put at is reached.
Decoded(f) ==
  IF \/ packets = <<>>
     \/ Head(packets).kind = "loopEnd" /\ f < Head(packets).dts
     \/ Head(packets).kind = "loopStart" /\ f > Head(packets).dts
    THEN packets
    ELSE Tail(packets)

\* What decode_video() returns is overwritten by check_loop().
DecodeVideo ==
  /\ At("video", "decode")
  /\ packets' = Decoded(frame["video"])
  /\ Goto("video", IF InLoop(frame["video"]) THEN "show" ELSE "gate")
  /\ UNCHANGED <<playback, view, imgFrame, gate, threads, frame, step, mail, uiVars>>

\* find_image( frame ), view->frame( frame ), frame += step.
Show ==
  /\ At("video", "show")
  /\ imgFrame' = frame["video"]
  /\ viewFrame' = frame["video"]
  /\ frame' = [frame EXCEPT !["video"] = @ + step["video"]]
  /\ Goto("video", "top")
  /\ UNCHANGED <<playback, viewPlayback, packets, gate, threads, step, mail, uiVars>>

\* Mutant: the video thread that keeps its queue.
KeepVideo ==
  /\ At("video", "clear")
  /\ Goto("video", "handle")
  /\ UNCHANGED <<playback, view, imgFrame, packets, gate, threads, frame, step, mail, uiVars>>

\* clear_video_packets(), past the loop barrier.
ClearVideo ==
  /\ At("video", "clear")
  /\ packets' = <<>>
  /\ Goto("video", "handle")
  /\ UNCHANGED <<playback, view, imgFrame, gate, threads, frame, step, mail, uiVars>>

\* After a change of direction, if ( fg ) view->playback( step ).
Turn ==
  /\ At("video", "turn")
  /\ viewPlayback' = step["video"]
  /\ Goto("video", "top")
  /\ UNCHANGED <<playback, viewFrame, imgFrame, packets, gate, threads, frame, step, mail, uiVars>>

-----------------------------------------------------------------------------
\* The loop barrier and handle_loop(), in both threads.

\* Where a thread goes from the barrier and from handle_loop().
PastGate(t) == IF t = "video" THEN "clear" ELSE "handle"
PastLoop(t) == IF t = "video" THEN "top" ELSE "again"

\* Mutant: no barrier.
ArriveUnheld(t) ==
  /\ At(t, "gate")
  /\ Goto(t, PastGate(t))
  /\ UNCHANGED <<playback, view, imgFrame, packets, gate, threads, frame, step, mail, uiVars>>

\* barrier->wait(): held until the other thread comes, or the last to come.
Arrive(t) ==
  /\ At(t, "gate")
  /\ \/ G!Hold(t) /\ Goto(t, "gated")
     \/ G!Complete(t) /\ Goto(t, PastGate(t))
  /\ UNCHANGED <<playback, view, imgFrame, packets, threads, frame, step, mail, uiVars>>

Pass(t) ==
  /\ At(t, "gated")
  /\ G!Leave(t)
  /\ Goto(t, PastGate(t))
  /\ UNCHANGED <<playback, view, imgFrame, packets, threads, frame, step, mail, uiVars>>

\* handle_loop() does nothing for an image that is stopped.  The test and what
\* follows it are two steps.
HandleLoop(t) ==
  /\ At(t, "handle")
  /\ Goto(t, IF stopped \/ InLoop(frame[t]) THEN PastLoop(t) ELSE "loop")
  /\ UNCHANGED <<playback, view, imgFrame, packets, gate, threads, frame, step, mail, uiVars>>

EndOfClip(t) ==
  /\ At(t, "loop")
  /\ looping = "NoLoop"
  /\ playback' = kStopped
  /\ Goto(t, PastLoop(t))
  /\ UNCHANGED <<view, imgFrame, packets, gate, threads, frame, step, mail, uiVars>>

Swing(t) ==
  /\ At(t, "loop")
  /\ looping = "PingPong"
  /\ step' = [step EXCEPT ![t] = Reversed(frame[t])]
  /\ playback' = Reversed(frame[t])
  /\ frame' = [frame EXCEPT ![t] = Reflected(@)]
  /\ Goto(t, IF t = "video" THEN "turn" ELSE "again")
  /\ UNCHANGED <<view, imgFrame, packets, gate, threads, mail, uiVars>>

\* A loop stops the image, breaks the barriers open and has the UI thread seek
\* back to the other end, which starts the threads anew.
LoopStop(t) ==
  /\ At(t, "loop")
  /\ looping = "Loop"
  /\ packets' = <<>>
  /\ playback' = kStopped
  /\ frame' = [frame EXCEPT ![t] = Wrapped(@)]
  /\ Goto(t, "break")
  /\ UNCHANGED <<view, imgFrame, gate, threads, step, mail, uiVars>>

LoopBreak(t) ==
  /\ At(t, "break")
  /\ G!Break
  /\ Goto(t, "push")
  /\ UNCHANGED <<playback, view, imgFrame, packets, threads, frame, step, mail, uiVars>>

LoopPush(t) ==
  /\ At(t, "push")
  /\ cmdOwner = "none"
  /\ commands' = Append(commands, frame[t])
  /\ Goto(t, PastLoop(t))
  /\ UNCHANGED <<playback, view, imgFrame, packets, gate, threads, frame, step, cmdOwner, uiVars>>

\* The end of both threads: playback( kStopped ) ...
Exit(t) ==
  /\ At(t, "quit")
  /\ playback' = kStopped
  /\ G!Break
  /\ Goto(t, "exited")
  /\ UNCHANGED <<view, imgFrame, packets, threads, frame, step, mail, uiVars>>

-----------------------------------------------------------------------------
\* The decode thread.

DecodeTop ==
  /\ At("decode", "top")
  /\ Running
  /\ Goto("decode", "step")
  /\ UNCHANGED <<playback, view, imgFrame, packets, gate, threads, frame, step, mail, uiVars>>

\* step = playback(), frame += step, check_decode_loop().
DecodeStep ==
  /\ At("decode", "step")
  /\ step' = [step EXCEPT !["decode"] = playback]
  /\ frame' = [frame EXCEPT !["decode"] = @ + playback]
  /\ Goto("decode", IF stopped THEN "quit"
                    ELSE IF InLoop(frame["decode"] + playback) THEN "frame" ELSE "mark")
  /\ UNCHANGED <<playback, view, imgFrame, packets, gate, threads, mail, uiVars>>

\* Mutant: no marker.
MarkersForgotten(f) == <<>>

\* loop_at_end( last+1 ) and ( last+2 ), or loop_at_start( first-1 ) and
\* ( first-2 ).  The packets loop_at_end() erases first are those of a movie,
\* whose reader runs past the end: a sequence queues none.
Markers(f) ==
  IF LoopEnd(f)
    THEN << [kind |-> "loopEnd", dts |-> Last + 1], [kind |-> "loopEnd", dts |-> Last + 2] >>
    ELSE << [kind |-> "loopStart", dts |-> First - 1], [kind |-> "loopStart", dts |-> First - 2] >>

Mark ==
  /\ At("decode", "mark")
  /\ packets' = packets \o Markers(frame["decode"])
  /\ Goto("decode", "gate")
  /\ UNCHANGED <<playback, view, imgFrame, gate, threads, frame, step, mail, uiVars>>

\* if ( img->stopped() ) continue;
Again ==
  /\ At("decode", "again")
  /\ Goto("decode", IF stopped THEN "top" ELSE "frame")
  /\ UNCHANGED <<playback, view, imgFrame, packets, gate, threads, frame, step, mail, uiVars>>

\* frame(): true unless the image memory is full and the frame too far from
\* the one that is shown.
Abs(n) == IF n < 0 THEN -n ELSE n
ThrottledEarly(f) == Abs(f - imgFrame) + 1 >= Ahead   \* mutant: off by one
Throttled(f) == Abs(f - imgFrame) >= Ahead
Clamped(f) == IF f < First THEN First ELSE IF f > Last THEN Last ELSE f

QueueFrame ==
  /\ At("decode", "frame")
  /\ ~Throttled(frame["decode"])
  /\ packets' = Append(packets, [kind |-> "frame", dts |-> Clamped(frame["decode"])])
  /\ Goto("decode", "top")
  /\ UNCHANGED <<playback, view, imgFrame, gate, threads, frame, step, mail, uiVars>>

\* while ( !img->frame( frame ) ): if ( img->stopped() || ... ) break;
GiveUpFrame ==
  /\ At("decode", "frame")
  /\ Throttled(frame["decode"])
  /\ ~Running
  /\ Goto("decode", "top")
  /\ UNCHANGED <<playback, view, imgFrame, packets, gate, threads, frame, step, mail, uiVars>>

-----------------------------------------------------------------------------
\* The UI thread: CMedia::stop(), which all that it does goes through.

player == <<viewFrame, imgFrame, packets, gate, threads, locals>>

\* if ( _playback == kStopped && _threads.empty() ) return; ...
\* _playback = kStopped;
StopBegin ==
  /\ ui = "stop"
  /\ IF stopped /\ threads = "none"
       THEN ui' = (IF job = "play" THEN "start" ELSE "shut") /\ UNCHANGED playback
       ELSE ui' = "notify" /\ playback' = kStopped
  /\ UNCHANGED <<viewPlayback, player, mail, job, target, resume, user>>

\* notify_barriers().
StopNotify ==
  /\ ui = "notify"
  /\ G!Break
  /\ ui' = "join"
  /\ UNCHANGED <<playback, view, imgFrame, packets, threads, locals, mail, job, target, resume, user>>

Exited == \A t \in Players : At(t, "exited")

\* Mutant: a stop() that does not wait for the threads.
StopUnjoined ==
  /\ ui = "join"
  /\ threads' = "none"
  /\ packets' = <<>>
  /\ ui' = IF job = "play" THEN "start" ELSE "shut"
  /\ UNCHANGED <<playback, view, imgFrame, gate, locals, mail, job, target, resume, user>>

\* wait_for_threads(), clear_packets().
StopJoin ==
  /\ ui = "join"
  /\ Exited
  /\ threads' = "none"
  /\ packets' = <<>>
  /\ ui' = IF job = "play" THEN "start" ELSE "shut"
  /\ UNCHANGED <<playback, view, imgFrame, gate, locals, mail, job, target, resume, user>>

\* A thread that cannot go on, whatever the other one does.
Stuck(t) ==
  \/ At(t, "exited")
  \/ At(t, "gated") /\ t \in gathering
  \/ At(t, "push") /\ cmdOwner = "ui"
  \/ At(t, "wait") /\ ~stopped /\ packets = <<>>
  \/ At(t, "frame") /\ Throttled(frame[t]) /\ Running

\* timed_join() gives up after a second: the threads are stuck, or the image is
\* playing again behind the back of stop().
StopTimeout ==
  /\ ui = "join"
  /\ ~Exited
  /\ ~stopped \/ \A t \in Players : Stuck(t)
  /\ ui' = "timeout"
  /\ UNCHANGED <<playback, viewPlayback, player, mail, job, target, resume, user>>

\* The UI thread goes back to its event loop; a command that was served leaves
\* the queue, and the last one gives commands_mutex back.
Done ==
  /\ ui' = "idle"
  /\ IF cmdOwner = "ui"
       THEN /\ commands' = Tail(commands)
            /\ cmdOwner' = IF Len(commands) = 1 THEN "none" ELSE "ui"
       ELSE UNCHANGED mail

\* The rest of stop_playback(): frame( img->frame() ), playback( kStopped ).
Shut ==
  /\ ui = "shut"
  /\ viewFrame' = imgFrame
  /\ viewPlayback' = kStopped
  /\ IF job = "seek" THEN ui' = "seek" /\ UNCHANGED mail ELSE Done
  /\ UNCHANGED <<playback, imgFrame, packets, gate, threads, locals, job, target, resume, user>>

\* Mutant: a seek that does not play again.
SeekImageOnly ==
  /\ ui = "seek"
  /\ G!Break
  /\ imgFrame' = IF stopped THEN target ELSE imgFrame
  /\ Done
  /\ UNCHANGED <<playback, view, packets, threads, locals, job, target, resume, user>>

\* The rest of ImageBrowser::seek(): img->seek( f ), and play again.
SeekImage ==
  /\ ui = "seek"
  /\ G!Break
  /\ imgFrame' = IF stopped THEN target ELSE imgFrame
  /\ IF resume # kStopped
       THEN ui' = "stop" /\ job' = "play" /\ viewPlayback' = resume /\ UNCHANGED mail
       ELSE Done /\ UNCHANGED <<job, viewPlayback>>
  /\ UNCHANGED <<playback, viewFrame, packets, threads, locals, target, resume, user>>

\* The rest of CMedia::play(): a new barrier and new threads.
Start ==
  /\ ui = "start"
  /\ playback' = resume
  /\ packets' = <<>>
  /\ gathering' = {} /\ leaving' = {}
  /\ pc' = [t \in Players |-> "top"]
  /\ frame' = [t \in Players |-> imgFrame]
  /\ step' = [t \in Players |-> resume]
  /\ threads' = "started"
  /\ Done
  /\ UNCHANGED <<view, imgFrame, job, target, resume, user>>

-----------------------------------------------------------------------------
\* What the UI thread is asked to do: by the user ...

Idle == ui = "idle" /\ cmdOwner = "none"
Spend(what) ==
  left[what] > 0 /\ left' = [left EXCEPT ![what] = @ - 1] /\ UNCHANGED looping


\* ImageView::stop().
UserStop ==
  /\ Idle
  /\ viewPlayback # kStopped
  /\ Spend("stop")
  /\ ui' = "stop"
  /\ job' = "stop"
  /\ UNCHANGED <<playback, viewPlayback, player, mail, target, resume>>

\* ImageView::play(), and the test CMedia::play() begins with.
UserPlay(dir) ==
  /\ Idle
  /\ Spend("play")
  /\ viewPlayback' = dir
  /\ resume' = dir
  /\ job' = "play"
  /\ ui' = IF dir = playback /\ threads = "started" THEN "idle" ELSE "stop"
  /\ UNCHANGED <<playback, player, mail, target>>

\* Mutant: a seek that does not stop the view.
SeekUnstopped(f) ==
  /\ f # viewFrame
  /\ viewFrame' = f
  /\ target' = f
  /\ resume' = viewPlayback
  /\ job' = "seek"
  /\ ui' = "seek"
  /\ UNCHANGED <<playback, viewPlayback, imgFrame, packets, gate, threads, locals>>

\* ImageBrowser::seek( f ).
Seek(f) ==
  /\ f # viewFrame
  /\ viewFrame' = f
  /\ target' = f
  /\ resume' = viewPlayback
  /\ job' = "seek"
  /\ ui' = IF viewPlayback # kStopped THEN "stop" ELSE "seek"
  /\ UNCHANGED <<playback, viewPlayback, imgFrame, packets, gate, threads, locals>>

UserSeek(f) ==
  /\ Idle
  /\ Spend("seek")
  /\ Seek(f)
  /\ UNCHANGED mail

\* ... and by the commands: timeout() holds commands_mutex over all of them.
HandleCommand ==
  /\ ui = "idle"
  /\ commands # <<>>
  /\ cmdOwner' = "ui"
  /\ Seek(Head(commands))
  /\ UNCHANGED <<commands, user>>

\* A seek to the frame the view is at already does nothing.
SkipCommand ==
  /\ ui = "idle"
  /\ commands # <<>>
  /\ Head(commands) = viewFrame
  /\ commands' = Tail(commands)
  /\ cmdOwner' = IF Len(commands) = 1 THEN "none" ELSE "ui"
  /\ UNCHANGED <<playback, viewPlayback, player, uiVars>>

-----------------------------------------------------------------------------
VideoThread ==
  \/ VideoTop
  \/ WaitImage
  \/ VideoStep
  \/ DecodeVideo
  \/ Show
  \/ ClearVideo
  \/ Turn

DecodeThread ==
  \/ DecodeTop
  \/ DecodeStep
  \/ Mark
  \/ Again
  \/ QueueFrame
  \/ GiveUpFrame

Shared(t) ==
  \/ Quit(t)
  \/ Arrive(t)
  \/ Pass(t)
  \/ HandleLoop(t)
  \/ EndOfClip(t)
  \/ Swing(t)
  \/ LoopStop(t)
  \/ LoopBreak(t)
  \/ LoopPush(t)
  \/ Exit(t)

Step(t) == Shared(t) \/ (IF t = "video" THEN VideoThread ELSE DecodeThread)

\* What the UI thread does of its own: the rest of a call, and the commands.
Serve ==
  \/ StopBegin
  \/ StopNotify
  \/ StopJoin
  \/ StopTimeout
  \/ Shut
  \/ SeekImage
  \/ Start
  \/ HandleCommand
  \/ SkipCommand

User ==
  \/ UserStop
  \/ \E dir \in Playing : UserPlay(dir)
  \/ \E f \in Clip : UserSeek(f)

Next ==
  /\ ui # "timeout"
  /\ \/ Serve
     \/ User
     \/ \E t \in Players : Step(t)

Spec == Init /\ [][Next]_vars

\* The scheduler runs every thread that can run, and the UI thread comes back
\* to its event loop; the user has to do nothing.
Fairness ==
  /\ WF_vars(ui # "timeout" /\ Serve)
  /\ \A t \in Players : WF_vars(ui # "timeout" /\ Step(t))

FairSpec == Spec /\ Fairness

-----------------------------------------------------------------------------
\* A marker is what stops the video thread from running into the end of a pass,
\* so none of another pass may be left when it decodes: it would hold up the
\* queue, and the frames would be shown with nothing queued for them.
MarkersOfThisPass ==
  At("video", "decode") /\ ~stopped /\ ui = "idle" =>
    \A i \in 1..Len(packets) :
      packets[i].kind # (IF playback = kForwards THEN "loopStart" ELSE "loopEnd")

\* The decode thread, which is ahead, ends or turns no pass that the video
\* thread has not shown to its last frame: the barrier keeps it back.  Only the
\* UI thread may cut a pass short.
PassEndsAfterLastFrame ==
  [][ playback' # playback /\ playback # kStopped /\ ui = "idle" /\ ui' = "idle"
        => ~InLoop(frame["video"]) ]_vars

\* The video thread shows every frame: it moves by one frame at a time, when it
\* turns as well, whatever the decode thread has done to the direction meanwhile.
NoFrameSkipped ==
  [][ ui = "idle" => imgFrame' - imgFrame \in -1..1 ]_vars

\* When the view has stopped, so has everything: no thread is left, nothing is
\* queued, nobody is at the barrier, and the view is at the frame of the image.
QuietWhenStopped ==
  ui = "idle" /\ viewPlayback = kStopped =>
    /\ stopped /\ threads = "none" /\ Exited
    /\ packets = <<>> /\ gathering = {} /\ leaving = {}
    /\ viewFrame = imgFrame

\* A seek of a view that plays stops the image first, so that the seek is done
\* by the UI thread, never by a decode thread that is moving on.
SeekFindsItStopped == ui = "seek" => stopped /\ Exited

\* A clip that does not loop plays to the end it was sent to, and its threads
\* end, unless somebody stops it.
ClipEnds ==
  looping = "NoLoop" /\ viewPlayback # kStopped ~>
    \/ ui = "timeout"
    \/ viewPlayback = kStopped
    \/ Exited /\ imgFrame = (IF viewPlayback = kForwards THEN MarkOut ELSE MarkIn)

\* A clip that is played round and round comes to both its ends again and again,
\* as long as nobody stops it.
Round(how) ==
  \A f \in {MarkIn, MarkOut} :
    looping = how /\ viewPlayback # kStopped ~>
      imgFrame = f \/ left["stop"] < Stops \/ ui = "timeout"

\* A loop comes round although its threads end at each end, and are started again
\* by the seek they leave for the UI thread.
ComesRound == Round("Loop")

\* A swing comes round although its two threads turn one after the other.
SwingComesRound == Round("PingPong")

\* wait_for_threads() waits for all threads to finish and exit, and none of
\* them outlives its image.
JoinsAll == ui # "timeout"

\* A decode thread that finds the memory full waits a little, not for ever: the
\* packets it has queued keep the video thread going, which makes room for it.
\* (A clip that swings may lose them when it turns.)
ReadAheadGoesOn ==
  looping # "PingPong" /\ At("decode", "frame") ~> ~At("decode", "frame") \/ ui = "timeout"
=============================================================================
