--------------------------- MODULE Playback_proofs ---------------------------
(***************************************************************************)
(* What the viewer may rely on when the view has stopped, for any clip,    *)
(* marks, way of looping and read ahead: the state is typed, a seek finds  *)
(* the image stopped with its threads gone, and an idle view that is       *)
(* stopped left nothing behind.                                            *)
(***************************************************************************)
EXTENDS Playback, TLAPS

\* What the local variables of the threads are when they are used.
LocalsFit ==
  /\ At("video", "show") => frame["video"] \in Clip
  /\ At("video", "turn") => step["video"] # kStopped
  /\ \A t \in Players : At(t, "break") \/ At(t, "push") => frame[t] \in Clip
  /\ cmdOwner = "ui" => commands # <<>>

\* Who waits at the barrier is at the barrier.
GateInv ==
  /\ \A t \in gathering \cup leaving : At(t, "gated")
  /\ gathering \cap leaving = {}

\* The last thread to end leaves the image stopped, and no thread is given up
\* before all have ended.
GoneInv ==
  /\ Exited => stopped
  /\ threads = "none" => Exited /\ packets = <<>>

\* How far the UI thread is with what it was asked to do.
JobInv ==
  /\ ui \in {"shut", "seek", "start"} => threads = "none"
  /\ ui = "shut" => job \in {"stop", "seek"}
  /\ ui = "seek" => job = "seek"
  /\ ui = "start" => job = "play"
  /\ ui \in {"stop", "notify", "join", "shut", "start"} /\ job # "stop" => resume # kStopped
  /\ ui \in {"stop", "notify", "join", "start"} /\ job = "play" => viewPlayback # kStopped
  /\ ui = "seek" /\ resume = kStopped => viewPlayback = kStopped /\ viewFrame = target
  /\ ui = "idle" /\ viewPlayback = kStopped => threads = "none" /\ viewFrame = imgFrame

IInv ==
  /\ TypeOK
  /\ LocalsFit
  /\ GateInv
  /\ GoneInv
  /\ JobInv

-----------------------------------------------------------------------------
LEMMA TypeInit == Init => TypeOK
BY PlaybackAssumption DEF Init, G!GateInit, TypeOK, Playing, Clip, Players, VideoPlaces,
   DecodePlaces, Budget, kStopped, kForwards, kBackwards

\* The video thread's own steps.
LEMMA TypeVideo ==
  ASSUME TypeOK, LocalsFit, VideoThread
  PROVE  TypeOK'
<1> USE DEF TypeOK, Players, At, Goto, view, gate, mail, uiVars, user, VideoPlaces, DecodePlaces
<1>1. CASE VideoTop
  BY <1>1 DEF VideoTop
<1>2. CASE WaitImage
  BY <1>2 DEF WaitImage
<1>3. CASE VideoStep
  BY <1>3 DEF VideoStep
<1>4. CASE DecodeVideo
  <2>1. packets' \in Seq(Packet)
    BY <1>4 DEF DecodeVideo, Decoded
  <2>2. QED
    BY <1>4, <2>1 DEF DecodeVideo
<1>5. CASE Show
  <2>1. frame["video"] \in Clip
    BY <1>5 DEF Show, LocalsFit
  <2>2. step["video"] \in Int
    BY DEF Playing, kStopped, kForwards, kBackwards
  <2>3. QED
    BY <1>5, <2>1, <2>2 DEF Show
<1>6. CASE ClearVideo
  BY <1>6 DEF ClearVideo
<1>7. CASE Turn
  BY <1>7 DEF Turn
<1>8. QED
  BY <1>1, <1>2, <1>3, <1>4, <1>5, <1>6, <1>7 DEF VideoThread

LEMMA MarkersType == ASSUME NEW f PROVE Markers(f) \in Seq(Packet)
<1>1. /\ [kind |-> "loopEnd", dts |-> Last + 1] \in Packet
      /\ [kind |-> "loopEnd", dts |-> Last + 2] \in Packet
      /\ [kind |-> "loopStart", dts |-> First - 1] \in Packet
      /\ [kind |-> "loopStart", dts |-> First - 2] \in Packet
  BY PlaybackAssumption DEF Packet
<1>2. ASSUME NEW a \in Packet, NEW b \in Packet PROVE <<a, b>> \in Seq(Packet)
  OBVIOUS
<1>3. QED
  BY <1>1, <1>2 DEF Markers

\* The decode thread's own steps.
LEMMA TypeDecode ==
  ASSUME TypeOK, DecodeThread
  PROVE  TypeOK'
<1> USE DEF TypeOK, Players, At, Goto, view, gate, mail, uiVars, user, VideoPlaces, DecodePlaces
<1>1. CASE DecodeTop
  BY <1>1 DEF DecodeTop
<1>2. CASE DecodeStep
  <2>1. playback \in Int
    BY DEF Playing, kStopped, kForwards, kBackwards
  <2>2. QED
    BY <1>2, <2>1 DEF DecodeStep
<1>3. CASE Mark
  <2>1. Markers(frame["decode"]) \in Seq(Packet)
    BY MarkersType
  <2>2. packets' \in Seq(Packet)
    BY <1>3, <2>1 DEF Mark
  <2>3. QED
    BY <1>3, <2>2 DEF Mark
<1>4. CASE Again
  BY <1>4 DEF Again
<1>5. CASE QueueFrame
  <2>1. [kind |-> "frame", dts |-> Clamped(frame["decode"])] \in Packet
    BY PlaybackAssumption DEF Clamped, Packet
  <2>2. packets' \in Seq(Packet)
    BY <1>5, <2>1 DEF QueueFrame
  <2>3. QED
    BY <1>5, <2>2 DEF QueueFrame
<1>6. CASE GiveUpFrame
  BY <1>6 DEF GiveUpFrame
<1>7. QED
  BY <1>1, <1>2, <1>3, <1>4, <1>5, <1>6 DEF DecodeThread

\* The steps both threads have.
LEMMA TypeShared ==
  ASSUME TypeOK, LocalsFit, NEW t \in Players, Shared(t)
  PROVE  TypeOK'
<1> USE DEF TypeOK, Players, At, Goto, view, gate, mail, uiVars, user, VideoPlaces, DecodePlaces,
            PastGate, PastLoop
<1>1. CASE Quit(t)
  BY <1>1 DEF Quit
<1>2. CASE Arrive(t)
  <2>1. gathering' \subseteq Players /\ leaving' \subseteq Players
    BY <1>2 DEF Arrive, G!Hold, G!Complete
  <2>2. Goto(t, "gated") \/ Goto(t, PastGate(t))
    BY <1>2 DEF Arrive
  <2>3. QED
    BY <1>2, <2>1, <2>2 DEF Arrive
<1>3. CASE Pass(t)
  BY <1>3 DEF Pass, G!Leave
<1>4. CASE HandleLoop(t)
  BY <1>4 DEF HandleLoop
<1>5. CASE EndOfClip(t)
  BY <1>5 DEF EndOfClip
<1>6. CASE Swing(t)
  <2>1. Reversed(frame[t]) \in Playing /\ Reflected(frame[t]) \in Int
    BY PlaybackAssumption DEF Reversed, Reflected, Playing
  <2>2. QED
    BY <1>6, <2>1 DEF Swing
<1>7. CASE LoopStop(t)
  <2>1. Wrapped(frame[t]) \in Int
    BY PlaybackAssumption DEF Wrapped
  <2>2. QED
    BY <1>7, <2>1 DEF LoopStop
<1>8. CASE LoopBreak(t)
  BY <1>8 DEF LoopBreak, G!Break
<1>9. CASE LoopPush(t)
  <2>1. frame[t] \in Clip
    BY <1>9 DEF LoopPush, LocalsFit
  <2>2. commands' \in Seq(Clip)
    BY <1>9, <2>1 DEF LoopPush
  <2>3. QED
    BY <1>9, <2>2 DEF LoopPush
<1>10. CASE Exit(t)
  BY <1>10 DEF Exit, G!Break
<1>11. QED
  BY <1>1, <1>2, <1>3, <1>4, <1>5, <1>6, <1>7, <1>8, <1>9, <1>10 DEF Shared

\* The UI thread.
LEMMA TypeDone ==
  ASSUME TypeOK, LocalsFit, Done
  PROVE  commands' \in Seq(Clip) /\ cmdOwner' \in {"none", "ui"}
<1>1. commands \in Seq(Clip) /\ (commands # <<>> => Tail(commands) \in Seq(Clip))
  BY DEF TypeOK
<1>2. QED
  BY <1>1 DEF TypeOK, LocalsFit, Done, mail

LEMMA TypeServe ==
  ASSUME TypeOK, LocalsFit, Serve
  PROVE  TypeOK'
<1> USE DEF TypeOK, gate, view, locals, mail, uiVars, user, player, stopped, kStopped
<1>1. CASE StopBegin
  BY <1>1 DEF StopBegin
<1>2. CASE StopNotify
  BY <1>2 DEF StopNotify, G!Break
<1>3. CASE StopJoin
  BY <1>3 DEF StopJoin
<1>4. CASE StopTimeout
  BY <1>4 DEF StopTimeout
<1>5. CASE Shut
  BY <1>5, TypeDone DEF Shut, Done
<1>6. CASE SeekImage
  BY <1>6, TypeDone DEF SeekImage, Done, G!Break
<1>7. CASE Start
  <2>1. /\ pc' \in [Players -> VideoPlaces \cup DecodePlaces]
        /\ pc'["video"] \in VideoPlaces /\ pc'["decode"] \in DecodePlaces
    BY <1>7 DEF Start, Players, VideoPlaces, DecodePlaces
  <2>2. /\ frame' \in [Players -> Int]
        /\ step' \in [Players -> Playing \cup {kStopped}]
    BY <1>7, PlaybackAssumption DEF Start, Clip
  <2>3. QED
    BY <1>7, <2>1, <2>2, TypeDone DEF Start, Done
<1>8. CASE HandleCommand
  <2>1. Head(commands) \in Clip
    BY <1>8 DEF HandleCommand
  <2>2. QED
    BY <1>8, <2>1 DEF HandleCommand, Seek
<1>9. CASE SkipCommand
  BY <1>9 DEF SkipCommand
<1>10. QED
  BY <1>1, <1>2, <1>3, <1>4, <1>5, <1>6, <1>7, <1>8, <1>9 DEF Serve

LEMMA TypeSpend ==
  ASSUME TypeOK, NEW what \in {"play", "stop", "seek"}, Spend(what)
  PROVE  left' \in Budget /\ looping' = looping
BY PlaybackAssumption DEF TypeOK, Budget, Spend

LEMMA TypeUser ==
  ASSUME TypeOK, User
  PROVE  TypeOK'
<1> USE DEF TypeOK, gate, view, locals, mail, player
<1>1. CASE UserStop
  BY <1>1, TypeSpend DEF UserStop
<1>2. CASE \E dir \in Playing : UserPlay(dir)
  BY <1>2, TypeSpend DEF UserPlay
<1>3. CASE \E f \in Clip : UserSeek(f)
  BY <1>3, TypeSpend DEF UserSeek, Seek
<1>4. QED
  BY <1>1, <1>2, <1>3 DEF User

LEMMA TypeStep == TypeOK /\ LocalsFit /\ [Next]_vars => TypeOK'
<1> SUFFICES ASSUME TypeOK, LocalsFit, [Next]_vars PROVE TypeOK'
  OBVIOUS
<1>1. CASE Serve \/ User
  BY <1>1, TypeServe, TypeUser
<1>2. CASE \E t \in Players : Step(t)
  BY <1>2, TypeVideo, TypeDecode, TypeShared DEF Step
<1>3. CASE UNCHANGED vars
  BY <1>3 DEF TypeOK, vars, gate, view, locals, mail, uiVars, user
<1>4. QED
  BY <1>1, <1>2, <1>3 DEF Next

-----------------------------------------------------------------------------
\* A thread that ends, or has ended, changes nothing of what JobInv relates.
LEMMA InvInit == Init => LocalsFit /\ GateInv /\ GoneInv /\ JobInv
BY DEF Init, G!GateInit, LocalsFit, GateInv, GoneInv, JobInv, At, Exited, stopped, kStopped,
       Players

LEMMA WrappedInClip == \A f : Wrapped(f) \in Clip
BY PlaybackAssumption DEF Wrapped, Clip

LEMMA TailLeft ==
  ASSUME NEW s \in Seq(Clip), s # <<>>, Len(s) # 1
  PROVE  Tail(s) # <<>>
<1>1. Len(s) \in Nat /\ Len(s) # 0
  OBVIOUS
<1>2. Len(Tail(s)) = Len(s) - 1
  BY <1>1
<1>3. Len(Tail(s)) # 0 /\ Len(<<>>) = 0
  BY <1>1, <1>2
<1>4. SUFFICES ASSUME Tail(s) = <<>> PROVE FALSE
  OBVIOUS
<1>5. Len(Tail(s)) = 0
  BY ONLY <1>3, <1>4
<1>6. QED
  BY <1>3, <1>5

\* A queue that a command leaves when another is behind it is not empty.
LEMMA DoneMail ==
  ASSUME TypeOK, LocalsFit, Done
  PROVE  cmdOwner' = "ui" => commands' # <<>>
<1>1. commands \in Seq(Clip)
  BY DEF TypeOK
<1>2. commands # <<>> /\ Len(commands) # 1 => Tail(commands) # <<>>
  BY <1>1, TailLeft
<1>3. QED
  BY <1>2 DEF LocalsFit, Done, mail

LEMMA LocalsVideo == TypeOK /\ LocalsFit /\ VideoThread => LocalsFit'
<1> SUFFICES ASSUME TypeOK, LocalsFit, VideoThread PROVE LocalsFit'
  OBVIOUS
<1> USE DEF TypeOK, LocalsFit, Players, At, Goto, mail
<1>1. CASE VideoTop \/ WaitImage \/ ClearVideo
  BY <1>1 DEF VideoTop, WaitImage, ClearVideo
<1>2. CASE VideoStep \/ Show \/ Turn
  BY <1>2 DEF VideoStep, Show, Turn
<1>3. CASE DecodeVideo
  BY <1>3, PlaybackAssumption DEF DecodeVideo, InLoop, LoopEnd, LoopStart, Clip
<1>4. QED
  BY <1>1, <1>2, <1>3 DEF VideoThread

LEMMA LocalsDecode == TypeOK /\ LocalsFit /\ DecodeThread => LocalsFit'
<1> SUFFICES ASSUME TypeOK, LocalsFit, DecodeThread PROVE LocalsFit'
  OBVIOUS
<1> USE DEF TypeOK, LocalsFit, Players, At, Goto, mail
<1>1. CASE DecodeTop \/ DecodeStep \/ Mark
  BY <1>1 DEF DecodeTop, DecodeStep, Mark
<1>2. CASE Again \/ QueueFrame \/ GiveUpFrame
  BY <1>2 DEF Again, QueueFrame, GiveUpFrame
<1>3. QED
  BY <1>1, <1>2 DEF DecodeThread

LEMMA LocalsShared ==
  ASSUME TypeOK, LocalsFit, NEW t \in Players, Shared(t)
  PROVE  LocalsFit'
<1> USE DEF TypeOK, LocalsFit, Players, At, Goto, mail, PastGate, PastLoop
<1>1. CASE Quit(t) \/ Arrive(t) \/ Pass(t)
  BY <1>1 DEF Quit, Arrive, Pass
<1>2. CASE HandleLoop(t) \/ EndOfClip(t) \/ Exit(t)
  BY <1>2 DEF HandleLoop, EndOfClip, Exit
<1>3. CASE Swing(t)
  BY <1>3 DEF Swing, Reversed, kForwards, kBackwards, kStopped
<1>4. CASE LoopStop(t)
  BY <1>4, WrappedInClip DEF LoopStop
<1>5. CASE LoopBreak(t)
  BY <1>5 DEF LoopBreak
<1>6. CASE LoopPush(t)
  BY <1>6 DEF LoopPush
<1>7. QED
  BY <1>1, <1>2, <1>3, <1>4, <1>5, <1>6 DEF Shared

LEMMA LocalsUI == TypeOK /\ LocalsFit /\ (Serve \/ User) => LocalsFit'
<1> SUFFICES ASSUME TypeOK, LocalsFit, Serve \/ User PROVE LocalsFit'
  OBVIOUS
<1> USE DEF LocalsFit, At, locals, mail, player
<1>1. CASE StopBegin \/ StopNotify \/ StopJoin \/ StopTimeout
  BY <1>1 DEF StopBegin, StopNotify, StopJoin, StopTimeout
<1>2. CASE Shut
  BY <1>2, DoneMail DEF Shut
<1>3. CASE SeekImage
  BY <1>3, DoneMail DEF SeekImage
<1>4. CASE Start
  BY <1>4, DoneMail DEF Start, Players
<1>5. CASE HandleCommand
  BY <1>5 DEF HandleCommand, Seek
<1>6. CASE SkipCommand
  <2>1. commands \in Seq(Clip)
    BY DEF TypeOK
  <2>2. Len(commands) # 1 => Tail(commands) # <<>>
    BY <1>6, <2>1, TailLeft DEF SkipCommand
  <2>3. QED
    BY <1>6, <2>2 DEF SkipCommand
<1>7. CASE UserStop \/ \E dir \in Playing : UserPlay(dir)
  BY <1>7 DEF UserStop, UserPlay
<1>8. CASE \E f \in Clip : UserSeek(f)
  BY <1>8 DEF UserSeek, Seek
<1>9. QED
  BY <1>1, <1>2, <1>3, <1>4, <1>5, <1>6, <1>7, <1>8 DEF Serve, User

-----------------------------------------------------------------------------
LEMMA GateThreads ==
  ASSUME TypeOK, GateInv, NEW t \in Players, Step(t)
  PROVE  GateInv'
<1> USE DEF TypeOK, GateInv, Players, At, Goto, gate
<1>1. CASE VideoThread /\ t = "video"
  BY <1>1 DEF VideoThread, VideoTop, WaitImage, VideoStep, DecodeVideo, Show, ClearVideo, Turn
<1>2. CASE DecodeThread /\ t = "decode"
  BY <1>2 DEF DecodeThread, DecodeTop, DecodeStep, Mark, Again, QueueFrame, GiveUpFrame
<1>3. CASE Arrive(t)
  <2>1. CASE G!Hold(t) /\ Goto(t, "gated")
    BY <1>3, <2>1 DEF G!Hold, G!Outside
  <2>2. CASE G!Complete(t) /\ Goto(t, PastGate(t))
    BY <1>3, <2>2 DEF G!Complete, G!Outside
  <2>3. QED
    BY <1>3, <2>1, <2>2 DEF Arrive
<1>4. CASE Pass(t)
  BY <1>4 DEF Pass, G!Leave
<1>5. CASE LoopBreak(t) \/ Exit(t)
  BY <1>5 DEF LoopBreak, Exit, G!Break
<1>6. CASE Quit(t) \/ HandleLoop(t) \/ EndOfClip(t) \/ Swing(t) \/ LoopStop(t) \/ LoopPush(t)
  BY <1>6 DEF Quit, HandleLoop, EndOfClip, Swing, LoopStop, LoopPush
<1>7. QED
  BY <1>1, <1>2, <1>3, <1>4, <1>5, <1>6 DEF Step, Shared

LEMMA GateUI == GateInv /\ (Serve \/ User) => GateInv'
<1> SUFFICES ASSUME GateInv, Serve \/ User PROVE GateInv'
  OBVIOUS
<1> USE DEF GateInv, At, gate, locals, player
<1>1. CASE StopNotify \/ SeekImage
  BY <1>1 DEF StopNotify, SeekImage, G!Break
<1>2. CASE Start
  BY <1>2 DEF Start
<1>3. CASE StopBegin \/ StopJoin \/ StopTimeout \/ Shut \/ SkipCommand
  BY <1>3 DEF StopBegin, StopJoin, StopTimeout, Shut, SkipCommand
<1>4. CASE HandleCommand \/ User
  BY <1>4 DEF HandleCommand, User, UserStop, UserPlay, UserSeek, Seek
<1>5. QED
  BY <1>1, <1>2, <1>3, <1>4 DEF Serve

\* A thread that takes a step has not ended, and ends with the image stopped.
LEMMA StepIsAlive ==
  ASSUME TypeOK, NEW t \in Players, Step(t)
  PROVE  ~Exited /\ (At(t, "exited")' => playback' = kStopped)
<1> USE DEF TypeOK, Players, At, Goto, Exited
<1>1. CASE VideoThread /\ t = "video"
  BY <1>1 DEF VideoThread, VideoTop, WaitImage, VideoStep, DecodeVideo, Show, ClearVideo, Turn
<1>2. CASE DecodeThread /\ t = "decode"
  BY <1>2 DEF DecodeThread, DecodeTop, DecodeStep, Mark, Again, QueueFrame, GiveUpFrame
<1>3. CASE Arrive(t) \/ Pass(t) \/ LoopBreak(t) \/ Quit(t) \/ HandleLoop(t)
  BY <1>3 DEF Arrive, Pass, LoopBreak, Quit, HandleLoop, PastGate, PastLoop
<1>4. CASE EndOfClip(t) \/ Swing(t) \/ LoopStop(t) \/ LoopPush(t) \/ Exit(t)
  BY <1>4 DEF EndOfClip, Swing, LoopStop, LoopPush, Exit, PastLoop
<1>5. QED
  BY <1>1, <1>2, <1>3, <1>4 DEF Step, Shared

\* The threads leave the UI thread's own variables alone.
LEMMA StepKeepsUI ==
  ASSUME NEW t \in Players, Step(t)
  PROVE  /\ UNCHANGED <<threads, uiVars>>
         /\ UNCHANGED viewPlayback \/ (t = "video" /\ Turn)
<1> USE DEF view, uiVars, user
<1>1. CASE VideoThread /\ t = "video"
  BY <1>1 DEF VideoThread, VideoTop, WaitImage, VideoStep, DecodeVideo, Show, ClearVideo, Turn
<1>2. CASE DecodeThread
  BY <1>2 DEF DecodeThread, DecodeTop, DecodeStep, Mark, Again, QueueFrame, GiveUpFrame
<1>3. CASE Shared(t)
  BY <1>3 DEF Shared, Arrive, Pass, LoopBreak, Quit, HandleLoop, EndOfClip, Swing, LoopStop,
       LoopPush, Exit
<1>4. QED
  BY <1>1, <1>2, <1>3 DEF Step

LEMMA ThreadsKeep ==
  ASSUME IInv, NEW t \in Players, Step(t)
  PROVE  GoneInv' /\ JobInv'
<1>1. /\ ~Exited /\ (At(t, "exited")' => playback' = kStopped)
      /\ threads' = threads /\ UNCHANGED uiVars
  BY StepIsAlive, StepKeepsUI DEF IInv
<1>2. threads = "started"
  BY <1>1 DEF IInv, TypeOK, GoneInv
<1>3. GoneInv'
  BY <1>1, <1>2 DEF GoneInv, Exited, stopped
<1>4. viewPlayback # kStopped => viewPlayback' # kStopped
  BY StepKeepsUI DEF Turn, IInv, LocalsFit, At
<1>5. JobInv'
  BY <1>1, <1>2, <1>4 DEF IInv, TypeOK, JobInv, uiVars, user
<1>6. QED
  BY <1>3, <1>5

LEMMA UIKeeps ==
  ASSUME IInv, Serve \/ User
  PROVE  GoneInv' /\ JobInv'
<1> USE DEF IInv, TypeOK, GoneInv, JobInv, view, gate, locals, uiVars, user, player, stopped, Exited, At
<1>1. CASE StopBegin
  BY <1>1 DEF StopBegin
<1>2. CASE StopNotify \/ StopTimeout
  BY <1>2 DEF StopNotify, StopTimeout
<1>3. CASE StopJoin
  BY <1>3 DEF StopJoin
<1>4. CASE Shut
  BY <1>4 DEF Shut, Done
<1>5. CASE SeekImage
  BY <1>5 DEF SeekImage, Done
<1>6. CASE Start
  BY <1>6 DEF Start, Done, Players, Playing, kStopped, kForwards, kBackwards
<1>7. CASE HandleCommand \/ \E f \in Clip : UserSeek(f)
  <2>1. PICK f : Seek(f) /\ ui = "idle"
    BY <1>7 DEF HandleCommand, UserSeek, Idle
  <2>2. GoneInv'
    BY <2>1 DEF Seek
  <2>3. CASE viewPlayback = kStopped
    BY <2>1, <2>3 DEF Seek
  <2>4. CASE viewPlayback # kStopped
    BY <2>1, <2>4 DEF Seek
  <2>5. QED
    BY <2>2, <2>3, <2>4
<1>8. CASE SkipCommand
  BY <1>8 DEF SkipCommand
<1>9. CASE UserStop
  BY <1>9 DEF UserStop
<1>10. CASE \E dir \in Playing : UserPlay(dir)
  BY <1>10 DEF UserPlay, Playing, kStopped, kForwards, kBackwards
<1>11. QED
  BY <1>1, <1>2, <1>3, <1>4, <1>5, <1>6, <1>7, <1>8, <1>9, <1>10 DEF Serve, User

LEMMA Inductive == IInv /\ [Next]_vars => IInv'
<1> SUFFICES ASSUME IInv, [Next]_vars PROVE IInv'
  OBVIOUS
<1>1. TypeOK'
  BY TypeStep DEF IInv
<1>2. CASE Serve \/ User
  BY <1>1, <1>2, LocalsUI, GateUI, UIKeeps DEF IInv
<1>3. CASE \E t \in Players : Step(t)
  <2>1. PICK t \in Players : Step(t)
    BY <1>3
  <2>2. LocalsFit'
    BY <2>1, LocalsVideo, LocalsDecode, LocalsShared DEF Step, IInv
  <2>3. QED
    BY <1>1, <2>1, <2>2, GateThreads, ThreadsKeep DEF IInv
<1>4. CASE UNCHANGED vars
  BY <1>1, <1>4 DEF IInv, vars, LocalsFit, GateInv, GoneInv, JobInv, At, Exited, stopped,
     gate, view, locals, mail, uiVars, user
<1>5. QED
  BY <1>2, <1>3, <1>4 DEF Next

LEMMA Invariant == Spec => []IInv
<1>1. Init => IInv
  BY TypeInit, InvInit DEF IInv
<1>2. QED
  BY <1>1, Inductive, PTL DEF Spec

-----------------------------------------------------------------------------
\* Every variable keeps its type: no frame outside the clip is ever shown or asked
\* for, however the marks, the loops and the seeks move the two threads about.
THEOREM TypeCorrect == Spec => []TypeOK
<1>1. IInv => TypeOK
  BY DEF IInv
<1>2. QED
  BY <1>1, Invariant, PTL

\* A view that has stopped has left nothing behind: CMedia::stop() was gone
\* through to its end, no thread is left and nothing waits for one.
THEOREM StoppedIsQuiet == Spec => []QuietWhenStopped
<1>1. IInv => QuietWhenStopped
  <2> SUFFICES ASSUME IInv, ui = "idle", viewPlayback = kStopped
               PROVE  /\ stopped /\ threads = "none" /\ Exited
                      /\ packets = <<>> /\ gathering = {} /\ leaving = {}
                      /\ viewFrame = imgFrame
    BY DEF QuietWhenStopped
  <2>1. threads = "none" /\ viewFrame = imgFrame
    BY DEF IInv, JobInv
  <2>2. Exited /\ packets = <<>> /\ stopped
    BY <2>1 DEF IInv, GoneInv
  <2>3. gathering \cup leaving = {}
    BY <2>2 DEF IInv, TypeOK, GateInv, Exited, At
  <2>4. QED
    BY <2>1, <2>2, <2>3
<1>2. QED
  BY <1>1, Invariant, PTL

\* ImageBrowser::seek() moves an image only when its threads are gone.
THEOREM SeekIsAlone == Spec => []SeekFindsItStopped
<1>1. IInv => SeekFindsItStopped
  BY DEF IInv, JobInv, GoneInv, SeekFindsItStopped
<1>2. QED
  BY <1>1, Invariant, PTL
=============================================================================
