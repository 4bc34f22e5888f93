------------------------ MODULE Playback_pass_proofs ------------------------
(***************************************************************************)
(* The passes of a clip that is played with no marks, however long it is   *)
(* and however it loops: the two threads come to the end of the same pass, *)
(* one turns the direction and the other finds it turned, no frame is      *)
(* skipped meanwhile, and no marker of the pass before is left.            *)
(*                                                                         *)
(* With marks, handle_loop() goes back to the ends of the clip, out of the *)
(* marks, and none of it holds.                                            *)
(***************************************************************************)
EXTENDS Playback_proofs, FiniteSets, FiniteSetTheorems

Unmarked == MarkIn = First /\ MarkOut = Last

\* The direction in which a frame that has left the clip has left it.
Toward(f) == IF LoopEnd(f) THEN kForwards ELSE kBackwards

\* A thread is past the barrier at the end of a pass and has not turned.
Past(t) == pc[t] \in {"clear", "handle", "loop"} \/ (At(t, "gated") /\ t \in leaving)

\* The threads play, and the UI thread lets them.
Live == ui = "idle" /\ threads = "started"

\* Where a thread is says whether its frame has left the clip.
OutOfLoop ==
  /\ pc["video"] \in {"gate", "gated", "clear", "handle", "loop"} => ~InLoop(frame["video"])
  /\ pc["decode"] \in {"mark", "gate", "gated", "handle", "loop"} => ~InLoop(frame["decode"])
  /\ At("video", "show") => InLoop(frame["video"])
  /\ \A t \in Players : At(t, "gated") => t \in gathering \cup leaving

\* A thread leaves its loop when the image is stopped, and in a swing nobody but the
\* UI thread stops it.
EndInv ==
  Live =>
    /\ \A t \in Players : pc[t] \in {"quit", "exited", "break", "push"} => stopped
    /\ looping = "PingPong" => ~stopped

\* The video thread is at most a frame away from the frame that is shown.
Near == frame["video"] - imgFrame \in -1..1
NearInv ==
  Live =>
    /\ pc["video"] \in {"wait", "step", "decode", "show", "gate", "gated", "clear", "handle",
                        "loop", "turn"} => Near
    /\ At("video", "top") /\ ~stopped => Near

\* Which pass each of the two threads is in.
SamePass ==
  /\ \A t \in Players : ~Past(t) /\ ~InLoop(frame[t]) => Toward(frame[t]) = playback
  /\ pc["decode"] \in {"top", "step", "frame", "again"} => InLoop(frame["decode"])
  /\ pc["video"] \in {"decode", "show"} => step["video"] = playback
  /\ \A t \in Players : \A o \in Players \ {t} :
       /\ Past(t) /\ Past(o) => Toward(frame[t]) = playback
       /\ Past(t) /\ ~Past(o) => looping = "PingPong" /\ Reversed(frame[t]) = playback

\* The queue holds no marker of a pass that is over, unless the video thread is about
\* to empty it.
Fresh == \A i \in 1..Len(packets) :
           packets[i].kind # (IF playback = kForwards THEN "loopStart" ELSE "loopEnd")
FreshQueue ==
  \/ At("video", "clear") \/ (At("video", "gated") /\ "video" \in leaving)
  \/ Past("video") /\ Past("decode") /\ packets = <<>>
  \/ ~(Past("video") /\ Past("decode")) /\ Fresh

PassInv == Live /\ ~stopped => SamePass /\ FreshQueue

PInv == OutOfLoop /\ EndInv /\ NearInv /\ PassInv

-----------------------------------------------------------------------------
\* What a frame has to do with the ends of the clip.
LEMMA Ends ==
  ASSUME Unmarked, NEW f \in Int
  PROVE  /\ InLoop(f) <=> f \in Clip
         /\ ~InLoop(f) /\ Toward(f) = kForwards => f > Last
         /\ ~InLoop(f) /\ Toward(f) # kForwards => f < First /\ Toward(f) = kBackwards
         /\ Reversed(f) \in Playing /\ Toward(f) \in Playing /\ Reversed(f) # Toward(f)
         /\ InLoop(Reflected(f))
         /\ \A g \in Clip : ~InLoop(f) /\ f - g \in -1..1 => Reflected(f) = g
BY PlaybackAssumption
DEF Unmarked, InLoop, LoopEnd, LoopStart, Clip, Toward, Reversed, Reflected, Playing, kForwards,
    kBackwards

LEMMA StepsInLoop ==
  ASSUME Unmarked, NEW f \in Clip, NEW s \in Playing, ~InLoop(f + s)
  PROVE  Toward(f + s) = s
BY PlaybackAssumption
DEF Unmarked, InLoop, LoopEnd, LoopStart, Clip, Toward, Playing, kForwards, kBackwards

\* One direction is turned into the other.
LEMMA Turned ==
  ASSUME NEW f, NEW g, Toward(f) = Toward(g)
  PROVE  Reversed(f) = Reversed(g)
BY DEF Toward, Reversed, kForwards, kBackwards

\* While the view plays, its thread can only leave its loop when it is stopped.
LEMMA LiveView == IInv /\ Live => viewPlayback # kStopped
BY DEF IInv, JobInv, Live

LEMMA PassInit == Init => PInv
<1> SUFFICES ASSUME Init PROVE PInv
  OBVIOUS
<1>1. pc = [t \in Players |-> "exited"] /\ threads = "none"
  BY DEF Init
<1>2. QED
  BY <1>1 DEF PInv, OutOfLoop, EndInv, NearInv, PassInv, Live, Players, At

-----------------------------------------------------------------------------
LEMMA OutVideo ==
  ASSUME TypeOK, OutOfLoop, VideoThread
  PROVE  OutOfLoop'
<1> USE DEF TypeOK, OutOfLoop, Players, At, Goto, gate, InLoop, LoopEnd, LoopStart
<1>1. CASE VideoTop \/ WaitImage \/ VideoStep
  BY <1>1 DEF VideoTop, WaitImage, VideoStep
<1>2. CASE DecodeVideo
  BY <1>2 DEF DecodeVideo
<1>3. CASE Show \/ ClearVideo \/ Turn
  BY <1>3 DEF Show, ClearVideo, Turn
<1>4. QED
  BY <1>1, <1>2, <1>3 DEF VideoThread

LEMMA OutDecode ==
  ASSUME TypeOK, OutOfLoop, DecodeThread
  PROVE  OutOfLoop'
<1> USE DEF TypeOK, OutOfLoop, Players, At, Goto, gate
<1>1. CASE DecodeTop \/ Mark
  BY <1>1 DEF DecodeTop, Mark, InLoop, LoopEnd, LoopStart
<1>2. CASE DecodeStep
  BY <1>2 DEF DecodeStep, InLoop, LoopEnd, LoopStart
<1>3. CASE Again \/ QueueFrame \/ GiveUpFrame
  BY <1>3 DEF Again, QueueFrame, GiveUpFrame, InLoop, LoopEnd, LoopStart
<1>4. QED
  BY <1>1, <1>2, <1>3 DEF DecodeThread

LEMMA OutShared ==
  ASSUME TypeOK, OutOfLoop, NEW t \in Players, Shared(t)
  PROVE  OutOfLoop'
<1> USE DEF TypeOK, OutOfLoop, Players, At, Goto, gate, PastGate, PastLoop, InLoop, LoopEnd, LoopStart
<1>1. CASE Arrive(t)
  <2>1. CASE G!Hold(t) /\ Goto(t, "gated")
    BY <1>1, <2>1 DEF Arrive, G!Hold
  <2>2. CASE G!Complete(t) /\ Goto(t, PastGate(t))
    BY <1>1, <2>2 DEF Arrive, G!Complete
  <2>3. QED
    BY <1>1, <2>1, <2>2 DEF Arrive
<1>2. CASE Pass(t)
  BY <1>2 DEF Pass, G!Leave
<1>3. CASE Quit(t) \/ HandleLoop(t) \/ EndOfClip(t)
  BY <1>3 DEF Quit, HandleLoop, EndOfClip
<1>4. CASE Swing(t) \/ LoopStop(t) \/ LoopPush(t)
  BY <1>4 DEF Swing, LoopStop, LoopPush
<1>5. CASE LoopBreak(t) \/ Exit(t)
  BY <1>5 DEF LoopBreak, Exit, G!Break
<1>6. QED
  BY <1>1, <1>2, <1>3, <1>4, <1>5 DEF Shared

-----------------------------------------------------------------------------
\* The UI thread leaves a playback alone, ends it, or starts a new one.
LEMMA UIPass ==
  ASSUME Unmarked, IInv, PInv, Serve \/ User
  PROVE  PInv'
<1>1. CASE Start
  <2>1. /\ pc' = [t \in Players |-> "top"] /\ frame' = [t \in Players |-> imgFrame]
        /\ step' = [t \in Players |-> resume] /\ packets' = <<>>
        /\ playback' = resume /\ imgFrame' = imgFrame /\ imgFrame \in Clip /\ resume \in Playing
    BY <1>1 DEF Start, IInv, TypeOK, JobInv
  <2>2. /\ \A t \in Players : pc'[t] = "top" /\ frame'[t] = imgFrame
        /\ imgFrame \in Int /\ InLoop(imgFrame) /\ resume # kStopped
    BY <2>1, Ends, PlaybackAssumption DEF Clip, Playing, kForwards, kBackwards, kStopped
  <2>3. ~Past("video")' /\ ~Past("decode")' /\ ~stopped'
    BY <2>1, <2>2 DEF Past, At, Players, stopped
  <2>4. OutOfLoop' /\ EndInv'
    BY <2>2, <2>3 DEF OutOfLoop, EndInv, At, Players
  <2>5. NearInv'
    BY <2>1, <2>2 DEF NearInv, Near, At, Players
  <2>6. SamePass' /\ FreshQueue'
    BY <2>1, <2>2, <2>3 DEF SamePass, FreshQueue, Fresh, Players, InLoop, LoopEnd, LoopStart
  <2>7. QED
    BY <2>4, <2>5, <2>6 DEF PInv, PassInv
<1>2. CASE ~Start
  <2>1. OutOfLoop'
    <3>1. UNCHANGED locals /\ gathering' \cup leaving' = gathering \cup leaving
      BY <1>2 DEF Serve, User, StopBegin, StopNotify, StopJoin, StopTimeout, Shut, SeekImage,
         HandleCommand, SkipCommand, UserStop, UserPlay, UserSeek, Seek, locals, gate, player, G!Break
    <3>2. QED
      BY <3>1 DEF PInv, OutOfLoop, At, locals, InLoop, LoopEnd, LoopStart
  <2>2. CASE Live'
    <3>1. Live /\ UNCHANGED <<playback, imgFrame, packets, gate, threads, locals, looping>>
      <4>1. CASE StopBegin \/ StopNotify \/ StopJoin \/ StopTimeout
        BY <4>1, <2>2 DEF StopBegin, StopNotify, StopJoin, StopTimeout, Live
      <4>2. CASE Shut \/ SeekImage
        BY <4>2, <2>2 DEF Shut, SeekImage, Live, IInv, JobInv
      <4>3. CASE HandleCommand \/ \E f \in Clip : UserSeek(f)
        BY <4>3, <2>2 DEF HandleCommand, UserSeek, Seek, Live
      <4>4. CASE SkipCommand
        BY <4>4, <2>2 DEF SkipCommand, player, uiVars, user, Live
      <4>5. CASE UserStop \/ \E dir \in Playing : UserPlay(dir)
        BY <4>5, <2>2 DEF UserStop, UserPlay, Idle, Spend, player, Live
      <4>6. QED
        BY <1>2, <4>1, <4>2, <4>3, <4>4, <4>5 DEF Serve, User
    <3>2. QED
      BY <2>1, <3>1 DEF PInv, EndInv, NearInv, Near, PassInv, SamePass, FreshQueue, Fresh, Past, At,
         stopped, gate, locals, InLoop, LoopEnd, LoopStart, Toward, Reversed
  <2>3. CASE ~Live'
    BY <2>1, <2>3 DEF PInv, EndInv, NearInv, PassInv
  <2>4. QED
    BY <2>2, <2>3
<1>3. QED
  BY <1>1, <1>2

-----------------------------------------------------------------------------
LEMMA EndThreads ==
  ASSUME IInv, PInv, NEW t \in Players, Step(t)
  PROVE  EndInv'
<1>1. threads' = threads /\ UNCHANGED uiVars
  BY StepKeepsUI
<1>2. SUFFICES ASSUME Live PROVE EndInv'
  BY <1>1 DEF EndInv, Live, uiVars
<1>3. viewPlayback # kStopped
  BY <1>2, LiveView
<1> USE <1>1, <1>2 DEF IInv, TypeOK, PInv, EndInv, Players, At, Goto, uiVars, user, stopped
<1>4. CASE VideoThread /\ t = "video"
  BY <1>4 DEF VideoThread, VideoTop, WaitImage, VideoStep, DecodeVideo, Show, ClearVideo, Turn
<1>5. CASE DecodeThread /\ t = "decode"
  BY <1>5 DEF DecodeThread, DecodeTop, DecodeStep, Mark, Again, QueueFrame, GiveUpFrame
<1>6. CASE Quit(t)
  BY <1>3, <1>6 DEF Quit, Running
<1>7. CASE Arrive(t) \/ Pass(t) \/ HandleLoop(t)
  BY <1>7 DEF Arrive, Pass, HandleLoop, PastGate, PastLoop
<1>8. CASE EndOfClip(t) \/ LoopStop(t)
  BY <1>8 DEF EndOfClip, LoopStop, PastLoop
<1>9. CASE Swing(t)
  BY <1>9 DEF Swing, Reversed, kForwards, kBackwards, kStopped
<1>10. CASE LoopBreak(t) \/ LoopPush(t) \/ Exit(t)
  BY <1>10 DEF LoopBreak, LoopPush, Exit, PastLoop
<1>11. QED
  BY <1>4, <1>5, <1>6, <1>7, <1>8, <1>9, <1>10 DEF Step, Shared

LEMMA NearThreads ==
  ASSUME Unmarked, IInv, PInv, EndInv', NEW t \in Players, Step(t)
  PROVE  NearInv'
<1>1. threads' = threads /\ UNCHANGED uiVars
  BY StepKeepsUI
<1>2. SUFFICES ASSUME Live PROVE NearInv'
  BY <1>1 DEF NearInv, Live, uiVars
<1>3. imgFrame \in Int /\ frame["video"] \in Int
  BY PlaybackAssumption DEF IInv, TypeOK, Clip, Players
<1> USE <1>1, <1>2 DEF IInv, TypeOK, PInv, NearInv, Near, Players, At, Goto, uiVars, user, stopped
<1>4. CASE VideoThread /\ t = "video"
  <2>1. CASE VideoTop \/ WaitImage \/ VideoStep \/ DecodeVideo \/ ClearVideo \/ Turn
    BY <1>4, <2>1 DEF VideoTop, WaitImage, VideoStep, DecodeVideo, ClearVideo, Turn, Running
  <2>2. CASE Show
    BY <1>3, <1>4, <2>2 DEF Show, Playing, kForwards, kBackwards, kStopped
  <2>3. QED
    BY <1>4, <2>1, <2>2 DEF VideoThread
<1>5. CASE DecodeThread /\ t = "decode"
  BY <1>5 DEF DecodeThread, DecodeTop, DecodeStep, Mark, Again, QueueFrame, GiveUpFrame
<1>6. CASE Quit(t) \/ Arrive(t) \/ Pass(t) \/ HandleLoop(t)
  BY <1>6 DEF Quit, Arrive, Pass, HandleLoop, PastGate, PastLoop
<1>7. CASE EndOfClip(t) \/ LoopStop(t)
  BY <1>7 DEF EndOfClip, LoopStop, PastLoop
<1>8. CASE Swing(t)
  <2>1. ~stopped
    BY <1>8 DEF Swing, EndInv
  <2>2. CASE t = "video"
    <3>1. Near /\ ~InLoop(frame["video"]) /\ imgFrame \in Clip
      BY <1>8, <2>2 DEF Swing, OutOfLoop
    <3>2. Reflected(frame["video"]) = imgFrame
      BY <1>3, <3>1, Ends
    <3>3. frame'["video"] = imgFrame /\ imgFrame' = imgFrame
      BY <1>8, <2>2, <3>2 DEF Swing
    <3>4. QED
      BY <1>3, <3>3
  <2>3. CASE t = "decode"
    BY <1>8, <2>1, <2>3 DEF Swing
  <2>4. QED
    BY <2>2, <2>3
<1>9. CASE LoopBreak(t) \/ LoopPush(t) \/ Exit(t)
  BY <1>9 DEF LoopBreak, LoopPush, Exit, PastLoop, EndInv
<1>10. QED
  BY <1>4, <1>5, <1>6, <1>7, <1>8, <1>9 DEF Step, Shared

-----------------------------------------------------------------------------
\* What is needed of the state in the steps below.
LEMMA PassFacts ==
  ASSUME IInv, PInv, Live, ~stopped
  PROVE  /\ playback \in Playing /\ SamePass /\ FreshQueue
         /\ frame["video"] \in Int /\ frame["decode"] \in Int
         /\ DOMAIN pc = Players /\ DOMAIN frame = Players /\ DOMAIN step = Players
         /\ gathering \subseteq Players /\ leaving \subseteq Players
         /\ gathering \cap leaving = {}
         /\ packets \in Seq(Packet)
BY DEF IInv, TypeOK, GateInv, PInv, PassInv, stopped, Players

\* The video thread in a pass.
LEMMA PassVideo ==
  ASSUME Unmarked, IInv, PInv, VideoThread, Live, ~stopped, ~stopped'
  PROVE  SamePass'
<1> USE PassFacts DEF SamePass, Past, Players, At, Goto, gate, stopped, InLoop, LoopEnd, LoopStart,
    Toward, Reversed
<1>1. CASE VideoTop \/ WaitImage \/ VideoStep
  BY <1>1 DEF VideoTop, WaitImage, VideoStep, uiVars, user
<1>2. CASE DecodeVideo
  BY <1>2 DEF DecodeVideo, uiVars, user
<1>3. CASE ClearVideo \/ Turn
  BY <1>3 DEF ClearVideo, Turn, uiVars, user
<1>4. CASE Show
  <2>1. /\ At("video", "show") /\ pc' = [pc EXCEPT !["video"] = "top"]
        /\ frame' = [frame EXCEPT !["video"] = @ + playback]
        /\ UNCHANGED <<playback, gathering, leaving, looping, step>>
    BY <1>4 DEF Show, uiVars, user
  <2>2. frame["video"] \in Clip
    BY <2>1, Ends DEF PInv, OutOfLoop
  <2>3. ~InLoop(frame'["video"]) => Toward(frame'["video"]) = playback
    BY <2>1, <2>2, StepsInLoop
  <2>4. QED
    BY <2>1, <2>3
<1>5. QED
  BY <1>1, <1>2, <1>3, <1>4 DEF VideoThread

\* The decode thread in a pass.
LEMMA PassDecode ==
  ASSUME Unmarked, IInv, PInv, DecodeThread, Live, ~stopped, ~stopped'
  PROVE  SamePass'
<1> USE PassFacts DEF SamePass, Past, Players, At, Goto, gate, stopped, InLoop, LoopEnd, LoopStart,
    Toward, Reversed
<1>1. CASE DecodeTop \/ Mark \/ Again
  BY <1>1 DEF DecodeTop, Mark, Again, uiVars, user
<1>2. CASE QueueFrame \/ GiveUpFrame
  BY <1>2 DEF QueueFrame, GiveUpFrame, uiVars, user
<1>3. CASE DecodeStep
  <2>1. /\ At("decode", "step") /\ frame' = [frame EXCEPT !["decode"] = @ + playback]
        /\ pc' = [pc EXCEPT !["decode"] = IF InLoop(frame["decode"] + playback) THEN "frame" ELSE "mark"]
        /\ step' = [step EXCEPT !["decode"] = playback]
        /\ UNCHANGED <<playback, gathering, leaving, looping>>
    BY <1>3 DEF DecodeStep, uiVars, user
  <2>2. frame["decode"] \in Clip
    BY <2>1, Ends
  <2>3. ~InLoop(frame'["decode"]) => Toward(frame'["decode"]) = playback
    BY <2>1, <2>2, StepsInLoop
  <2>4. QED
    BY <2>1, <2>3
<1>4. QED
  BY <1>1, <1>2, <1>3 DEF DecodeThread

\* The instance counts with its own copy of Cardinality.
LEMMA GateCardinality == \A S : G!Cardinality(S) = Cardinality(S)
BY DEF G!Cardinality, Cardinality

\* Who completes the group finds the other one at the barrier.
LEMMA Companion ==
  ASSUME IInv, NEW t \in Players, G!Complete(t)
  PROVE  Players \ {t} = gathering
<1>1. gathering \subseteq Players /\ t \notin gathering /\ Cardinality(gathering) + 1 = 2
  BY GateCardinality DEF IInv, TypeOK, G!Complete, G!Outside
<1>2. gathering # {}
  BY <1>1, FS_EmptySet
<1>3. PICK o \in gathering : TRUE
  BY <1>2
<1>4. gathering = {o} /\ o \in Players /\ o # t
  BY <1>1, <1>3 DEF Players
<1>5. QED
  BY <1>4 DEF Players

\* The steps that end or break a playback leave it stopped; the others leave the two
\* threads where the pass wants them.
LEMMA PassShared ==
  ASSUME Unmarked, IInv, PInv, NEW t \in Players, Shared(t), Live, ~stopped, ~stopped'
  PROVE  SamePass'
<1>0. PICK o \in Players : o # t /\ Players = {t, o}
  BY DEF Players
<1>1. CASE Quit(t)
  <2>1. viewPlayback # kStopped
    BY LiveView
  <2>2. QED
    BY <1>1, <2>1 DEF Quit, Running
<1>2. CASE LoopBreak(t) \/ LoopPush(t) \/ Exit(t)
  BY <1>2 DEF LoopBreak, LoopPush, Exit, PInv, EndInv, At
<1>3. CASE EndOfClip(t) \/ LoopStop(t)
  BY <1>3 DEF EndOfClip, LoopStop, stopped
<1>4. CASE Arrive(t)
  <2>1. /\ At(t, "gate") /\ UNCHANGED <<playback, frame, step, looping>> /\ ~InLoop(frame[t])
        /\ Toward(frame[t]) = playback
    BY <1>4, PassFacts DEF Arrive, SamePass, Past, At, uiVars, user, PInv, OutOfLoop, Players
  <2>2. CASE G!Hold(t) /\ Goto(t, "gated")
    BY <2>1, <2>2, PassFacts
    DEF G!Hold, G!Outside, SamePass, Past, Players, At, Goto, InLoop, LoopEnd, LoopStart, Toward, Reversed
  <2>3. CASE G!Complete(t) /\ Goto(t, PastGate(t))
    <3>1. gathering = {o} /\ leaving' = leaving \cup {o} /\ gathering' = {}
      BY <1>0, <2>3, Companion DEF G!Complete
    <3>2. At(o, "gated") /\ o \notin leaving
      BY <3>1 DEF IInv, GateInv
    <3>3. ~InLoop(frame[o]) /\ Toward(frame[o]) = playback
      BY <3>2, PassFacts DEF SamePass, Past, At, PInv, OutOfLoop, Players
    <3>4. Past(t)' /\ Past(o)' /\ pc' = [pc EXCEPT ![t] = PastGate(t)]
      BY <1>0, <2>1, <2>3, <3>1, <3>2, PassFacts DEF Past, Goto, PastGate, At
    <3>5. pc'["decode"] \notin {"top", "step", "frame", "again"} /\ pc'["video"] \notin {"decode", "show"}
      BY <1>0, <2>1, <3>2, <3>4, PassFacts DEF PastGate, At, Players
    <3>6. /\ \A p \in Players : Past(p)' /\ Toward(frame[p]) = playback
          /\ \A p \in Players : Toward(frame[p])' = Toward(frame[p])
      BY <1>0, <2>1, <3>3, <3>4 DEF Toward, LoopEnd
    <3>7. QED
      BY <2>1, <3>5, <3>6 DEF SamePass
  <2>4. QED
    BY <1>4, <2>2, <2>3 DEF Arrive
<1>5. CASE Pass(t)
  <2>1. /\ Past(t) /\ pc' = [pc EXCEPT ![t] = PastGate(t)] /\ leaving' = leaving \ {t}
        /\ UNCHANGED <<playback, frame, step, looping>>
    BY <1>5 DEF Pass, G!Leave, Past, At, Goto, uiVars, user
  <2>2. \A p \in Players : Past(p)' <=> Past(p)
    BY <1>0, <2>1, PassFacts DEF Past, At, PastGate
  <2>3. QED
    BY <2>1, <2>2, PassFacts
    DEF SamePass, PastGate, Players, InLoop, LoopEnd, LoopStart, Toward, Reversed
<1>6. CASE HandleLoop(t)
  <2>1. /\ Past(t) /\ pc' = [pc EXCEPT ![t] = "loop"]
        /\ UNCHANGED <<playback, frame, step, looping, leaving>>
    BY <1>6 DEF HandleLoop, Past, At, Goto, uiVars, user, gate, PInv, OutOfLoop, Players
  <2>2. \A p \in Players : Past(p)' <=> Past(p)
    BY <1>0, <2>1, PassFacts DEF Past, At
  <2>3. QED
    BY <2>1, <2>2, PassFacts
    DEF SamePass, Players, InLoop, LoopEnd, LoopStart, Toward, Reversed
<1>7. CASE Swing(t)
  <2>1. /\ Past(t) /\ pc[t] = "loop" /\ looping = "PingPong" /\ playback' = Reversed(frame[t])
        /\ pc' = [pc EXCEPT ![t] = IF t = "video" THEN "turn" ELSE "again"]
        /\ frame' = [frame EXCEPT ![t] = Reflected(@)]
        /\ step' = [step EXCEPT ![t] = Reversed(frame[t])]
        /\ UNCHANGED <<leaving, looping>>
    BY <1>7 DEF Swing, Past, At, Goto, uiVars, user, gate
  <2>2. ~Past(t)' /\ (Past(o)' <=> Past(o))
    BY <1>0, <2>1, PassFacts DEF Past, At
  <2>3. /\ frame[t] \in Int /\ frame[o] \in Int /\ frame'[t] = Reflected(frame[t])
        /\ frame'[o] = frame[o] /\ step'[o] = step[o] /\ pc'[o] = pc[o]
    BY <1>0, <2>1, PassFacts DEF Players
  <2>4. InLoop(frame'[t])
    BY <2>3, Ends
  <2>5. CASE Past(o)
    <3>1. Toward(frame[t]) = playback /\ Toward(frame[o]) = playback
      BY <1>0, <2>1, <2>5, PassFacts DEF SamePass
    <3>2. Reversed(frame'[o]) = playback'
      BY <2>1, <2>3, <3>1, Turned
    <3>3. pc[o] \notin {"top", "step", "frame", "again", "decode", "show"}
      BY <2>5 DEF Past, At
    <3>4. pc'["video"] \notin {"decode", "show"} /\ (o = "decode" => pc'["decode"] = pc[o])
      BY <1>0, <2>1, <2>3, <3>3, PassFacts DEF Players
    <3>5. pc'["decode"] \in {"top", "step", "frame", "again"} => InLoop(frame'["decode"])
      BY <1>0, <2>4, <3>3, <3>4 DEF Players
    <3>6. QED
      BY <1>0, <2>1, <2>2, <2>4, <2>5, <3>2, <3>4, <3>5
      DEF SamePass, InLoop, LoopEnd, LoopStart, Toward, Reversed
  <2>6. CASE ~Past(o)
    <3>1. playback' = playback
      BY <1>0, <2>1, <2>6, PassFacts DEF SamePass
    <3>2. ~InLoop(frame'[o]) => Toward(frame'[o]) = playback'
      BY <1>0, <2>3, <2>6, <3>1, PassFacts DEF SamePass
    <3>3. /\ pc'["decode"] \in {"top", "step", "frame", "again"} => InLoop(frame'["decode"])
          /\ pc'["video"] \in {"decode", "show"} => step'["video"] = playback'
      BY <1>0, <2>1, <2>3, <2>4, <3>1, PassFacts DEF SamePass, Players
    <3>4. QED
      BY <1>0, <2>2, <2>4, <2>6, <3>2, <3>3
      DEF SamePass, InLoop, LoopEnd, LoopStart, Toward, Reversed
  <2>7. QED
    BY <2>5, <2>6
<1>8. QED
  BY <1>1, <1>2, <1>3, <1>4, <1>5, <1>6, <1>7 DEF Shared

-----------------------------------------------------------------------------
\* What the queue may be made into.
LEMMA FreshTail == ASSUME packets \in Seq(Packet), packets # <<>>, Fresh, playback' = playback,
                          packets' = Tail(packets)
                   PROVE  Fresh'
BY DEF Fresh

LEMMA FreshFrame == ASSUME packets \in Seq(Packet), Fresh, playback' = playback,
                           NEW f, packets' = Append(packets, [kind |-> "frame", dts |-> f])
                    PROVE  Fresh'
BY DEF Fresh

LEMMA Concatenated ==
  ASSUME NEW s \in Seq(Packet), NEW m \in Seq(Packet)
  PROVE  /\ Len(s \o m) = Len(s) + Len(m)
         /\ \A i \in 1..(Len(s) + Len(m)) :
              (s \o m)[i] = IF i <= Len(s) THEN s[i] ELSE m[i - Len(s)]
OBVIOUS

LEMMA FreshMarkers ==
  ASSUME packets \in Seq(Packet), Fresh, playback' = playback, playback \in Playing,
         NEW f, Toward(f) = playback, packets' = packets \o Markers(f)
  PROVE  Fresh'
<1>1. /\ Len(Markers(f)) = 2
      /\ \A i \in 1..2 : Markers(f)[i].kind = IF LoopEnd(f) THEN "loopEnd" ELSE "loopStart"
  BY DEF Markers
<1>2. \A i \in 1..2 : Markers(f)[i].kind # (IF playback = kForwards THEN "loopStart" ELSE "loopEnd")
  BY <1>1 DEF Toward, kForwards, kBackwards
<1>3. Len(packets) \in Nat /\ Markers(f) \in Seq(Packet)
  BY MarkersType
<1>4. /\ Len(packets') = Len(packets) + 2
      /\ \A i \in 1..Len(packets') :
           packets'[i] = IF i <= Len(packets) THEN packets[i] ELSE Markers(f)[i - Len(packets)]
  BY <1>1, <1>3, Concatenated
<1>5. ASSUME NEW i \in 1..Len(packets')
      PROVE  packets'[i].kind # (IF playback = kForwards THEN "loopStart" ELSE "loopEnd")
  <2>1. CASE i <= Len(packets)
    BY <1>3, <1>4, <2>1 DEF Fresh
  <2>2. CASE i > Len(packets)
    <3>1. i - Len(packets) \in 1..2
      BY <1>3, <1>4, <2>2
    <3>2. QED
      BY <1>2, <1>3, <1>4, <2>2, <3>1
  <2>3. QED
    BY <1>3, <2>1, <2>2
<1>6. QED
  BY <1>5 DEF Fresh

LEMMA QueueVideo ==
  ASSUME Unmarked, IInv, PInv, VideoThread, Live, ~stopped, ~stopped'
  PROVE  FreshQueue'
<1>1. CASE ClearVideo
  BY <1>1 DEF ClearVideo, FreshQueue, Fresh
<1>2. CASE ~ClearVideo
  <2>1. /\ ~Past("video") /\ ~Past("video")' /\ ~At("video", "clear") /\ playback' = playback
        /\ packets' = packets \/ (packets # <<>> /\ packets' = Tail(packets))
    BY <1>2, PassFacts
    DEF VideoThread, VideoTop, WaitImage, VideoStep, DecodeVideo, Show, Turn, Past, At, Goto,
        Players, gate, Decoded
  <2>2. Fresh
    BY <2>1, PassFacts DEF FreshQueue, Past, At
  <2>3. Fresh'
    BY <2>1, <2>2, FreshTail, PassFacts DEF Fresh
  <2>4. QED
    BY <2>1, <2>3 DEF FreshQueue
<1>3. QED
  BY <1>1, <1>2

LEMMA QueueDecode ==
  ASSUME Unmarked, IInv, PInv, DecodeThread, Live, ~stopped, ~stopped'
  PROVE  FreshQueue'
<1>1. /\ ~Past("decode") /\ ~Past("decode")' /\ playback' = playback
      /\ UNCHANGED leaving /\ pc'["video"] = pc["video"]
  BY PassFacts
  DEF DecodeThread, DecodeTop, DecodeStep, Mark, Again, QueueFrame, GiveUpFrame, Past, At, Goto,
      Players, gate
<1>2. CASE At("video", "clear") \/ (At("video", "gated") /\ "video" \in leaving)
  BY <1>1, <1>2 DEF FreshQueue, At
<1>3. CASE Fresh
  <2>1. CASE Mark
    <3>1. Toward(frame["decode"]) = playback
      BY <1>1, <2>1, PassFacts DEF Mark, At, SamePass, PInv, OutOfLoop, Players
    <3>2. Fresh'
      BY <1>1, <1>3, <2>1, <3>1, FreshMarkers, PassFacts DEF Mark
    <3>3. QED
      BY <1>1, <3>2 DEF FreshQueue
  <2>2. CASE QueueFrame
    <3>1. Fresh'
      BY <1>1, <1>3, <2>2, FreshFrame, PassFacts DEF QueueFrame
    <3>2. QED
      BY <1>1, <3>1 DEF FreshQueue
  <2>3. CASE DecodeTop \/ DecodeStep \/ Again \/ GiveUpFrame
    <3>1. packets' = packets
      BY <2>3 DEF DecodeTop, DecodeStep, Again, GiveUpFrame
    <3>2. QED
      BY <1>1, <1>3, <3>1 DEF FreshQueue, Fresh
  <2>4. QED
    BY <2>1, <2>2, <2>3 DEF DecodeThread
<1>4. QED
  BY <1>1, <1>2, <1>3, PassFacts DEF FreshQueue

LEMMA QueueShared ==
  ASSUME Unmarked, IInv, PInv, NEW t \in Players, Shared(t), Live, ~stopped, ~stopped'
  PROVE  FreshQueue'
<1>1. CASE Quit(t)
  <2>1. viewPlayback # kStopped
    BY LiveView
  <2>2. QED
    BY <1>1, <2>1 DEF Quit, Running
<1>2. CASE LoopBreak(t) \/ LoopPush(t) \/ Exit(t)
  BY <1>2 DEF LoopBreak, LoopPush, Exit, PInv, EndInv, At
<1>3. CASE EndOfClip(t) \/ LoopStop(t)
  BY <1>3 DEF EndOfClip, LoopStop, stopped
<1>4. CASE Arrive(t)
  <2>1. At(t, "gate") /\ UNCHANGED <<playback, packets>>
    BY <1>4 DEF Arrive
  <2>2. CASE G!Hold(t) /\ Goto(t, "gated")
    BY <2>1, <2>2, PassFacts DEF G!Hold, G!Outside, FreshQueue, Fresh, Past, At, Goto, Players
  <2>3. CASE G!Complete(t) /\ Goto(t, PastGate(t))
    <3>1. leaving' = leaving \cup gathering /\ gathering = Players \ {t}
      BY <2>3, Companion DEF G!Complete
    <3>2. CASE t = "video"
      BY <2>3, <3>2, PassFacts DEF PastGate, Goto, FreshQueue, At, Players
    <3>3. CASE t = "decode"
      <4>1. "video" \in leaving' /\ At("video", "gated")
        BY <3>1, <3>3 DEF Players, IInv, GateInv
      <4>2. pc'["video"] = pc["video"]
        BY <2>3, <3>3, PassFacts DEF Goto, Players
      <4>3. QED
        BY <4>1, <4>2 DEF FreshQueue, At
    <3>4. QED
      BY <3>2, <3>3 DEF Players
  <2>4. QED
    BY <1>4, <2>2, <2>3 DEF Arrive
<1>5. CASE Pass(t)
  BY <1>5, PassFacts DEF Pass, G!Leave, PastGate, Goto, FreshQueue, Fresh, Past, At, Players
<1>6. CASE HandleLoop(t)
  BY <1>6, PassFacts DEF HandleLoop, PInv, OutOfLoop, Goto, FreshQueue, Fresh, Past, At, Players, gate
<1>7. CASE Swing(t)
  <2>1. /\ Past(t) /\ pc[t] = "loop" /\ playback' = Reversed(frame[t])
        /\ pc' = [pc EXCEPT ![t] = IF t = "video" THEN "turn" ELSE "again"]
        /\ UNCHANGED <<leaving, packets>>
    BY <1>7 DEF Swing, Past, At, Goto, gate
  <2>2. ~Past(t)'
    BY <2>1, PassFacts DEF Past, At
  <2>3. CASE packets = <<>>
    BY <2>1, <2>2, <2>3 DEF FreshQueue, Fresh, Players
  <2>4. CASE Past("video") /\ Past("decode") /\ packets # <<>>
    <3>1. At("video", "clear") \/ (At("video", "gated") /\ "video" \in leaving)
      BY <2>4, PassFacts DEF FreshQueue
    <3>2. t = "decode"
      BY <2>1, <3>1 DEF At, Players
    <3>3. pc'["video"] = pc["video"]
      BY <2>1, <3>2, PassFacts DEF Players
    <3>4. QED
      BY <2>1, <3>1, <3>3 DEF FreshQueue, At
  <2>5. CASE ~(Past("video") /\ Past("decode"))
    <3>1. playback' = playback
      BY <2>1, <2>5, PassFacts DEF SamePass, Players
    <3>2. ~At("video", "clear") /\ ~(At("video", "gated") /\ "video" \in leaving)
      BY <2>1, <2>5 DEF Past, At, Players
    <3>3. Fresh /\ Fresh'
      BY <2>1, <2>5, <3>1, <3>2, PassFacts DEF FreshQueue, Fresh
    <3>4. QED
      BY <2>2, <3>3 DEF FreshQueue, Players
  <2>6. QED
    BY <2>3, <2>4, <2>5
<1>8. QED
  BY <1>1, <1>2, <1>3, <1>4, <1>5, <1>6, <1>7 DEF Shared

-----------------------------------------------------------------------------
\* Once a clip that does not swing is stopped, only the UI thread plays it again.
LEMMA StaysStopped ==
  ASSUME IInv, PInv, Live, NEW t \in Players, Step(t), stopped
  PROVE  stopped'
<1>1. looping # "PingPong"
  BY DEF PInv, EndInv
<1>2. CASE VideoThread /\ t = "video"
  BY <1>2 DEF VideoThread, VideoTop, WaitImage, VideoStep, DecodeVideo, Show, ClearVideo, Turn, stopped
<1>3. CASE DecodeThread /\ t = "decode"
  BY <1>3 DEF DecodeThread, DecodeTop, DecodeStep, Mark, Again, QueueFrame, GiveUpFrame, stopped
<1>4. CASE Shared(t)
  BY <1>1, <1>4 DEF Shared, Arrive, Pass, LoopBreak, Quit, HandleLoop, EndOfClip, Swing, LoopStop,
     LoopPush, Exit, stopped
<1>5. QED
  BY <1>2, <1>3, <1>4 DEF Step, Players

LEMMA PassThreads ==
  ASSUME Unmarked, IInv, PInv, NEW t \in Players, Step(t)
  PROVE  PInv'
<1>1. threads' = threads /\ UNCHANGED uiVars
  BY StepKeepsUI
<1>2. OutOfLoop'
  BY OutVideo, OutDecode, OutShared DEF Step, IInv, PInv
<1>3. EndInv'
  BY EndThreads
<1>4. NearInv'
  BY <1>3, NearThreads
<1>5. PassInv'
  <2>1. SUFFICES ASSUME Live, ~stopped, ~stopped' PROVE SamePass' /\ FreshQueue'
    BY <1>1, StaysStopped DEF PassInv, Live, uiVars
  <2>2. CASE Shared(t)
    BY <2>1, <2>2, PassShared, QueueShared
  <2>3. CASE VideoThread
    BY <2>1, <2>3, PassVideo, QueueVideo
  <2>4. CASE DecodeThread
    BY <2>1, <2>4, PassDecode, QueueDecode
  <2>5. QED
    BY <2>2, <2>3, <2>4 DEF Step
<1>6. QED
  BY <1>2, <1>3, <1>4, <1>5 DEF PInv

LEMMA PassInductive == ASSUME Unmarked PROVE IInv /\ PInv /\ [Next]_vars => PInv'
<1> SUFFICES ASSUME IInv, PInv, [Next]_vars PROVE PInv'
  OBVIOUS
<1>1. CASE Serve \/ User
  BY <1>1, UIPass
<1>2. CASE \E t \in Players : Step(t)
  BY <1>2, PassThreads
<1>3. CASE UNCHANGED vars
  <2>1. UNCHANGED <<playback, imgFrame, packets, gathering, leaving, threads, pc, frame, step, ui, looping>>
    BY <1>3 DEF vars, view, gate, locals, mail, uiVars, user
  <2>2. QED
    BY <2>1 DEF PInv, OutOfLoop, EndInv, NearInv, Near, PassInv, SamePass, FreshQueue, Fresh, Past,
       At, Live, stopped, InLoop, LoopEnd, LoopStart, Toward, Reversed
<1>4. QED
  BY <1>1, <1>2, <1>3 DEF Next

LEMMA PassInvariant == ASSUME Unmarked PROVE Spec => [](IInv /\ PInv)
<1>1. Init => PInv
  BY PassInit
<1>2. IInv /\ PInv /\ [Next]_vars => PInv'
  BY PassInductive
<1>3. QED
  BY <1>1, <1>2, Invariant, PTL DEF Spec

-----------------------------------------------------------------------------
\* The video thread decodes with no marker of another pass in its queue: what
\* clear_video_packets() empties after the barrier is all there was of the pass before.
THEOREM MarkersAreFresh == ASSUME Unmarked PROVE Spec => []MarkersOfThisPass
<1>1. IInv /\ PInv => MarkersOfThisPass
  <2> SUFFICES ASSUME IInv, PInv, At("video", "decode"), ~stopped, ui = "idle" PROVE Fresh
    BY DEF MarkersOfThisPass, Fresh
  <2>1. Live
    BY DEF Live, IInv, TypeOK, GoneInv, Exited, At, Players
  <2>2. QED
    BY <2>1, PassFacts DEF FreshQueue, Past, At
<1>2. QED
  BY <1>1, PassInvariant, PTL

\* The frame that is shown moves by one at a time, also at the turns of a swing.
THEOREM EveryFrameShown == ASSUME Unmarked PROVE Spec => NoFrameSkipped
<1>1. IInv /\ PInv /\ [Next]_vars => [ui = "idle" => imgFrame' - imgFrame \in -1..1]_vars
  <2> SUFFICES ASSUME IInv, PInv, Next, ui = "idle" PROVE imgFrame' - imgFrame \in -1..1
    OBVIOUS
  <2>1. imgFrame \in Int
    BY PlaybackAssumption DEF IInv, TypeOK, Clip
  <2>2. CASE Show
    <3>1. imgFrame' = frame["video"] /\ At("video", "show")
      BY <2>2 DEF Show
    <3>2. Live
      BY <3>1 DEF Live, IInv, TypeOK, GoneInv, Exited, At, Players
    <3>3. QED
      BY <3>1, <3>2 DEF PInv, NearInv, Near, At
  <2>3. CASE ~Show
    <3>1. imgFrame' = imgFrame
      BY <2>3 DEF Next, Serve, User, StopBegin, StopNotify, StopJoin, StopTimeout, Shut, SeekImage,
         Start, HandleCommand, SkipCommand, UserStop, UserPlay, UserSeek, Seek, player, view,
         Step, Shared, VideoThread, DecodeThread, VideoTop, WaitImage, VideoStep, DecodeVideo,
         ClearVideo, Turn, DecodeTop, DecodeStep, Mark, Again, QueueFrame, GiveUpFrame, Quit,
         Arrive, Pass, HandleLoop, EndOfClip, Swing, LoopStop, LoopBreak, LoopPush, Exit
    <3>2. QED
      BY <2>1, <3>1
  <2>4. QED
    BY <2>2, <2>3
<1>2. QED
  BY <1>1, PassInvariant, PTL DEF Spec, NoFrameSkipped

\* No thread ends or turns a pass whose last frame has not been shown, whichever of
\* the two comes past the barrier first.
THEOREM PassEndsInTime == ASSUME Unmarked PROVE Spec => PassEndsAfterLastFrame
<1>1. IInv /\ PInv /\ [Next]_vars =>
        [playback' # playback /\ playback # kStopped /\ ui = "idle" /\ ui' = "idle"
           => ~InLoop(frame["video"])]_vars
  <2> SUFFICES ASSUME IInv, PInv, Next, playback' # playback, playback # kStopped, ui = "idle",
                      ui' = "idle"
               PROVE  ~InLoop(frame["video"])
    OBVIOUS
  <2>1. PICK t \in Players : Step(t)
    BY DEF Next, Serve, User, StopBegin, StopNotify, StopJoin, StopTimeout, Shut, SeekImage,
       Start, HandleCommand, SkipCommand, UserStop, UserPlay, UserSeek, Seek, player
  <2>2. Live /\ ~stopped
    BY DEF Live, IInv, TypeOK, GoneInv, stopped
  <2>3. EndOfClip(t) \/ LoopStop(t) \/ Swing(t) \/ Exit(t)
    BY <2>1 DEF Step, Shared, VideoThread, DecodeThread, VideoTop, WaitImage, VideoStep, DecodeVideo,
       Show, ClearVideo, Turn, DecodeTop, DecodeStep, Mark, Again, QueueFrame, GiveUpFrame, Quit,
       Arrive, Pass, HandleLoop, LoopBreak, LoopPush
  <2>4. ~Exit(t)
    BY <2>2 DEF Exit, At, PInv, EndInv
  <2>5. Past(t) /\ ~InLoop(frame[t])
    BY <2>3, <2>4 DEF EndOfClip, LoopStop, Swing, At, Past, PInv, OutOfLoop, Players
  <2>6. CASE t = "video"
    BY <2>5, <2>6
  <2>7. CASE t = "decode" /\ ~Past("video")
    <3>1. looping = "PingPong" /\ Reversed(frame["decode"]) = playback
      BY <2>2, <2>5, <2>7, PassFacts DEF SamePass, Players
    <3>2. QED
      BY <2>3, <2>4, <2>7, <3>1 DEF EndOfClip, LoopStop, Swing
  <2>8. CASE Past("video")
    BY <2>8 DEF Past, At, PInv, OutOfLoop
  <2>9. QED
    BY <2>6, <2>7, <2>8 DEF Players
<1>2. QED
  BY <1>1, PassInvariant, PTL DEF Spec, PassEndsAfterLastFrame
=============================================================================
