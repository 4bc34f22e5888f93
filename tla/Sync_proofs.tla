---------------------------- MODULE Sync_proofs ----------------------------
(***************************************************************************)
(* Theorems about any number of viewers, frames and things their users do. *)
(***************************************************************************)
EXTENDS Sync, TLAPS, SequenceTheorems

\* What is done and sent is of the known kinds.
LEMMA Kinds ==
  /\ \A f \in Frames :
       /\ Item("seek", f) \in Message /\ Item("stop", f) \in Message
       /\ Item("kSeek", f) \in Command /\ Item("kStopVideo", f) \in Command
       /\ Item("kPlayForwards", f) \in Command
       /\ Item("seek", f) \in Call /\ Item("replay", f) \in Call
  /\ Item("playfwd", None) \in Message /\ Item("sync_image", None) \in Message
  /\ Item("kPlayForwards", None) \in Command
  /\ Item("stop", None) \in Call /\ Item("play", None) \in Call /\ Item("zoom", None) \in Call
  BY DEF None, Frames, Item, Message, Command, Call

\* Sending puts a message on the links, and may be noted as a race.
LEMMA Sending ==
  ASSUME TypeOK, NEW v \in Viewers, NEW m \in Message, Send(v, m)
  PROVE  link' \in [Viewers \X Viewers -> Seq(Message)] /\ races' \subseteq {"muted", "overtook", "silenced", "stale", "late"}
<1>1. link' \in [Viewers \X Viewers -> Seq(Message)]
  <2>1. CASE network_active[v]
    <3>1. link' = [p \in Viewers \X Viewers |->
             IF p[1] = v /\ p[2] \in Peers(v) \ {} THEN Append(link[p], m) ELSE link[p]]
      BY <2>1 DEF Send, Write, TypeOK
    <3>2. \A p \in Viewers \X Viewers : link[p] \in Seq(Message) /\ Append(link[p], m) \in Seq(Message)
      BY DEF TypeOK
    <3>3. QED
      BY <3>1, <3>2
  <2>2. CASE ~network_active[v]
    BY <2>2 DEF Send, TypeOK
  <2>3. QED
    BY <2>1, <2>2
<1>2. races' \subseteq {"muted", "overtook", "silenced", "stale", "late"}
  BY DEF Send, TypeOK
<1>3. QED
  BY <1>1, <1>2

LEMMA InitTyped == Init => TypeOK
<1> SUFFICES ASSUME Init PROVE TypeOK
  OBVIOUS
<1>1. 1 \in Frames
  BY SyncAssumption DEF Frames
<1>2. left.first \subseteq Clients
  BY SyncAssumption DEF Init
<1>3. QED
  BY <1>1, <1>2 DEF Init, TypeOK

\* What is left of a call after its first step.
LEMMA Continued ==
  ASSUME TypeOK, NEW v \in Viewers, calls[v] # <<>>, NEW more \in Seq(Call), Then(v, more)
  PROVE  calls' \in [Viewers -> Seq(Call)]
<1>1. Tail(calls[v]) \in Seq(Call)
  BY DEF TypeOK
<1>2. more \o Tail(calls[v]) \in Seq(Call)
  BY <1>1
<1>3. QED
  BY <1>2 DEF Then, TypeOK

LEMMA FirstCall ==
  ASSUME TypeOK, NEW v \in Viewers, NEW type, First(v, type)
  PROVE  /\ calls[v] # <<>> /\ Head(calls[v]) \in Call /\ Head(calls[v]).type = type
         /\ type \in {"seek", "replay"} => Head(calls[v]).frame \in Frames
<1>1. calls[v] # <<>> /\ Head(calls[v]) \in Call /\ Head(calls[v]).type = type
  BY DEF TypeOK, First
<1>2. QED
  BY <1>1 DEF Call

LEMMA SeekTyped ==
  ASSUME TypeOK, NEW v \in Viewers, Seek(v)
  PROVE  /\ frame' \in [Viewers -> Frames] /\ image' \in [Viewers -> Frames]
         /\ playing' \in [Viewers -> BOOLEAN] /\ calls' \in [Viewers -> Seq(Call)]
         /\ link' \in [Viewers \X Viewers -> Seq(Message)]
         /\ races' \subseteq {"muted", "overtook", "silenced", "stale", "late"}
<1> DEFINE f == Head(calls[v]).frame
           more == IF playing[v] THEN <<Item("stop", None), Item("replay", f)>> ELSE <<>>
<1>1. calls[v] # <<>> /\ f \in Frames
  BY FirstCall DEF Seek
<1>2. Item("seek", f) \in Message /\ Item("stop", None) \in Call /\ Item("replay", f) \in Call
  BY <1>1, Kinds
<1>3. more \in Seq(Call) /\ <<>> \in Seq(Call)
  BY <1>2
<1>4. CASE f = frame[v]
  <2>1. Then(v, <<>>) /\ UNCHANGED <<view, link, races>>
    BY <1>4 DEF Seek
  <2>2. QED
    BY <2>1, <1>1, <1>3, Continued DEF TypeOK, view
<1>5. CASE f # frame[v]
  <2>1. /\ Send(v, Item("seek", f)) /\ Then(v, more)
        /\ frame' = [frame EXCEPT ![v] = f]
        /\ image' = IF playing[v] THEN image ELSE [image EXCEPT ![v] = f]
        /\ playing' = playing
    BY <1>5 DEF Seek
  <2>2. calls' \in [Viewers -> Seq(Call)]
    BY <2>1, <1>1, <1>3, Continued
  <2>3. QED
    BY <2>1, <2>2, <1>1, <1>2, Sending DEF TypeOK
<1>6. QED
  BY <1>4, <1>5

LEMMA StopTyped ==
  ASSUME TypeOK, NEW v \in Viewers, Stop(v)
  PROVE  /\ frame' \in [Viewers -> Frames] /\ image' \in [Viewers -> Frames]
         /\ playing' \in [Viewers -> BOOLEAN] /\ calls' \in [Viewers -> Seq(Call)]
         /\ link' \in [Viewers \X Viewers -> Seq(Message)]
         /\ races' \subseteq {"muted", "overtook", "silenced", "stale", "late"}
<1>1. calls[v] # <<>> /\ image[v] \in Frames
  BY FirstCall DEF Stop, TypeOK
<1>2. calls' \in [Viewers -> Seq(Call)]
  <2>1. Then(v, <<>>) /\ <<>> \in Seq(Call)
    BY DEF Stop
  <2>2. QED
    BY <2>1, <1>1, Continued
<1>3. CASE UNCHANGED <<view, link, races>>
  BY <1>2, <1>3 DEF TypeOK, view
<1>4. CASE /\ frame' = [frame EXCEPT ![v] = image[v]]
           /\ playing' = [playing EXCEPT ![v] = FALSE]
           /\ Send(v, Item("stop", image[v]))
           /\ UNCHANGED image
  BY <1>1, <1>2, <1>4, Kinds, Sending DEF TypeOK
<1>5. QED
  BY <1>3, <1>4 DEF Stop

LEMMA PlayTyped ==
  ASSUME TypeOK, NEW v \in Viewers, Play(v)
  PROVE  /\ frame' \in [Viewers -> Frames] /\ image' \in [Viewers -> Frames]
         /\ playing' \in [Viewers -> BOOLEAN] /\ calls' \in [Viewers -> Seq(Call)]
         /\ link' \in [Viewers \X Viewers -> Seq(Message)]
         /\ races' \subseteq {"muted", "overtook", "silenced", "stale", "late"}
<1>1. calls[v] # <<>>
  BY DEF Play, First
<1>2. calls' \in [Viewers -> Seq(Call)]
  <2>1. Then(v, <<>>) /\ <<>> \in Seq(Call)
    BY DEF Play
  <2>2. QED
    BY <2>1, <1>1, Continued
<1>3. image' \in [Viewers -> Frames]
  <2>1. CASE First(v, "play")
    BY <2>1 DEF Play, TypeOK
  <2>2. CASE ~First(v, "play")
    <3>1. Head(calls[v]).frame \in Frames
      BY <2>2, FirstCall DEF Play
    <3>2. QED
      BY <2>2, <3>1 DEF Play, TypeOK
  <2>3. QED
    BY <2>1, <2>2
<1>4. Send(v, Item("playfwd", None)) /\ Item("playfwd", None) \in Message
  BY Kinds DEF Play
<1>5. QED
  BY <1>2, <1>3, <1>4, Sending DEF Play, TypeOK

LEMMA MakeCallTyped == ASSUME TypeOK, NEW v \in Viewers, MakeCall(v) PROVE TypeOK'
<1>1. /\ frame' \in [Viewers -> Frames] /\ image' \in [Viewers -> Frames]
      /\ playing' \in [Viewers -> BOOLEAN] /\ calls' \in [Viewers -> Seq(Call)]
      /\ link' \in [Viewers \X Viewers -> Seq(Message)]
      /\ races' \subseteq {"muted", "overtook", "silenced", "stale", "late"}
  BY SeekTyped, StopTyped, PlayTyped DEF MakeCall
<1>2. network_active' \in [Viewers -> BOOLEAN] /\ serving' \in [Viewers -> BOOLEAN]
  BY DEF MakeCall, TypeOK
<1>3. QED
  BY <1>1, <1>2 DEF MakeCall, TypeOK

LEMMA InterfaceTyped == ASSUME TypeOK, NEW v \in Viewers, Interface(v) PROVE TypeOK'
<1>1. CASE MakeCall(v)
  BY <1>1, MakeCallTyped
<1>2. CASE Zoomed(v)
  <2>1. calls[v] # <<>> /\ <<>> \in Seq(Call) /\ Then(v, <<>>)
    BY <1>2 DEF Zoomed, First
  <2>2. calls' \in [Viewers -> Seq(Call)]
    BY <2>1, Continued
  <2>3. QED
    BY <1>2, <2>2 DEF Zoomed, view, wire, TypeOK
<1>3. CASE HandleCommand(v)
  <2> DEFINE c == Head(commands[v])
  <2>1. TakeCommand(v, network_active[v] /\ v = server)
    BY <1>3 DEF HandleCommand
  <2>2. commands[v] # <<>> /\ c \in Command /\ Tail(commands[v]) \in Seq(Command)
    BY <2>1 DEF TakeCommand, TypeOK
  <2>3. CallsOf(c) \in Seq(Call)
    <3>1. CASE c.type = "kSeek"
      BY <2>2, <3>1, Kinds DEF CallsOf, Command
    <3>2. CASE c.type = "kStopVideo"
      BY <2>2, <3>2, Kinds DEF CallsOf, Command
    <3>3. CASE c.type = "kPlayForwards"
      BY <2>2, <3>3, Kinds DEF CallsOf, Command
    <3>4. QED
      BY <2>2, <3>1, <3>2, <3>3 DEF Command
  <2>4. /\ calls' \in [Viewers -> Seq(Call)] /\ commands' \in [Viewers -> Seq(Command)]
        /\ serving' \in [Viewers -> BOOLEAN] /\ saved' \in [Viewers -> BOOLEAN]
    BY <2>1, <2>2, <2>3 DEF TakeCommand, TypeOK
  <2>5. network_active' \in [Viewers -> BOOLEAN]
    BY <2>1 DEF TakeCommand, TypeOK
  <2>6. QED
    BY <2>1, <2>4, <2>5 DEF TakeCommand, view, wire, TypeOK
<1>4. QED
  BY <1>1, <1>2, <1>3 DEF Interface

\* What the network thread holds while it has a message.
LEMMA Held ==
  ASSUME TypeOK, NEW v \in Viewers, net[v].pc # "idle"
  PROVE  net[v] \in [pc : {"parse", "parsed", "forward"}, msg : Message, from : Viewers]
  BY DEF TypeOK, Idle

LEMMA NetworkTyped == ASSUME TypeOK, NEW v \in Viewers, Network(v) PROVE TypeOK'
<1>1. ASSUME NEW w \in Viewers, Parse(v, w) PROVE TypeOK'
  <2>1. /\ link[<<w, v>>] \in Seq(Message) /\ link[<<w, v>>] # <<>>
        /\ net' = [net EXCEPT ![v] = [pc |-> "parse", msg |-> Head(link[<<w, v>>]), from |-> w]]
        /\ link' = [link EXCEPT ![<<w, v>>] = Tail(@)]
    BY <1>1 DEF Parse, TypeOK
  <2>2. Head(link[<<w, v>>]) \in Message /\ Tail(link[<<w, v>>]) \in Seq(Message)
    BY <2>1
  <2>3. net' \in [Viewers -> {Idle} \cup [pc : {"parse", "parsed", "forward"}, msg : Message, from : Viewers]]
    BY <2>1, <2>2 DEF TypeOK
  <2>4. link' \in [Viewers \X Viewers -> Seq(Message)]
    BY <2>1, <2>2 DEF TypeOK
  <2>5. network_active' \in [Viewers -> BOOLEAN]
    BY <1>1 DEF Parse, TypeOK
  <2>6. QED
    BY <1>1, <2>3, <2>4, <2>5 DEF Parse, view, ui, TypeOK
<1>2. CASE Answer(v)
  <2>1. net[v] \in [pc : {"parse", "parsed", "forward"}, msg : Message, from : Viewers]
    BY <1>2, Held DEF Answer
  <2>2. frame[v] \in Frames /\ <<v, net[v].from>> \in Viewers \X Viewers
    BY <2>1 DEF TypeOK
  <2>3. Append(link[<<v, net[v].from>>], Item("seek", frame[v])) \in Seq(Message)
    BY <2>2, Kinds DEF TypeOK
  <2>4. link' \in [Viewers \X Viewers -> Seq(Message)]
    BY <1>2, <2>2, <2>3 DEF Answer, TypeOK
  <2>5. net' \in [Viewers -> {Idle} \cup [pc : {"parse", "parsed", "forward"}, msg : Message, from : Viewers]]
    BY <1>2, <2>1 DEF Answer, TypeOK
  <2>6. QED
    BY <1>2, <2>4, <2>5 DEF Answer, view, ui, TypeOK
<1>3. CASE PushCommands(v)
  <2> DEFINE m == net[v].msg
  <2>1. net[v] \in [pc : {"parse", "parsed", "forward"}, msg : Message, from : Viewers]
    BY <1>3, Held DEF PushCommands
  <2>2. m \in Message /\ m.type # "sync_image"
    BY <1>3, <2>1 DEF PushCommands
  <2>3. CommandsOf(v, m) \in Seq(Command)
    <3>1. CASE m.type = "seek"
      BY <2>2, <3>1, Kinds DEF CommandsOf, Message
    <3>2. CASE m.type = "stop"
      BY <2>2, <3>2, Kinds DEF CommandsOf, Message
    <3>3. CASE m.type = "playfwd"
      BY <2>2, <3>3, Kinds DEF CommandsOf, Message
    <3>4. QED
      BY <2>2, <3>1, <3>2, <3>3 DEF Message
  <2>4. commands[v] \o CommandsOf(v, m) \in Seq(Command)
    BY <2>3 DEF TypeOK
  <2>5. commands' \in [Viewers -> Seq(Command)]
    BY <1>3, <2>4 DEF PushCommands, TypeOK
  <2>6. net' \in [Viewers -> {Idle} \cup [pc : {"parse", "parsed", "forward"}, msg : Message, from : Viewers]]
    BY <1>3, <2>1 DEF PushCommands, TypeOK
  <2>7. QED
    BY <1>3, <2>5, <2>6 DEF PushCommands, view, ui, wire, TypeOK
<1>4. CASE Parsed(v)
  <2>1. net[v] \in [pc : {"parse", "parsed", "forward"}, msg : Message, from : Viewers]
    BY <1>4, Held DEF Parsed
  <2>2. [net[v] EXCEPT !.pc = "forward"] \in [pc : {"parse", "parsed", "forward"}, msg : Message, from : Viewers]
    BY <2>1
  <2>3. net' \in [Viewers -> {Idle} \cup [pc : {"parse", "parsed", "forward"}, msg : Message, from : Viewers]]
    BY <1>4, <2>2 DEF Parsed, TypeOK
  <2>4. network_active' \in [Viewers -> BOOLEAN]
    BY <1>4 DEF Parsed, TypeOK
  <2>5. QED
    BY <1>4, <2>3, <2>4 DEF Parsed, view, ui, wire, TypeOK
<1>5. CASE v = server /\ Forward
  <2>1. net[v] \in [pc : {"parse", "parsed", "forward"}, msg : Message, from : Viewers]
    BY <1>5, Held DEF Forward
  <2>2. link' = [p \in Viewers \X Viewers |->
                  IF p[1] = v /\ p[2] \in Peers(v) \ {net[v].from} THEN Append(link[p], net[v].msg) ELSE link[p]]
    BY <1>5 DEF Forward, Write, TypeOK
  <2>3. \A p \in Viewers \X Viewers :
          link[p] \in Seq(Message) /\ Append(link[p], net[v].msg) \in Seq(Message)
    BY <2>1 DEF TypeOK
  <2>4. link' \in [Viewers \X Viewers -> Seq(Message)]
    BY <2>2, <2>3
  <2>5. net' \in [Viewers -> {Idle} \cup [pc : {"parse", "parsed", "forward"}, msg : Message, from : Viewers]]
    BY <1>5 DEF Forward, TypeOK
  <2>6. QED
    BY <1>5, <2>4, <2>5 DEF Forward, view, ui, TypeOK
<1>6. QED
  BY <1>1, <1>2, <1>3, <1>4, <1>5 DEF Network

LEMMA UserTyped == ASSUME TypeOK, NEW v \in Viewers, User(v) \/ Advance(v) PROVE TypeOK'
<1>1. ASSUME NEW call \in Call, NEW what, UserCalls(v, what, call),
             network_active' \in [Viewers -> BOOLEAN], saved' \in [Viewers -> BOOLEAN]
      PROVE  TypeOK'
  <2>1. calls' \in [Viewers -> Seq(Call)]
    BY <1>1 DEF UserCalls, TypeOK
  <2>2. QED
    BY <1>1, <2>1 DEF UserCalls, view, wire, TypeOK
<1>2. CASE UserSeek(v)
  BY <1>1, <1>2, Kinds DEF UserSeek, TypeOK
<1>3. CASE UserPlay(v)
  BY <1>1, <1>3, Kinds DEF UserPlay, TypeOK
<1>4. CASE UserStop(v)
  BY <1>1, <1>4, Kinds DEF UserStop, TypeOK
<1>5. CASE UserFit(v)
  <2>1. network_active' \in [Viewers -> BOOLEAN] /\ saved' \in [Viewers -> BOOLEAN]
    BY <1>5 DEF UserFit, TypeOK
  <2>2. QED
    BY <1>1, <1>5, <2>1, Kinds DEF UserFit
<1>6. CASE Advance(v)
  <2>1. image[v] + 1 \in Frames
    BY <1>6, SyncAssumption DEF Advance, Frames, TypeOK
  <2>2. QED
    BY <1>6, <2>1 DEF Advance, ui, wire, TypeOK
<1>7. QED
  BY <1>2, <1>3, <1>4, <1>5, <1>6 DEF User

LEMMA ConnectionTyped == ASSUME TypeOK, NEW c \in Clients, Connect(c) \/ Accept(c) PROVE TypeOK'
<1>1. CASE Connect(c)
  <2>1. <<c, server>> \in Viewers \X Viewers
    BY DEF Viewers
  <2>2. Append(link[<<c, server>>], Item("sync_image", None)) \in Seq(Message)
    BY <2>1, Kinds DEF TypeOK
  <2>3. link' \in [Viewers \X Viewers -> Seq(Message)]
    BY <1>1, <2>1, <2>2 DEF Connect, TypeOK
  <2>4. QED
    BY <1>1, <2>3 DEF Connect, view, ui, TypeOK
<1>2. CASE Accept(c)
  BY <1>2 DEF Accept, view, ui, TypeOK
<1>3. QED
  BY <1>1, <1>2

LEMMA StepTyped == TypeOK /\ [Next]_vars => TypeOK'
<1> SUFFICES ASSUME TypeOK, [Next]_vars PROVE TypeOK'
  OBVIOUS
<1>1. CASE UNCHANGED vars
  BY <1>1 DEF vars, view, ui, wire, TypeOK
<1>2. CASE Next
  BY <1>2, InterfaceTyped, NetworkTyped, UserTyped, ConnectionTyped DEF Next
<1>3. QED
  BY <1>1, <1>2

\* Type correctness for any number of clients, frames and things the users do.
THEOREM TypeCorrect == Spec => []TypeOK
  BY InitTyped, StepTyped, PTL DEF Spec

-----------------------------------------------------------------------------
(* Who switched network_active off will switch it on again.                *)

\* commands_mutex has one owner.
OneOwner == \A v \in Viewers : ~(serving[v] /\ Parsing(v))

\* network_active is off only while a message is parsed, a command is handled or the
\* image is fitted, and what handle_commands() has saved is that it was on.
OffForATime ==
  "silenced" \notin races =>
    \A v \in Viewers :
      /\ network_active[v] \/ Parsing(v) \/ First(v, "zoom") \/ (serving[v] /\ calls[v] # <<>>)
      /\ serving[v] /\ calls[v] # <<>> => saved[v]

IInv == TypeOK /\ OneOwner /\ OffForATime

LEMMA InitInv == Init => IInv
<1> SUFFICES ASSUME Init PROVE IInv
  OBVIOUS
<1>1. TypeOK
  BY InitTyped
<1>2. OneOwner /\ OffForATime
  BY DEF Init, OneOwner, OffForATime
<1>3. QED
  BY <1>1, <1>2 DEF IInv

LEMMA SendKeepsRaces ==
  ASSUME NEW v, NEW m, Send(v, m), "silenced" \notin races'
  PROVE  "silenced" \notin races
  BY DEF Send

\* A step that leaves a viewer alone leaves what is said of it.
Untouched(v) ==
  /\ network_active'[v] = network_active[v] /\ saved'[v] = saved[v] /\ calls'[v] = calls[v]
  /\ serving'[v] = serving[v] /\ net'[v] = net[v]

LEMMA StepOfOne ==
  ASSUME IInv, NEW v \in Viewers, \A w \in Viewers \ {v} : Untouched(w),
         ~(serving'[v] /\ Parsing(v)'),
         "silenced" \notin races' =>
           /\ "silenced" \notin races
           /\ network_active'[v] \/ Parsing(v)' \/ First(v, "zoom")' \/ (serving'[v] /\ calls'[v] # <<>>)
           /\ serving'[v] /\ calls'[v] # <<>> => saved'[v]
  PROVE  OneOwner' /\ OffForATime'
<1>1. ASSUME NEW w \in Viewers \ {v}
      PROVE  /\ Parsing(w)' = Parsing(w) /\ First(w, "zoom")' = First(w, "zoom")
             /\ serving'[w] = serving[w] /\ calls'[w] = calls[w] /\ saved'[w] = saved[w]
             /\ network_active'[w] = network_active[w]
  BY <1>1 DEF Untouched, Parsing, First
<1>2. OneOwner'
  BY <1>1 DEF IInv, OneOwner
<1>3. OffForATime'
  BY <1>1 DEF IInv, OffForATime
<1>4. QED
  BY <1>2, <1>3

LEMMA InterfaceKeeps ==
  ASSUME IInv, NEW v \in Viewers, Interface(v)
  PROVE  OneOwner' /\ OffForATime'
<1>1. CASE MakeCall(v)
  <2>1. /\ net' = net /\ saved' = saved
        /\ \A w \in Viewers \ {v} : calls'[w] = calls[w]
    BY <1>1 DEF MakeCall, Seek, Stop, Play, Then, IInv, TypeOK
  <2>2. calls[v] # <<>> /\ ~First(v, "zoom")
    BY <1>1 DEF MakeCall, Seek, Stop, Play, First
  <2>3. "silenced" \notin races' => "silenced" \notin races
    BY <1>1, SendKeepsRaces DEF MakeCall, Seek, Stop, Play
  <2>4. CASE serving[v] /\ calls'[v] = <<>>
    <3>1. /\ network_active' = [network_active EXCEPT ![v] = saved[v]]
          /\ serving' = [serving EXCEPT ![v] = commands[v] # <<>>]
      BY <1>1, <2>4 DEF MakeCall
    <3>2. ~Parsing(v) /\ ("silenced" \notin races => saved[v])
      BY <2>2, <2>4 DEF IInv, OneOwner, OffForATime
    <3>3. \A w \in Viewers \ {v} : Untouched(w)
      BY <2>1, <3>1 DEF Untouched, IInv, TypeOK
    <3>4. ~Parsing(v)' /\ network_active'[v] = saved[v]
      BY <2>1, <3>1, <3>2 DEF Parsing, IInv, TypeOK
    <3>5. QED
      BY <2>3, <2>4, <3>2, <3>3, <3>4, StepOfOne
  <2>5. CASE ~(serving[v] /\ calls'[v] = <<>>)
    <3>1. network_active' = network_active /\ serving' = serving
      BY <1>1, <2>5 DEF MakeCall
    <3>2. \A w \in Viewers \ {v} : Untouched(w)
      BY <2>1, <3>1 DEF Untouched
    <3>3. Parsing(v)' = Parsing(v)
      BY <2>1 DEF Parsing
    <3>4. ~(serving[v] /\ Parsing(v))
      BY DEF IInv, OneOwner
    <3>5. "silenced" \notin races =>
            /\ network_active[v] \/ Parsing(v) \/ serving[v]
            /\ serving[v] => saved[v]
      BY <2>2 DEF IInv, OffForATime
    <3>6. serving[v] => calls'[v] # <<>>
      BY <2>5
    <3>7. QED
      BY <2>1, <2>3, <3>1, <3>2, <3>3, <3>4, <3>5, <3>6, StepOfOne
  <2>6. QED
    BY <2>4, <2>5
<1>2. CASE Zoomed(v)
  <2>1. /\ net' = net /\ saved' = saved /\ serving' = serving
        /\ network_active' = [network_active EXCEPT ![v] = saved[v]]
        /\ \A w \in Viewers \ {v} : calls'[w] = calls[w]
        /\ calls[v] # <<>>
    BY <1>2 DEF Zoomed, First, Then, IInv, TypeOK
  <2>2. \A w \in Viewers \ {v} : Untouched(w)
    BY <2>1 DEF Untouched, IInv, TypeOK
  <2>3. "silenced" \notin races' => "silenced" \notin races /\ saved[v]
    BY <1>2 DEF Zoomed
  <2>4. network_active'[v] = saved[v] /\ ~(serving'[v] /\ Parsing(v)')
    BY <2>1 DEF IInv, OneOwner, Parsing, TypeOK
  <2>5. QED
    BY <2>1, <2>2, <2>3, <2>4, StepOfOne
<1>3. CASE HandleCommand(v)
  <2>1. TakeCommand(v, network_active[v] /\ v = server) /\ ~Parsing(v)
    BY <1>3 DEF HandleCommand
  <2>2. net' = net /\ races' = races /\ calls[v] = <<>>
    BY <2>1 DEF TakeCommand
  <2>3. \A w \in Viewers \ {v} : Untouched(w)
    BY <2>1 DEF TakeCommand, Untouched, IInv, TypeOK
  <2>4. serving'[v] /\ saved'[v] = network_active[v] /\ calls'[v] = CallsOf(Head(commands[v]))
    BY <2>1 DEF TakeCommand, IInv, TypeOK
  <2>5. calls'[v] # <<>>
    <3>1. Head(commands[v]) \in Command
      BY <2>1 DEF TakeCommand, IInv, TypeOK
    <3>2. CallsOf(Head(commands[v])) # <<>>
      BY <3>1 DEF CallsOf, Command
    <3>3. QED
      BY <2>4, <3>2
  <2>6. "silenced" \notin races => network_active[v]
    BY <2>1, <2>2 DEF IInv, OffForATime, First
  <2>7. ~Parsing(v)'
    BY <2>1, <2>2 DEF Parsing
  <2>8. QED
    BY <2>2, <2>3, <2>4, <2>5, <2>6, <2>7, StepOfOne
<1>4. QED
  BY <1>1, <1>2, <1>3 DEF Interface

LEMMA NetworkKeeps ==
  ASSUME IInv, NEW v \in Viewers, Network(v)
  PROVE  OneOwner' /\ OffForATime'
<1> SUFFICES /\ \A w \in Viewers \ {v} : Untouched(w)
             /\ calls' = calls /\ serving' = serving /\ saved' = saved
             /\ "silenced" \notin races' => "silenced" \notin races
             /\ Parsing(v)' \/ (~Parsing(v)' /\ (network_active'[v] \/ (network_active'[v] = network_active[v] /\ ~Parsing(v))))
             /\ ~(serving[v] /\ Parsing(v)')
  <2>1. First(v, "zoom")' = First(v, "zoom")
    BY DEF First
  <2>2. "silenced" \notin races =>
          /\ network_active[v] \/ Parsing(v) \/ First(v, "zoom") \/ (serving[v] /\ calls[v] # <<>>)
          /\ serving[v] /\ calls[v] # <<>> => saved[v]
    BY DEF IInv, OffForATime
  <2>3. QED
    BY <2>1, <2>2, StepOfOne
<1>1. ASSUME NEW w \in Viewers, Parse(v, w) PROVE net'[v].pc = "parse" /\ ~serving[v]
  BY <1>1 DEF Parse, IInv, TypeOK
<1>2. ASSUME Answer(v) \/ PushCommands(v) PROVE net'[v].pc = "parsed" /\ Parsing(v)
  <2>1. net[v].pc = "parse"
    BY <1>2 DEF Answer, PushCommands
  <2>2. net[v] \in [pc : {"parse", "parsed", "forward"}, msg : Message, from : Viewers]
    BY <2>1, Held DEF IInv
  <2>3. net'[v] = [net[v] EXCEPT !.pc = "parsed"]
    BY <1>2 DEF Answer, PushCommands, IInv, TypeOK
  <2>4. QED
    BY <2>1, <2>2, <2>3 DEF Parsing
<1>3. ASSUME Parsed(v) PROVE net'[v].pc \in {"forward", "idle"} /\ network_active'[v]
  <2>1. net[v] \in [pc : {"parse", "parsed", "forward"}, msg : Message, from : Viewers]
    BY <1>3, Held DEF Parsed, IInv
  <2>2. net'[v] = IF v = server THEN [net[v] EXCEPT !.pc = "forward"] ELSE Idle
    BY <1>3 DEF Parsed, IInv, TypeOK
  <2>3. QED
    BY <1>3, <2>1, <2>2 DEF Parsed, IInv, TypeOK, Idle
<1>4. ASSUME v = server, Forward
      PROVE  net'[v].pc = "idle" /\ network_active' = network_active /\ ~Parsing(v)
  BY <1>4 DEF Forward, IInv, TypeOK, Idle, Parsing
<1>5. \A w \in Viewers \ {v} : Untouched(w)
  BY DEF Network, Parse, Answer, PushCommands, Parsed, Forward, ui, Untouched, IInv, TypeOK
<1>6. /\ calls' = calls /\ serving' = serving /\ saved' = saved
      /\ "silenced" \notin races' => "silenced" \notin races
  BY DEF Network, Parse, Answer, PushCommands, Parsed, Forward, ui
<1>7. ~(serving[v] /\ Parsing(v))
  BY DEF IInv, OneOwner
<1>8. QED
  BY <1>1, <1>2, <1>3, <1>4, <1>5, <1>6, <1>7 DEF Network, Parsing

LEMMA UserKeeps ==
  ASSUME IInv, NEW v \in Viewers, User(v) \/ Advance(v)
  PROVE  OneOwner' /\ OffForATime'
<1>1. CASE Advance(v)
  BY <1>1 DEF Advance, ui, IInv, OneOwner, OffForATime, First, Parsing
<1>2. ASSUME NEW what, NEW call, UserCalls(v, what, call),
             \/ UNCHANGED <<network_active, saved>>
             \/ /\ call.type = "zoom" /\ saved' = [saved EXCEPT ![v] = network_active[v]]
                /\ network_active' = [network_active EXCEPT ![v] = FALSE]
      PROVE  OneOwner' /\ OffForATime'
  <2>1. /\ ~serving[v] /\ serving' = serving /\ net' = net /\ races' = races
        /\ calls[v] = <<>> /\ calls' = [calls EXCEPT ![v] = <<call>>]
    BY <1>2 DEF UserCalls
  <2>2. \A w \in Viewers \ {v} : Untouched(w)
    BY <1>2, <2>1 DEF Untouched, IInv, TypeOK
  <2>3. calls'[v] = <<call>> /\ Parsing(v)' = Parsing(v)
    BY <2>1 DEF Parsing, IInv, TypeOK
  <2>4. call.type = "zoom" => First(v, "zoom")'
    BY <2>3 DEF First
  <2>5. "silenced" \notin races => network_active[v] \/ Parsing(v)
    BY <2>1 DEF IInv, OffForATime, First
  <2>6. QED
    BY <1>2, <2>1, <2>2, <2>3, <2>4, <2>5, StepOfOne
<1>3. CASE UserSeek(v)
  BY <1>2, <1>3 DEF UserSeek
<1>4. CASE UserPlay(v)
  BY <1>2, <1>4 DEF UserPlay
<1>5. CASE UserStop(v)
  BY <1>2, <1>5 DEF UserStop
<1>6. CASE UserFit(v)
  BY <1>2, <1>6 DEF UserFit, Item
<1>7. QED
  BY <1>1, <1>3, <1>4, <1>5, <1>6 DEF User

LEMMA StepInv == IInv /\ [Next]_vars => IInv'
<1> SUFFICES ASSUME IInv, [Next]_vars PROVE IInv'
  OBVIOUS
<1>1. TypeOK'
  BY StepTyped DEF IInv
<1>2. OneOwner' /\ OffForATime'
  <2>1. CASE UNCHANGED vars
    BY <2>1 DEF vars, ui, IInv, OneOwner, OffForATime, First, Parsing
  <2>2. ASSUME NEW c \in Clients, Connect(c) \/ Accept(c) PROVE OneOwner' /\ OffForATime'
    BY <2>2 DEF Connect, Accept, ui, IInv, OneOwner, OffForATime, First, Parsing
  <2>3. QED
    BY <2>1, <2>2, InterfaceKeeps, NetworkKeeps, UserKeeps DEF Next
<1>3. QED
  BY <1>1, <1>2 DEF IInv

\* But for a fit_image() that saves network_active while a message is parsed, a viewer
\* in which nothing is under way sends what its user does.
THEOREM NobodyIsSilenced == Spec => []NobodySilenced
<1>1. IInv => NobodySilenced
  BY DEF IInv, OffForATime, NobodySilenced, Silent, First
<1>2. QED
  BY <1>1, InitInv, StepInv, PTL DEF Spec

-----------------------------------------------------------------------------
(* The last word of a sequence.                                            *)

Elements(s) == {s[i] : i \in DOMAIN s}
\* Of the elements of Y and N in s the last is one of Y; none is of N.
LastSays(s, Y, N) == \E i \in DOMAIN s : s[i] \in Y /\ \A j \in DOMAIN s : i < j => s[j] \notin N
Mute(s, N) == \A j \in DOMAIN s : s[j] \notin N

LEMMA ConcatAt ==
  ASSUME NEW S, NEW s \in Seq(S), NEW t \in Seq(S)
  PROVE  /\ \A i \in DOMAIN s : i \in DOMAIN (s \o t) /\ (s \o t)[i] = s[i]
         /\ \A i \in DOMAIN t : Len(s) + i \in DOMAIN (s \o t) /\ (s \o t)[Len(s) + i] = t[i]
         /\ \A i \in DOMAIN (s \o t) : i \in DOMAIN s \/ (i - Len(s) \in DOMAIN t /\ Len(s) < i)
         /\ DOMAIN s = 1..Len(s) /\ DOMAIN t = 1..Len(t) /\ Len(s) \in Nat /\ Len(t) \in Nat
         /\ DOMAIN (s \o t) = 1..(Len(s) + Len(t))
<1>1. /\ s \o t \in Seq(S) /\ Len(s \o t) = Len(s) + Len(t) /\ Len(s) \in Nat /\ Len(t) \in Nat
      /\ DOMAIN s = 1..Len(s) /\ DOMAIN t = 1..Len(t) /\ DOMAIN (s \o t) = 1..Len(s \o t)
      /\ \A i \in 1 .. Len(s) + Len(t) : (s \o t)[i] = IF i <= Len(s) THEN s[i] ELSE t[i - Len(s)]
  BY ConcatProperties, LenProperties
<1>2. QED
  BY <1>1

LEMMA MuteConcat ==
  ASSUME NEW S, NEW s \in Seq(S), NEW t \in Seq(S), NEW N
  PROVE  Mute(s \o t, N) <=> Mute(s, N) /\ Mute(t, N)
<1>1. ASSUME Mute(s \o t, N) PROVE Mute(s, N) /\ Mute(t, N)
  <2>1. ASSUME NEW i \in DOMAIN s PROVE s[i] \notin N
    <3>1. i \in DOMAIN (s \o t) /\ (s \o t)[i] = s[i]
      BY ConcatAt
    <3>2. QED
      BY <1>1, <3>1 DEF Mute
  <2>2. ASSUME NEW i \in DOMAIN t PROVE t[i] \notin N
    <3>1. Len(s) + i \in DOMAIN (s \o t) /\ (s \o t)[Len(s) + i] = t[i]
      BY ConcatAt
    <3>2. QED
      BY <1>1, <3>1 DEF Mute
  <2>3. QED
    BY <2>1, <2>2 DEF Mute
<1>2. ASSUME Mute(s, N), Mute(t, N), NEW i \in DOMAIN (s \o t) PROVE (s \o t)[i] \notin N
  <2>1. i \in DOMAIN s \/ (i - Len(s) \in DOMAIN t /\ Len(s) < i)
    BY ConcatAt
  <2>2. CASE i \in DOMAIN s
    BY <1>2, <2>2, ConcatAt DEF Mute
  <2>3. CASE i - Len(s) \in DOMAIN t
    <3>1. (s \o t)[Len(s) + (i - Len(s))] = t[i - Len(s)] /\ Len(s) + (i - Len(s)) = i
      BY <2>3, ConcatAt
    <3>2. QED
      BY <1>2, <2>3, <3>1 DEF Mute
  <2>4. QED
    BY <2>1, <2>2, <2>3
<1>3. QED
  BY <1>1, <1>2 DEF Mute

LEMMA LastSaysConcat ==
  ASSUME NEW S, NEW s \in Seq(S), NEW t \in Seq(S), NEW Y, NEW N
  PROVE  LastSays(s \o t, Y, N) <=> LastSays(t, Y, N) \/ (LastSays(s, Y, N) /\ Mute(t, N))
<1>1. ASSUME LastSays(s \o t, Y, N), ~LastSays(t, Y, N)
      PROVE  LastSays(s, Y, N) /\ Mute(t, N)
  <2>1. PICK i \in DOMAIN (s \o t) :
          (s \o t)[i] \in Y /\ \A j \in DOMAIN (s \o t) : i < j => (s \o t)[j] \notin N
    BY <1>1 DEF LastSays
  <2>2. CASE i \in DOMAIN s
    <3>1. s[i] \in Y /\ \A j \in DOMAIN s : i < j => s[j] \notin N
      BY <2>1, <2>2, ConcatAt
    <3>2. ASSUME NEW j \in DOMAIN t PROVE t[j] \notin N
      <4>1. Len(s) + j \in DOMAIN (s \o t) /\ (s \o t)[Len(s) + j] = t[j] /\ i < Len(s) + j
        BY <2>2, <3>2, ConcatAt
      <4>2. QED
        BY <2>1, <4>1
    <3>3. QED
      BY <2>2, <3>1, <3>2 DEF LastSays, Mute
  <2>3. CASE i - Len(s) \in DOMAIN t
    <3> DEFINE k == i - Len(s)
    <3>1. (s \o t)[Len(s) + k] = t[k] /\ Len(s) + k = i
      BY <2>3, ConcatAt
    <3>2. ASSUME NEW j \in DOMAIN t, k < j PROVE t[j] \notin N
      <4>1. Len(s) + j \in DOMAIN (s \o t) /\ (s \o t)[Len(s) + j] = t[j] /\ i < Len(s) + j
        BY <2>3, <3>2, ConcatAt
      <4>2. QED
        BY <2>1, <4>1
    <3>3. LastSays(t, Y, N)
      BY <2>1, <2>3, <3>1, <3>2 DEF LastSays
    <3>4. QED
      BY <1>1, <3>3
  <2>4. QED
    BY <2>2, <2>3, ConcatAt
<1>2. ASSUME LastSays(t, Y, N) PROVE LastSays(s \o t, Y, N)
  <2>1. PICK i \in DOMAIN t : t[i] \in Y /\ \A j \in DOMAIN t : i < j => t[j] \notin N
    BY <1>2 DEF LastSays
  <2>2. Len(s) + i \in DOMAIN (s \o t) /\ (s \o t)[Len(s) + i] = t[i]
    BY ConcatAt
  <2>3. ASSUME NEW j \in DOMAIN (s \o t), Len(s) + i < j PROVE (s \o t)[j] \notin N
    <3>1. j - Len(s) \in DOMAIN t /\ Len(s) + (j - Len(s)) = j /\ i < j - Len(s)
      BY <2>3, ConcatAt
    <3>2. (s \o t)[j] = t[j - Len(s)]
      BY <3>1, ConcatAt
    <3>3. QED
      BY <2>1, <3>1, <3>2
  <2>4. QED
    BY <2>1, <2>2, <2>3 DEF LastSays
<1>3. ASSUME LastSays(s, Y, N), Mute(t, N) PROVE LastSays(s \o t, Y, N)
  <2>1. PICK i \in DOMAIN s : s[i] \in Y /\ \A j \in DOMAIN s : i < j => s[j] \notin N
    BY <1>3 DEF LastSays
  <2>2. i \in DOMAIN (s \o t) /\ (s \o t)[i] = s[i]
    BY ConcatAt
  <2>3. ASSUME NEW j \in DOMAIN (s \o t), i < j PROVE (s \o t)[j] \notin N
    <3>1. CASE j \in DOMAIN s
      BY <2>1, <2>3, <3>1, ConcatAt
    <3>2. CASE j - Len(s) \in DOMAIN t
      <4>1. (s \o t)[Len(s) + (j - Len(s))] = t[j - Len(s)] /\ Len(s) + (j - Len(s)) = j
        BY <3>2, ConcatAt
      <4>2. QED
        BY <1>3, <3>2, <4>1 DEF Mute
    <3>3. QED
      BY <3>1, <3>2, ConcatAt
  <2>4. QED
    BY <2>1, <2>2, <2>3 DEF LastSays
<1>4. QED
  BY <1>1, <1>2, <1>3

LEMMA EmptySays ==
  ASSUME NEW Y, NEW N
  PROVE  ~LastSays(<<>>, Y, N) /\ Mute(<<>>, N)
  BY DEF LastSays, Mute

LEMMA OneSays ==
  ASSUME NEW e, NEW Y, NEW N
  PROVE  (LastSays(<<e>>, Y, N) <=> e \in Y) /\ (Mute(<<e>>, N) <=> e \notin N)
<1>1. DOMAIN <<e>> = {1} /\ <<e>>[1] = e
  OBVIOUS
<1>2. QED
  BY <1>1 DEF LastSays, Mute

LEMMA TwoSay ==
  ASSUME NEW d, NEW e, NEW Y, NEW N
  PROVE  /\ LastSays(<<d, e>>, Y, N) <=> e \in Y \/ (d \in Y /\ e \notin N)
         /\ Mute(<<d, e>>, N) <=> d \notin N /\ e \notin N
<1>1. DOMAIN <<d, e>> = {1, 2} /\ <<d, e>>[1] = d /\ <<d, e>>[2] = e
  OBVIOUS
<1>2. QED
  BY <1>1 DEF LastSays, Mute

LEMMA ThreeSay ==
  ASSUME NEW d, NEW e, NEW f, NEW Y, NEW N
  PROVE  /\ LastSays(<<d, e, f>>, Y, N) <=>
              f \in Y \/ (e \in Y /\ f \notin N) \/ (d \in Y /\ e \notin N /\ f \notin N)
         /\ Mute(<<d, e, f>>, N) <=> d \notin N /\ e \notin N /\ f \notin N
<1>1. DOMAIN <<d, e, f>> = {1, 2, 3} /\ <<d, e, f>>[1] = d /\ <<d, e, f>>[2] = e /\ <<d, e, f>>[3] = f
  OBVIOUS
<1>2. QED
  BY <1>1 DEF LastSays, Mute

\* A sequence is its head and the rest.
LEMMA HeadThenTail ==
  ASSUME NEW S, NEW s \in Seq(S), s # <<>>
  PROVE  s = <<Head(s)>> \o Tail(s) /\ Head(s) \in S /\ Tail(s) \in Seq(S) /\ <<Head(s)>> \in Seq(S)
<1>1. /\ Head(s) \in S /\ Tail(s) \in Seq(S) /\ Len(Tail(s)) = Len(s) - 1
      /\ \A i \in 1 .. Len(Tail(s)) : Tail(s)[i] = s[i + 1]
  BY HeadTailProperties
<1>2. <<Head(s)>> \in Seq(S) /\ Len(<<Head(s)>>) = 1 /\ <<Head(s)>>[1] = Head(s)
  BY <1>1
<1>3. Head(s) = s[1] /\ Len(s) \in Nat /\ Len(s) # 0
  BY EmptySeq, LenProperties
<1>4. /\ <<Head(s)>> \o Tail(s) \in Seq(S) /\ Len(<<Head(s)>> \o Tail(s)) = Len(s)
      /\ \A i \in 1..Len(s) : (<<Head(s)>> \o Tail(s))[i] = IF i <= 1 THEN <<Head(s)>>[i] ELSE Tail(s)[i - 1]
  <2>1. 1 + Len(Tail(s)) = Len(s)
    BY <1>1, <1>3
  <2>2. QED
    BY <1>1, <1>2, <2>1, ConcatProperties
<1>5. ASSUME NEW i \in 1..Len(s) PROVE s[i] = (<<Head(s)>> \o Tail(s))[i]
  <2>1. CASE i = 1
    BY <1>2, <1>3, <1>4, <2>1
  <2>2. CASE i # 1
    <3>1. i - 1 \in 1 .. Len(Tail(s)) /\ ~(i <= 1) /\ (i - 1) + 1 = i
      BY <1>1, <1>3, <2>2
    <3>2. QED
      BY <1>1, <1>4, <3>1
  <2>3. QED
    BY <2>1, <2>2
<1>6. s = <<Head(s)>> \o Tail(s)
  BY <1>4, <1>5, SeqEqual
<1>7. QED
  BY <1>1, <1>2, <1>6

LEMMA ElementsOfConcat ==
  ASSUME NEW S, NEW s \in Seq(S), NEW t \in Seq(S)
  PROVE  Elements(s \o t) = Elements(s) \cup Elements(t)
<1>1. ASSUME NEW e \in Elements(s \o t) PROVE e \in Elements(s) \cup Elements(t)
  <2>1. PICK i \in DOMAIN (s \o t) : e = (s \o t)[i]
    BY DEF Elements
  <2>2. CASE i \in DOMAIN s
    BY <2>1, <2>2, ConcatAt DEF Elements
  <2>3. CASE i - Len(s) \in DOMAIN t
    <3>1. (s \o t)[Len(s) + (i - Len(s))] = t[i - Len(s)] /\ Len(s) + (i - Len(s)) = i
      BY <2>3, ConcatAt
    <3>2. QED
      BY <2>1, <2>3, <3>1 DEF Elements
  <2>4. QED
    BY <2>2, <2>3, ConcatAt
<1>2. ASSUME NEW e \in Elements(s) PROVE e \in Elements(s \o t)
  BY ConcatAt DEF Elements
<1>3. ASSUME NEW e \in Elements(t) PROVE e \in Elements(s \o t)
  <2>1. PICK i \in DOMAIN t : e = t[i]
    BY DEF Elements
  <2>2. Len(s) + i \in DOMAIN (s \o t) /\ (s \o t)[Len(s) + i] = e
    BY <2>1, ConcatAt
  <2>3. QED
    BY <2>2 DEF Elements
<1>4. QED
  BY <1>1, <1>2, <1>3

LEMMA FewElements ==
  /\ Elements(<<>>) = {}
  /\ \A d : Elements(<<d>>) = {d}
  /\ \A d, e : Elements(<<d, e>>) = {d, e}
  /\ \A d, e, f : Elements(<<d, e, f>>) = {d, e, f}
<1>1. Elements(<<>>) = {}
  BY DEF Elements
<1>2. ASSUME NEW d PROVE Elements(<<d>>) = {d}
  <2>1. DOMAIN <<d>> = {1} /\ <<d>>[1] = d
    OBVIOUS
  <2>2. QED
    BY <2>1 DEF Elements
<1>3. ASSUME NEW d, NEW e PROVE Elements(<<d, e>>) = {d, e}
  <2>1. DOMAIN <<d, e>> = {1, 2} /\ <<d, e>>[1] = d /\ <<d, e>>[2] = e
    OBVIOUS
  <2>2. QED
    BY <2>1 DEF Elements
<1>4. ASSUME NEW d, NEW e, NEW f PROVE Elements(<<d, e, f>>) = {d, e, f}
  <2>1. DOMAIN <<d, e, f>> = {1, 2, 3} /\ <<d, e, f>>[1] = d /\ <<d, e, f>>[2] = e /\ <<d, e, f>>[3] = f
    OBVIOUS
  <2>2. QED
    BY <2>1 DEF Elements
<1>5. QED
  BY <1>1, <1>2, <1>3, <1>4

\* Putting an element at the end, taking one from the front.
LEMMA ElementsOfAppend ==
  ASSUME NEW S, NEW s \in Seq(S), NEW e \in S
  PROVE  Elements(Append(s, e)) = Elements(s) \cup {e}
<1>1. <<e>> \in Seq(S) /\ Append(s, e) = s \o <<e>>
  BY AppendIsConcat
<1>2. Elements(s \o <<e>>) = Elements(s) \cup Elements(<<e>>)
  BY <1>1, ElementsOfConcat
<1>3. QED
  BY <1>1, <1>2, FewElements

LEMMA ElementsOfTail ==
  ASSUME NEW S, NEW s \in Seq(S), s # <<>>
  PROVE  Elements(s) = {Head(s)} \cup Elements(Tail(s))
<1>1. s = <<Head(s)>> \o Tail(s) /\ Tail(s) \in Seq(S) /\ <<Head(s)>> \in Seq(S)
  BY HeadThenTail
<1>2. Elements(<<Head(s)>> \o Tail(s)) = Elements(<<Head(s)>>) \cup Elements(Tail(s))
  BY <1>1, ElementsOfConcat
<1>3. QED
  BY <1>1, <1>2, FewElements

LEMMA MuteIs ==
  ASSUME NEW s, NEW N
  PROVE  Mute(s, N) <=> Elements(s) \cap N = {}
  BY DEF Mute, Elements

\* Where an element of Y is, and none of N, the last word is one of Y.
LEMMA MuteSays ==
  ASSUME NEW s, NEW Y, NEW N, Mute(s, N), Elements(s) \cap Y # {}
  PROVE  LastSays(s, Y, N)
  BY DEF Mute, Elements, LastSays

-----------------------------------------------------------------------------
(* What is on the way, and what comes of it.                               *)

Things == Message \cup Command \cup Call
\* What makes a view play, and what stops it; what shows frame x, and what another.
Starts == {e \in Things : e.type \in {"playfwd", "kPlayForwards", "play", "replay"}}
Stops == {e \in Things : e.type \in {"stop", "kStopVideo"}}
At(x) == {e \in Things : e.frame = x}
Off(x) == {e \in Things : e.frame \notin {None, x}}
SyncImage == Item("sync_image", None)

LEMMA FrameThings ==
  ASSUME NEW f \in Frames, NEW x \in Frames
  PROVE  /\ \A type \in {"seek", "stop", "kSeek", "kStopVideo", "kPlayForwards", "replay"} :
              /\ Item(type, f) \in Things
              /\ Item(type, f) \in At(x) <=> f = x
              /\ Item(type, f) \in Off(x) <=> f # x
              /\ Item(type, f) \in Starts <=> type \in {"kPlayForwards", "replay"}
              /\ Item(type, f) \in Stops <=> type \in {"stop", "kStopVideo"}
<1>1. f # None
  BY DEF Frames, None
<1>2. ASSUME NEW type \in {"seek", "stop", "kSeek", "kStopVideo", "kPlayForwards", "replay"}
      PROVE  Item(type, f) \in Things /\ Item(type, f).type = type /\ Item(type, f).frame = f
  BY DEF Things, Message, Command, Call, Item
<1>3. QED
  BY <1>1, <1>2 DEF At, Off, Starts, Stops

LEMMA BareThings ==
  ASSUME NEW x \in Frames
  PROVE  \A type \in {"stop", "play", "zoom", "playfwd", "sync_image", "kPlayForwards"} :
              /\ Item(type, None) \in Things
              /\ Item(type, None) \notin At(x) /\ Item(type, None) \notin Off(x)
              /\ Item(type, None) \in Starts <=> type \in {"play", "playfwd", "kPlayForwards"}
              /\ Item(type, None) \in Stops <=> type = "stop"
<1>1. x # None
  BY DEF Frames, None
<1>2. ASSUME NEW type \in {"stop", "play", "zoom", "playfwd", "sync_image", "kPlayForwards"}
      PROVE  Item(type, None) \in Things /\ Item(type, None).type = type /\ Item(type, None).frame = None
  BY DEF Things, Message, Command, Call, Item
<1>3. QED
  BY <1>1, <1>2 DEF At, Off, Starts, Stops

\* A message, a command and a call is one of these.
LEMMA ThingsAre ==
  /\ \A m \in Message : m = Item(m.type, m.frame) /\
        \/ m.type \in {"seek", "stop"} /\ m.frame \in Frames
        \/ m.type \in {"playfwd", "sync_image"} /\ m.frame = None
  /\ \A h \in Command : h = Item(h.type, h.frame) /\
        \/ h.type \in {"kSeek", "kStopVideo"} /\ h.frame \in Frames
        \/ h.type = "kPlayForwards" /\ h.frame \in Frames
        \/ h.type = "kPlayForwards" /\ h.frame = None
  /\ \A a \in Call : a = Item(a.type, a.frame) /\
        \/ a.type \in {"seek", "replay"} /\ a.frame \in Frames
        \/ a.type \in {"stop", "play", "zoom"} /\ a.frame = None
<1>1. ASSUME NEW m \in Message PROVE m = Item(m.type, m.frame) /\
        (\/ m.type \in {"seek", "stop"} /\ m.frame \in Frames
         \/ m.type \in {"playfwd", "sync_image"} /\ m.frame = None)
  BY DEF Message, Item
<1>2. ASSUME NEW h \in Command PROVE h = Item(h.type, h.frame) /\
        (\/ h.type \in {"kSeek", "kStopVideo"} /\ h.frame \in Frames
         \/ h.type = "kPlayForwards" /\ h.frame \in Frames
         \/ h.type = "kPlayForwards" /\ h.frame = None)
  BY DEF Command, Item
<1>3. ASSUME NEW a \in Call PROVE a = Item(a.type, a.frame) /\
        (\/ a.type \in {"seek", "replay"} /\ a.frame \in Frames
         \/ a.type \in {"stop", "play", "zoom"} /\ a.frame = None)
  BY DEF Call, Item
<1>4. QED
  BY <1>1, <1>2, <1>3

\* The calls of a command say what the command says.
LEMMA CallsSay ==
  ASSUME NEW h \in Command, NEW x \in Frames
  PROVE  /\ LastSays(CallsOf(h), Starts, Stops) <=> h \in Starts
         /\ Mute(CallsOf(h), Stops) <=> h \notin Stops
         /\ LastSays(CallsOf(h), At(x), Off(x)) <=> h \in At(x)
         /\ Mute(CallsOf(h), Off(x)) <=> h \notin Off(x)
<1> DEFINE f == h.frame
<1>1. CASE h = Item("kSeek", f) /\ f \in Frames
  <2>1. CallsOf(h) = <<Item("seek", f)>>
    BY <1>1 DEF CallsOf, Item
  <2>2. QED
    BY <1>1, <2>1, OneSays, FrameThings
<1>2. CASE h = Item("kStopVideo", f) /\ f \in Frames
  <2>1. CallsOf(h) = <<Item("stop", None), Item("seek", f)>>
    BY <1>2 DEF CallsOf, Item
  <2>2. QED
    BY <1>2, <2>1, TwoSay, FrameThings, BareThings
<1>3. CASE h = Item("kPlayForwards", f) /\ f \in Frames
  <2>1. CallsOf(h) = <<Item("seek", f), Item("play", None)>>
    BY <1>3 DEF CallsOf, Item, Frames, None
  <2>2. QED
    BY <1>3, <2>1, TwoSay, FrameThings, BareThings
<1>4. CASE h = Item("kPlayForwards", None)
  <2>1. CallsOf(h) = <<Item("play", None)>>
    BY <1>4 DEF CallsOf, Item
  <2>2. QED
    BY <1>4, <2>1, OneSays, BareThings
<1>5. QED
  BY <1>1, <1>2, <1>3, <1>4, ThingsAre

\* The commands of a message say what the message says, but that those of a seek play
\* on when the view plays.
LEMMA CommandsSay ==
  ASSUME NEW v, NEW m \in Message, m.type # "sync_image", NEW x \in Frames
  PROVE  /\ LastSays(CommandsOf(v, m), Starts, Stops) <=> m \in Starts \/ (m.type = "seek" /\ playing[v])
         /\ Mute(CommandsOf(v, m), Stops) <=> m \notin Stops /\ ~(m.type = "seek" /\ playing[v])
         /\ LastSays(CommandsOf(v, m), At(x), Off(x)) <=> m \in At(x)
         /\ Mute(CommandsOf(v, m), Off(x)) <=> m \notin Off(x)
<1> DEFINE f == m.frame
<1>1. CASE m = Item("seek", f) /\ f \in Frames /\ playing[v]
  <2>1. CommandsOf(v, m) = <<Item("kStopVideo", f), Item("kSeek", f), Item("kPlayForwards", f)>> /\ m.type = "seek"
    BY <1>1 DEF CommandsOf, Item
  <2>2. QED
    BY <1>1, <2>1, ThreeSay, FrameThings
<1>2. CASE m = Item("seek", f) /\ f \in Frames /\ ~playing[v]
  <2>1. CommandsOf(v, m) = <<Item("kSeek", f)>>
    BY <1>2 DEF CommandsOf, Item
  <2>2. QED
    BY <1>2, <2>1, OneSays, FrameThings
<1>3. CASE m = Item("stop", f) /\ f \in Frames
  <2>1. CommandsOf(v, m) = <<Item("kStopVideo", f)>> /\ m.type = "stop"
    BY <1>3 DEF CommandsOf, Item
  <2>2. QED
    BY <1>3, <2>1, OneSays, FrameThings
<1>4. CASE m = Item("playfwd", None)
  <2>1. CommandsOf(v, m) = <<Item("kPlayForwards", None)>> /\ m.type = "playfwd"
    BY <1>4 DEF CommandsOf, Item
  <2>2. QED
    BY <1>4, <2>1, OneSays, BareThings
<1>5. QED
  BY <1>1, <1>2, <1>3, <1>4, ThingsAre

\* T says all that e does.
Covers(T, e) ==
  /\ e \in Starts => T \cap Starts # {}
  /\ e \in Stops => T \cap Stops # {}
  /\ \A x \in Frames : e \in Off(x) => T \cap Off(x) # {}
  /\ \A x \in Frames : e \in At(x) => T \cap At(x) # {}

LEMMA SaysElement == ASSUME NEW s, NEW Y, NEW N, LastSays(s, Y, N) PROVE Elements(s) \cap Y # {}
  BY DEF LastSays, Elements

LEMMA CallsCover == ASSUME NEW h \in Command PROVE Covers(Elements(CallsOf(h)), h)
<1>1. \E x : x \in Frames
  BY SyncAssumption DEF Frames
<1>2. h \in Starts => Elements(CallsOf(h)) \cap Starts # {}
  BY <1>1, CallsSay, SaysElement
<1>3. h \in Stops => Elements(CallsOf(h)) \cap Stops # {}
  BY <1>1, CallsSay, MuteIs
<1>4. ASSUME NEW x \in Frames
      PROVE  /\ h \in Off(x) => Elements(CallsOf(h)) \cap Off(x) # {}
             /\ h \in At(x) => Elements(CallsOf(h)) \cap At(x) # {}
  BY CallsSay, MuteIs, SaysElement
<1>5. QED
  BY <1>2, <1>3, <1>4 DEF Covers

LEMMA CommandsCover ==
  ASSUME NEW v, NEW m \in Message, m.type # "sync_image"
  PROVE  Covers(Elements(CommandsOf(v, m)), m)
<1>1. \E x : x \in Frames
  BY SyncAssumption DEF Frames
<1>2. m \in Starts => Elements(CommandsOf(v, m)) \cap Starts # {}
  BY <1>1, CommandsSay, SaysElement
<1>3. m \in Stops => Elements(CommandsOf(v, m)) \cap Stops # {}
  BY <1>1, CommandsSay, MuteIs
<1>4. ASSUME NEW x \in Frames
      PROVE  /\ m \in Off(x) => Elements(CommandsOf(v, m)) \cap Off(x) # {}
             /\ m \in At(x) => Elements(CommandsOf(v, m)) \cap At(x) # {}
  BY CommandsSay, MuteIs, SaysElement
<1>5. QED
  BY <1>2, <1>3, <1>4 DEF Covers

\* Commands that do not end stopped leave a view that plays playing.
LEMMA PlaysOn ==
  ASSUME NEW s \in Seq(Command), ~EndsStopped(s)
  PROVE  LastSays(s, Starts, Stops) \/ Mute(s, Stops)
<1>1. ASSUME NEW i \in DOMAIN s
      PROVE  /\ s[i] \in Things /\ (s[i] \in Stops <=> s[i].type = "kStopVideo")
             /\ s[i] \in Starts <=> s[i].type = "kPlayForwards"
  <2>1. s[i] \in Command
    OBVIOUS
  <2>2. QED
    BY <2>1 DEF Things, Stops, Starts, Command
<1>2. CASE ~ \E i \in DOMAIN s : s[i].type = "kStopVideo"
  BY <1>1, <1>2 DEF Mute
<1>3. CASE \E i \in DOMAIN s : s[i].type = "kPlayForwards" /\ \A j \in DOMAIN s : i < j => s[j].type # "kStopVideo"
  BY <1>1, <1>3 DEF LastSays
<1>4. QED
  BY <1>2, <1>3 DEF EndsStopped

-----------------------------------------------------------------------------
(* Everything on the way agrees in the end.                                *)

\* What the UI thread of v still has to do for others, and what its network thread
\* makes commands of.
Served(v) == IF serving[v] THEN calls[v] ELSE <<>>
Heard(v) == IF net[v].pc = "parse" THEN <<net[v].msg>> ELSE <<>>
\* What the client c will do for the server, in that order, and whether it plays and
\* shows frame x when it has.
Ahead(c) == (Served(c) \o commands[c]) \o (Heard(c) \o link[<<server, c>>])
Plays(s, p) == LastSays(s, Starts, Stops) \/ (p /\ Mute(s, Stops))
Shows(s, f, x) == LastSays(s, At(x), Off(x)) \/ (f = x /\ Mute(s, Off(x)))

\* What the server has to do, what c asks of it, and both.
Orders == Elements(calls[server]) \cup Elements(commands[server])
Asked(c) ==
  (IF net[server].pc = "parse" /\ net[server].from = c THEN {net[server].msg} ELSE {})
    \cup Elements(link[<<c, server>>])
Said(c) == Orders \cup Asked(c)

\* Nothing will change whether the server plays; nor which frame it shows.
PlayStands(c) == Said(c) \cap Starts = {} /\ (playing[server] => Said(c) \cap Stops = {})
FrameStands(c) ==
  /\ ~playing[server] /\ Said(c) \cap Starts = {}
  /\ Said(c) \cap Off(frame[server]) = {} /\ SyncImage \notin Said(c)
\* Then c will play as the server does, and show its frame if not.
WillAgree(c) ==
  /\ PlayStands(c) => (Plays(Ahead(c), playing[c]) <=> playing[server])
  /\ FrameStands(c) => Plays(Ahead(c), playing[c]) \/ Shows(Ahead(c), frame[c], frame[server])

\* The message that the server passes on is one it will do, or has done to no effect.
Passing ==
  LET m == net[server].msg
      done == Elements(commands[server]) IN
  /\ net[server].pc = "parsed" =>
       /\ m \in Starts => done \cap Starts # {}
       /\ m \in Stops => done \cap Stops # {}
       /\ \A x \in Frames : m \in At(x) => done \cap At(x) # {}
  /\ net[server].pc = "forward" =>
       /\ m \in Starts => Orders \cap Starts # {}
       /\ m \in Stops => ~playing[server] \/ Orders \cap Stops # {}
       /\ \A x \in Frames : m \in At(x) => playing[server] \/ frame[server] = x \/ Orders \cap At(x) # {}

\* Messages go between the server and its clients, and to those it has accepted.
Wired ==
  /\ \A w, v \in Viewers : link[<<w, v>>] # <<>> =>
       (w = server /\ v \in accepted) \/ (v = server /\ w \in connected)
  /\ \A c \in Clients : net[c] # Idle => net[c].from = server /\ net[c].pc # "forward"
  /\ net[server] # Idle => net[server].from \in accepted
  /\ \A c \in Clients \ accepted : commands[c] = <<>> /\ ~serving[c] /\ net[c] = Idle

\* A client that the server has not accepted has said that it plays, and asked for a frame.
Waiting ==
  \A c \in connected \ accepted :
    /\ playing[c] => Elements(link[<<c, server>>]) \cap Starts # {}
    /\ SyncImage \in Elements(link[<<c, server>>])

\* A call for others that stops is followed by one that shows a frame.
StopsThenSeeks ==
  \A v \in Viewers : \A i \in DOMAIN calls[v] : calls[v][i].type = "stop" =>
    /\ i = 1
    /\ serving[v] => 2 \in DOMAIN calls[v] /\ calls[v][2].type \in {"seek", "replay"}

\* What a viewer does for others is sent by the server, and by no client.
ServesInTurn ==
  \A v \in Viewers : serving[v] /\ calls[v] # <<>> => (network_active[v] <=> v = server)

\* The last word of what is ahead, part by part.
LEMMA FourSay ==
  ASSUME NEW s \in Seq(Things), NEW k \in Seq(Things), NEW m \in Seq(Things), NEW l \in Seq(Things),
         NEW Y, NEW N
  PROVE  /\ LastSays((s \o k) \o (m \o l), Y, N) <=>
              \/ LastSays(l, Y, N)
              \/ Mute(l, N) /\ LastSays(m, Y, N)
              \/ Mute(l, N) /\ Mute(m, N) /\ LastSays(k, Y, N)
              \/ Mute(l, N) /\ Mute(m, N) /\ Mute(k, N) /\ LastSays(s, Y, N)
         /\ Mute((s \o k) \o (m \o l), N) <=> Mute(s, N) /\ Mute(k, N) /\ Mute(m, N) /\ Mute(l, N)
<1>1. s \o k \in Seq(Things) /\ m \o l \in Seq(Things)
  OBVIOUS
<1>2. /\ LastSays((s \o k) \o (m \o l), Y, N) <=>
           LastSays(m \o l, Y, N) \/ (LastSays(s \o k, Y, N) /\ Mute(m \o l, N))
      /\ LastSays(s \o k, Y, N) <=> LastSays(k, Y, N) \/ (LastSays(s, Y, N) /\ Mute(k, N))
      /\ LastSays(m \o l, Y, N) <=> LastSays(l, Y, N) \/ (LastSays(m, Y, N) /\ Mute(l, N))
  BY <1>1, LastSaysConcat
<1>3. /\ Mute((s \o k) \o (m \o l), N) <=> Mute(s \o k, N) /\ Mute(m \o l, N)
      /\ Mute(s \o k, N) <=> Mute(s, N) /\ Mute(k, N)
      /\ Mute(m \o l, N) <=> Mute(m, N) /\ Mute(l, N)
  BY <1>1, MuteConcat
<1>4. QED
  BY <1>2, <1>3

LEMMA AppendSays ==
  ASSUME NEW l \in Seq(Things), NEW m \in Things, NEW Y, NEW N
  PROVE  /\ LastSays(Append(l, m), Y, N) <=> m \in Y \/ (m \notin N /\ LastSays(l, Y, N))
         /\ Mute(Append(l, m), N) <=> m \notin N /\ Mute(l, N)
<1>1. Append(l, m) = l \o <<m>> /\ <<m>> \in Seq(Things)
  BY AppendIsConcat
<1>2. /\ LastSays(l \o <<m>>, Y, N) <=> LastSays(<<m>>, Y, N) \/ (LastSays(l, Y, N) /\ Mute(<<m>>, N))
      /\ Mute(l \o <<m>>, N) <=> Mute(l, N) /\ Mute(<<m>>, N)
  BY <1>1, LastSaysConcat, MuteConcat
<1>3. QED
  BY <1>1, <1>2, OneSays

LEMMA TailSays ==
  ASSUME NEW s \in Seq(Things), s # <<>>, NEW Y, NEW N
  PROVE  /\ LastSays(s, Y, N) <=> LastSays(Tail(s), Y, N) \/ (Head(s) \in Y /\ Mute(Tail(s), N))
         /\ Mute(s, N) <=> Head(s) \notin N /\ Mute(Tail(s), N)
<1>1. s = <<Head(s)>> \o Tail(s) /\ Tail(s) \in Seq(Things) /\ <<Head(s)>> \in Seq(Things)
  BY HeadThenTail
<1>2. /\ LastSays(<<Head(s)>> \o Tail(s), Y, N) <=>
           LastSays(Tail(s), Y, N) \/ (LastSays(<<Head(s)>>, Y, N) /\ Mute(Tail(s), N))
      /\ Mute(<<Head(s)>> \o Tail(s), N) <=> Mute(<<Head(s)>>, N) /\ Mute(Tail(s), N)
  BY <1>1, LastSaysConcat, MuteConcat
<1>3. QED
  BY <1>1, <1>2, OneSays

LEMMA OneMoreSays ==
  ASSUME NEW s \in Seq(Things), NEW k \in Seq(Things), NEW n \in Seq(Things), NEW l \in Seq(Things),
         NEW m \in Things, NEW Y, NEW N
  PROVE  /\ LastSays((s \o k) \o (n \o Append(l, m)), Y, N) <=>
              m \in Y \/ (m \notin N /\ LastSays((s \o k) \o (n \o l), Y, N))
         /\ Mute((s \o k) \o (n \o Append(l, m)), N) <=> m \notin N /\ Mute((s \o k) \o (n \o l), N)
<1> DEFINE a == Append(l, m)
<1>1. a \in Seq(Things)
  OBVIOUS
<1>2. /\ LastSays(a, Y, N) <=> m \in Y \/ (m \notin N /\ LastSays(l, Y, N))
      /\ Mute(a, N) <=> m \notin N /\ Mute(l, N)
  BY AppendSays
<1> HIDE DEF a
<1>3. /\ LastSays((s \o k) \o (n \o a), Y, N) <=>
           \/ LastSays(a, Y, N)
           \/ Mute(a, N) /\ LastSays(n, Y, N)
           \/ Mute(a, N) /\ Mute(n, N) /\ LastSays(k, Y, N)
           \/ Mute(a, N) /\ Mute(n, N) /\ Mute(k, N) /\ LastSays(s, Y, N)
      /\ Mute((s \o k) \o (n \o a), N) <=> Mute(s, N) /\ Mute(k, N) /\ Mute(n, N) /\ Mute(a, N)
  BY <1>1, FourSay
<1>4. /\ LastSays((s \o k) \o (n \o l), Y, N) <=>
           \/ LastSays(l, Y, N)
           \/ Mute(l, N) /\ LastSays(n, Y, N)
           \/ Mute(l, N) /\ Mute(n, N) /\ LastSays(k, Y, N)
           \/ Mute(l, N) /\ Mute(n, N) /\ Mute(k, N) /\ LastSays(s, Y, N)
      /\ Mute((s \o k) \o (n \o l), N) <=> Mute(s, N) /\ Mute(k, N) /\ Mute(n, N) /\ Mute(l, N)
  BY FourSay
<1>5. /\ LastSays((s \o k) \o (n \o a), Y, N) <=>
              m \in Y \/ (m \notin N /\ LastSays((s \o k) \o (n \o l), Y, N))
      /\ Mute((s \o k) \o (n \o a), N) <=> m \notin N /\ Mute((s \o k) \o (n \o l), N)
  BY <1>2, <1>3, <1>4
<1>6. QED
  BY <1>5 DEF a

\* What one more message makes of it.
LEMMA OneMore ==
  ASSUME NEW s \in Seq(Things), NEW k \in Seq(Things), NEW n \in Seq(Things), NEW l \in Seq(Things),
         NEW m \in Things, NEW p \in BOOLEAN, NEW f \in Frames, NEW x \in Frames
  PROVE  /\ Plays((s \o k) \o (n \o Append(l, m)), p) <=>
              m \in Starts \/ (m \notin Stops /\ Plays((s \o k) \o (n \o l), p))
         /\ Shows((s \o k) \o (n \o Append(l, m)), f, x) <=>
              m \in At(x) \/ (m \notin Off(x) /\ Shows((s \o k) \o (n \o l), f, x))
  BY OneMoreSays DEF Plays, Shows

LEMMA SeqsOfThings ==
  /\ \A s \in Seq(Message) : s \in Seq(Things)
  /\ \A s \in Seq(Command) : s \in Seq(Things)
  /\ \A s \in Seq(Call) : s \in Seq(Things)
  BY SeqMonotonic DEF Things

LEMMA PartsTyped ==
  ASSUME TypeOK, NEW c \in Clients
  PROVE  /\ Served(c) \in Seq(Things) /\ commands[c] \in Seq(Things)
         /\ Heard(c) \in Seq(Things) /\ link[<<server, c>>] \in Seq(Things)
         /\ playing[c] \in BOOLEAN /\ frame[c] \in Frames /\ image[c] \in Frames
         /\ c \in Viewers /\ server \in Viewers /\ c # server
         /\ playing[server] \in BOOLEAN /\ frame[server] \in Frames /\ image[server] \in Frames
<1>1. c \in Viewers /\ server \in Viewers /\ c # server
  BY SyncAssumption DEF Viewers
<1>2. /\ calls[c] \in Seq(Call) /\ commands[c] \in Seq(Command) /\ link[<<server, c>>] \in Seq(Message)
      /\ playing[c] \in BOOLEAN /\ frame[c] \in Frames /\ image[c] \in Frames
      /\ playing[server] \in BOOLEAN /\ frame[server] \in Frames /\ image[server] \in Frames
  BY <1>1 DEF TypeOK
<1>3. Served(c) \in Seq(Things)
  BY <1>2, SeqsOfThings DEF Served
<1>4. Heard(c) \in Seq(Things)
  <2>1. CASE net[c].pc = "parse"
    <3>1. net[c].msg \in Message
      BY <1>1, <2>1, Held
    <3>2. QED
      BY <2>1, <3>1 DEF Heard, Things
  <2>2. CASE net[c].pc # "parse"
    BY <2>2 DEF Heard
  <2>3. QED
    BY <2>1, <2>2
<1>5. QED
  BY <1>1, <1>2, <1>3, <1>4, SeqsOfThings

\* Of c only what it is sent changes.
StaysAs(c) ==
  /\ serving'[c] = serving[c] /\ calls'[c] = calls[c] /\ commands'[c] = commands[c]
  /\ net'[c] = net[c] /\ playing'[c] = playing[c] /\ frame'[c] = frame[c]

LEMMA AheadKept ==
  ASSUME NEW c, StaysAs(c), link'[<<server, c>>] = link[<<server, c>>]
  PROVE  Ahead(c)' = Ahead(c)
  BY DEF StaysAs, Ahead, Served, Heard

LEMMA AheadGrows ==
  ASSUME TypeOK, NEW c \in Clients, StaysAs(c), NEW m \in Message,
         link'[<<server, c>>] = Append(link[<<server, c>>], m), NEW x \in Frames
  PROVE  /\ Plays(Ahead(c)', playing'[c]) <=> m \in Starts \/ (m \notin Stops /\ Plays(Ahead(c), playing[c]))
         /\ Shows(Ahead(c)', frame'[c], x) <=> m \in At(x) \/ (m \notin Off(x) /\ Shows(Ahead(c), frame[c], x))
<1>1. Ahead(c)' = (Served(c) \o commands[c]) \o (Heard(c) \o Append(link[<<server, c>>], m))
  BY DEF StaysAs, Ahead, Served, Heard
<1>2. Ahead(c) = (Served(c) \o commands[c]) \o (Heard(c) \o link[<<server, c>>])
  BY DEF Ahead
<1>3. playing'[c] = playing[c] /\ frame'[c] = frame[c]
  BY DEF StaysAs
<1>4. m \in Things
  BY DEF Things
<1>5. QED
  BY <1>1, <1>2, <1>3, <1>4, PartsTyped, OneMore

\* What stands after a step stood before it, where what is no longer said is covered.
LEMMA StoodBefore ==
  ASSUME TypeOK, NEW c \in Clients,
         playing'[server] = playing[server], frame'[server] = frame[server],
         \A e \in Said(c) : e \in Said(c)' \/ (Covers(Said(c)', e) /\ e # SyncImage)
  PROVE  (PlayStands(c)' => PlayStands(c)) /\ (FrameStands(c)' => FrameStands(c))
<1>1. frame[server] \in Frames
  BY PartsTyped
<1>2. /\ Said(c)' \cap Starts = {} => Said(c) \cap Starts = {}
      /\ Said(c)' \cap Stops = {} => Said(c) \cap Stops = {}
      /\ Said(c)' \cap Off(frame[server]) = {} => Said(c) \cap Off(frame[server]) = {}
      /\ SyncImage \notin Said(c)' => SyncImage \notin Said(c)
  BY <1>1 DEF Covers
<1>3. PlayStands(c)' => PlayStands(c)
  BY <1>2 DEF PlayStands
<1>4. FrameStands(c)' => FrameStands(c)
  BY <1>2 DEF FrameStands
<1>5. QED
  BY <1>3, <1>4

LEMMA NothingAhead ==
  ASSUME TypeOK, NEW c \in Clients, WillAgree(c), Ahead(c)' = Ahead(c),
         playing'[c] = playing[c], frame'[c] = frame[c],
         playing'[server] = playing[server], frame'[server] = frame[server],
         PlayStands(c)' => PlayStands(c), FrameStands(c)' => FrameStands(c)
  PROVE  WillAgree(c)'
  BY DEF WillAgree

LEMMA Unchanged ==
  ASSUME TypeOK, NEW c \in Clients, WillAgree(c), StaysAs(c), link'[<<server, c>>] = link[<<server, c>>],
         playing'[server] = playing[server], frame'[server] = frame[server],
         \A e \in Said(c) : e \in Said(c)' \/ (Covers(Said(c)', e) /\ e # SyncImage)
  PROVE  WillAgree(c)'
<1>1. Ahead(c)' = Ahead(c) /\ playing'[c] = playing[c] /\ frame'[c] = frame[c]
  BY AheadKept DEF StaysAs
<1>2. (PlayStands(c)' => PlayStands(c)) /\ (FrameStands(c)' => FrameStands(c))
  BY StoodBefore
<1>3. QED
  BY <1>1, <1>2, NothingAhead

-----------------------------------------------------------------------------
(* What is sent.                                                           *)

LEMMA Sent ==
  ASSUME TypeOK, ServesInTurn, races' = {}, NEW v \in Viewers, NEW m \in Message,
         calls[v] # <<>>, Send(v, m)
  PROVE  /\ v = server \/ ~serving[v] => Write(v, m, {})
         /\ v # server /\ serving[v] => link' = link
         /\ v = server => net[server].pc # "forward"
<1>1. network_active[v] \/ serving[v]
  BY DEF Send
<1>2. v = server => net[server].pc # "forward"
  BY DEF Send
<1>3. serving[v] => (network_active[v] <=> v = server)
  BY DEF ServesInTurn
<1>4. QED
  BY <1>1, <1>2, <1>3 DEF Send

\* The server sends to all clients that it has accepted.
LEMMA ServerWrites ==
  ASSUME TypeOK, NEW m \in Message, NEW from, Write(server, m, from)
  PROVE  /\ \A c \in accepted \ from : link'[<<server, c>>] = Append(link[<<server, c>>], m)
         /\ \A c \in Clients : c \notin accepted \ from => link'[<<server, c>>] = link[<<server, c>>]
         /\ \A v \in Clients, w \in Viewers : link'[<<v, w>>] = link[<<v, w>>]
         /\ link'[<<server, server>>] = link[<<server, server>>]
<1>1. /\ accepted \subseteq Clients /\ server \notin Clients /\ Clients \subseteq Viewers /\ server \in Viewers
      /\ Peers(server) = accepted
  BY SyncAssumption DEF TypeOK, Viewers, Peers
<1>2. link' = [p \in Viewers \X Viewers |->
             IF p[1] = server /\ p[2] \in accepted \ from THEN Append(link[p], m) ELSE link[p]]
  BY <1>1 DEF Write, TypeOK
<1>3. ASSUME NEW v \in Viewers, NEW w \in Viewers
      PROVE  link'[<<v, w>>] = IF v = server /\ w \in accepted \ from THEN Append(link[<<v, w>>], m)
                                                             ELSE link[<<v, w>>]
  BY <1>2
<1>4. QED
  BY <1>1, <1>3

\* A client sends to the server once it is connected.
LEMMA ClientWrites ==
  ASSUME TypeOK, NEW c \in Clients, NEW m \in Message, Write(c, m, {})
  PROVE  /\ c \in connected => link'[<<c, server>>] = Append(link[<<c, server>>], m)
         /\ c \notin connected => link' = link
         /\ \A v, w \in Viewers : v # c \/ w # server => link'[<<v, w>>] = link[<<v, w>>]
<1>1. /\ server \notin Clients /\ Clients \subseteq Viewers /\ server \in Viewers
      /\ Peers(c) = IF c \in connected THEN {server} ELSE {}
  BY SyncAssumption DEF TypeOK, Viewers, Peers
<1>2. link' = [p \in Viewers \X Viewers |->
             IF p[1] = c /\ p[2] \in Peers(c) THEN Append(link[p], m) ELSE link[p]]
  BY DEF Write, TypeOK
<1>3. ASSUME NEW v \in Viewers, NEW w \in Viewers
      PROVE  link'[<<v, w>>] = IF v = c /\ w \in Peers(c) THEN Append(link[<<v, w>>], m) ELSE link[<<v, w>>]
  BY <1>2
<1>4. c \notin connected => link' = link
  BY <1>1, <1>2 DEF TypeOK
<1>5. QED
  BY <1>1, <1>3, <1>4

\* What one viewer does changes no other.
LEMMA OthersStay ==
  ASSUME TypeOK, NEW v \in Viewers, Network(v) \/ Interface(v) \/ User(v) \/ Advance(v),
         NEW w \in Viewers \ {v}
  PROVE  StaysAs(w) /\ image'[w] = image[w]
<1>1. CASE Network(v)
  BY <1>1 DEF Network, Parse, Answer, PushCommands, Parsed, Forward, view, ui, StaysAs, TypeOK
<1>2. CASE MakeCall(v)
  <2>1. Seek(v) \/ Stop(v) \/ Play(v)
    BY <1>2 DEF MakeCall
  <2>2. /\ calls'[w] = calls[w] /\ playing'[w] = playing[w] /\ frame'[w] = frame[w] /\ image'[w] = image[w]
    BY <2>1 DEF Seek, Stop, Play, Then, view, TypeOK
  <2>3. serving'[w] = serving[w] /\ commands'[w] = commands[w] /\ net'[w] = net[w]
    BY <1>2 DEF MakeCall, TypeOK
  <2>4. QED
    BY <2>2, <2>3 DEF StaysAs
<1>3. CASE Zoomed(v)
  BY <1>3 DEF Zoomed, Then, view, StaysAs, TypeOK
<1>4. CASE HandleCommand(v)
  BY <1>4 DEF HandleCommand, TakeCommand, view, StaysAs, TypeOK
<1>5. CASE User(v)
  BY <1>5 DEF User, UserSeek, UserPlay, UserStop, UserFit, UserCalls, view, StaysAs, TypeOK
<1>6. CASE Advance(v)
  BY <1>6 DEF Advance, ui, StaysAs, TypeOK
<1>7. QED
  BY <1>1, <1>2, <1>3, <1>4, <1>5, <1>6 DEF Interface

-----------------------------------------------------------------------------
(* What the server does.                                                   *)

LEMMA AskedKept ==
  ASSUME NEW c, net'[server] = net[server], link'[<<c, server>>] = link[<<c, server>>]
  PROVE  Asked(c)' = Asked(c)
  BY DEF Asked

\* What the server has to do, after one of its calls.
LEMMA OrdersAfterCall ==
  ASSUME TypeOK, calls[server] # <<>>, NEW more \in Seq(Call), Then(server, more),
         commands'[server] = commands[server]
  PROVE  /\ Orders = {Head(calls[server])} \cup Elements(Tail(calls[server])) \cup Elements(commands[server])
         /\ Orders' = Elements(more) \cup Elements(Tail(calls[server])) \cup Elements(commands[server])
<1>1. server \in Viewers /\ calls \in [Viewers -> Seq(Call)] /\ calls[server] \in Seq(Call)
  BY DEF TypeOK, Viewers
<1>2. Tail(calls[server]) \in Seq(Call) /\ Elements(calls[server]) = {Head(calls[server])} \cup Elements(Tail(calls[server]))
  BY <1>1, HeadThenTail, ElementsOfTail
<1>3. calls'[server] = more \o Tail(calls[server])
  BY <1>1 DEF Then
<1>4. Elements(calls'[server]) = Elements(more) \cup Elements(Tail(calls[server]))
  <2>1. \A t \in Seq(Call) : Elements(more \o t) = Elements(more) \cup Elements(t)
    BY ElementsOfConcat
  <2>2. QED
    BY <1>2, <1>3, <2>1
<1>5. QED
  BY <1>2, <1>4 DEF Orders

\* A call that changes nothing.
LEMMA ServerIdles ==
  ASSUME TypeOK, Wired, MakeCall(server), UNCHANGED <<view, link>>, Then(server, <<>>),
         LET h == Head(calls[server]) IN
           /\ calls[server] # <<>>
           /\ \/ h = Item("seek", frame[server])
              \/ h = Item("stop", None) /\ ~playing[server],
         NEW c \in accepted, WillAgree(c)
  PROVE  WillAgree(c)'
<1> DEFINE h == Head(calls[server])
<1>1. c \in Clients /\ c # server /\ server \in Viewers /\ c \in Viewers
  BY PartsTyped DEF TypeOK
<1>2. StaysAs(c) /\ commands' = commands /\ net' = net /\ link' = link /\ playing' = playing /\ frame' = frame
  BY <1>1, OthersStay DEF MakeCall, Interface, view
<1>3. Ahead(c)' = Ahead(c) /\ Asked(c)' = Asked(c)
  BY <1>2, AheadKept, AskedKept
<1>4. Said(c) = {h} \cup Said(c)'
  <2>1. Orders = {h} \cup Elements(Tail(calls[server])) \cup Elements(commands[server])
        /\ Orders' = Elements(<<>>) \cup Elements(Tail(calls[server])) \cup Elements(commands[server])
    BY <1>2, OrdersAfterCall, EmptySeq
  <2>2. QED
    BY <1>3, <2>1, FewElements DEF Said
<1>5. h \notin Starts /\ h \notin Off(frame[server]) /\ h # SyncImage /\ (playing[server] => h \notin Stops)
  <2>1. frame[server] \in Frames
    BY <1>1, PartsTyped
  <2>2. CASE h = Item("seek", frame[server])
    <3>1. h # SyncImage
      BY <2>2 DEF SyncImage, Item
    <3>2. QED
      BY <2>1, <2>2, <3>1, FrameThings
  <2>3. CASE h = Item("stop", None) /\ ~playing[server]
    <3>1. h # SyncImage
      BY <2>3 DEF SyncImage, Item
    <3>2. QED
      BY <2>1, <2>3, <3>1, BareThings
  <2>4. QED
    BY <2>2, <2>3
<1> HIDE DEF h
<1>6. PlayStands(c)' => PlayStands(c)
  BY <1>2, <1>4, <1>5 DEF PlayStands
<1>7. FrameStands(c)' => FrameStands(c)
  BY <1>2, <1>4, <1>5 DEF FrameStands
<1>8. QED
  BY <1>1, <1>2, <1>3, <1>6, <1>7, NothingAhead DEF StaysAs

LEMMA ServerMakesCall ==
  ASSUME TypeOK, TypeOK', Wired, ServesInTurn, races' = {}, MakeCall(server),
         NEW c \in accepted, WillAgree(c)
  PROVE  WillAgree(c)'
<1> DEFINE h == Head(calls[server])
           x == frame'[server]
<1>1. /\ c \in Clients /\ c # server /\ server \in Viewers /\ c \in Viewers
      /\ frame[server] \in Frames /\ image[server] \in Frames
  BY PartsTyped DEF TypeOK
<1>2. StaysAs(c) /\ commands' = commands /\ net' = net
  BY <1>1, OthersStay DEF MakeCall, Interface
<1>3. frame \in [Viewers -> Frames] /\ playing \in [Viewers -> BOOLEAN] /\ x \in Frames
  BY <1>1 DEF TypeOK
<1>4. ASSUME NEW m \in Message, calls[server] # <<>>, Send(server, m)
      PROVE  /\ Asked(c)' = Asked(c)
             /\ Plays(Ahead(c)', playing'[c]) <=> m \in Starts \/ (m \notin Stops /\ Plays(Ahead(c), playing[c]))
             /\ Shows(Ahead(c)', frame'[c], x) <=> m \in At(x) \/ (m \notin Off(x) /\ Shows(Ahead(c), frame[c], x))
  <2>1. Write(server, m, {})
    BY <1>1, <1>4, Sent
  <2>2. link'[<<server, c>>] = Append(link[<<server, c>>], m) /\ link'[<<c, server>>] = link[<<c, server>>]
    BY <1>1, <2>1, ServerWrites
  <2>3. Asked(c)' = Asked(c)
    BY <1>2, <2>2, AskedKept
  <2>4. QED
    BY <1>1, <1>2, <1>3, <1>4, <2>2, <2>3, AheadGrows
<1>5. CASE Seek(server)
  <2> DEFINE f == h.frame
  <2>1. calls[server] # <<>> /\ f \in Frames /\ h = Item("seek", f)
    BY <1>1, <1>5, FirstCall, ThingsAre DEF Seek
  <2>2. CASE f = frame[server]
    <3>1. Then(server, <<>>) /\ UNCHANGED <<view, link>>
      BY <1>5, <2>2 DEF Seek
    <3>2. QED
      BY <2>1, <2>2, <3>1, ServerIdles
  <2>3. CASE f # frame[server]
    <3> DEFINE more == IF playing[server] THEN <<Item("stop", None), Item("replay", f)>> ELSE <<>>
    <3>1. Send(server, Item("seek", f)) /\ playing' = playing /\ Then(server, more)
          /\ frame' = [frame EXCEPT ![server] = f]
      BY <1>5, <2>3 DEF Seek
    <3>2. x = f /\ playing'[server] = playing[server] /\ more \in Seq(Call)
      BY <1>1, <1>3, <2>1, <3>1, Kinds
    <3>3. Item("seek", f) \in Message /\ Item("seek", f) \in At(f) /\ Item("seek", f) \notin Starts
          /\ Item("seek", f) \notin Stops
      BY <2>1, Kinds, FrameThings
    <3>4. /\ Asked(c)' = Asked(c)
          /\ Plays(Ahead(c)', playing'[c]) <=> Plays(Ahead(c), playing[c])
          /\ Shows(Ahead(c)', frame'[c], x)
      BY <1>4, <2>1, <3>1, <3>2, <3>3
    <3>5. /\ Orders = {h} \cup Elements(Tail(calls[server])) \cup Elements(commands[server])
          /\ Orders' = Elements(more) \cup Elements(Tail(calls[server])) \cup Elements(commands[server])
      BY <1>2, <2>1, <3>1, <3>2, OrdersAfterCall
    <3>6. PlayStands(c)' => PlayStands(c)
      <4>1. CASE playing[server]
        <5>1. Item("replay", f) \in Orders'
          BY <3>5, <4>1, FewElements
        <5>2. Item("replay", f) \in Starts
          BY <2>1, FrameThings
        <5>3. ~PlayStands(c)'
          BY <5>1, <5>2 DEF PlayStands, Said
        <5>4. QED
          BY <5>3
      <4>2. CASE ~playing[server]
        <5>1. Said(c) = {h} \cup Said(c)'
          BY <3>4, <3>5, <4>2, FewElements DEF Said
        <5>2. h \notin Starts
          BY <2>1, <3>3
        <5>3. QED
          BY <3>2, <4>2, <5>1, <5>2 DEF PlayStands
      <4>3. QED
        BY <4>1, <4>2
    <3>7. QED
      BY <3>2, <3>4, <3>6 DEF WillAgree
  <2>4. QED
    BY <2>2, <2>3
<1>6. CASE Stop(server)
  <2>1. calls[server] # <<>> /\ h = Item("stop", None)
    BY <1>1, <1>6, FirstCall, ThingsAre DEF Stop
  <2>2. CASE ~playing[server]
    <3>1. Then(server, <<>>) /\ UNCHANGED <<view, link>>
      BY <1>6, <2>2 DEF Stop
    <3>2. QED
      BY <2>1, <2>2, <3>1, ServerIdles
  <2>3. CASE playing[server]
    <3> DEFINE m == Item("stop", image[server])
    <3>1. /\ frame' = [frame EXCEPT ![server] = image[server]]
          /\ playing' = [playing EXCEPT ![server] = FALSE]
          /\ Send(server, m)
      BY <1>6, <2>3 DEF Stop
    <3>2. x = image[server] /\ ~playing'[server]
      BY <1>1, <1>3, <3>1
    <3>3. m \in Message /\ m \in Stops /\ m \notin Starts /\ m \in At(image[server])
      BY <1>1, Kinds, FrameThings
    <3>4. ~Plays(Ahead(c)', playing'[c]) /\ Shows(Ahead(c)', frame'[c], x)
      BY <1>4, <2>1, <3>1, <3>2, <3>3
    <3>5. QED
      BY <3>2, <3>4 DEF WillAgree
  <2>4. QED
    BY <2>2, <2>3
<1>7. CASE Play(server)
  <2>1. calls[server] # <<>> /\ Send(server, Item("playfwd", None)) /\ playing' = [playing EXCEPT ![server] = TRUE]
    BY <1>7 DEF Play, First
  <2>2. playing'[server]
    BY <1>1, <1>3, <2>1
  <2>3. Item("playfwd", None) \in Message /\ Item("playfwd", None) \in Starts
    BY <1>1, Kinds, BareThings
  <2>4. Plays(Ahead(c)', playing'[c])
    BY <1>4, <2>1, <2>3
  <2>5. QED
    BY <2>2, <2>4 DEF WillAgree
<1>8. QED
  BY <1>5, <1>6, <1>7 DEF MakeCall

LEMMA ServerHandlesCommand ==
  ASSUME TypeOK, HandleCommand(server), NEW c \in accepted, WillAgree(c)
  PROVE  WillAgree(c)'
<1> DEFINE h == Head(commands[server])
           t == Tail(commands[server])
<1>1. c \in Clients /\ c # server /\ server \in Viewers /\ c \in Viewers
  BY PartsTyped DEF TypeOK
<1>2. StaysAs(c) /\ net' = net /\ link' = link /\ playing' = playing /\ frame' = frame
  BY <1>1, OthersStay DEF HandleCommand, TakeCommand, Interface, view, wire
<1>3. /\ calls[server] = <<>> /\ commands[server] # <<>> /\ commands[server] \in Seq(Command)
      /\ calls'[server] = CallsOf(h) /\ commands'[server] = t
  BY <1>1 DEF HandleCommand, TakeCommand, TypeOK
<1>4. h \in Command /\ Elements(commands[server]) = {h} \cup Elements(t)
  BY <1>3, HeadThenTail, ElementsOfTail
<1>5. Asked(c)' = Asked(c)
  BY <1>2, AskedKept
<1>6. Orders = {h} \cup Elements(t) /\ Orders' = Elements(CallsOf(h)) \cup Elements(t)
  BY <1>3, <1>4, FewElements DEF Orders
<1>7. Covers(Elements(CallsOf(h)), h) /\ h # SyncImage
  <2>1. h # SyncImage
    BY <1>4 DEF Command, SyncImage, Item
  <2>2. QED
    BY <1>4, <2>1, CallsCover
<1> HIDE DEF h, t
<1>8. Covers(Said(c)', h)
  <2>1. Elements(CallsOf(h)) \subseteq Said(c)'
    BY <1>6 DEF Said
  <2>2. QED
    BY <1>7, <2>1 DEF Covers
<1>9. \A e \in Said(c) : e \in Said(c)' \/ (Covers(Said(c)', e) /\ e # SyncImage)
  <2>1. Said(c) \subseteq {h} \cup Said(c)'
    BY <1>5, <1>6 DEF Said
  <2>2. QED
    BY <1>7, <1>8, <2>1
<1>10. QED
  BY <1>1, <1>2, <1>9, Unchanged

LEMMA ServerZooms ==
  ASSUME TypeOK, Zoomed(server), NEW c \in accepted, WillAgree(c)
  PROVE  WillAgree(c)'
<1> DEFINE h == Head(calls[server])
<1>1. c \in Clients /\ c # server /\ server \in Viewers /\ c \in Viewers
  BY PartsTyped DEF TypeOK
<1>2. StaysAs(c) /\ commands' = commands /\ net' = net /\ link' = link /\ playing' = playing /\ frame' = frame
  BY <1>1, OthersStay DEF Zoomed, Interface, view, wire
<1>3. calls[server] # <<>> /\ h = Item("zoom", None)
  BY <1>1, FirstCall, ThingsAre DEF Zoomed
<1>4. /\ Orders = {h} \cup Elements(Tail(calls[server])) \cup Elements(commands[server])
      /\ Orders' = Elements(<<>>) \cup Elements(Tail(calls[server])) \cup Elements(commands[server])
  BY <1>2, <1>3, OrdersAfterCall, EmptySeq DEF Zoomed
<1>5. Asked(c)' = Asked(c)
  BY <1>2, AskedKept
<1>6. Said(c) = {h} \cup Said(c)'
  BY <1>4, <1>5, FewElements DEF Said
<1>7. Covers(Said(c)', h) /\ h # SyncImage
  <2>1. \A x \in Frames : h \notin Starts /\ h \notin Stops /\ h \notin At(x) /\ h \notin Off(x)
    BY <1>3, BareThings
  <2>2. h # SyncImage /\ \E x : x \in Frames
    BY <1>3, SyncAssumption DEF SyncImage, Item, Frames
  <2>3. QED
    BY <2>1, <2>2 DEF Covers
<1>8. QED
  BY <1>1, <1>2, <1>6, <1>7, Unchanged

LEMMA ServerUser ==
  ASSUME TypeOK, User(server), NEW c \in accepted, WillAgree(c)
  PROVE  WillAgree(c)'
<1>1. c \in Clients /\ c # server /\ server \in Viewers /\ c \in Viewers
  BY PartsTyped DEF TypeOK
<1>2. /\ StaysAs(c) /\ commands' = commands /\ net' = net /\ link' = link /\ playing' = playing /\ frame' = frame
      /\ calls[server] = <<>>
  BY <1>1, OthersStay DEF User, UserSeek, UserPlay, UserStop, UserFit, UserCalls, view, wire
<1>3. Asked(c)' = Asked(c)
  BY <1>2, AskedKept
<1>4. Said(c) \subseteq Said(c)'
  BY <1>2, <1>3, FewElements DEF Said, Orders
<1>5. QED
  BY <1>1, <1>2, <1>4, Unchanged

LEMMA ServerAdvances ==
  ASSUME TypeOK, Advance(server), NEW c \in accepted, WillAgree(c)
  PROVE  WillAgree(c)'
<1>1. c \in Clients /\ c # server /\ server \in Viewers /\ c \in Viewers
  BY PartsTyped DEF TypeOK
<1>2. /\ StaysAs(c) /\ commands' = commands /\ net' = net /\ link' = link /\ playing' = playing /\ calls' = calls
      /\ playing[server]
  BY <1>1, OthersStay DEF Advance, ui, wire
<1>3. Ahead(c)' = Ahead(c) /\ playing'[c] = playing[c]
  BY <1>2, AheadKept
<1>4. Asked(c)' = Asked(c)
  BY <1>2, AskedKept
<1>5. Said(c)' = Said(c)
  BY <1>2, <1>4 DEF Said, Orders
<1>6. (PlayStands(c)' <=> PlayStands(c)) /\ ~FrameStands(c)'
  BY <1>2, <1>5 DEF PlayStands, FrameStands
<1>7. QED
  BY <1>2, <1>3, <1>6 DEF WillAgree

LEMMA ServerParses ==
  ASSUME TypeOK, NEW w \in Viewers, Parse(server, w), NEW c \in accepted, WillAgree(c)
  PROVE  WillAgree(c)'
<1>1. c \in Clients /\ c # server /\ server \in Viewers /\ c \in Viewers /\ w \in Clients /\ w # server
  BY PartsTyped, SyncAssumption DEF TypeOK, Parse
<1>2. /\ StaysAs(c) /\ commands' = commands /\ calls' = calls /\ playing' = playing /\ frame' = frame
  BY <1>1, OthersStay DEF Parse, Network, view, ui
<1>3. /\ net[server] = Idle /\ link[<<w, server>>] # <<>> /\ link[<<w, server>>] \in Seq(Message)
      /\ net'[server] = [pc |-> "parse", msg |-> Head(link[<<w, server>>]), from |-> w]
      /\ link'[<<w, server>>] = Tail(link[<<w, server>>])
      /\ \A u, v \in Viewers : u # w \/ v # server => link'[<<u, v>>] = link[<<u, v>>]
  BY <1>1 DEF Parse, TypeOK
<1>4. link'[<<server, c>>] = link[<<server, c>>]
  BY <1>1, <1>3
<1>5. Elements(link[<<w, server>>]) = {Head(link[<<w, server>>])} \cup Elements(Tail(link[<<w, server>>]))
  BY <1>3, ElementsOfTail
<1>6. net[server].pc = "idle" /\ net'[server].pc = "parse" /\ net'[server].from = w /\ net'[server].msg = Head(link[<<w, server>>])
  BY <1>3 DEF Idle
<1>7. Asked(c)' = Asked(c)
  <2>1. CASE w = c
    BY <1>3, <1>5, <1>6, <2>1 DEF Asked
  <2>2. CASE w # c
    <3>1. link'[<<c, server>>] = link[<<c, server>>]
      BY <1>1, <1>3, <2>2
    <3>2. QED
      BY <1>6, <2>2, <3>1 DEF Asked
  <2>3. QED
    BY <2>1, <2>2
<1>8. Said(c)' = Said(c)
  BY <1>2, <1>7 DEF Said, Orders
<1>9. QED
  BY <1>1, <1>2, <1>4, <1>8, Unchanged

LEMMA ServerHolds ==
  ASSUME TypeOK, Wired, net[server].pc # "idle"
  PROVE  /\ net[server].msg \in Message /\ net[server].from \in accepted /\ net[server].from \in Clients
         /\ net[server] \in [pc : {"parse", "parsed", "forward"}, msg : Message, from : Viewers]
         /\ server \in Viewers
<1>1. server \in Viewers /\ net[server] # Idle
  BY DEF Viewers, Idle
<1>2. QED
  BY <1>1, Held DEF Wired, TypeOK

LEMMA ServerAnswers ==
  ASSUME TypeOK, Wired, Answer(server), NEW c \in accepted, WillAgree(c)
  PROVE  WillAgree(c)'
<1> DEFINE d == net[server].from
           m == Item("seek", frame[server])
<1>1. /\ c \in Clients /\ c # server /\ server \in Viewers /\ c \in Viewers /\ d \in Clients /\ d # server
      /\ frame[server] \in Frames
      /\ net[server] \in [pc : {"parse", "parsed", "forward"}, msg : Message, from : Viewers]
      /\ net[server].pc = "parse" /\ net[server].msg.type = "sync_image" /\ net[server].msg \in Message
  BY PartsTyped, ServerHolds, SyncAssumption DEF TypeOK, Answer
<1>2. /\ StaysAs(c) /\ commands' = commands /\ calls' = calls /\ playing' = playing /\ frame' = frame
  BY <1>1, OthersStay DEF Answer, Network, view, ui
<1>3. /\ net' = [net EXCEPT ![server].pc = "parsed"]
      /\ link' = [link EXCEPT ![<<server, d>>] = Append(@, m)]
  BY DEF Answer
<1>4. /\ net'[server].pc = "parsed"
      /\ link'[<<server, d>>] = Append(link[<<server, d>>], m)
      /\ \A u, v \in Viewers : u # server \/ v # d => link'[<<u, v>>] = link[<<u, v>>]
  BY <1>1, <1>3 DEF TypeOK
<1>5. link'[<<c, server>>] = link[<<c, server>>]
  BY <1>1, <1>4
<1>6. CASE c # d
  <2>1. Asked(c)' = Asked(c) /\ link'[<<server, c>>] = link[<<server, c>>]
    BY <1>1, <1>4, <1>5, <1>6 DEF Asked
  <2>2. Said(c)' = Said(c)
    BY <1>2, <2>1 DEF Said, Orders
  <2>3. QED
    BY <1>1, <1>2, <2>1, <2>2, Unchanged
<1>7. CASE c = d
  <2>1. net[server].msg = SyncImage
    BY <1>1, ThingsAre DEF SyncImage
  <2>2. Said(c) = Said(c)' \cup {SyncImage}
    BY <1>1, <1>2, <1>4, <1>5, <1>7, <2>1 DEF Said, Orders, Asked
  <2>3. SyncImage \notin Starts /\ SyncImage \notin Stops
    BY <1>1, BareThings DEF SyncImage
  <2>4. PlayStands(c)' => PlayStands(c)
    BY <1>2, <2>2, <2>3 DEF PlayStands
  <2>5. m \in Message /\ m \notin Starts /\ m \notin Stops /\ m \in At(frame[server])
    BY <1>1, Kinds, FrameThings
  <2>6. link'[<<server, c>>] = Append(link[<<server, c>>], m)
    BY <1>4, <1>7
  <2>7. /\ Plays(Ahead(c)', playing'[c]) <=> Plays(Ahead(c), playing[c])
        /\ Shows(Ahead(c)', frame'[c], frame'[server])
    BY <1>1, <1>2, <2>5, <2>6, AheadGrows
  <2>8. QED
    BY <1>2, <2>4, <2>7 DEF WillAgree
<1>8. QED
  BY <1>6, <1>7

LEMMA ServerPushes ==
  ASSUME TypeOK, Wired, PushCommands(server), NEW c \in accepted, WillAgree(c)
  PROVE  WillAgree(c)'
<1> DEFINE m == net[server].msg
           K == CommandsOf(server, m)
<1>1. /\ c \in Clients /\ c # server /\ server \in Viewers /\ c \in Viewers
      /\ net[server] \in [pc : {"parse", "parsed", "forward"}, msg : Message, from : Viewers]
      /\ net[server].pc = "parse" /\ m.type # "sync_image" /\ m \in Message
  BY PartsTyped, ServerHolds DEF TypeOK, PushCommands
<1>2. StaysAs(c) /\ link' = link /\ calls' = calls /\ playing' = playing /\ frame' = frame
  BY <1>1, OthersStay DEF PushCommands, Network, view, ui, wire
<1>3. K \in Seq(Command)
  <2>1. CASE m.type = "seek"
    BY <1>1, <2>1, Kinds, ThingsAre DEF CommandsOf
  <2>2. CASE m.type = "stop"
    BY <1>1, <2>2, Kinds, ThingsAre DEF CommandsOf
  <2>3. CASE m.type = "playfwd"
    BY <1>1, <2>3, Kinds, ThingsAre DEF CommandsOf
  <2>4. QED
    BY <1>1, <2>1, <2>2, <2>3, ThingsAre
<1>4. /\ commands'[server] = commands[server] \o K /\ commands[server] \in Seq(Command)
      /\ net'[server].pc = "parsed"
  BY <1>1 DEF PushCommands, TypeOK
<1>5. Elements(commands[server] \o K) = Elements(commands[server]) \cup Elements(K)
  BY <1>3, <1>4, ElementsOfConcat
<1>6. Covers(Elements(K), m) /\ m # SyncImage
  <2>1. m # SyncImage
    BY <1>1 DEF SyncImage, Item
  <2>2. QED
    BY <1>1, <2>1, CommandsCover
<1> HIDE DEF K
<1>7. Orders' = Orders \cup Elements(K)
  BY <1>2, <1>4, <1>5 DEF Orders
<1>8. Said(c) \subseteq Said(c)' \cup {m}
  BY <1>1, <1>2, <1>7 DEF Said, Asked
<1>9. Covers(Said(c)', m)
  <2>1. Elements(K) \subseteq Said(c)'
    BY <1>7 DEF Said
  <2>2. QED
    BY <1>6, <2>1 DEF Covers
<1>10. \A e \in Said(c) : e \in Said(c)' \/ (Covers(Said(c)', e) /\ e # SyncImage)
  BY <1>6, <1>8, <1>9
<1>11. QED
  BY <1>1, <1>2, <1>10, Unchanged

LEMMA ServerParsed ==
  ASSUME TypeOK, Wired, Parsed(server), NEW c \in accepted, WillAgree(c)
  PROVE  WillAgree(c)'
<1>1. /\ c \in Clients /\ c # server /\ server \in Viewers /\ c \in Viewers
      /\ net[server] \in [pc : {"parse", "parsed", "forward"}, msg : Message, from : Viewers]
      /\ net[server].pc = "parsed"
  BY PartsTyped, ServerHolds DEF TypeOK, Parsed
<1>2. StaysAs(c) /\ link' = link /\ calls' = calls /\ commands' = commands /\ playing' = playing /\ frame' = frame
  BY <1>1, OthersStay DEF Parsed, Network, view, ui, wire
<1>3. net'[server].pc = "forward"
  BY <1>1 DEF Parsed, TypeOK
<1>4. Said(c)' = Said(c)
  BY <1>1, <1>2, <1>3 DEF Said, Orders, Asked
<1>5. QED
  BY <1>1, <1>2, <1>4, Unchanged

LEMMA ServerForwards ==
  ASSUME TypeOK, Wired, Passing, Forward, NEW c \in accepted, WillAgree(c)
  PROVE  WillAgree(c)'
<1> DEFINE m == net[server].msg
           x == frame[server]
<1>1. /\ c \in Clients /\ c # server /\ server \in Viewers /\ c \in Viewers /\ x \in Frames
      /\ net[server] \in [pc : {"parse", "parsed", "forward"}, msg : Message, from : Viewers]
      /\ net[server].pc = "forward" /\ m \in Message
  BY PartsTyped, ServerHolds DEF TypeOK, Forward
<1>2. StaysAs(c) /\ calls' = calls /\ commands' = commands /\ playing' = playing /\ frame' = frame
  BY <1>1, OthersStay DEF Forward, Network, view, ui
<1>3. Write(server, m, {net[server].from}) /\ net'[server] = Idle
  BY <1>1 DEF Forward, TypeOK
<1>4. /\ link'[<<c, server>>] = link[<<c, server>>]
      /\ c = net[server].from => link'[<<server, c>>] = link[<<server, c>>]
      /\ c # net[server].from => link'[<<server, c>>] = Append(link[<<server, c>>], m)
  BY <1>1, <1>3, ServerWrites
<1>5. Said(c)' = Said(c)
  BY <1>1, <1>2, <1>3, <1>4 DEF Said, Orders, Asked, Idle
<1>6. CASE c = net[server].from
  BY <1>1, <1>2, <1>4, <1>5, <1>6, Unchanged
<1>7. CASE c # net[server].from
  <2>1. /\ Plays(Ahead(c)', playing'[c]) <=> m \in Starts \/ (m \notin Stops /\ Plays(Ahead(c), playing[c]))
        /\ Shows(Ahead(c)', frame'[c], x) <=> m \in At(x) \/ (m \notin Off(x) /\ Shows(Ahead(c), frame[c], x))
    BY <1>1, <1>2, <1>4, <1>7, AheadGrows
  <2>2. /\ m \in Starts => Orders \cap Starts # {}
        /\ m \in Stops => ~playing[server] \/ Orders \cap Stops # {}
        /\ \A y \in Frames : m \in At(y) => playing[server] \/ x = y \/ Orders \cap At(y) # {}
    BY <1>1 DEF Passing
  <2>3. ASSUME PlayStands(c)' PROVE Plays(Ahead(c)', playing'[c]) <=> playing'[server]
    <3>1. PlayStands(c) /\ Orders \cap Starts = {} /\ (playing[server] => Orders \cap Stops = {})
      BY <1>2, <1>5, <2>3 DEF PlayStands, Said
    <3>2. m \notin Starts /\ (m \in Stops => ~playing[server])
      BY <2>2, <3>1
    <3>3. Plays(Ahead(c), playing[c]) <=> playing[server]
      BY <3>1 DEF WillAgree
    <3>4. QED
      BY <1>2, <2>1, <3>2, <3>3
  <2>4. ASSUME FrameStands(c)' PROVE Plays(Ahead(c)', playing'[c]) \/ Shows(Ahead(c)', frame'[c], x)
    <3>1. FrameStands(c) /\ PlayStands(c) /\ Orders \cap Starts = {} /\ ~playing[server] /\ Orders \cap Off(x) = {}
      BY <1>2, <1>5, <2>4 DEF FrameStands, PlayStands, Said
    <3>2. ~Plays(Ahead(c), playing[c]) /\ Shows(Ahead(c), frame[c], x)
      BY <3>1 DEF WillAgree
    <3>3. m \notin Off(x)
      <4>1. CASE m.frame \in Frames
        <5>1. m \in At(m.frame)
          BY <1>1, <4>1 DEF At, Things
        <5>2. x = m.frame \/ Orders \cap At(m.frame) # {}
          BY <2>2, <3>1, <4>1, <5>1
        <5>3. x # m.frame => At(m.frame) \subseteq Off(x)
          BY <4>1 DEF At, Off, Frames, None
        <5>4. x = m.frame
          BY <3>1, <5>2, <5>3
        <5>5. QED
          BY <5>4 DEF Off
      <4>2. CASE m.frame = None
        BY <4>2 DEF Off
      <4>3. QED
        BY <1>1, <4>1, <4>2, ThingsAre
    <3>4. QED
      BY <2>1, <3>2, <3>3
  <2>5. QED
    BY <1>2, <2>3, <2>4 DEF WillAgree
<1>8. QED
  BY <1>6, <1>7

-----------------------------------------------------------------------------
(* What a client does.                                                     *)

\* What comes later says the same of what comes before, if that says the same.
LEMMA SamePlays ==
  ASSUME NEW a \in Seq(Things), NEW a2 \in Seq(Things), NEW b \in Seq(Things),
         NEW p \in BOOLEAN, NEW p2 \in BOOLEAN, Plays(a2, p2) <=> Plays(a, p)
  PROVE  Plays(a2 \o b, p2) <=> Plays(a \o b, p)
<1>1. ASSUME NEW Y, NEW N
      PROVE  /\ LastSays(a \o b, Y, N) <=> LastSays(b, Y, N) \/ (LastSays(a, Y, N) /\ Mute(b, N))
             /\ LastSays(a2 \o b, Y, N) <=> LastSays(b, Y, N) \/ (LastSays(a2, Y, N) /\ Mute(b, N))
             /\ Mute(a \o b, N) <=> Mute(a, N) /\ Mute(b, N)
             /\ Mute(a2 \o b, N) <=> Mute(a2, N) /\ Mute(b, N)
  BY LastSaysConcat, MuteConcat
<1>2. QED
  BY <1>1 DEF Plays

LEMMA SameShows ==
  ASSUME NEW a \in Seq(Things), NEW a2 \in Seq(Things), NEW b \in Seq(Things),
         NEW f \in Frames, NEW f2 \in Frames, NEW x \in Frames, Shows(a2, f2, x) <=> Shows(a, f, x)
  PROVE  Shows(a2 \o b, f2, x) <=> Shows(a \o b, f, x)
<1>1. ASSUME NEW Y, NEW N
      PROVE  /\ LastSays(a \o b, Y, N) <=> LastSays(b, Y, N) \/ (LastSays(a, Y, N) /\ Mute(b, N))
             /\ LastSays(a2 \o b, Y, N) <=> LastSays(b, Y, N) \/ (LastSays(a2, Y, N) /\ Mute(b, N))
             /\ Mute(a \o b, N) <=> Mute(a, N) /\ Mute(b, N)
             /\ Mute(a2 \o b, N) <=> Mute(a2, N) /\ Mute(b, N)
  BY LastSaysConcat, MuteConcat
<1>2. QED
  BY <1>1 DEF Shows

LEMMA ThreeSpeak ==
  ASSUME NEW s \in Seq(Things), NEW k \in Seq(Things), NEW b \in Seq(Things), NEW Y, NEW N
  PROVE  /\ LastSays((s \o k) \o b, Y, N) <=>
              \/ LastSays(b, Y, N)
              \/ LastSays(k, Y, N) /\ Mute(b, N)
              \/ LastSays(s, Y, N) /\ Mute(k, N) /\ Mute(b, N)
         /\ Mute((s \o k) \o b, N) <=> Mute(s, N) /\ Mute(k, N) /\ Mute(b, N)
<1>1. s \o k \in Seq(Things)
  OBVIOUS
<1>2. /\ LastSays(s \o k, Y, N) <=> LastSays(k, Y, N) \/ (LastSays(s, Y, N) /\ Mute(k, N))
      /\ Mute(s \o k, N) <=> Mute(s, N) /\ Mute(k, N)
  BY LastSaysConcat, MuteConcat
<1> DEFINE a == s \o k
<1> HIDE DEF a
<1>3. a \in Seq(Things)
  BY <1>1 DEF a
<1>4. /\ LastSays(a \o b, Y, N) <=> LastSays(b, Y, N) \/ (LastSays(a, Y, N) /\ Mute(b, N))
      /\ Mute(a \o b, N) <=> Mute(a, N) /\ Mute(b, N)
  BY <1>3, LastSaysConcat, MuteConcat
<1>5. QED
  BY <1>2, <1>4 DEF a

LEMMA AtOrOff ==
  ASSUME NEW e \in Things, e.frame \in Frames, NEW x \in Frames
  PROVE  e \in At(x) \/ e \in Off(x)
  BY DEF At, Off, Frames, None

\* What stops a view shows a frame, or is followed by what does.
LEMMA StopsShow ==
  ASSUME NEW s \in Seq(Call), NEW k \in Seq(Command), NEW n \in Seq(Message), NEW l \in Seq(Message),
         \A i \in DOMAIN s : s[i].type = "stop" => 2 \in DOMAIN s /\ s[2].type \in {"seek", "replay"},
         ~Mute((s \o k) \o (n \o l), Stops), NEW x \in Frames, Mute((s \o k) \o (n \o l), Off(x))
  PROVE  LastSays((s \o k) \o (n \o l), At(x), Off(x))
<1> DEFINE w == (s \o k) \o (n \o l)
<1>1. s \in Seq(Things) /\ k \in Seq(Things) /\ n \in Seq(Things) /\ l \in Seq(Things)
  BY SeqsOfThings
<1>2. Elements(w) = Elements(s) \cup Elements(k) \cup Elements(n) \cup Elements(l)
  <2>1. s \o k \in Seq(Things) /\ n \o l \in Seq(Things)
    BY <1>1
  <2>2. Elements(s \o k) = Elements(s) \cup Elements(k) /\ Elements(n \o l) = Elements(n) \cup Elements(l)
    BY <1>1, ElementsOfConcat
  <2> DEFINE a == s \o k
             b == n \o l
  <2>3. a \in Seq(Things) /\ b \in Seq(Things)
    BY <2>1
  <2> HIDE DEF a, b
  <2>4. Elements(a \o b) = Elements(a) \cup Elements(b)
    BY <2>3, ElementsOfConcat
  <2>5. QED
    BY <2>2, <2>4 DEF a, b
<1>3. PICK e \in Elements(w) : e \in Stops
  BY MuteIs
<1>4. \E d \in Elements(w) : d \in Things /\ d.frame \in Frames
  <2>1. CASE e \in Elements(s)
    <3>1. PICK i \in DOMAIN s : e = s[i]
      BY <2>1 DEF Elements
    <3>2. e \in Call
      BY <3>1
    <3>3. s[i].type = "stop"
      BY <1>3, <3>1, <3>2 DEF Stops, Call
    <3>4. 2 \in DOMAIN s /\ s[2].type \in {"seek", "replay"} /\ s[2] \in Call
      BY <3>1, <3>3
    <3>5. s[2].frame \in Frames /\ s[2] \in Things
      BY <3>4, ThingsAre DEF Things
    <3>6. s[2] \in Elements(s)
      BY <3>4 DEF Elements
    <3>7. QED
      BY <1>2, <3>5, <3>6
  <2>2. CASE e \in Elements(k)
    <3>1. e \in Command
      BY <2>2 DEF Elements
    <3>2. e.type = "kStopVideo"
      BY <1>3, <3>1 DEF Stops, Command
    <3>3. QED
      BY <3>1, <3>2, ThingsAre DEF Things
  <2>3. CASE e \in Elements(n) \cup Elements(l)
    <3>1. e \in Message
      BY <2>3 DEF Elements
    <3>2. e.type = "stop"
      BY <1>3, <3>1 DEF Stops, Message
    <3>3. QED
      BY <3>1, <3>2, ThingsAre DEF Things
  <2>4. QED
    BY <1>2, <2>1, <2>2, <2>3
<1>5. PICK d \in Elements(w) : d \in Things /\ d.frame \in Frames
  BY <1>4
<1>6. d \notin Off(x)
  BY MuteIs
<1>7. d \in At(x)
  BY <1>5, <1>6 DEF At, Off, Frames, None
<1>8. QED
  BY <1>5, <1>7, MuteSays

\* The parts of what is ahead, by their kinds.
LEMMA PartsAre ==
  ASSUME TypeOK, NEW c \in Clients
  PROVE  Served(c) \in Seq(Call) /\ commands[c] \in Seq(Command) /\ Heard(c) \in Seq(Message)
         /\ link[<<server, c>>] \in Seq(Message) /\ calls[c] \in Seq(Call)
<1>1. c \in Viewers /\ server \in Viewers
  BY DEF Viewers
<1>2. Heard(c) \in Seq(Message)
  <2>1. CASE net[c].pc = "parse"
    <3>1. net[c].msg \in Message
      BY <1>1, <2>1, Held
    <3>2. QED
      BY <2>1, <3>1 DEF Heard
  <2>2. CASE net[c].pc # "parse"
    BY <2>2 DEF Heard
  <2>3. QED
    BY <2>1, <2>2
<1>3. QED
  BY <1>1, <1>2 DEF TypeOK, Served

\* A client that will agree does so still when what it does for others says the same.
LEMMA SameOutcome ==
  ASSUME TypeOK, NEW c \in Clients, WillAgree(c),
         playing'[server] = playing[server], frame'[server] = frame[server],
         Said(c) \subseteq Said(c)',
         Plays(Ahead(c)', playing'[c]) <=> Plays(Ahead(c), playing[c]),
         ~Plays(Ahead(c), playing[c]) /\ Shows(Ahead(c), frame[c], frame[server]) =>
            Shows(Ahead(c)', frame'[c], frame[server])
  PROVE  WillAgree(c)'
<1>1. (PlayStands(c)' => PlayStands(c)) /\ (FrameStands(c)' => FrameStands(c))
  BY StoodBefore
<1>2. QED
  BY <1>1 DEF WillAgree

\* A call for others.
LEMMA ClientServes ==
  ASSUME TypeOK, TypeOK', ServesInTurn, StopsThenSeeks, races' = {}, NEW c \in accepted, MakeCall(c), serving[c],
         WillAgree(c)
  PROVE  WillAgree(c)'
<1> DEFINE h == Head(calls[c])
           t == Tail(calls[c])
           x == frame[server]
           k == commands[c]
           b == Heard(c) \o link[<<server, c>>]
<1>1. /\ c \in Clients /\ c # server /\ server \in Viewers /\ c \in Viewers /\ x \in Frames
      /\ playing[c] \in BOOLEAN /\ frame[c] \in Frames /\ image[c] \in Frames
      /\ playing'[c] \in BOOLEAN /\ frame'[c] \in Frames
      /\ k \in Seq(Things) /\ b \in Seq(Things)
  BY PartsTyped DEF TypeOK
<1>2. /\ StaysAs(server) /\ commands' = commands /\ net' = net
      /\ playing'[server] = playing[server] /\ frame'[server] = frame[server]
  BY <1>1, OthersStay DEF MakeCall, Interface, StaysAs
<1>3. /\ calls[c] # <<>> /\ calls[c] \in Seq(Call) /\ h \in Call /\ t \in Seq(Call)
      /\ calls[c] \in Seq(Things) /\ t \in Seq(Things)
      /\ frame \in [Viewers -> Frames] /\ playing \in [Viewers -> BOOLEAN] /\ calls \in [Viewers -> Seq(Call)]
  <2>1. calls[c] # <<>> /\ calls[c] \in Seq(Call)
    BY <1>1, PartsAre DEF MakeCall, Seek, Stop, Play, First
  <2>2. QED
    BY <1>1, <2>1, HeadThenTail, SeqsOfThings DEF TypeOK
<1>4. link' = link
  <2>1. ASSUME NEW m \in Message, Send(c, m) PROVE link' = link
    BY <1>1, <1>3, <2>1, Sent
  <2>2. QED
    BY <1>1, <1>3, <2>1, Kinds, FirstCall DEF MakeCall, Seek, Stop, Play
<1>5. Said(c)' = Said(c)
  BY <1>2, <1>4 DEF Said, Orders, Asked, StaysAs
<1>6. Ahead(c) = (calls[c] \o k) \o b
  BY DEF Ahead, Served
<1>7. ASSUME NEW more \in Seq(Call), Then(c, more)
      PROVE  Ahead(c)' = ((more \o t) \o k) \o b /\ more \in Seq(Things) /\ more \o t \in Seq(Things)
  <2>1. calls'[c] = more \o t
    BY <1>1, <1>3, <1>7 DEF Then
  <2>2. Served(c)' = more \o t
    <3>1. CASE calls'[c] = <<>>
      BY <2>1, <3>1 DEF Served
    <3>2. CASE calls'[c] # <<>>
      <4>1. serving' = serving
        BY <3>2 DEF MakeCall
      <4>2. QED
        BY <2>1, <4>1 DEF Served
    <3>3. QED
      BY <3>1, <3>2
  <2>3. Heard(c)' = Heard(c)
    BY <1>2 DEF Heard
  <2>4. Ahead(c)' = (Served(c)' \o commands'[c]) \o (Heard(c)' \o link'[<<server, c>>])
    BY DEF Ahead
  <2>5. more \in Seq(Things)
    BY SeqsOfThings
  <2>6. QED
    BY <1>2, <1>3, <1>4, <2>2, <2>3, <2>4, <2>5
\* What is left of the call says the same.
<1>8. ASSUME NEW more \in Seq(Call), Then(c, more),
             Plays(more \o t, playing'[c]) <=> Plays(calls[c], playing[c]),
             Shows(more \o t, frame'[c], x) <=> Shows(calls[c], frame[c], x)
      PROVE  WillAgree(c)'
  <2> DEFINE s2 == more \o t
  <2>1. Ahead(c)' = (s2 \o k) \o b /\ s2 \in Seq(Things)
    BY <1>7, <1>8
  <2>2. /\ Plays(s2, playing'[c]) <=> Plays(calls[c], playing[c])
        /\ Shows(s2, frame'[c], x) <=> Shows(calls[c], frame[c], x)
    BY <1>8
  <2> HIDE DEF s2, b, k, x
  <2>3. /\ Plays(s2 \o k, playing'[c]) <=> Plays(calls[c] \o k, playing[c])
        /\ Shows(s2 \o k, frame'[c], x) <=> Shows(calls[c] \o k, frame[c], x)
    BY <1>1, <1>3, <2>1, <2>2, SamePlays, SameShows
  <2>4. s2 \o k \in Seq(Things) /\ calls[c] \o k \in Seq(Things)
    BY <1>1, <1>3, <2>1
  <2> DEFINE a == calls[c] \o k
             a2 == s2 \o k
  <2>5. /\ Plays(a2 \o b, playing'[c]) <=> Plays(a \o b, playing[c])
        /\ Shows(a2 \o b, frame'[c], x) <=> Shows(a \o b, frame[c], x)
    <3>1. a \in Seq(Things) /\ a2 \in Seq(Things)
      BY <2>4
    <3>2. /\ Plays(a2, playing'[c]) <=> Plays(a, playing[c])
          /\ Shows(a2, frame'[c], x) <=> Shows(a, frame[c], x)
      BY <2>3
    <3> HIDE DEF a, a2
    <3>3. QED
      BY <1>1, <3>1, <3>2, SamePlays, SameShows
  <2>6. QED
    BY <1>1, <1>2, <1>5, <1>6, <2>1, <2>5, SameOutcome DEF x
<1>9. ASSUME NEW Y, NEW N
      PROVE  /\ LastSays(calls[c], Y, N) <=> LastSays(t, Y, N) \/ (h \in Y /\ Mute(t, N))
             /\ Mute(calls[c], N) <=> h \notin N /\ Mute(t, N)
             /\ <<>> \o t = t
  BY <1>3, TailSays
<1>10. <<>> \in Seq(Call)
  OBVIOUS
<1>11. CASE Seek(c)
  <2> DEFINE f == h.frame
  <2>1. f \in Frames /\ h = Item("seek", f)
    BY <1>1, <1>3, <1>11, FirstCall, ThingsAre DEF Seek
  <2>2. h \notin Starts /\ h \notin Stops /\ (h \in At(x) <=> f = x) /\ (h \in Off(x) <=> f # x)
    BY <1>1, <2>1, FrameThings
  <2>3. CASE f = frame[c]
    <3>1. Then(c, <<>>) /\ playing' = playing /\ frame' = frame
      BY <1>11, <2>3 DEF Seek, view
    <3>2. Plays(t, playing[c]) <=> Plays(calls[c], playing[c])
      BY <1>9, <2>2 DEF Plays
    <3>3. Shows(t, frame[c], x) <=> Shows(calls[c], frame[c], x)
      BY <1>9, <2>2, <2>3 DEF Shows
    <3>4. QED
      BY <1>8, <1>9, <1>10, <3>1, <3>2, <3>3
  <2>4. CASE f # frame[c] /\ ~playing[c]
    <3>1. Then(c, <<>>) /\ playing' = playing /\ frame' = [frame EXCEPT ![c] = f]
      BY <1>11, <2>4 DEF Seek
    <3>2. frame'[c] = f
      BY <1>1, <1>3, <3>1
    <3>3. Plays(t, playing[c]) <=> Plays(calls[c], playing[c])
      BY <1>9, <2>2 DEF Plays
    <3>4. Shows(t, frame'[c], x) <=> Shows(calls[c], frame[c], x)
      BY <1>9, <2>2, <3>2 DEF Shows
    <3>5. QED
      BY <1>8, <1>9, <1>10, <3>1, <3>3, <3>4
  <2>5. CASE f # frame[c] /\ playing[c]
    <3> DEFINE more == <<Item("stop", None), Item("replay", f)>>
    <3>1. Then(c, more) /\ playing' = playing /\ frame' = [frame EXCEPT ![c] = f]
      BY <1>11, <2>5 DEF Seek
    <3>2. frame'[c] = f /\ more \in Seq(Call) /\ more \in Seq(Things)
      <4>1. frame'[c] = f
        BY <1>1, <1>3, <3>1
      <4>2. more \in Seq(Call)
        BY <2>1, Kinds
      <4>3. QED
        BY <4>1, <4>2, SeqsOfThings
    <3>3. /\ Item("replay", f) \in Starts /\ Item("replay", f) \notin Stops /\ Item("stop", None) \notin Starts
          /\ Item("stop", None) \in Stops /\ Item("stop", None) \notin At(x) /\ Item("stop", None) \notin Off(x)
          /\ (Item("replay", f) \in At(x) <=> f = x) /\ (Item("replay", f) \in Off(x) <=> f # x)
      BY <1>1, <2>1, FrameThings, BareThings
    <3>4. /\ LastSays(more, Starts, Stops) /\ (LastSays(more, At(x), Off(x)) <=> f = x)
          /\ (Mute(more, Off(x)) <=> f = x)
      BY <3>3, TwoSay
    <3> HIDE DEF more
    <3>5. ASSUME NEW Y, NEW N
          PROVE  /\ LastSays(more \o t, Y, N) <=> LastSays(t, Y, N) \/ (LastSays(more, Y, N) /\ Mute(t, N))
                 /\ Mute(more \o t, N) <=> Mute(more, N) /\ Mute(t, N)
      BY <1>3, <3>2, LastSaysConcat, MuteConcat
    <3>6. Plays(more \o t, playing[c]) <=> Plays(calls[c], playing[c])
      BY <1>9, <2>2, <2>5, <3>4, <3>5 DEF Plays
    <3>7. Shows(more \o t, frame'[c], x) <=> Shows(calls[c], frame[c], x)
      BY <1>9, <2>2, <3>2, <3>4, <3>5 DEF Shows
    <3>8. QED
      BY <1>8, <3>1, <3>2, <3>6, <3>7
  <2>6. QED
    BY <2>3, <2>4, <2>5
<1>12. CASE Stop(c)
  <2>1. h = Item("stop", None) /\ h.type = "stop"
    <3>1. h.type = "stop"
      BY <1>12 DEF Stop, First
    <3>2. QED
      BY <1>3, <3>1, ThingsAre
  <2>2. h \in Stops /\ h \notin Starts /\ h \notin At(x) /\ h \notin Off(x)
    BY <1>1, <2>1, BareThings
  <2>3. Then(c, <<>>)
    BY <1>12 DEF Stop
  <2>4. ~playing'[c]
    BY <1>1, <1>3, <1>12 DEF Stop, view
  <2>5. Plays(t, playing'[c]) <=> Plays(calls[c], playing[c])
    BY <1>9, <2>2, <2>4 DEF Plays
  <2>6. Mute(t, Off(x)) => LastSays(t, At(x), Off(x))
    <3>1. 1 \in DOMAIN calls[c] /\ calls[c][1] = h
      BY <1>3
    <3>2. 2 \in DOMAIN calls[c] /\ calls[c][2].type \in {"seek", "replay"}
      BY <1>1, <2>1, <3>1 DEF StopsThenSeeks
    <3>3. 1 \in DOMAIN t /\ t[1] = calls[c][2]
      BY <1>3, <3>2
    <3>4. t[1] \in Call /\ t[1].type \in {"seek", "replay"}
      BY <1>3, <3>2, <3>3
    <3>5. t[1] \in At(x) \/ t[1] \in Off(x)
      <4>1. t[1].frame \in Frames /\ t[1] \in Things
        BY <3>4, ThingsAre DEF Things
      <4>2. QED
        BY <1>1, <4>1, AtOrOff
    <3>6. t[1] \in Elements(t)
      BY <3>3 DEF Elements
    <3>7. QED
      BY <3>5, <3>6, MuteIs, MuteSays
  <2>7. Shows(t, frame'[c], x) <=> Shows(calls[c], frame[c], x)
    BY <1>9, <2>2, <2>6 DEF Shows
  <2>8. QED
    BY <1>8, <1>9, <1>10, <2>3, <2>5, <2>7
<1>13. CASE Play(c)
  <2>1. Then(c, <<>>) /\ playing' = [playing EXCEPT ![c] = TRUE] /\ frame' = frame
    BY <1>13 DEF Play
  <2>2. playing'[c] /\ frame'[c] = frame[c]
    BY <1>1, <1>3, <2>1
  <2>3. h.type \in {"play", "replay"}
    BY <1>13 DEF Play, First
  <2>4. h \in Starts /\ h \notin Stops
    BY <1>3, <2>3 DEF Starts, Stops, Things
  <2>5. Plays(t, playing'[c]) <=> Plays(calls[c], playing[c])
    BY <1>9, <2>2, <2>4 DEF Plays
  <2>6. Ahead(c)' = (t \o k) \o b
    BY <1>7, <1>9, <1>10, <2>1
  <2>7. Plays(Ahead(c)', playing'[c]) <=> Plays(Ahead(c), playing[c])
    <3> DEFINE a == calls[c] \o k
               a2 == t \o k
    <3> HIDE DEF k, b, t
    <3>1. Plays(a2, playing'[c]) <=> Plays(a, playing[c])
      BY <1>1, <1>3, <2>5, SamePlays
    <3>2. a \in Seq(Things) /\ a2 \in Seq(Things)
      BY <1>1, <1>3
    <3>3. Ahead(c) = a \o b /\ Ahead(c)' = a2 \o b
      BY <1>6, <2>6
    <3> HIDE DEF a, a2
    <3>4. Plays(a2 \o b, playing'[c]) <=> Plays(a \o b, playing[c])
      BY <1>1, <3>1, <3>2, SamePlays
    <3>5. QED
      BY <3>3, <3>4
  <2>8. ASSUME ~Plays(Ahead(c), playing[c]), Shows(Ahead(c), frame[c], x)
        PROVE  Shows(Ahead(c)', frame'[c], x)
    <3>1. ~Mute((t \o k) \o b, Stops)
      BY <2>2, <2>6, <2>7, <2>8 DEF Plays
    <3>2. \A i \in DOMAIN t : t[i].type # "stop"
      <4>1. ASSUME NEW i \in DOMAIN t PROVE i + 1 \in DOMAIN calls[c] /\ calls[c][i + 1] = t[i] /\ i + 1 # 1
        BY <1>3
      <4>2. QED
        BY <1>1, <4>1 DEF StopsThenSeeks
    <3>3. k \in Seq(Command) /\ Heard(c) \in Seq(Message) /\ link[<<server, c>>] \in Seq(Message)
      BY <1>1, PartsAre
    <3>4. Mute((t \o k) \o b, Off(x)) => LastSays((t \o k) \o b, At(x), Off(x))
      BY <1>1, <1>3, <3>1, <3>2, <3>3, StopsShow
    <3>5. /\ LastSays((calls[c] \o k) \o b, At(x), Off(x)) =>
               LastSays((t \o k) \o b, At(x), Off(x)) \/ Mute((t \o k) \o b, Off(x))
          /\ Mute((calls[c] \o k) \o b, Off(x)) => Mute((t \o k) \o b, Off(x))
      <4> HIDE DEF k, b, t
      <4>1. \A s \in Seq(Things) :
              /\ LastSays((s \o k) \o b, At(x), Off(x)) <=>
                   \/ LastSays(b, At(x), Off(x))
                   \/ LastSays(k, At(x), Off(x)) /\ Mute(b, Off(x))
                   \/ LastSays(s, At(x), Off(x)) /\ Mute(k, Off(x)) /\ Mute(b, Off(x))
              /\ Mute((s \o k) \o b, Off(x)) <=> Mute(s, Off(x)) /\ Mute(k, Off(x)) /\ Mute(b, Off(x))
        BY <1>1, ThreeSpeak
      <4>2. QED
        BY <1>3, <1>9, <4>1
    <3>6. QED
      BY <1>6, <2>6, <2>8, <3>4, <3>5 DEF Shows
  <2>9. QED
    BY <1>1, <1>2, <1>5, <2>7, <2>8, SameOutcome
<1>14. QED
  BY <1>11, <1>12, <1>13 DEF MakeCall

\* A call of the user of c, which is sent.
LEMMA ClientCalls ==
  ASSUME TypeOK, TypeOK', ServesInTurn, races' = {}, NEW c \in accepted, MakeCall(c), ~serving[c],
         WillAgree(c)
  PROVE  WillAgree(c)'
<1> DEFINE h == Head(calls[c])
           x == frame[server]
           s == Ahead(c)
<1>1. /\ c \in Clients /\ c # server /\ server \in Viewers /\ c \in Viewers /\ x \in Frames
      /\ playing[c] \in BOOLEAN /\ frame[c] \in Frames /\ image[c] \in Frames
      /\ c \in connected
  BY PartsTyped DEF TypeOK
<1>2. /\ StaysAs(server) /\ commands' = commands /\ net' = net
      /\ playing'[server] = playing[server] /\ frame'[server] = frame[server]
      /\ calls'[server] = calls[server]
  BY <1>1, OthersStay DEF MakeCall, Interface, StaysAs
<1>3. /\ calls[c] # <<>> /\ h \in Call
      /\ frame \in [Viewers -> Frames] /\ playing \in [Viewers -> BOOLEAN]
  BY <1>1, FirstCall DEF MakeCall, Seek, Stop, Play, TypeOK
<1>4. serving' = serving
  BY DEF MakeCall
<1>5. Orders' = Orders
  BY <1>2 DEF Orders
<1>6. ASSUME link' = link
      PROVE  Ahead(c)' = s /\ Said(c)' = Said(c)
  <2>1. Ahead(c)' = s
    BY <1>2, <1>4, <1>6 DEF Ahead, Served, Heard
  <2>2. Asked(c)' = Asked(c)
    BY <1>2, <1>6, AskedKept
  <2>3. QED
    BY <1>5, <2>1, <2>2 DEF Said
<1>7. ASSUME NEW m \in Message, Send(c, m)
      PROVE  Ahead(c)' = s /\ Said(c)' = Said(c) \cup {m}
  <2>1. Write(c, m, {})
    BY <1>1, <1>3, <1>7, Sent
  <2>2. /\ link'[<<c, server>>] = Append(link[<<c, server>>], m)
        /\ link'[<<server, c>>] = link[<<server, c>>]
    BY <1>1, <2>1, ClientWrites
  <2>3. Ahead(c)' = s
    BY <1>2, <1>4, <2>2 DEF Ahead, Served, Heard
  <2>4. link[<<c, server>>] \in Seq(Message)
    BY <1>1 DEF TypeOK
  <2>5. Elements(link'[<<c, server>>]) = Elements(link[<<c, server>>]) \cup {m}
    BY <1>7, <2>2, <2>4, ElementsOfAppend
  <2>6. Asked(c)' = Asked(c) \cup {m}
    BY <1>2, <2>5 DEF Asked
  <2>7. QED
    BY <1>5, <2>3, <2>6 DEF Said
<1>8. ASSUME UNCHANGED <<view, link>> PROVE WillAgree(c)'
  BY <1>1, <1>2, <1>6, <1>8, SameOutcome DEF view
\* A message of c, which leaves what stands.
<1>9. ASSUME NEW m \in Message, Said(c)' = Said(c) \cup {m}
      PROVE  /\ PlayStands(c)' => PlayStands(c) /\ m \notin Starts /\ (m \in Stops => ~playing[server])
             /\ FrameStands(c)' => FrameStands(c) /\ PlayStands(c) /\ m \notin Off(x) /\ ~playing[server]
  BY <1>2, <1>9 DEF PlayStands, FrameStands
<1> HIDE DEF s
<1>10. CASE Seek(c)
  <2> DEFINE f == h.frame
  <2>1. f \in Frames /\ h = Item("seek", f)
    BY <1>1, <1>3, <1>10, FirstCall, ThingsAre DEF Seek
  <2>2. CASE f = frame[c]
    BY <1>8, <1>10, <2>2 DEF Seek
  <2>3. CASE f # frame[c]
    <3> DEFINE m == Item("seek", f)
    <3>1. Send(c, m) /\ playing' = playing /\ frame' = [frame EXCEPT ![c] = f]
      BY <1>10, <2>3 DEF Seek
    <3>2. frame'[c] = f /\ m \in Message /\ (m \in Off(x) <=> f # x)
      BY <1>1, <1>3, <2>1, <3>1, Kinds, FrameThings
    <3>3. Ahead(c)' = s /\ Said(c)' = Said(c) \cup {m}
      BY <1>7, <3>1, <3>2
    <3>4. FrameStands(c)' => f = x
      BY <1>9, <3>2, <3>3
    <3>5. f = x /\ Shows(s, frame[c], x) => Shows(s, frame'[c], x)
      BY <3>2 DEF Shows
    <3>6. QED
      BY <1>2, <1>9, <3>1, <3>2, <3>3, <3>4, <3>5 DEF WillAgree, s
  <2>4. QED
    BY <2>2, <2>3
<1>11. CASE Stop(c)
  <2>1. CASE ~playing[c]
    BY <1>8, <1>11, <2>1 DEF Stop
  <2>2. CASE playing[c]
    <3> DEFINE m == Item("stop", image[c])
    <3>1. /\ frame' = [frame EXCEPT ![c] = image[c]]
          /\ playing' = [playing EXCEPT ![c] = FALSE]
          /\ Send(c, m)
      BY <1>11, <2>2 DEF Stop
    <3>2. /\ frame'[c] = image[c] /\ ~playing'[c]
          /\ m \in Message /\ m \in Stops /\ (m \in Off(x) <=> image[c] # x)
      BY <1>1, <1>3, <3>1, Kinds, FrameThings
    <3>3. Ahead(c)' = s /\ Said(c)' = Said(c) \cup {m}
      BY <1>7, <3>1, <3>2
    <3>4. Plays(s, playing'[c]) => Plays(s, playing[c])
      BY <3>2 DEF Plays
    <3>5. PlayStands(c)' => (Plays(s, playing'[c]) <=> playing'[server])
      BY <1>2, <1>9, <3>2, <3>3, <3>4 DEF WillAgree, s
    <3>6. image[c] = x /\ Shows(s, frame[c], x) => Shows(s, frame'[c], x)
      BY <3>2 DEF Shows
    <3>7. FrameStands(c)' => Shows(s, frame'[c], x)
      <4>1. FrameStands(c)' => image[c] = x /\ FrameStands(c) /\ PlayStands(c) /\ ~playing[server]
        BY <1>9, <3>2, <3>3
      <4>2. FrameStands(c) /\ PlayStands(c) /\ ~playing[server] => Shows(s, frame[c], x)
        BY DEF WillAgree, s
      <4>3. QED
        BY <3>6, <4>1, <4>2
    <3>8. QED
      BY <1>2, <3>3, <3>5, <3>7 DEF WillAgree
  <2>3. QED
    BY <2>1, <2>2
<1>12. CASE Play(c)
  <2> DEFINE m == Item("playfwd", None)
  <2>1. Send(c, m)
    BY <1>12 DEF Play
  <2>2. m \in Message /\ m \in Starts
    BY <1>1, Kinds, BareThings
  <2>3. Said(c)' = Said(c) \cup {m}
    BY <1>7, <2>1, <2>2
  <2>4. ~PlayStands(c)' /\ ~FrameStands(c)'
    BY <2>2, <2>3 DEF PlayStands, FrameStands
  <2>5. QED
    BY <2>4 DEF WillAgree
<1>13. QED
  BY <1>10, <1>11, <1>12 DEF MakeCall

LEMMA ClientZooms ==
  ASSUME TypeOK, NEW c \in accepted, Zoomed(c), WillAgree(c)
  PROVE  WillAgree(c)'
<1> DEFINE h == Head(calls[c])
           t == Tail(calls[c])
           x == frame[server]
           k == commands[c]
           b == Heard(c) \o link[<<server, c>>]
<1>1. /\ c \in Clients /\ c # server /\ server \in Viewers /\ c \in Viewers /\ x \in Frames
      /\ playing[c] \in BOOLEAN /\ frame[c] \in Frames /\ k \in Seq(Things) /\ b \in Seq(Things)
  BY PartsTyped DEF TypeOK
<1>2. /\ StaysAs(server) /\ commands' = commands /\ net' = net /\ link' = link /\ playing' = playing
      /\ frame' = frame /\ serving' = serving
  BY <1>1, OthersStay DEF Zoomed, Interface, view, wire
<1>3. Said(c)' = Said(c)
  BY <1>2 DEF Said, Orders, Asked, StaysAs
<1>4. CASE ~serving[c]
  <2>1. Ahead(c)' = Ahead(c)
    BY <1>2, <1>4 DEF Ahead, Served, Heard
  <2>2. QED
    BY <1>1, <1>2, <1>3, <2>1, SameOutcome
<1>5. CASE serving[c]
  <2>1. calls[c] # <<>> /\ h = Item("zoom", None) /\ calls[c] \in Seq(Call) /\ t \in Seq(Call) /\ calls'[c] = <<>> \o t
    <3>1. calls[c] # <<>> /\ h.type = "zoom" /\ calls'[c] = <<>> \o t
      BY <1>1 DEF Zoomed, First, Then, TypeOK
    <3>2. calls[c] \in Seq(Call)
      BY <1>1, PartsAre
    <3>3. h \in Call /\ t \in Seq(Call)
      BY <3>1, <3>2, HeadThenTail
    <3>4. QED
      BY <3>1, <3>2, <3>3, ThingsAre
  <2>2. calls[c] \in Seq(Things) /\ t \in Seq(Things) /\ calls'[c] = t
    BY <2>1, SeqsOfThings
  <2>3. h \notin Starts /\ h \notin Stops /\ h \notin At(x) /\ h \notin Off(x)
    BY <1>1, <2>1, BareThings
  <2>4. ASSUME NEW Y, NEW N
        PROVE  /\ LastSays(calls[c], Y, N) <=> LastSays(t, Y, N) \/ (h \in Y /\ Mute(t, N))
               /\ Mute(calls[c], N) <=> h \notin N /\ Mute(t, N)
    BY <2>1, <2>2, TailSays
  <2>5. Plays(t, playing[c]) <=> Plays(calls[c], playing[c])
    BY <2>3, <2>4 DEF Plays
  <2>6. Shows(t, frame[c], x) <=> Shows(calls[c], frame[c], x)
    BY <2>3, <2>4 DEF Shows
  <2> DEFINE a == calls[c] \o k
             a2 == t \o k
  <2>7. a \in Seq(Things) /\ a2 \in Seq(Things)
    BY <1>1, <2>2
  <2>8. Ahead(c) = a \o b /\ Ahead(c)' = a2 \o b
    BY <1>2, <1>5, <2>2 DEF Ahead, Served, Heard
  <2> HIDE DEF k, b, t
  <2>9. (Plays(a2, playing[c]) <=> Plays(a, playing[c])) /\ (Shows(a2, frame[c], x) <=> Shows(a, frame[c], x))
    BY <1>1, <2>2, <2>5, <2>6, SamePlays, SameShows
  <2> HIDE DEF a, a2
  <2>10. /\ Plays(a2 \o b, playing[c]) <=> Plays(a \o b, playing[c])
         /\ Shows(a2 \o b, frame[c], x) <=> Shows(a \o b, frame[c], x)
    BY <1>1, <2>7, <2>9, SamePlays, SameShows
  <2>11. QED
    BY <1>1, <1>2, <1>3, <2>8, <2>10, SameOutcome DEF StaysAs
<1>6. QED
  BY <1>4, <1>5

LEMMA CallsTyped == ASSUME NEW h \in Command PROVE CallsOf(h) \in Seq(Call)
<1>1. CASE h.type = "kSeek"
  BY <1>1, Kinds DEF CallsOf, Command
<1>2. CASE h.type = "kStopVideo"
  BY <1>2, Kinds DEF CallsOf, Command
<1>3. CASE h.type = "kPlayForwards"
  BY <1>3, Kinds DEF CallsOf, Command
<1>4. QED
  BY <1>1, <1>2, <1>3 DEF Command

\* Taking a command leaves what it says.
LEMMA ClientHandles ==
  ASSUME TypeOK, NEW c \in accepted, HandleCommand(c), WillAgree(c)
  PROVE  WillAgree(c)'
<1> DEFINE h == Head(commands[c])
           t == Tail(commands[c])
           x == frame[server]
           b == Heard(c) \o link[<<server, c>>]
           a == <<>> \o commands[c]
           a2 == CallsOf(h) \o t
<1>1. /\ c \in Clients /\ c # server /\ server \in Viewers /\ c \in Viewers /\ x \in Frames
      /\ playing[c] \in BOOLEAN /\ frame[c] \in Frames /\ b \in Seq(Things) /\ commands[c] \in Seq(Things)
  BY PartsTyped DEF TypeOK
<1>2. /\ StaysAs(server) /\ net' = net /\ link' = link /\ playing' = playing /\ frame' = frame
  BY <1>1, OthersStay DEF HandleCommand, TakeCommand, Interface, view, wire
<1>3. Said(c)' = Said(c)
  BY <1>2 DEF Said, Orders, Asked, StaysAs
<1>4. /\ calls[c] = <<>> /\ commands[c] # <<>> /\ commands[c] \in Seq(Command)
      /\ calls'[c] = CallsOf(h) /\ commands'[c] = t /\ serving'[c]
  BY <1>1 DEF HandleCommand, TakeCommand, TypeOK
<1>5. h \in Command /\ t \in Seq(Command) /\ t \in Seq(Things)
  BY <1>4, HeadThenTail, SeqsOfThings
<1>6. CallsOf(h) \in Seq(Things)
  BY <1>5, CallsTyped, SeqsOfThings
<1>7. Ahead(c) = a \o b /\ Ahead(c)' = a2 \o b
  BY <1>2, <1>4 DEF Ahead, Served, Heard
<1>8. a = commands[c] /\ a \in Seq(Things) /\ a2 \in Seq(Things)
  BY <1>1, <1>5, <1>6
<1>9. ASSUME NEW Y, NEW N, LastSays(CallsOf(h), Y, N) <=> h \in Y, Mute(CallsOf(h), N) <=> h \notin N
      PROVE  (LastSays(a2, Y, N) <=> LastSays(a, Y, N)) /\ (Mute(a2, N) <=> Mute(a, N))
  <2>1. /\ LastSays(a2, Y, N) <=> LastSays(t, Y, N) \/ (LastSays(CallsOf(h), Y, N) /\ Mute(t, N))
        /\ Mute(a2, N) <=> Mute(CallsOf(h), N) /\ Mute(t, N)
    BY <1>5, <1>6, LastSaysConcat, MuteConcat
  <2>2. /\ LastSays(commands[c], Y, N) <=> LastSays(t, Y, N) \/ (h \in Y /\ Mute(t, N))
        /\ Mute(commands[c], N) <=> h \notin N /\ Mute(t, N)
    BY <1>1, <1>4, TailSays
  <2>3. QED
    BY <1>8, <1>9, <2>1, <2>2
<1> HIDE DEF h, a, a2, b
<1>10. Plays(a2, playing[c]) <=> Plays(a, playing[c])
  BY <1>1, <1>5, <1>9, CallsSay DEF Plays
<1>11. Shows(a2, frame[c], x) <=> Shows(a, frame[c], x)
  BY <1>1, <1>5, <1>9, CallsSay DEF Shows
<1>12. /\ Plays(a2 \o b, playing[c]) <=> Plays(a \o b, playing[c])
       /\ Shows(a2 \o b, frame[c], x) <=> Shows(a \o b, frame[c], x)
  BY <1>1, <1>8, <1>10, <1>11, SamePlays, SameShows
<1>13. QED
  BY <1>1, <1>2, <1>3, <1>7, <1>12, SameOutcome DEF StaysAs

LEMMA ClientUser ==
  ASSUME TypeOK, NEW c \in accepted, User(c), WillAgree(c)
  PROVE  WillAgree(c)'
<1>1. c \in Clients /\ c # server /\ server \in Viewers /\ c \in Viewers
  BY PartsTyped DEF TypeOK
<1>2. /\ StaysAs(server) /\ commands' = commands /\ net' = net /\ link' = link /\ playing' = playing /\ frame' = frame
      /\ serving' = serving /\ ~serving[c]
  BY <1>1, OthersStay DEF User, UserSeek, UserPlay, UserStop, UserFit, UserCalls, view, wire
<1>3. Said(c)' = Said(c)
  BY <1>2 DEF Said, Orders, Asked, StaysAs
<1>4. Ahead(c)' = Ahead(c)
  BY <1>2 DEF Ahead, Served, Heard
<1>5. QED
  BY <1>1, <1>2, <1>3, <1>4, SameOutcome

LEMMA ClientAdvances ==
  ASSUME TypeOK, StopsThenSeeks, NEW c \in accepted, Advance(c), WillAgree(c)
  PROVE  WillAgree(c)'
<1> DEFINE x == frame[server]
<1>1. c \in Clients /\ c # server /\ server \in Viewers /\ c \in Viewers /\ x \in Frames
  BY PartsTyped DEF TypeOK
<1>2. /\ StaysAs(server) /\ commands' = commands /\ net' = net /\ link' = link /\ playing' = playing
      /\ serving' = serving /\ calls' = calls /\ playing[c]
  BY <1>1, OthersStay DEF Advance, ui, wire
<1>3. Said(c)' = Said(c)
  BY <1>2 DEF Said, Orders, Asked, StaysAs
<1>4. Ahead(c)' = Ahead(c)
  BY <1>2 DEF Ahead, Served, Heard
<1>5. ASSUME ~Plays(Ahead(c), playing[c]), Shows(Ahead(c), frame[c], x)
      PROVE  Shows(Ahead(c)', frame'[c], x)
  <2>1. ~Mute(Ahead(c), Stops)
    BY <1>2, <1>5 DEF Plays
  <2>2. /\ Served(c) \in Seq(Call) /\ commands[c] \in Seq(Command) /\ Heard(c) \in Seq(Message)
        /\ link[<<server, c>>] \in Seq(Message)
    BY <1>1, PartsAre
  <2>3. \A i \in DOMAIN Served(c) :
          Served(c)[i].type = "stop" => 2 \in DOMAIN Served(c) /\ Served(c)[2].type \in {"seek", "replay"}
    <3>1. CASE serving[c]
      BY <1>1, <3>1 DEF Served, StopsThenSeeks
    <3>2. CASE ~serving[c]
      BY <3>2 DEF Served
    <3>3. QED
      BY <3>1, <3>2
  <2>4. Mute(Ahead(c), Off(x)) => LastSays(Ahead(c), At(x), Off(x))
    BY <1>1, <2>1, <2>2, <2>3, StopsShow DEF Ahead
  <2>5. QED
    BY <1>4, <1>5, <2>4 DEF Shows
<1>6. QED
  BY <1>1, <1>2, <1>3, <1>4, <1>5, SameOutcome DEF StaysAs

LEMMA ClientParses ==
  ASSUME TypeOK, Wired, NEW c \in accepted, NEW w \in Viewers, Parse(c, w), WillAgree(c)
  PROVE  WillAgree(c)'
<1> DEFINE l == link[<<server, c>>]
           a == Served(c) \o commands[c]
<1>1. /\ c \in Clients /\ c # server /\ server \in Viewers /\ c \in Viewers
      /\ l \in Seq(Message) /\ l \in Seq(Things)
  BY PartsTyped, PartsAre DEF TypeOK
<1>2. w = server
  BY <1>1 DEF Parse, Wired
<1>3. /\ StaysAs(server) /\ commands' = commands /\ playing' = playing /\ frame' = frame
      /\ serving' = serving /\ calls' = calls
  BY <1>1, OthersStay DEF Parse, Network, view, ui
<1>4. /\ net[c] = Idle /\ l # <<>>
      /\ net'[c] = [pc |-> "parse", msg |-> Head(l), from |-> server]
      /\ link'[<<server, c>>] = Tail(l) /\ link'[<<c, server>>] = link[<<c, server>>]
  BY <1>1, <1>2 DEF Parse, TypeOK
<1>5. Heard(c) = <<>> /\ Heard(c)' = <<Head(l)>>
  BY <1>4 DEF Heard, Idle
<1>6. l = <<Head(l)>> \o Tail(l) /\ <<>> \o l = l
  BY <1>1, <1>4, HeadThenTail
<1>7. Ahead(c) = a \o (<<>> \o l) /\ Ahead(c)' = a \o (<<Head(l)>> \o Tail(l))
  BY <1>3, <1>4, <1>5 DEF Ahead, Served
<1>8. Ahead(c)' = Ahead(c)
  BY <1>6, <1>7
<1>9. Said(c)' = Said(c)
  BY <1>3, <1>4 DEF Said, Orders, Asked, StaysAs
<1>10. QED
  BY <1>1, <1>3, <1>8, <1>9, SameOutcome

\* What a client holds came from the server.
LEMMA ClientHolds ==
  ASSUME TypeOK, Wired, NEW c \in Clients, net[c].pc # "idle"
  PROVE  /\ net[c].msg \in Message /\ net[c].from = server /\ net[c].pc # "forward"
         /\ net[c] \in [pc : {"parse", "parsed", "forward"}, msg : Message, from : Viewers]
<1>1. c \in Viewers /\ net[c] # Idle
  BY DEF Viewers, Idle
<1>2. QED
  BY <1>1, Held DEF Wired

LEMMA ClientAnswers ==
  ASSUME TypeOK, Wired, NEW c \in accepted, Answer(c), WillAgree(c)
  PROVE  WillAgree(c)'
<1> DEFINE l == link[<<server, c>>]
           s == Served(c)
           k == commands[c]
           m == net[c].msg
           x == frame[server]
<1>1. /\ c \in Clients /\ c # server /\ server \in Viewers /\ c \in Viewers /\ x \in Frames
      /\ s \in Seq(Things) /\ k \in Seq(Things) /\ l \in Seq(Things) /\ frame[c] \in Frames
  BY PartsTyped DEF TypeOK
<1>2. /\ m \in Message /\ net[c].from = server /\ net[c].pc = "parse" /\ m.type = "sync_image"
      /\ net[c] \in [pc : {"parse", "parsed", "forward"}, msg : Message, from : Viewers]
  BY <1>1, ClientHolds DEF Answer
<1>3. /\ StaysAs(server) /\ commands' = commands /\ playing' = playing /\ frame' = frame
      /\ serving' = serving /\ calls' = calls
  BY <1>1, OthersStay DEF Answer, Network, view, ui
<1>4. /\ net' = [net EXCEPT ![c].pc = "parsed"]
      /\ link' = [link EXCEPT ![<<c, server>>] = Append(@, Item("seek", frame[c]))]
  BY <1>2 DEF Answer
<1>5. /\ net'[c].pc = "parsed" /\ link'[<<server, c>>] = l
      /\ link'[<<c, server>>] = Append(link[<<c, server>>], Item("seek", frame[c]))
  BY <1>1, <1>2, <1>4 DEF TypeOK
<1>6. link[<<c, server>>] \in Seq(Message) /\ Item("seek", frame[c]) \in Message
  BY <1>1, Kinds DEF TypeOK
<1>7. Elements(link'[<<c, server>>]) = Elements(link[<<c, server>>]) \cup {Item("seek", frame[c])}
  BY <1>5, <1>6, ElementsOfAppend
<1>8. Said(c) \subseteq Said(c)'
  BY <1>3, <1>7 DEF Said, Orders, Asked, StaysAs
<1>9. m = SyncImage
  BY <1>2, ThingsAre DEF SyncImage
<1>10. m \notin Starts /\ m \notin Stops /\ m \notin At(x) /\ m \notin Off(x) /\ m \in Things
  BY <1>1, <1>9, BareThings DEF SyncImage
<1>11. Ahead(c) = (s \o k) \o (<<m>> \o l) /\ Ahead(c)' = (s \o k) \o (<<>> \o l)
  BY <1>2, <1>3, <1>5 DEF Ahead, Served, Heard
<1>12. <<m>> \in Seq(Things) /\ <<>> \in Seq(Things)
  BY <1>10
<1> HIDE DEF s, k, l, m
<1>13. ASSUME NEW Y, NEW N, m \notin Y, m \notin N
       PROVE  /\ LastSays((s \o k) \o (<<m>> \o l), Y, N) <=> LastSays((s \o k) \o (<<>> \o l), Y, N)
              /\ Mute((s \o k) \o (<<m>> \o l), N) <=> Mute((s \o k) \o (<<>> \o l), N)
  <2>1. ASSUME NEW n \in Seq(Things)
        PROVE  /\ LastSays((s \o k) \o (n \o l), Y, N) <=>
                    \/ LastSays(l, Y, N)
                    \/ Mute(l, N) /\ LastSays(n, Y, N)
                    \/ Mute(l, N) /\ Mute(n, N) /\ LastSays(k, Y, N)
                    \/ Mute(l, N) /\ Mute(n, N) /\ Mute(k, N) /\ LastSays(s, Y, N)
               /\ Mute((s \o k) \o (n \o l), N) <=> Mute(s, N) /\ Mute(k, N) /\ Mute(n, N) /\ Mute(l, N)
    BY <1>1, FourSay
  <2>2. ~LastSays(<<m>>, Y, N) /\ Mute(<<m>>, N) /\ ~LastSays(<<>>, Y, N) /\ Mute(<<>>, N)
    BY <1>13, OneSays, EmptySays
  <2>3. QED
    BY <1>12, <2>1, <2>2
<1>14. Plays(Ahead(c)', playing[c]) <=> Plays(Ahead(c), playing[c])
  BY <1>10, <1>11, <1>13 DEF Plays
<1>15. Shows(Ahead(c)', frame[c], x) <=> Shows(Ahead(c), frame[c], x)
  BY <1>10, <1>11, <1>13 DEF Shows
<1>16. QED
  BY <1>1, <1>3, <1>8, <1>14, <1>15, SameOutcome

LEMMA CommandsTyped ==
  ASSUME NEW v, NEW m \in Message, m.type # "sync_image"
  PROVE  CommandsOf(v, m) \in Seq(Command)
<1>1. CASE m.type = "seek"
  BY <1>1, Kinds DEF CommandsOf, Message
<1>2. CASE m.type = "stop"
  BY <1>2, Kinds DEF CommandsOf, Message
<1>3. CASE m.type = "playfwd"
  BY <1>3, Kinds DEF CommandsOf, Message
<1>4. QED
  BY <1>1, <1>2, <1>3 DEF Message

LEMMA ThreePartsSay ==
  ASSUME NEW k \in Seq(Things), NEW m \in Seq(Things), NEW l \in Seq(Things), NEW Y, NEW N
  PROVE  /\ LastSays((<<>> \o k) \o (m \o l), Y, N) <=>
              \/ LastSays(l, Y, N)
              \/ Mute(l, N) /\ LastSays(m, Y, N)
              \/ Mute(l, N) /\ Mute(m, N) /\ LastSays(k, Y, N)
         /\ Mute((<<>> \o k) \o (m \o l), N) <=> Mute(k, N) /\ Mute(m, N) /\ Mute(l, N)
<1> DEFINE e == <<>>
<1>1. e \in Seq(Things) /\ ~LastSays(e, Y, N) /\ Mute(e, N)
  BY EmptySays
<1> HIDE DEF e
<1>2. /\ LastSays((e \o k) \o (m \o l), Y, N) <=>
           \/ LastSays(l, Y, N)
           \/ Mute(l, N) /\ LastSays(m, Y, N)
           \/ Mute(l, N) /\ Mute(m, N) /\ LastSays(k, Y, N)
           \/ Mute(l, N) /\ Mute(m, N) /\ Mute(k, N) /\ LastSays(e, Y, N)
      /\ Mute((e \o k) \o (m \o l), N) <=> Mute(e, N) /\ Mute(k, N) /\ Mute(m, N) /\ Mute(l, N)
  BY <1>1, FourSay
<1>3. /\ LastSays((e \o k) \o (m \o l), Y, N) <=>
           \/ LastSays(l, Y, N)
           \/ Mute(l, N) /\ LastSays(m, Y, N)
           \/ Mute(l, N) /\ Mute(m, N) /\ LastSays(k, Y, N)
      /\ Mute((e \o k) \o (m \o l), N) <=> Mute(k, N) /\ Mute(m, N) /\ Mute(l, N)
  BY <1>1, <1>2
<1>4. QED
  BY <1>3 DEF e

LEMMA ClientPushes ==
  ASSUME TypeOK, Wired, OneOwner, races' = {}, NEW c \in accepted, PushCommands(c), WillAgree(c)
  PROVE  WillAgree(c)'
<1> DEFINE l == link[<<server, c>>]
           k == commands[c]
           m == net[c].msg
           n == CommandsOf(c, m)
           x == frame[server]
<1>1. /\ c \in Clients /\ c # server /\ server \in Viewers /\ c \in Viewers /\ x \in Frames
      /\ k \in Seq(Things) /\ l \in Seq(Things) /\ frame[c] \in Frames /\ k \in Seq(Command)
  BY PartsTyped, PartsAre DEF TypeOK
<1>2. /\ m \in Message /\ net[c].pc = "parse" /\ m.type # "sync_image"
      /\ net[c] \in [pc : {"parse", "parsed", "forward"}, msg : Message, from : Viewers]
  BY <1>1, ClientHolds DEF PushCommands
<1>3. /\ StaysAs(server) /\ playing' = playing /\ frame' = frame /\ link' = link
      /\ serving' = serving /\ calls' = calls
  BY <1>1, OthersStay DEF PushCommands, Network, view, ui, wire
<1>4. Said(c)' = Said(c)
  BY <1>3 DEF Said, Orders, Asked, StaysAs
<1>5. ~serving[c]
  BY <1>1, <1>2 DEF OneOwner, Parsing
<1>6. n \in Seq(Command) /\ n \in Seq(Things) /\ <<m>> \in Seq(Things) /\ m \in Things
  BY <1>2, CommandsTyped, SeqsOfThings DEF Things
<1>7. net'[c].pc = "parsed" /\ commands'[c] = k \o n
  BY <1>1, <1>2 DEF PushCommands, TypeOK
<1>8. /\ Ahead(c) = (<<>> \o k) \o (<<m>> \o l)
      /\ Ahead(c)' = (<<>> \o (k \o n)) \o (<<>> \o l)
  BY <1>2, <1>3, <1>5, <1>7 DEF Ahead, Served, Heard
<1>9. ~(m.type = "seek" /\ playing[c] /\ EndsStopped(k))
  BY <1>1 DEF PushCommands
<1>10. /\ LastSays(n, Starts, Stops) <=> m \in Starts \/ (m.type = "seek" /\ playing[c])
       /\ Mute(n, Stops) <=> m \notin Stops /\ ~(m.type = "seek" /\ playing[c])
       /\ LastSays(n, At(x), Off(x)) <=> m \in At(x)
       /\ Mute(n, Off(x)) <=> m \notin Off(x)
  BY <1>1, <1>2, CommandsSay
<1>11. m.type = "seek" => m \notin Stops /\ m \notin Starts
  BY DEF Stops, Starts
<1>12. m.type = "seek" /\ playing[c] => LastSays(k, Starts, Stops) \/ Mute(k, Stops)
  BY <1>1, <1>9, PlaysOn
<1> HIDE DEF l, k, m, n
<1>13. ASSUME NEW Y, NEW N
       PROVE  /\ LastSays((<<>> \o k) \o (<<m>> \o l), Y, N) <=>
                    \/ LastSays(l, Y, N)
                    \/ Mute(l, N) /\ m \in Y
                    \/ Mute(l, N) /\ m \notin N /\ LastSays(k, Y, N)
              /\ Mute((<<>> \o k) \o (<<m>> \o l), N) <=> Mute(k, N) /\ m \notin N /\ Mute(l, N)
              /\ LastSays((<<>> \o (k \o n)) \o (<<>> \o l), Y, N) <=>
                    \/ LastSays(l, Y, N)
                    \/ Mute(l, N) /\ LastSays(n, Y, N)
                    \/ Mute(l, N) /\ Mute(n, N) /\ LastSays(k, Y, N)
              /\ Mute((<<>> \o (k \o n)) \o (<<>> \o l), N) <=> Mute(k, N) /\ Mute(n, N) /\ Mute(l, N)
  <2>1. \A u, w \in Seq(Things) :
          /\ LastSays((<<>> \o u) \o (w \o l), Y, N) <=>
               \/ LastSays(l, Y, N)
               \/ Mute(l, N) /\ LastSays(w, Y, N)
               \/ Mute(l, N) /\ Mute(w, N) /\ LastSays(u, Y, N)
          /\ Mute((<<>> \o u) \o (w \o l), N) <=> Mute(u, N) /\ Mute(w, N) /\ Mute(l, N)
    BY <1>1, ThreePartsSay
  <2>2. /\ LastSays(<<m>>, Y, N) <=> m \in Y
        /\ Mute(<<m>>, N) <=> m \notin N
        /\ ~LastSays(<<>>, Y, N) /\ Mute(<<>>, N)
    BY OneSays, EmptySays
  <2>3. /\ LastSays(k \o n, Y, N) <=> LastSays(n, Y, N) \/ (LastSays(k, Y, N) /\ Mute(n, N))
        /\ Mute(k \o n, N) <=> Mute(k, N) /\ Mute(n, N)
    BY <1>1, <1>6, LastSaysConcat, MuteConcat
  <2>4. k \o n \in Seq(Things) /\ <<>> \in Seq(Things)
    BY <1>1, <1>6
  <2> DEFINE kn == k \o n
  <2> HIDE DEF kn
  <2>5. /\ LastSays((<<>> \o kn) \o (<<>> \o l), Y, N) <=>
                    \/ LastSays(l, Y, N)
                    \/ Mute(l, N) /\ LastSays(kn, Y, N)
        /\ Mute((<<>> \o kn) \o (<<>> \o l), N) <=> Mute(kn, N) /\ Mute(l, N)
    BY <2>1, <2>2, <2>4 DEF kn
  <2>6. /\ LastSays((<<>> \o k) \o (<<m>> \o l), Y, N) <=>
                    \/ LastSays(l, Y, N)
                    \/ Mute(l, N) /\ m \in Y
                    \/ Mute(l, N) /\ m \notin N /\ LastSays(k, Y, N)
        /\ Mute((<<>> \o k) \o (<<m>> \o l), N) <=> Mute(k, N) /\ m \notin N /\ Mute(l, N)
    BY <1>1, <1>6, <2>1, <2>2
  <2>7. QED
    BY <2>3, <2>5, <2>6 DEF kn
<1>14. Plays(Ahead(c)', playing[c]) <=> Plays(Ahead(c), playing[c])
  BY <1>8, <1>10, <1>11, <1>12, <1>13 DEF Plays
<1>15. Shows(Ahead(c)', frame[c], x) <=> Shows(Ahead(c), frame[c], x)
  BY <1>8, <1>10, <1>13 DEF Shows
<1>16. QED
  BY <1>1, <1>3, <1>4, <1>14, <1>15, SameOutcome

LEMMA ClientParsed ==
  ASSUME TypeOK, Wired, NEW c \in accepted, Parsed(c), WillAgree(c)
  PROVE  WillAgree(c)'
<1>1. c \in Clients /\ c # server /\ server \in Viewers /\ c \in Viewers
  BY PartsTyped DEF TypeOK
<1>2. /\ StaysAs(server) /\ playing' = playing /\ frame' = frame /\ link' = link
      /\ serving' = serving /\ calls' = calls /\ commands' = commands
  BY <1>1, OthersStay DEF Parsed, Network, view, ui, wire
<1>3. net[c].pc = "parsed" /\ net'[c] = Idle
  BY <1>1 DEF Parsed, TypeOK
<1>4. Said(c)' = Said(c)
  BY <1>2 DEF Said, Orders, Asked, StaysAs
<1>5. Ahead(c)' = Ahead(c)
  <2>1. Heard(c) = <<>> /\ Heard(c)' = <<>>
    BY <1>3 DEF Heard, Idle
  <2>2. Served(c)' = Served(c)
    BY <1>2 DEF Served
  <2>3. QED
    BY <1>2, <2>1, <2>2 DEF Ahead
<1>6. QED
  BY <1>1, <1>2, <1>4, <1>5, SameOutcome

\* What another client does.
LEMMA OtherClients ==
  ASSUME TypeOK, NEW c \in accepted, NEW v \in Clients \ {c},
         Network(v) \/ Interface(v) \/ User(v) \/ Advance(v), WillAgree(c)
  PROVE  WillAgree(c)'
<1>1. c \in Clients /\ c # server /\ server \in Viewers /\ c \in Viewers /\ v \in Viewers /\ v # server
  BY PartsTyped DEF TypeOK
<1>2. StaysAs(c) /\ StaysAs(server)
  BY <1>1, OthersStay
<1>3. link'[<<server, c>>] = link[<<server, c>>] /\ link'[<<c, server>>] = link[<<c, server>>]
  <2>1. ASSUME NEW m, Send(v, m)
        PROVE  link'[<<server, c>>] = link[<<server, c>>] /\ link'[<<c, server>>] = link[<<c, server>>]
    BY <1>1, <2>1 DEF Send, Write, TypeOK
  <2>2. CASE MakeCall(v)
    BY <2>1, <2>2 DEF MakeCall, Seek, Stop, Play
  <2>3. CASE Zoomed(v) \/ HandleCommand(v) \/ User(v) \/ Advance(v)
    BY <2>3 DEF Zoomed, HandleCommand, TakeCommand, User, UserSeek, UserPlay, UserStop, UserFit, UserCalls, Advance, wire
  <2>4. CASE Network(v)
    <3>1. ASSUME NEW w \in Viewers, Parse(v, w)
          PROVE  link'[<<server, c>>] = link[<<server, c>>] /\ link'[<<c, server>>] = link[<<c, server>>]
      BY <1>1, <3>1 DEF Parse, TypeOK
    <3>2. CASE Answer(v)
      BY <1>1, <3>2 DEF Answer, TypeOK
    <3>3. CASE PushCommands(v) \/ Parsed(v)
      BY <3>3 DEF PushCommands, Parsed, wire
    <3>4. QED
      BY <1>1, <2>4, <3>1, <3>2, <3>3 DEF Network
  <2>5. QED
    BY <2>2, <2>3, <2>4 DEF Interface
<1>4. Said(c)' = Said(c)
  BY <1>2, <1>3 DEF Said, Orders, Asked, StaysAs
<1>5. QED
  BY <1>1, <1>2, <1>3, <1>4, Unchanged DEF StaysAs

-----------------------------------------------------------------------------
(* The calls a viewer is in.                                               *)

\* The user's fit_image() is in no call for others.
ZoomsAlone ==
  \A v \in Viewers : \A i \in DOMAIN calls[v] : calls[v][i].type = "zoom" => ~serving[v]

\* What the two say of one viewer.
Fits(s, serves) ==
  \A i \in DOMAIN s :
    /\ s[i].type = "stop" => i = 1 /\ (serves => 2 \in DOMAIN s /\ s[2].type \in {"seek", "replay"})
    /\ s[i].type = "zoom" => ~serves

LEMMA AllFit == StopsThenSeeks /\ ZoomsAlone <=> \A v \in Viewers : Fits(calls[v], serving[v])
  BY DEF StopsThenSeeks, ZoomsAlone, Fits

LEMMA AllFitNext == StopsThenSeeks' /\ ZoomsAlone' <=> \A v \in Viewers : Fits(calls'[v], serving'[v])
  BY DEF StopsThenSeeks, ZoomsAlone, Fits

LEMMA TailAt ==
  ASSUME NEW s \in Seq(Call), s # <<>>
  PROVE  /\ \A i \in DOMAIN Tail(s) : i + 1 \in DOMAIN s /\ Tail(s)[i] = s[i + 1] /\ i \in Nat \ {0}
         /\ Tail(s) \in Seq(Call)
<1>1. /\ Tail(s) \in Seq(Call) /\ Len(Tail(s)) = Len(s) - 1 /\ Len(s) \in Nat \ {0}
      /\ \A i \in 1 .. Len(Tail(s)) : Tail(s)[i] = s[i + 1]
  BY HeadTailProperties, EmptySeq
<1>2. DOMAIN Tail(s) = 1 .. Len(Tail(s)) /\ DOMAIN s = 1 .. Len(s)
  BY <1>1
<1>3. QED
  BY <1>1, <1>2

LEMMA TailFits ==
  ASSUME NEW s \in Seq(Call), s # <<>>, NEW serves, Fits(s, serves)
  PROVE  /\ Fits(Tail(s), serves)
         /\ \A i \in DOMAIN Tail(s) : Tail(s)[i].type # "stop" /\ (serves => Tail(s)[i].type # "zoom")
<1>1. \A i \in DOMAIN Tail(s) : Tail(s)[i].type # "stop" /\ (serves => Tail(s)[i].type # "zoom")
  BY TailAt DEF Fits
<1>2. QED
  BY <1>1 DEF Fits

\* A seek of a view that plays makes it stop and play on.
LEMMA SeeksOnFits ==
  ASSUME NEW s \in Seq(Call), s # <<>>, NEW serves, Fits(s, serves), NEW f \in Frames
  PROVE  Fits(<<Item("stop", None), Item("replay", f)>> \o Tail(s), serves)
<1> DEFINE two == <<Item("stop", None), Item("replay", f)>>
           t == Tail(s)
<1>1. t \in Seq(Call) /\ \A i \in DOMAIN t : t[i].type # "stop" /\ (serves => t[i].type # "zoom")
  BY TailAt, TailFits
<1>2. /\ two \in Seq(Call) /\ DOMAIN two = {1, 2} /\ Len(two) = 2
      /\ two[1].type = "stop" /\ two[2].type = "replay"
  <2>1. Item("stop", None) \in Call /\ Item("replay", f) \in Call
    BY Kinds
  <2>2. two[1] = Item("stop", None) /\ two[2] = Item("replay", f) /\ DOMAIN two = {1, 2} /\ Len(two) = 2
    OBVIOUS
  <2>3. two \in Seq(Call)
    BY <2>1
  <2>4. QED
    BY <2>2, <2>3 DEF Item
<1> HIDE DEF two, t
<1>3. /\ \A i \in DOMAIN two : i \in DOMAIN (two \o t) /\ (two \o t)[i] = two[i]
      /\ \A i \in DOMAIN t : Len(two) + i \in DOMAIN (two \o t) /\ (two \o t)[Len(two) + i] = t[i]
      /\ \A i \in DOMAIN (two \o t) : i \in DOMAIN two \/ (i - Len(two) \in DOMAIN t /\ Len(two) < i)
      /\ DOMAIN t = 1..Len(t) /\ Len(t) \in Nat
  <2>1. two \in Seq(Call) /\ t \in Seq(Call)
    BY <1>1, <1>2
  <2>2. QED
    BY <2>1, ConcatAt
<1>4. 2 \in DOMAIN (two \o t) /\ (two \o t)[2].type = "replay" /\ (two \o t)[1].type = "stop"
  BY <1>2, <1>3
<1>5. ASSUME NEW i \in DOMAIN (two \o t)
      PROVE  (i = 1 \/ (two \o t)[i].type # "stop") /\ ((two \o t)[i].type = "zoom" => ~serves)
  <2>1. CASE i \in DOMAIN two
    <3>1. i \in {1, 2}
      BY <1>2, <2>1
    <3>2. QED
      BY <1>4, <3>1
  <2>2. CASE i \notin DOMAIN two
    <3>1. i - 2 \in DOMAIN t /\ 2 < i
      BY <1>2, <1>3, <2>2
    <3>2. i \in Int
      BY <1>3, <3>1, <1>1, <1>2
    <3>3. (two \o t)[i] = t[i - 2]
      <4>1. PICK j \in DOMAIN t : j = i - 2
        BY <3>1
      <4>2. (two \o t)[2 + j] = t[j] /\ j \in Int
        BY <1>2, <1>3
      <4>3. 2 + j = i
        BY <3>2, <4>1, <4>2
      <4>4. QED
        BY <4>1, <4>2, <4>3
    <3>4. QED
      BY <1>1, <3>1, <3>3
  <2>3. QED
    BY <2>1, <2>2
<1>6. Fits(two \o t, serves)
  BY <1>4, <1>5 DEF Fits
<1>7. QED
  BY <1>6 DEF two, t

LEMMA CallsFit == ASSUME NEW h \in Command PROVE Fits(CallsOf(h), TRUE)
<1> DEFINE f == h.frame
<1>1. CASE h.type = "kSeek"
  <2>1. CallsOf(h) = <<Item("seek", f)>>
    BY <1>1 DEF CallsOf
  <2>2. QED
    BY <2>1 DEF Fits, Item
<1>2. CASE h.type = "kStopVideo"
  <2>1. CallsOf(h) = <<Item("stop", None), Item("seek", f)>>
    BY <1>2 DEF CallsOf
  <2>2. QED
    BY <2>1 DEF Fits, Item
<1>3. CASE h.type = "kPlayForwards"
  <2>1. CallsOf(h) = <<Item("play", None)>> \/ CallsOf(h) = <<Item("seek", f), Item("play", None)>>
    BY <1>3 DEF CallsOf
  <2>2. QED
    BY <2>1 DEF Fits, Item
<1>4. QED
  BY <1>1, <1>2, <1>3 DEF Command

\* What a call leaves to do.
LEMMA CallFits ==
  ASSUME TypeOK, NEW v \in Viewers, Fits(calls[v], serving[v]), Seek(v) \/ Stop(v) \/ Play(v)
  PROVE  /\ Fits(calls'[v], serving[v]) /\ calls[v] # <<>>
         /\ \A w \in Viewers \ {v} : calls'[w] = calls[w]
<1> DEFINE s == calls[v]
           f == Head(s).frame
<1>1. s # <<>> /\ s \in Seq(Call)
  BY DEF Seek, Stop, Play, First, TypeOK
<1>2. Then(v, <<>>) \/ (Seek(v) /\ Then(v, <<Item("stop", None), Item("replay", f)>>))
  BY DEF Seek, Stop, Play
<1>3. CASE Then(v, <<>>)
  <2>1. calls'[v] = <<>> \o Tail(s)
    BY <1>3 DEF Then, TypeOK
  <2>2. calls'[v] = Tail(s)
    BY <1>1, <2>1, TailAt
  <2>3. QED
    BY <1>1, <1>3, <2>2, TailFits DEF Then, TypeOK
<1>4. CASE Seek(v) /\ Then(v, <<Item("stop", None), Item("replay", f)>>)
  <2>1. calls'[v] = <<Item("stop", None), Item("replay", f)>> \o Tail(s)
    BY <1>4 DEF Then, TypeOK
  <2>2. f \in Frames
    BY <1>4, FirstCall DEF Seek
  <2>3. Fits(calls'[v], serving[v])
    BY <1>1, <2>1, <2>2, SeeksOnFits
  <2>4. QED
    BY <1>1, <1>4, <2>3 DEF Then, TypeOK
<1>5. QED
  BY <1>2, <1>3, <1>4

-----------------------------------------------------------------------------
(* What else holds at each step.                                           *)

LEMMA KeepsFit ==
  ASSUME IInv, StopsThenSeeks, ZoomsAlone, [Next]_vars
  PROVE  StopsThenSeeks' /\ ZoomsAlone'
<1>1. \A v \in Viewers : Fits(calls[v], serving[v])
  BY AllFit
<1>2. TypeOK
  BY DEF IInv
<1> SUFFICES \A v \in Viewers : Fits(calls'[v], serving'[v])
  BY AllFitNext
<1>3. CASE calls' = calls /\ serving' = serving
  BY <1>1, <1>3
<1>4. ASSUME NEW v \in Viewers, MakeCall(v) PROVE \A w \in Viewers : Fits(calls'[w], serving'[w])
  <2>1. Fits(calls'[v], serving[v]) /\ \A w \in Viewers \ {v} : calls'[w] = calls[w]
    BY <1>1, <1>2, <1>4, CallFits DEF MakeCall
  <2>2. \A w \in Viewers \ {v} : serving'[w] = serving[w]
    BY <1>2, <1>4 DEF MakeCall, TypeOK
  <2>3. calls'[v] = <<>> \/ serving'[v] = serving[v]
    BY <1>4 DEF MakeCall
  <2>4. Fits(calls'[v], serving'[v])
    BY <2>1, <2>3 DEF Fits
  <2>5. QED
    BY <1>1, <2>1, <2>2, <2>4
<1>5. ASSUME NEW v \in Viewers, Zoomed(v) PROVE \A w \in Viewers : Fits(calls'[w], serving'[w])
  <2>1. calls[v] # <<>> /\ calls[v] \in Seq(Call)
    BY <1>2, <1>5 DEF Zoomed, First, TypeOK
  <2>2. calls' = [calls EXCEPT ![v] = <<>> \o Tail(@)] /\ serving' = serving
    BY <1>5 DEF Zoomed, Then
  <2>3. calls'[v] = Tail(calls[v]) /\ \A w \in Viewers \ {v} : calls'[w] = calls[w]
    BY <1>2, <2>1, <2>2, TailAt DEF TypeOK
  <2>4. QED
    BY <1>1, <2>1, <2>2, <2>3, TailFits
<1>6. ASSUME NEW v \in Viewers, HandleCommand(v) PROVE \A w \in Viewers : Fits(calls'[w], serving'[w])
  <2>1. /\ calls'[v] = CallsOf(Head(commands[v])) /\ serving'[v] = TRUE
        /\ \A w \in Viewers \ {v} : calls'[w] = calls[w] /\ serving'[w] = serving[w]
    BY <1>2, <1>6 DEF HandleCommand, TakeCommand, TypeOK
  <2>2. Head(commands[v]) \in Command
    BY <1>2, <1>6 DEF HandleCommand, TakeCommand, TypeOK
  <2>3. QED
    BY <1>1, <2>1, <2>2, CallsFit
<1>7. ASSUME NEW v \in Viewers, NEW what, NEW call, UserCalls(v, what, call)
      PROVE \A w \in Viewers : Fits(calls'[w], serving'[w])
  <2>1. /\ calls'[v] = <<call>> /\ serving'[v] = FALSE
        /\ \A w \in Viewers \ {v} : calls'[w] = calls[w] /\ serving'[w] = serving[w]
    BY <1>2, <1>7 DEF UserCalls, TypeOK
  <2>2. Fits(calls'[v], serving'[v])
    BY <2>1 DEF Fits
  <2>3. QED
    BY <1>1, <2>1, <2>2
<1>8. ASSUME NEW v \in Viewers, Network(v) \/ Advance(v) PROVE calls' = calls /\ serving' = serving
  BY <1>8 DEF Network, Parse, Answer, PushCommands, Parsed, Forward, Advance, ui
<1>9. ASSUME NEW v \in Viewers, User(v) PROVE \A w \in Viewers : Fits(calls'[w], serving'[w])
  BY <1>7, <1>9 DEF User, UserSeek, UserPlay, UserStop, UserFit
<1>10. ASSUME NEW c \in Clients, Connect(c) \/ Accept(c) PROVE calls' = calls /\ serving' = serving
  BY <1>10 DEF Connect, Accept, ui
<1>11. CASE UNCHANGED vars
  BY <1>3, <1>11 DEF vars, ui
<1>12. QED
  BY <1>3, <1>4, <1>5, <1>6, <1>8, <1>9, <1>10, <1>11 DEF Next, Interface

LEMMA KeepsTurns ==
  ASSUME IInv, ServesInTurn, ZoomsAlone, [Next]_vars, races = {}
  PROVE  ServesInTurn'
<1>1. TypeOK /\ OneOwner /\ OffForATime
  BY DEF IInv
<1> DEFINE InTurn(v) == serving[v] /\ calls[v] # <<>> => (network_active[v] <=> v = server)
<1>2. \A v \in Viewers : InTurn(v)
  BY DEF ServesInTurn
<1> SUFFICES \A v \in Viewers : InTurn(v)'
  BY DEF ServesInTurn
<1>3. CASE calls' = calls /\ serving' = serving /\ network_active' = network_active
  BY <1>2, <1>3
<1>4. ASSUME NEW v \in Viewers, MakeCall(v) PROVE \A w \in Viewers : InTurn(w)'
  <2>1. calls[v] # <<>> /\ \A w \in Viewers \ {v} : calls'[w] = calls[w]
    BY <1>1, <1>4 DEF MakeCall, Seek, Stop, Play, First, Then, TypeOK
  <2>2. \A w \in Viewers \ {v} : serving'[w] = serving[w] /\ network_active'[w] = network_active[w]
    BY <1>1, <1>4 DEF MakeCall, TypeOK
  <2>3. calls'[v] = <<>> \/ (serving'[v] = serving[v] /\ network_active'[v] = network_active[v])
        \/ ~serving[v]
    BY <1>4 DEF MakeCall
  <2>4. ~serving[v] => ~serving'[v]
    BY <1>4 DEF MakeCall
  <2>5. QED
    BY <1>2, <2>1, <2>2, <2>3, <2>4
<1>5. ASSUME NEW v \in Viewers, Zoomed(v) PROVE \A w \in Viewers : InTurn(w)'
  <2>1. calls[v] # <<>> /\ calls[v] \in Seq(Call) /\ Head(calls[v]).type = "zoom"
    BY <1>1, <1>5 DEF Zoomed, First, TypeOK
  <2>2. 1 \in DOMAIN calls[v] /\ Head(calls[v]) = calls[v][1]
    BY <2>1
  <2>3. ~serving[v]
    BY <2>1, <2>2 DEF ZoomsAlone
  <2>4. /\ serving' = serving
        /\ \A w \in Viewers \ {v} : calls'[w] = calls[w] /\ network_active'[w] = network_active[w]
    BY <1>1, <1>5 DEF Zoomed, Then, TypeOK
  <2>5. QED
    BY <1>2, <2>3, <2>4
<1>6. ASSUME NEW v \in Viewers, HandleCommand(v) PROVE \A w \in Viewers : InTurn(w)'
  <2>1. /\ network_active'[v] = (network_active[v] /\ v = server)
        /\ \A w \in Viewers \ {v} : calls'[w] = calls[w] /\ serving'[w] = serving[w]
                                      /\ network_active'[w] = network_active[w]
    BY <1>1, <1>6 DEF HandleCommand, TakeCommand, TypeOK
  <2>2. network_active[v]
    BY <1>1, <1>6 DEF HandleCommand, TakeCommand, OffForATime, First
  <2>3. QED
    BY <1>2, <2>1, <2>2
<1>7. ASSUME NEW v \in Viewers, NEW what, NEW call, UserCalls(v, what, call),
             \A w \in Viewers \ {v} : network_active'[w] = network_active[w]
      PROVE \A w \in Viewers : InTurn(w)'
  <2>1. /\ ~serving[v] /\ serving' = serving
        /\ \A w \in Viewers \ {v} : calls'[w] = calls[w]
    BY <1>1, <1>7 DEF UserCalls, TypeOK
  <2>2. QED
    BY <1>2, <1>7, <2>1
<1>8. ASSUME NEW v \in Viewers, Network(v) PROVE \A w \in Viewers : InTurn(w)'
  <2>1. /\ calls' = calls /\ serving' = serving
        /\ \A w \in Viewers \ {v} : network_active'[w] = network_active[w]
    <3>1. calls' = calls /\ serving' = serving
      BY <1>8 DEF Network, Parse, Answer, PushCommands, Parsed, Forward, ui
    <3>2. CASE Answer(v) \/ PushCommands(v) \/ (v = server /\ Forward)
      BY <3>1, <3>2 DEF Answer, PushCommands, Forward
    <3>3. CASE (\E w \in Viewers : Parse(v, w)) \/ Parsed(v)
      <4>1. \E b \in BOOLEAN : network_active' = [network_active EXCEPT ![v] = b]
        BY <3>3 DEF Parse, Parsed
      <4>2. network_active \in [Viewers -> BOOLEAN]
        BY <1>1 DEF TypeOK
      <4>3. QED
        BY <3>1, <4>1, <4>2
    <3>4. QED
      BY <1>8, <3>2, <3>3 DEF Network
  <2>2. ~serving[v] \/ network_active' = network_active
    BY <1>1, <1>8 DEF Network, Parse, Answer, PushCommands, Parsed, Forward, OneOwner, Parsing
  <2>3. QED
    BY <1>2, <2>1, <2>2
<1>9. ASSUME NEW v \in Viewers, User(v) PROVE \A w \in Viewers : InTurn(w)'
  <2>1. CASE UserSeek(v) \/ UserPlay(v) \/ UserStop(v)
    BY <1>7, <2>1 DEF UserSeek, UserPlay, UserStop
  <2>2. CASE UserFit(v)
    <3>1. \A w \in Viewers \ {v} : network_active'[w] = network_active[w]
      BY <1>1, <2>2 DEF UserFit, TypeOK
    <3>2. QED
      BY <1>7, <2>2, <3>1 DEF UserFit
  <2>3. QED
    BY <1>9, <2>1, <2>2 DEF User
<1>10. ASSUME NEW v \in Viewers, Advance(v)
       PROVE calls' = calls /\ serving' = serving /\ network_active' = network_active
  BY <1>10 DEF Advance, ui
<1>11. ASSUME NEW c \in Clients, Connect(c) \/ Accept(c)
       PROVE calls' = calls /\ serving' = serving /\ network_active' = network_active
  BY <1>11 DEF Connect, Accept, ui
<1>12. CASE UNCHANGED vars
  BY <1>3, <1>12 DEF vars, ui
<1> HIDE DEF InTurn
<1>13. QED
  BY <1>3, <1>4, <1>5, <1>6, <1>8, <1>9, <1>10, <1>11, <1>12 DEF Next, Interface

\* A message goes on a link from the server to who it has accepted, or back.
Wire(w, v) == (w = server /\ v \in accepted) \/ (v = server /\ w \in connected)

LEMMA WriteWired ==
  ASSUME TypeOK, NEW u \in Viewers, NEW m, NEW from, Write(u, m, from)
  PROVE  \A w, v \in Viewers : link'[<<w, v>>] # <<>> => link[<<w, v>>] # <<>> \/ Wire(w, v)
<1>1. link' = [p \in Viewers \X Viewers |->
             IF p[1] = u /\ p[2] \in Peers(u) \ from THEN Append(link[p], m) ELSE link[p]]
  BY DEF Write, TypeOK
<1>2. ASSUME NEW w \in Viewers, NEW v \in Viewers
      PROVE  link'[<<w, v>>] = IF w = u /\ v \in Peers(u) \ from THEN Append(link[<<w, v>>], m)
                                                             ELSE link[<<w, v>>]
  BY <1>1
<1>3. ASSUME NEW v \in Peers(u) PROVE Wire(u, v)
  BY <1>3, SyncAssumption DEF Peers, Wire, Viewers
<1>4. QED
  BY <1>2, <1>3

\* The first and the last part of Wired.
LEMMA LinksStayWired ==
  ASSUME IInv, Wired, [Next]_vars
  PROVE  \A w, v \in Viewers : link'[<<w, v>>] # <<>> => Wire(w, v)'
<1>1. TypeOK
  BY DEF IInv
<1>2. accepted \subseteq accepted' /\ connected \subseteq connected'
  <2>1. CASE UNCHANGED <<connected, accepted>>
    BY <2>1
  <2>2. ASSUME NEW v \in Viewers, Network(v) \/ Interface(v) \/ User(v) \/ Advance(v)
        PROVE  UNCHANGED <<connected, accepted>>
    <3>1. CASE Network(v)
      BY <3>1 DEF Network, Parse, Answer, PushCommands, Parsed, Forward, wire
    <3>2. CASE Interface(v)
      BY <3>2 DEF Interface, MakeCall, Zoomed, HandleCommand, TakeCommand, wire
    <3>3. CASE User(v) \/ Advance(v)
      BY <3>3 DEF User, UserSeek, UserPlay, UserStop, UserFit, UserCalls, Advance, wire
    <3>4. QED
      BY <2>2, <3>1, <3>2, <3>3
  <2>3. ASSUME NEW c \in Clients, Connect(c) \/ Accept(c)
        PROVE  accepted \subseteq accepted' /\ connected \subseteq connected'
    BY <2>3 DEF Connect, Accept
  <2>4. QED
    BY <2>1, <2>2, <2>3 DEF Next, vars, wire
<1>3. \A w, v \in Viewers : Wire(w, v) => Wire(w, v)'
  BY <1>2 DEF Wire
<1>4. \A w, v \in Viewers : link[<<w, v>>] # <<>> => Wire(w, v)
  BY DEF Wired, Wire
<1> SUFFICES \A w, v \in Viewers : link'[<<w, v>>] # <<>> => link[<<w, v>>] # <<>> \/ Wire(w, v) \/ Wire(w, v)'
  BY <1>3, <1>4
<1>5. CASE link' = link
  BY <1>5
<1>6. ASSUME NEW u \in Viewers, NEW m, Send(u, m)
      PROVE  \A w, v \in Viewers : link'[<<w, v>>] # <<>> => link[<<w, v>>] # <<>> \/ Wire(w, v)
  BY <1>1, <1>6, WriteWired DEF Send
<1>7. ASSUME NEW u \in Viewers, Interface(u)
      PROVE  \A w, v \in Viewers : link'[<<w, v>>] # <<>> => link[<<w, v>>] # <<>> \/ Wire(w, v)
  <2>1. CASE MakeCall(u)
    BY <1>6, <2>1 DEF MakeCall, Seek, Stop, Play
  <2>2. CASE Zoomed(u) \/ HandleCommand(u)
    BY <2>2 DEF Zoomed, HandleCommand, TakeCommand, wire
  <2>3. QED
    BY <1>7, <2>1, <2>2 DEF Interface
<1>8. ASSUME NEW u \in Viewers, User(u) \/ Advance(u) PROVE link' = link
  BY <1>8 DEF User, UserSeek, UserPlay, UserStop, UserFit, UserCalls, Advance, wire
<1>9. ASSUME NEW u \in Viewers, Network(u)
      PROVE  \A w, v \in Viewers : link'[<<w, v>>] # <<>> => link[<<w, v>>] # <<>> \/ Wire(w, v)
  <2>1. ASSUME NEW x \in Viewers, Parse(u, x)
        PROVE  \A w, v \in Viewers : link'[<<w, v>>] # <<>> => link[<<w, v>>] # <<>>
    BY <1>1, <2>1 DEF Parse, TypeOK
  <2>2. CASE Answer(u)
    <3>1. /\ net[u].pc = "parse" /\ net[u].from \in Viewers
          /\ link' = [link EXCEPT ![<<u, net[u].from>>] = Append(@, Item("seek", frame[u]))]
      BY <1>1, <2>2, Held DEF Answer
    <3>2. net[u] # Idle
      BY <3>1 DEF Idle
    <3>3. Wire(u, net[u].from)
      <4>1. CASE u = server
        BY <3>2, <4>1 DEF Wired, Wire
      <4>2. CASE u # server
        BY <1>1, <3>2, <4>2 DEF Wired, Wire, Viewers, TypeOK
      <4>3. QED
        BY <4>1, <4>2
    <3>4. \A w, v \in Viewers : <<w, v>> # <<u, net[u].from>> => link'[<<w, v>>] = link[<<w, v>>]
      BY <1>1, <3>1 DEF TypeOK
    <3>5. QED
      BY <3>1, <3>3, <3>4
  <2>3. CASE PushCommands(u) \/ Parsed(u)
    BY <2>3 DEF PushCommands, Parsed, wire
  <2>4. CASE u = server /\ Forward
    BY <1>1, <2>4, WriteWired DEF Forward
  <2>5. QED
    BY <1>9, <2>1, <2>2, <2>3, <2>4 DEF Network
<1>10. ASSUME NEW c \in Clients, Connect(c)
       PROVE  \A w, v \in Viewers : link'[<<w, v>>] # <<>> => link[<<w, v>>] # <<>> \/ Wire(w, v)'
  <2>1. \A w, v \in Viewers : <<w, v>> # <<c, server>> => link'[<<w, v>>] = link[<<w, v>>]
    BY <1>1, <1>10 DEF Connect, TypeOK
  <2>2. Wire(c, server)'
    BY <1>10 DEF Connect, Wire
  <2>3. QED
    BY <2>1, <2>2
<1>11. ASSUME NEW c \in Clients, Accept(c) PROVE link' = link
  BY <1>11 DEF Accept
<1>12. CASE UNCHANGED vars
  BY <1>5, <1>12 DEF vars, wire
<1>13. QED
  BY <1>5, <1>7, <1>8, <1>9, <1>10, <1>11, <1>12 DEF Next

\* What a network thread holds, and that it holds nothing of who is not accepted.
NetWired ==
  /\ \A c \in Clients : net[c] # Idle => net[c].from = server /\ net[c].pc # "forward"
  /\ net[server] # Idle => net[server].from \in accepted
  /\ \A c \in Clients \ accepted : commands[c] = <<>> /\ ~serving[c] /\ net[c] = Idle

LEMMA WiredIs ==
  Wired <=> NetWired /\ \A w, v \in Viewers : link[<<w, v>>] # <<>> => Wire(w, v)
  BY DEF Wired, NetWired, Wire
LEMMA WiredIsNext ==
  Wired' <=> NetWired' /\ \A w, v \in Viewers : link'[<<w, v>>] # <<>> => Wire(w, v)'
  BY DEF Wired, NetWired, Wire

LEMMA NetStaysWired ==
  ASSUME IInv, Wired, [Next]_vars
  PROVE  NetWired'
<1>1. TypeOK /\ NetWired /\ server \in Viewers /\ Clients \subseteq Viewers /\ server \notin Clients
  BY WiredIs, SyncAssumption DEF IInv, Viewers
<1> DEFINE Part(v) ==
      /\ v \in Clients /\ net[v] # Idle => net[v].from = server /\ net[v].pc # "forward"
      /\ v = server /\ net[v] # Idle => net[v].from \in accepted
      /\ v \in Clients \ accepted => commands[v] = <<>> /\ ~serving[v] /\ net[v] = Idle
<1>2. \A v \in Viewers : Part(v)
  BY <1>1 DEF NetWired
<1>3. SUFFICES \A v \in Viewers : Part(v)'
  BY <1>1 DEF NetWired
<1>4. ASSUME NEW v \in Viewers, Network(v) \/ Interface(v) \/ User(v) \/ Advance(v)
      PROVE  accepted' = accepted /\ \A w \in Viewers \ {v} : Part(w)'
  <2>1. \A w \in Viewers \ {v} : StaysAs(w)
    BY <1>1, <1>4, OthersStay
  <2>2. accepted' = accepted
    BY <1>4 DEF Network, Parse, Answer, PushCommands, Parsed, Forward, Interface, MakeCall, Zoomed, HandleCommand,
                TakeCommand, User, UserSeek, UserPlay, UserStop, UserFit, UserCalls, Advance, wire
  <2>3. QED
    BY <1>2, <2>1, <2>2 DEF StaysAs
<1>5. ASSUME NEW v \in Viewers, Interface(v) \/ User(v) \/ Advance(v) PROVE Part(v)'
  <2>1. net' = net
    BY <1>5 DEF Interface, MakeCall, Zoomed, HandleCommand, TakeCommand, User, UserSeek, UserPlay, UserStop, UserFit,
                UserCalls, Advance
  <2>2. ASSUME v \in Clients \ accepted PROVE commands'[v] = <<>> /\ ~serving'[v]
    <3>1. commands[v] = <<>> /\ ~serving[v]
      BY <1>2, <2>2
    <3>2. CASE MakeCall(v)
      BY <3>1, <3>2 DEF MakeCall
    <3>3. CASE Zoomed(v) \/ HandleCommand(v)
      BY <3>1, <3>3 DEF Zoomed, HandleCommand, TakeCommand
    <3>4. CASE User(v) \/ Advance(v)
      BY <3>1, <3>4 DEF User, UserSeek, UserPlay, UserStop, UserFit, UserCalls, Advance, ui
    <3>5. QED
      BY <1>5, <3>2, <3>3, <3>4 DEF Interface
  <2>3. accepted' = accepted
    BY <1>4, <1>5
  <2>4. QED
    BY <1>2, <2>1, <2>2, <2>3
<1>6. ASSUME NEW v \in Viewers, NEW w \in Viewers, Parse(v, w) PROVE Part(v)'
  <2>1. /\ net'[v] = [pc |-> "parse", msg |-> Head(link[<<w, v>>]), from |-> w]
        /\ link[<<w, v>>] # <<>> /\ accepted' = accepted /\ (v = server => w \in accepted)
    BY <1>1, <1>6 DEF Parse, TypeOK
  <2>2. Wire(w, v)
    BY <2>1, WiredIs
  <2>3. v \in Clients => w = server /\ v \in accepted
    BY <1>1, <2>2 DEF Wire
  <2>4. QED
    BY <2>1, <2>3
<1>7. ASSUME NEW v \in Viewers, Answer(v) \/ PushCommands(v) PROVE Part(v)'
  <2>1. net[v].pc = "parse" /\ net' = [net EXCEPT ![v].pc = "parsed"]
    BY <1>7 DEF Answer, PushCommands
  <2>2. /\ net[v] \in [pc : {"parse", "parsed", "forward"}, msg : Message, from : Viewers]
        /\ net[v] # Idle
    BY <1>1, <2>1, Held DEF Idle
  <2>3. net'[v].pc = "parsed" /\ net'[v].from = net[v].from
    BY <1>1, <2>1, <2>2 DEF TypeOK
  <2>4. accepted' = accepted
    BY <1>4, <1>7 DEF Network
  <2>5. QED
    BY <1>2, <2>2, <2>3, <2>4
<1>8. ASSUME NEW v \in Viewers, Parsed(v) PROVE Part(v)'
  <2>1. /\ net[v].pc = "parsed" /\ accepted' = accepted /\ commands' = commands /\ serving' = serving
        /\ net'[v] = IF v = server THEN [net[v] EXCEPT !.pc = "forward"] ELSE Idle
    BY <1>1, <1>8 DEF Parsed, TypeOK, ui, wire
  <2>2. /\ net[v] \in [pc : {"parse", "parsed", "forward"}, msg : Message, from : Viewers]
        /\ net[v] # Idle
    BY <1>1, <2>1, Held DEF Idle
  <2>3. v = server => net'[v].from = net[v].from
    BY <2>1, <2>2
  <2>4. QED
    BY <1>1, <1>2, <2>1, <2>2, <2>3
<1>9. ASSUME Forward PROVE Part(server)'
  BY <1>1, <1>9 DEF Forward, TypeOK
<1>10. ASSUME NEW v \in Viewers, Network(v) PROVE Part(v)'
  BY <1>6, <1>7, <1>8, <1>9, <1>10 DEF Network
<1>11. ASSUME NEW c \in Clients, Connect(c) \/ Accept(c) PROVE \A v \in Viewers : Part(v)'
  BY <1>2, <1>11 DEF Connect, Accept, ui
<1>12. CASE UNCHANGED vars
  BY <1>2, <1>12 DEF vars, ui, wire
<1> HIDE DEF Part
<1>13. ASSUME NEW v \in Viewers, Network(v) \/ Interface(v) \/ User(v) \/ Advance(v)
       PROVE  \A w \in Viewers : Part(w)'
  BY <1>4, <1>5, <1>10, <1>13
<1>14. QED
  BY <1>11, <1>12, <1>13 DEF Next

LEMMA KeepsWired ==
  ASSUME IInv, Wired, [Next]_vars
  PROVE  Wired'
  BY LinksStayWired, NetStaysWired, WiredIsNext

\* A client that is connected and not accepted yet.
LEMMA KeepsWaiting ==
  ASSUME IInv, Wired, ServesInTurn, Waiting, [Next]_vars, races' = {}
  PROVE  Waiting'
<1>1. TypeOK /\ server \in Viewers /\ Clients \subseteq Viewers /\ server \notin Clients
  BY SyncAssumption DEF IInv, Viewers
<1> DEFINE Waits(c) ==
      /\ playing[c] => Elements(link[<<c, server>>]) \cap Starts # {}
      /\ SyncImage \in Elements(link[<<c, server>>])
<1>2. \A c \in connected \ accepted : Waits(c)
  BY DEF Waiting
<1> SUFFICES ASSUME NEW c \in connected' \ accepted'
             PROVE  Waits(c)'
  BY DEF Waiting
<1>3. CASE UNCHANGED vars
  <2>1. c \in connected \ accepted /\ link' = link /\ playing' = playing
    BY <1>3 DEF vars, view, wire
  <2>2. QED
    BY <1>2, <2>1
<1>4. CASE \E d \in Clients : Accept(d)
  <2>1. c \in connected \ accepted /\ link' = link /\ playing' = playing
    BY <1>4 DEF Accept, view
  <2>2. QED
    BY <1>2, <2>1
<1>5. ASSUME NEW d \in Clients, Connect(d) PROVE Waits(c)'
  <2>1. playing' = playing /\ accepted' = accepted /\ connected' = connected \cup {d} /\ ~playing[d]
    BY <1>5 DEF Connect, view
  <2>2. /\ link'[<<d, server>>] = Append(link[<<d, server>>], SyncImage)
        /\ c # d => link'[<<c, server>>] = link[<<c, server>>]
    BY <1>1, <1>5, <2>1 DEF Connect, SyncImage, TypeOK
  <2>3. CASE c = d
    <3>1. link[<<d, server>>] \in Seq(Message) /\ SyncImage \in Message
      BY <1>1, Kinds DEF TypeOK, SyncImage
    <3>2. SyncImage \in Elements(link'[<<d, server>>])
      BY <2>2, <3>1, ElementsOfAppend
    <3>3. QED
      BY <2>1, <2>3, <3>2
  <2>4. CASE c # d
    BY <1>2, <2>1, <2>2, <2>4
  <2>5. QED
    BY <2>3, <2>4
<1>6. ASSUME NEW v \in Viewers, Network(v) \/ Interface(v) \/ User(v) \/ Advance(v) PROVE Waits(c)'
  <2>1. accepted' = accepted /\ connected' = connected
    BY <1>6 DEF Network, Parse, Answer, PushCommands, Parsed, Forward, Interface, MakeCall, Zoomed, HandleCommand,
                TakeCommand, User, UserSeek, UserPlay, UserStop, UserFit, UserCalls, Advance, wire
  <2>2. /\ c \in Clients /\ c # server /\ c \in Viewers /\ Waits(c) /\ c \in connected /\ c \notin accepted
        /\ ~serving[c] /\ net[c] = Idle /\ link[<<c, server>>] \in Seq(Message)
    BY <1>1, <1>2, <2>1 DEF TypeOK, Wired
  <2>3. c # v => playing'[c] = playing[c]
    BY <1>1, <1>6, <2>2, OthersStay DEF StaysAs
  <2>4. CASE link'[<<c, server>>] = link[<<c, server>>] /\ (playing'[c] => playing[c])
    BY <2>2, <2>4
  <2>5. ASSUME NEW m \in Message, Send(v, m), calls[v] # <<>>
        PROVE  IF v = c THEN link'[<<c, server>>] = Append(link[<<c, server>>], m)
                        ELSE link'[<<c, server>>] = link[<<c, server>>]
    <3>1. /\ v = server \/ ~serving[v] => Write(v, m, {})
          /\ v # server /\ serving[v] => link' = link
      BY <1>1, <2>5, Sent
    <3>2. CASE v = c
      BY <1>1, <2>2, <3>1, <3>2, ClientWrites
    <3>3. CASE v # c
      BY <1>1, <2>2, <3>1, <3>3 DEF Write, TypeOK
    <3>4. QED
      BY <3>2, <3>3
  <2>6. ASSUME NEW m \in Message, link'[<<c, server>>] = Append(link[<<c, server>>], m),
               playing'[c] => playing[c] \/ m \in Starts
        PROVE  Waits(c)'
    <3>1. Elements(link'[<<c, server>>]) = Elements(link[<<c, server>>]) \cup {m}
      BY <2>2, <2>6, ElementsOfAppend
    <3>2. QED
      BY <2>2, <2>6, <3>1
  <2>7. CASE MakeCall(v)
    <3>1. CASE Seek(v)
      <4>1. playing' = playing /\ calls[v] # <<>> /\ Head(calls[v]).frame \in Frames
        BY <1>1, <3>1, FirstCall DEF Seek, view
      <4>2. CASE link' = link
        BY <2>4, <4>1, <4>2
      <4>3. CASE Send(v, Item("seek", Head(calls[v]).frame))
        <5>1. Item("seek", Head(calls[v]).frame) \in Message
          BY <4>1, Kinds
        <5>2. QED
          BY <2>4, <2>5, <2>6, <4>1, <4>3, <5>1
      <4>4. QED
        BY <3>1, <4>2, <4>3 DEF Seek
    <3>2. CASE Stop(v)
      <4>1. (playing'[c] => playing[c]) /\ calls[v] # <<>>
        BY <1>1, <2>2, <3>2 DEF Stop, First, view, TypeOK
      <4>2. CASE link' = link
        BY <2>4, <4>1, <4>2
      <4>3. CASE Send(v, Item("stop", image[v]))
        <5>1. Item("stop", image[v]) \in Message
          BY <1>1, Kinds DEF TypeOK
        <5>2. QED
          BY <2>4, <2>5, <2>6, <4>1, <4>3, <5>1
      <4>4. QED
        BY <3>2, <4>2, <4>3 DEF Stop
    <3>3. CASE Play(v)
      <4>1. Send(v, Item("playfwd", None)) /\ calls[v] # <<>> /\ Item("playfwd", None) \in Message
        BY <3>3, Kinds DEF Play, First
      <4>2. Item("playfwd", None) \in Starts
        BY <4>1 DEF Starts, Things, Item
      <4>3. CASE v = c
        BY <2>5, <2>6, <4>1, <4>2, <4>3
      <4>4. CASE v # c
        BY <2>3, <2>4, <2>5, <4>1, <4>4
      <4>5. QED
        BY <4>3, <4>4
    <3>4. QED
      BY <2>7, <3>1, <3>2, <3>3 DEF MakeCall
  <2>8. CASE Zoomed(v) \/ HandleCommand(v) \/ User(v) \/ Advance(v)
    <3>1. link' = link /\ playing' = playing
      BY <2>8 DEF Zoomed, HandleCommand, TakeCommand, User, UserSeek, UserPlay, UserStop, UserFit, UserCalls,
                  Advance, wire, view
    <3>2. QED
      BY <2>4, <3>1
  <2>9. CASE Network(v)
    <3>1. playing' = playing
      BY <2>9 DEF Network, Parse, Answer, PushCommands, Parsed, Forward, view
    <3>2. ASSUME NEW w \in Viewers, Parse(v, w) PROVE Waits(c)'
      <4>1. link' = [link EXCEPT ![<<w, v>>] = Tail(@)] /\ (v = server => w \in accepted)
        BY <3>2 DEF Parse
      <4>2. <<w, v>> # <<c, server>>
        BY <2>2, <4>1
      <4>3. link'[<<c, server>>] = link[<<c, server>>]
        BY <1>1, <2>2, <4>1, <4>2 DEF TypeOK
      <4>4. QED
        BY <2>4, <3>1, <4>3
    <3>3. CASE Answer(v)
      <4>1. link' = [link EXCEPT ![<<v, net[v].from>>] = Append(@, Item("seek", frame[v]))] /\ net[v].pc = "parse"
        BY <3>3 DEF Answer
      <4>2. v # c
        BY <2>2, <4>1 DEF Idle
      <4>3. link'[<<c, server>>] = link[<<c, server>>]
        BY <1>1, <2>2, <4>1, <4>2 DEF TypeOK
      <4>4. QED
        BY <2>4, <3>1, <4>3
    <3>4. CASE PushCommands(v) \/ Parsed(v)
      <4>1. link' = link
        BY <3>4 DEF PushCommands, Parsed, wire
      <4>2. QED
        BY <2>4, <3>1, <4>1
    <3>5. CASE v = server /\ Forward
      <4>1. link'[<<c, server>>] = link[<<c, server>>]
        BY <1>1, <2>2, <3>5 DEF Forward, Write, TypeOK
      <4>2. QED
        BY <2>4, <3>1, <4>1
    <3>6. QED
      BY <2>9, <3>2, <3>3, <3>4, <3>5 DEF Network
  <2>10. QED
    BY <1>6, <2>7, <2>8, <2>9 DEF Interface
<1> HIDE DEF Waits
<1>7. QED
  BY <1>3, <1>4, <1>5, <1>6 DEF Next

\* Who is accepted agrees in the end, and nothing changes for those who were before.
LEMMA ConnectionAgrees ==
  ASSUME IInv, Wired, Waiting, races' = {}, NEW d \in Clients, Connect(d) \/ Accept(d),
         \A c \in accepted : WillAgree(c)
  PROVE  \A c \in accepted' : WillAgree(c)'
<1>1. TypeOK /\ accepted \subseteq connected /\ connected \subseteq Clients
  BY DEF IInv, TypeOK
<1>2. /\ commands' = commands /\ calls' = calls /\ serving' = serving /\ net' = net
      /\ playing' = playing /\ frame' = frame
  BY DEF Connect, Accept, view, ui
<1>3. ASSUME NEW c \in accepted PROVE WillAgree(c)'
  <2>1. c \in Clients /\ c # server /\ c \in Viewers /\ server \in Viewers
    BY <1>1, PartsTyped
  <2>2. link'[<<server, c>>] = link[<<server, c>>] /\ link'[<<c, server>>] = link[<<c, server>>]
    BY <1>1, <2>1 DEF Connect, Accept, TypeOK
  <2>3. StaysAs(c) /\ Said(c)' = Said(c)
    BY <1>2, <2>2 DEF StaysAs, Said, Orders, Asked
  <2>4. QED
    BY <1>1, <1>2, <2>1, <2>2, <2>3, Unchanged
<1>4. CASE Connect(d)
  BY <1>3, <1>4 DEF Connect
<1>5. CASE Accept(d)
  <2>1. accepted' = accepted \cup {d} /\ link' = link /\ ~playing[server] /\ d \in connected \ accepted
    BY <1>5 DEF Accept
  <2>2. d # server /\ d \in Viewers /\ server \in Viewers
    BY <1>1, PartsTyped
  <2>3. Ahead(d)' = <<>>
    <3>1. commands[d] = <<>> /\ ~serving[d] /\ net[d] = Idle
      BY <2>1 DEF Wired
    <3>2. link[<<server, d>>] = <<>>
      BY <2>1, <2>2 DEF Wired
    <3>3. Served(d)' = <<>> /\ Heard(d)' = <<>>
      BY <1>2, <3>1 DEF Served, Heard, Idle
    <3>4. QED
      BY <1>2, <2>1, <3>1, <3>2, <3>3 DEF Ahead
  <2>4. Said(d)' = Said(d) /\ Elements(link[<<d, server>>]) \subseteq Said(d)
    BY <1>2, <2>1 DEF Said, Orders, Asked
  <2>5. SyncImage \in Said(d)' /\ (playing[d] => Said(d)' \cap Starts # {})
    BY <2>1, <2>4 DEF Waiting
  <2>6. ~FrameStands(d)'
    BY <2>5 DEF FrameStands
  <2>7. PlayStands(d)' => ~playing[d]
    BY <2>5 DEF PlayStands
  <2>8. Plays(<<>>, playing[d]) <=> playing[d]
    BY EmptySays DEF Plays
  <2>9. WillAgree(d)'
    BY <1>2, <2>1, <2>3, <2>6, <2>7, <2>8 DEF WillAgree
  <2>10. QED
    BY <1>3, <2>1, <2>9
<1>6. QED
  BY <1>4, <1>5

\* T says what m says, as far as it matters for a message that is passed on.
Covered(m, T) ==
  /\ m \in Starts => T \cap Starts # {}
  /\ m \in Stops => T \cap Stops # {}
  /\ \A x \in Frames : m \in At(x) => T \cap At(x) # {}
\* T and the state of the server stand for the message m that is passed on.
Stands(T, m) ==
  /\ m \in Starts => T \cap Starts # {}
  /\ m \in Stops => ~playing[server] \/ T \cap Stops # {}
  /\ \A x \in Frames : m \in At(x) => playing[server] \/ frame[server] = x \/ T \cap At(x) # {}

LEMMA PassingIs ==
  Passing <=>
    /\ net[server].pc = "parsed" => Covered(net[server].msg, Elements(commands[server]))
    /\ net[server].pc = "forward" => Stands(Orders, net[server].msg)
  BY DEF Passing, Covered, Stands
LEMMA PassingIsNext ==
  Passing' <=>
    /\ net'[server].pc = "parsed" => Covered(net'[server].msg, Elements(commands'[server]))
    /\ net'[server].pc = "forward" => Stands(Orders, net[server].msg)'
  BY DEF Passing, Covered, Stands

\* What is still to do, or done to no effect, stands as before.
LEMMA StillStands ==
  ASSUME TypeOK, NEW m, Stands(Orders, m), playing'[server] = playing[server],
         playing[server] \/ frame'[server] = frame[server],
         \A e \in Orders : e \in Orders' \/ Covers(Orders', e)
           \/ (e \notin Starts /\ (e \in Stops => ~playing[server])
                 /\ \A x \in Frames : e \in At(x) => x = frame[server])
  PROVE  Stands(Orders, m)'
<1>1. m \in Starts => Orders' \cap Starts # {}
  BY DEF Stands, Covers
<1>2. m \in Stops => ~playing[server] \/ Orders' \cap Stops # {}
  BY DEF Stands, Covers
<1>3. ASSUME NEW x \in Frames, m \in At(x), ~playing[server] 
      PROVE  frame[server] = x \/ Orders' \cap At(x) # {}
  BY <1>3 DEF Stands, Covers
<1>4. QED
  BY <1>1, <1>2, <1>3 DEF Stands

LEMMA KeepsPassing ==
  ASSUME IInv, Wired, Passing, [Next]_vars, races' = {}
  PROVE  Passing'
<1>1. TypeOK /\ server \in Viewers /\ server \notin Clients /\ Viewers \ {server} = Clients
  BY SyncAssumption DEF IInv, Viewers
<1> DEFINE m == net[server].msg
<1>2. CASE /\ net'[server] = net[server] /\ commands'[server] = commands[server]
           /\ Orders' = Orders /\ playing'[server] = playing[server]
           /\ playing[server] \/ frame'[server] = frame[server]
  <2>1. net[server].pc = "forward" => Stands(Orders, m)'
    BY <1>1, <1>2, PassingIs, StillStands
  <2>2. QED
    BY <1>2, <2>1, PassingIs, PassingIsNext
<1>3. CASE StaysAs(server)
  <2>1. Orders' = Orders
    BY <1>3 DEF StaysAs, Orders
  <2>2. QED
    BY <1>2, <1>3, <2>1 DEF StaysAs
<1>4. ASSUME NEW v \in Viewers \ {server}, Network(v) \/ Interface(v) \/ User(v) \/ Advance(v)
      PROVE  StaysAs(server)
  BY <1>1, <1>4, OthersStay
<1>5. CASE MakeCall(server)
  <2>1. /\ net' = net /\ commands' = commands /\ calls[server] # <<>> /\ calls[server] \in Seq(Call)
    BY <1>1, <1>5 DEF MakeCall, Seek, Stop, Play, First, TypeOK
  <2>2. net[server].pc = "parsed" => Covered(m, Elements(commands[server]))
    BY PassingIs
  <2>3. ASSUME net[server].pc = "forward" PROVE Stands(Orders, m)'
    <3>1. ASSUME NEW e PROVE ~Send(server, e)
      BY <2>3, <3>1 DEF Send
    <3>2. /\ Then(server, <<>>) /\ UNCHANGED <<view, link>>
          /\ \/ Seek(server) /\ Head(calls[server]).frame = frame[server]
             \/ Stop(server) /\ ~playing[server]
      BY <1>5, <3>1 DEF MakeCall, Seek, Stop, Play
    <3> DEFINE h == Head(calls[server])
    <3>4. /\ Orders = {h} \cup Elements(Tail(calls[server])) \cup Elements(commands[server])
          /\ Orders' = Elements(<<>>) \cup Elements(Tail(calls[server])) \cup Elements(commands[server])
      BY <1>1, <2>1, <3>2, OrdersAfterCall, EmptySeq
    <3>5. Orders = {h} \cup Orders'
      BY <3>4, FewElements
    <3>6. frame[server] \in Frames /\ playing' = playing /\ frame' = frame
      BY <1>1, <3>2 DEF TypeOK, view
    <3>7. h \notin Starts /\ (h \in Stops => ~playing[server]) /\ \A x \in Frames : h \in At(x) => x = frame[server]
      <4>1. CASE Seek(server) /\ h.frame = frame[server]
        <5>1. h.type = "seek"
          BY <4>1 DEF Seek, First
        <5>2. QED
          BY <4>1, <5>1 DEF Starts, Stops, At
      <4>2. CASE Stop(server) /\ ~playing[server]
        <5>1. h.type = "stop" /\ h \in Call
          BY <1>1, <2>1, <4>2 DEF Stop, First
        <5>2. h = Item("stop", None)
          BY <5>1, ThingsAre
        <5>3. QED
          BY <4>2, <5>2, BareThings, <5>1 DEF Starts
      <4>3. QED
        BY <3>2, <4>1, <4>2
    <3>8. Stands(Orders, m)
      BY <2>3, PassingIs
    <3> HIDE DEF h
    <3>9. QED
      BY <1>1, <2>1, <3>5, <3>6, <3>7, <3>8, StillStands
  <2>4. QED
    BY <2>1, <2>2, <2>3, PassingIsNext
<1>6. CASE Zoomed(server)
  <2>1. /\ net' = net /\ commands' = commands /\ playing' = playing /\ frame' = frame
        /\ calls[server] # <<>> /\ Then(server, <<>>) /\ Head(calls[server]).type = "zoom"
        /\ Head(calls[server]) \in Call
    BY <1>1, <1>6 DEF Zoomed, First, view, TypeOK
  <2> DEFINE h == Head(calls[server])
  <2>2. /\ Orders = {h} \cup Elements(Tail(calls[server])) \cup Elements(commands[server])
        /\ Orders' = Elements(<<>>) \cup Elements(Tail(calls[server])) \cup Elements(commands[server])
    BY <1>1, <2>1, OrdersAfterCall, EmptySeq
  <2>3. Orders = {h} \cup Orders'
    BY <2>2, FewElements
  <2>4. h = Item("zoom", None)
    BY <2>1, ThingsAre
  <2>5. h \notin Starts /\ h \notin Stops /\ \A x \in Frames : h \notin At(x)
    BY <2>1, <2>4, BareThings DEF Starts, Stops
  <2> HIDE DEF h
  <2>6. net[server].pc = "forward" => Stands(Orders, m)'
    BY <1>1, <2>1, <2>3, <2>5, PassingIs, StillStands
  <2>7. QED
    BY <2>1, <2>6, PassingIs, PassingIsNext
<1>7. CASE HandleCommand(server)
  <2> DEFINE h == Head(commands[server])
             t == Tail(commands[server])
  <2>1. /\ net' = net /\ playing' = playing /\ frame' = frame /\ ~Parsing(server)
        /\ calls[server] = <<>> /\ commands[server] # <<>> /\ commands[server] \in Seq(Command)
        /\ calls'[server] = CallsOf(h) /\ commands'[server] = t
    BY <1>1, <1>7 DEF HandleCommand, TakeCommand, view, TypeOK
  <2>2. h \in Command /\ Elements(commands[server]) = {h} \cup Elements(t)
    BY <2>1, HeadThenTail, ElementsOfTail
  <2>3. Orders = {h} \cup Elements(t) /\ Orders' = Elements(CallsOf(h)) \cup Elements(t)
    BY <2>1, <2>2, FewElements DEF Orders
  <2> HIDE DEF h, t
  <2>4. Covers(Elements(CallsOf(h)), h)
    BY <2>2, CallsCover
  <2>5. Covers(Orders', h)
    BY <2>3, <2>4 DEF Covers
  <2>6. net[server].pc = "forward" => Stands(Orders, m)'
    BY <1>1, <2>1, <2>3, <2>5, PassingIs, StillStands
  <2>7. QED
    BY <2>1, <2>6, PassingIsNext DEF Parsing
<1>8. CASE User(server)
  <2>1. /\ net' = net /\ commands' = commands /\ playing' = playing /\ frame' = frame
        /\ calls[server] = <<>>
    BY <1>8 DEF User, UserSeek, UserPlay, UserStop, UserFit, UserCalls, view
  <2>2. Orders \subseteq Orders'
    BY <2>1, FewElements DEF Orders
  <2>3. net[server].pc = "forward" => Stands(Orders, m)'
    BY <1>1, <2>1, <2>2, PassingIs, StillStands
  <2>4. QED
    BY <2>1, <2>3, PassingIs, PassingIsNext
<1>9. CASE Advance(server)
  <2>1. /\ net' = net /\ commands' = commands /\ playing' = playing /\ playing[server] /\ calls' = calls
    BY <1>9 DEF Advance, ui
  <2>2. Orders' = Orders
    BY <2>1 DEF Orders
  <2>3. QED
    BY <1>2, <2>1, <2>2
<1>10. CASE Network(server)
  <2>1. CASE \E w \in Viewers : Parse(server, w)
    <3>1. net'[server].pc = "parse"
      BY <1>1, <2>1 DEF Parse, TypeOK
    <3>2. QED
      BY <3>1, PassingIsNext
  <2>2. ASSUME Answer(server) \/ PushCommands(server)
        PROVE  /\ m \in Message /\ net[server].pc = "parse"
               /\ net'[server].pc = "parsed" /\ net'[server].msg = m
    <3>1. net[server].pc = "parse" /\ net' = [net EXCEPT ![server].pc = "parsed"]
      BY <2>2 DEF Answer, PushCommands
    <3>2. net[server] \in [pc : {"parse", "parsed", "forward"}, msg : Message, from : Viewers]
      BY <1>1, <3>1, Held
    <3>3. net'[server] = [net[server] EXCEPT !.pc = "parsed"]
      BY <1>1, <3>1 DEF TypeOK
    <3>4. QED
      BY <3>1, <3>2, <3>3
  <2>3. CASE Answer(server)
    <3>1. m \in Message /\ m.type = "sync_image"
      BY <2>2, <2>3 DEF Answer
    <3>2. m = Item("sync_image", None)
      BY <3>1, ThingsAre
    <3>3. m \notin Starts /\ m \notin Stops /\ \A x \in Frames : m \notin At(x)
      BY <3>1, <3>2, BareThings DEF Starts, Stops
    <3>4. QED
      BY <2>2, <2>3, <3>3, PassingIsNext DEF Covered
  <2>4. CASE PushCommands(server)
    <3> DEFINE n == CommandsOf(server, m)
    <3>1. m \in Message /\ m.type # "sync_image" /\ commands'[server] = commands[server] \o n
      BY <1>1, <2>2, <2>4 DEF PushCommands, TypeOK
    <3>2. Covers(Elements(n), m)
      BY <3>1, CommandsCover
    <3>3. n \in Seq(Command) /\ commands[server] \in Seq(Command)
      BY <1>1, <3>1, CommandsTyped DEF TypeOK
    <3> HIDE DEF n
    <3>4. Elements(commands'[server]) = Elements(commands[server]) \cup Elements(n)
      BY <3>1, <3>3, ElementsOfConcat
    <3>5. Covered(m, Elements(commands'[server]))
      BY <3>2, <3>4 DEF Covers, Covered
    <3>6. QED
      BY <2>2, <2>4, <3>5, PassingIsNext
  <2>5. CASE Parsed(server)
    <3>1. /\ net[server].pc = "parsed" /\ net'[server] = [net[server] EXCEPT !.pc = "forward"]
          /\ commands' = commands /\ calls' = calls /\ playing' = playing /\ frame' = frame
      BY <1>1, <2>5 DEF Parsed, TypeOK, ui, view
    <3>2. net[server] \in [pc : {"parse", "parsed", "forward"}, msg : Message, from : Viewers]
      BY <1>1, <3>1, Held
    <3>3. net'[server].pc = "forward" /\ net'[server].msg = m
      BY <3>1, <3>2
    <3>4. Covered(m, Elements(commands[server]))
      BY <3>1, PassingIs
    <3>5. Elements(commands[server]) \subseteq Orders'
      BY <3>1 DEF Orders
    <3>6. Stands(Orders, net[server].msg)'
      BY <3>3, <3>4, <3>5 DEF Covered, Stands
    <3>7. QED
      BY <3>3, <3>6, PassingIsNext
  <2>6. CASE Forward
    <3>1. net'[server] = Idle
      BY <1>1, <2>6 DEF Forward, TypeOK
    <3>2. QED
      BY <3>1, PassingIsNext DEF Idle
  <2>7. QED
    BY <1>10, <2>1, <2>3, <2>4, <2>5, <2>6 DEF Network
<1>11. ASSUME NEW c \in Clients, Connect(c) \/ Accept(c) PROVE StaysAs(server)
  BY <1>11 DEF Connect, Accept, StaysAs, view, ui
<1>12. CASE UNCHANGED vars
  <2>1. StaysAs(server)
    BY <1>12 DEF vars, view, ui, StaysAs
  <2>2. QED
    BY <1>3, <2>1
<1>13. ASSUME NEW v \in Viewers, Network(v) \/ Interface(v) \/ User(v) \/ Advance(v) PROVE Passing'
  <2>1. CASE v = server
    BY <1>5, <1>6, <1>7, <1>8, <1>9, <1>10, <1>13, <2>1 DEF Interface
  <2>2. CASE v # server
    BY <1>3, <1>4, <1>13, <2>2
  <2>3. QED
    BY <2>1, <2>2
<1>14. QED
  BY <1>3, <1>11, <1>12, <1>13 DEF Next

-----------------------------------------------------------------------------
(* All viewers agree in the end.                                           *)

\* Everything on the way agrees in the end.
Agreement ==
  /\ Passing /\ Wired /\ Waiting /\ StopsThenSeeks /\ ZoomsAlone /\ ServesInTurn
  /\ \A c \in accepted : WillAgree(c)

\* As long as no race was lost, whose step it may be.
AInv == IInv /\ Wired /\ StopsThenSeeks /\ ZoomsAlone /\ (races = {} => Agreement)

LEMMA InitAgrees == Init => AInv
<1> SUFFICES ASSUME Init PROVE AInv
  OBVIOUS
<1>1. IInv
  BY InitInv
<1>2. TypeOK
  BY <1>1 DEF IInv
<1>3. server \in Viewers /\ Clients \subseteq Viewers /\ 1 \in Frames
  BY SyncAssumption DEF Viewers, Frames
<1>4. Wired /\ Passing
  BY <1>3 DEF Init, Wired, Passing, Idle
<1>5. StopsThenSeeks /\ ZoomsAlone /\ ServesInTurn
  BY DEF Init, StopsThenSeeks, ZoomsAlone, ServesInTurn
<1>6. Waiting
  BY DEF Init, Waiting
<1>7. ASSUME NEW c \in accepted PROVE WillAgree(c)
  <2>1. c \in Viewers
    BY <1>2, <1>3, <1>7 DEF TypeOK
  <2>2. Served(c) = <<>> /\ commands[c] = <<>> /\ Heard(c) = <<>> /\ link[<<server, c>>] = <<>>
    BY <1>3, <2>1 DEF Init, Served, Heard, Idle
  <2>3. Ahead(c) = <<>>
    BY <2>2 DEF Ahead
  <2>4. ~playing[c] /\ ~playing[server] /\ frame[c] = 1 /\ frame[server] = 1
    BY <1>3, <2>1 DEF Init
  <2>5. ~Plays(<<>>, FALSE) /\ Shows(<<>>, 1, 1)
    BY EmptySays DEF Plays, Shows
  <2>6. playing[c] = FALSE /\ playing[server] = FALSE
    BY <1>2, <1>3, <2>1, <2>4 DEF TypeOK
  <2>7. QED
    BY <2>3, <2>4, <2>5, <2>6 DEF WillAgree
<1>8. QED
  BY <1>1, <1>4, <1>5, <1>6, <1>7 DEF AInv, Agreement

\* A race is never forgotten.
LEMMA RacesStay == ASSUME [Next]_vars PROVE races \subseteq races'
<1>1. ASSUME NEW v, NEW m, Send(v, m) PROVE races \subseteq races'
  BY <1>1 DEF Send
<1>2. ASSUME NEW v \in Viewers, Network(v) PROVE races \subseteq races'
  BY <1>2 DEF Network, Parse, Answer, PushCommands, Parsed, Forward
<1>3. ASSUME NEW v \in Viewers, Interface(v) PROVE races \subseteq races'
  <2>1. CASE MakeCall(v)
    BY <1>1, <2>1 DEF MakeCall, Seek, Stop, Play
  <2>2. CASE Zoomed(v) \/ HandleCommand(v)
    BY <2>2 DEF Zoomed, HandleCommand, TakeCommand
  <2>3. QED
    BY <1>3, <2>1, <2>2 DEF Interface
<1>4. ASSUME NEW v \in Viewers, User(v) \/ Advance(v) PROVE races \subseteq races'
  BY <1>4 DEF User, UserSeek, UserPlay, UserStop, UserFit, UserCalls, Advance
<1>5. ASSUME NEW c \in Clients, Connect(c) \/ Accept(c) PROVE races \subseteq races'
  BY <1>5 DEF Connect, Accept
<1>6. CASE UNCHANGED vars
  BY <1>6 DEF vars
<1>7. QED
  BY <1>2, <1>3, <1>4, <1>5, <1>6 DEF Next

LEMMA StepOfViewerAgrees ==
  ASSUME IInv, TypeOK', Agreement, races' = {}, NEW c \in accepted,
         NEW v \in Viewers, Network(v) \/ Interface(v) \/ User(v) \/ Advance(v)
  PROVE  WillAgree(c)'
<1>1. /\ TypeOK /\ OneOwner /\ Passing /\ Wired /\ StopsThenSeeks /\ ServesInTurn /\ WillAgree(c)
  BY DEF IInv, Agreement
<1>2. c \in Clients /\ server \notin Clients /\ Viewers = Clients \cup {server}
  BY <1>1, SyncAssumption DEF TypeOK, Viewers
<1>3. CASE v = server
  <2>1. CASE Network(server)
    BY <1>1, <2>1, ServerParses, ServerAnswers, ServerPushes, ServerParsed, ServerForwards DEF Network
  <2>2. CASE Interface(server)
    BY <1>1, <2>2, ServerMakesCall, ServerZooms, ServerHandlesCommand DEF Interface
  <2>3. CASE User(server) \/ Advance(server)
    BY <1>1, <2>3, ServerUser, ServerAdvances
  <2>4. QED
    BY <1>3, <2>1, <2>2, <2>3
<1>4. CASE v = c
  <2>1. CASE Network(c)
    BY <1>1, <1>2, <2>1, ClientParses, ClientAnswers, ClientPushes, ClientParsed DEF Network
  <2>2. CASE Interface(c)
    BY <1>1, <2>2, ClientCalls, ClientServes, ClientZooms, ClientHandles DEF Interface
  <2>3. CASE User(c) \/ Advance(c)
    BY <1>1, <2>3, ClientUser, ClientAdvances
  <2>4. QED
    BY <1>4, <2>1, <2>2, <2>3
<1>5. CASE v # server /\ v # c
  <2>1. v \in Clients \ {c}
    BY <1>2, <1>5
  <2>2. QED
    BY <1>1, <2>1, OtherClients
<1>6. QED
  BY <1>3, <1>4, <1>5

LEMMA StepAgrees == AInv /\ [Next]_vars => AInv'
<1> SUFFICES ASSUME AInv, [Next]_vars PROVE AInv'
  OBVIOUS
<1>1. IInv /\ Wired /\ StopsThenSeeks /\ ZoomsAlone /\ (races = {} => Agreement)
  BY DEF AInv
<1>2. IInv' /\ TypeOK'
  BY <1>1, StepInv DEF IInv
<1>3. Wired' /\ StopsThenSeeks' /\ ZoomsAlone'
  BY <1>1, KeepsWired, KeepsFit
<1>4. ASSUME races' = {} PROVE Agreement'
  <2>1. races = {}
    BY <1>4, RacesStay
  <2>2. Agreement
    BY <1>1, <2>1
  <2>3. Passing /\ Waiting /\ ServesInTurn /\ \A c \in accepted : WillAgree(c)
    BY <2>2 DEF Agreement
  <2>4. Passing' /\ Waiting' /\ ServesInTurn'
    BY <1>1, <1>4, <2>1, <2>3, KeepsPassing, KeepsWaiting, KeepsTurns
  <2>5. \A c \in accepted' : WillAgree(c)'
    <3>1. ASSUME NEW v \in Viewers, Network(v) \/ Interface(v) \/ User(v) \/ Advance(v)
          PROVE  \A c \in accepted' : WillAgree(c)'
      <4>1. accepted' = accepted
        BY <3>1 DEF Network, Parse, Answer, PushCommands, Parsed, Forward, Interface, MakeCall, Zoomed,
                    HandleCommand, TakeCommand, User, UserSeek, UserPlay, UserStop, UserFit, UserCalls, Advance, wire
      <4>2. QED
        BY <1>1, <1>2, <1>4, <2>2, <3>1, <4>1, StepOfViewerAgrees
    <3>2. ASSUME NEW d \in Clients, Connect(d) \/ Accept(d)
          PROVE  \A c \in accepted' : WillAgree(c)'
      BY <1>1, <1>4, <2>3, <3>2, ConnectionAgrees
    <3>3. CASE UNCHANGED vars
      <4>1. /\ accepted' = accepted /\ link' = link /\ commands' = commands /\ calls' = calls /\ serving' = serving
            /\ net' = net /\ playing' = playing /\ frame' = frame
        BY <3>3 DEF vars, view, ui, wire
      <4>2. ASSUME NEW c \in accepted PROVE WillAgree(c)'
        <5>1. StaysAs(c) /\ Said(c)' = Said(c) /\ c \in Clients /\ TypeOK
          BY <1>1, <4>1 DEF StaysAs, Said, Orders, Asked, IInv, TypeOK
        <5>2. QED
          BY <2>3, <4>1, <5>1, Unchanged
      <4>3. QED
        BY <4>1, <4>2
    <3>4. QED
      BY <3>1, <3>2, <3>3 DEF Next
  <2>6. QED
    BY <1>3, <2>4, <2>5 DEF Agreement
<1>5. QED
  BY <1>2, <1>3, <1>4 DEF AInv

\* When nothing is on the way what was to be in the end is.
LEMMA QuietAgrees == AInv => ViewersAgree
<1> SUFFICES ASSUME AInv, Quiet, races = {}, NEW c \in accepted
             PROVE  playing[c] = playing[server] /\ (~playing[c] => frame[c] = frame[server])
  BY DEF ViewersAgree
<1>1. TypeOK /\ WillAgree(c)
  BY DEF AInv, IInv, Agreement
<1>2. /\ c \in Viewers /\ server \in Viewers /\ playing[c] \in BOOLEAN /\ playing[server] \in BOOLEAN
      /\ <<server, c>> \in DOMAIN link /\ <<c, server>> \in DOMAIN link
  <2>1. c \in Clients
    BY <1>1 DEF TypeOK
  <2>2. c \in Viewers /\ server \in Viewers /\ playing[c] \in BOOLEAN /\ playing[server] \in BOOLEAN
    BY <1>1, <2>1, PartsTyped
  <2>3. DOMAIN link = Viewers \X Viewers
    BY <1>1 DEF TypeOK
  <2>4. QED
    BY <2>2, <2>3
<1>3. /\ commands[c] = <<>> /\ calls[c] = <<>> /\ net[c] = Idle /\ link[<<server, c>>] = <<>>
      /\ commands[server] = <<>> /\ calls[server] = <<>> /\ net[server] = Idle /\ link[<<c, server>>] = <<>>
  BY <1>2 DEF Quiet
<1>4. Ahead(c) = <<>>
  <2>1. Served(c) = <<>> /\ Heard(c) = <<>>
    BY <1>3 DEF Served, Heard, Idle
  <2>2. QED
    BY <1>3, <2>1 DEF Ahead
<1>5. Said(c) = {}
  BY <1>3, FewElements DEF Said, Orders, Asked, Idle
<1>6. PlayStands(c) /\ (~playing[server] => FrameStands(c))
  BY <1>5 DEF PlayStands, FrameStands
<1>7. /\ Plays(<<>>, playing[c]) <=> playing[c]
      /\ Shows(<<>>, frame[c], frame[server]) <=> frame[c] = frame[server]
  BY EmptySays DEF Plays, Shows
<1>8. QED
  BY <1>1, <1>2, <1>4, <1>6, <1>7 DEF WillAgree

\* Once all is quiet, and unless one of five races was lost, the clients play if the
\* server does and show its frame if not, whatever their users did and however many
\* they are.
THEOREM ViewersWillAgree == Spec => []ViewersAgree
  BY InitAgrees, StepAgrees, QuietAgrees, PTL DEF Spec
=============================================================================
