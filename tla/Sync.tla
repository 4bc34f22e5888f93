-------------------------------- MODULE Sync --------------------------------
(***************************************************************************)
(* Several viewers that show the same clip: a server and its clients       *)
(* (core/mrvServer.cpp, core/mrvClient.cpp), with the part of the view     *)
(* that sends what its user does and does what the others send             *)
(* (gui/mrvImageView.cpp, gui/mrvImageBrowser.cpp).                        *)
(*                                                                         *)
(* Each viewer has two threads.  The UI thread makes calls: those of the   *)
(* user, and those of the commands that timeout() takes from `commands`    *)
(* with commands_mutex held.  The network thread reads a message, makes    *)
(* commands of it with the same mutex held, and in the server passes it on *)
(* to the other clients.  network_active keeps what is done for others     *)
(* from being sent; it is one variable for both threads.                   *)
(*                                                                         *)
(* A connection is a queue in each direction, which is what Session shows  *)
(* of it.  Of what a view shows there is its frame, that of its image, and *)
(* whether it plays; of the messages those about these, and the sync_image *)
(* of a client that connects.  The clip is longer than what is played.     *)
(***************************************************************************)
EXTENDS Integers, FiniteSets, Sequences

CONSTANTS
  server,      \* the viewer that others connect to
  Clients,     \* the viewers that connect to it
  LastFrame,   \* the frames are 1..LastFrame
  Sessions     \* how much happens: how many seeks, plays, stops and fits the
               \* users do, who is connected at first, and who may connect

ASSUME SyncAssumption ==
  /\ server \notin Clients
  /\ LastFrame \in Nat \ {0}
  /\ Sessions \subseteq [seek : Nat, play : Nat, stop : Nat, fit : Nat,
                         first : SUBSET Clients, later : SUBSET Clients]

VARIABLES
  frame,           \* ImageView::_frame
  image,           \* the frame of the image in the foreground
  playing,         \* ImageView::_playback # kStopped
  network_active,  \* ImageView::_network_active
  saved,           \* old_network_active in handle_commands() or fit_image()
  commands,        \* ImageView::commands
  calls,           \* what is left to do of the call the UI thread is in
  serving,         \* the UI thread holds commands_mutex
  net,             \* what the network thread does
  link,            \* the messages on the way from one viewer to another
  connected,       \* the clients with a connection to the server
  accepted,        \* the server's _clients
  left,            \* what is left of the session
  races            \* history: which races were lost

view == <<frame, image, playing>>
ui == <<saved, calls, serving>>
wire == <<link, connected, accepted>>
vars == <<view, network_active, ui, commands, net, wire, left, races>>

Viewers == Clients \cup {server}
Frames == 1..LastFrame
None == 0
Item(type, f) == [type |-> type, frame |-> f]
Message == [type : {"seek", "stop"}, frame : Frames]
             \cup [type : {"playfwd", "sync_image"}, frame : {None}]
Command == [type : {"kSeek", "kStopVideo"}, frame : Frames]
             \cup [type : {"kPlayForwards"}, frame : Frames \cup {None}]
Call == [type : {"seek", "replay"}, frame : Frames]
          \cup [type : {"stop", "play", "zoom"}, frame : {None}]
Idle == [pc |-> "idle"]

Init ==
  /\ frame = [v \in Viewers |-> 1] /\ image = frame
  /\ playing = [v \in Viewers |-> FALSE]
  /\ network_active = [v \in Viewers |-> TRUE]
  /\ saved = network_active
  /\ commands = [v \in Viewers |-> <<>>]
  /\ calls = [v \in Viewers |-> <<>>]
  /\ serving = [v \in Viewers |-> FALSE]
  /\ net = [v \in Viewers |-> Idle]
  /\ link = [p \in Viewers \X Viewers |-> <<>>]
  /\ left \in Sessions
  /\ connected = left.first /\ accepted = left.first
  /\ races = {}

-----------------------------------------------------------------------------
(* Sending.                                                                *)

\* ImageView::_clients: the server's sessions, or a client's own connection.
Peers(v) == IF v = server THEN accepted ELSE IF v \in connected THEN {server} ELSE {}

\* Parser::write(): to all peers but the one the message came from.
Write(v, m, from) ==
  link' = [p \in DOMAIN link |->
             IF p[1] = v /\ p[2] \in Peers(v) \ from THEN Append(link[p], m) ELSE link[p]]

\* ImageView::send_network() by the UI thread of v.  What the user did is "muted" when
\* it is not sent; what the server sends between parsing a message and passing it on
\* "overtakes" it.
Send(v, m) ==
  /\ IF network_active[v] THEN Write(v, m, {}) ELSE UNCHANGED link
  /\ races' = races
       \cup (IF network_active[v] \/ serving[v] THEN {} ELSE {"muted"})
       \cup (IF v = server /\ net[server].pc = "forward" THEN {"overtook"} ELSE {})

-----------------------------------------------------------------------------
(* The calls of the UI thread.                                             *)

First(v, type) == calls[v] # <<>> /\ Head(calls[v]).type = type
Then(v, more) == calls' = [calls EXCEPT ![v] = more \o Tail(@)]

\* ImageBrowser::seek(): a view that plays is stopped, and plays on from f.
Seek(v) ==
  /\ First(v, "seek")
  /\ LET f == Head(calls[v]).frame IN
     \/ /\ f = frame[v]
        /\ Then(v, <<>>)
        /\ UNCHANGED <<view, link, races>>
     \/ /\ f # frame[v]
        /\ Send(v, Item("seek", f))
        /\ frame' = [frame EXCEPT ![v] = f]
        /\ image' = IF playing[v] THEN image ELSE [image EXCEPT ![v] = f]
        /\ Then(v, IF playing[v] THEN <<Item("stop", None), Item("replay", f)>> ELSE <<>>)
        /\ UNCHANGED playing

\* ImageView::stop().
Stop(v) ==
  /\ First(v, "stop")
  /\ Then(v, <<>>)
  /\ \/ ~playing[v] /\ UNCHANGED <<view, link, races>>
     \/ /\ playing[v]
        /\ frame' = [frame EXCEPT ![v] = image[v]]
        /\ playing' = [playing EXCEPT ![v] = FALSE]
        /\ Send(v, Item("stop", image[v]))
        /\ UNCHANGED image

\* ImageView::play(); in ImageBrowser::seek() after img->seek( f ).
Play(v) ==
  /\ First(v, "play") \/ First(v, "replay")
  /\ Then(v, <<>>)
  /\ Send(v, Item("playfwd", None))
  /\ image' = IF First(v, "play") THEN image ELSE [image EXCEPT ![v] = Head(calls[v]).frame]
  /\ playing' = [playing EXCEPT ![v] = TRUE]
  /\ UNCHANGED frame

\* After the last call of a command handle_commands() gives network_active its
\* old value, and timeout() the mutex back when there are no more commands.
MakeCall(v) ==
  /\ Seek(v) \/ Stop(v) \/ Play(v)
  /\ IF serving[v] /\ calls'[v] = <<>>
       THEN /\ network_active' = [network_active EXCEPT ![v] = saved[v]]
            /\ serving' = [serving EXCEPT ![v] = commands[v] # <<>>]
       ELSE UNCHANGED <<network_active, serving>>
  /\ UNCHANGED <<saved, commands, net, connected, accepted, left>>

\* The end of ImageView::fit_image().
Zoomed(v) ==
  /\ First(v, "zoom")
  /\ Then(v, <<>>)
  /\ network_active' = [network_active EXCEPT ![v] = saved[v]]
  /\ races' = races \cup (IF saved[v] THEN {} ELSE {"silenced"})
  /\ UNCHANGED <<view, saved, serving, commands, net, wire, left>>

\* What ImageView::handle_commands() calls for a command.
CallsOf(c) ==
  CASE c.type = "kSeek" -> <<Item("seek", c.frame)>>
    [] c.type = "kStopVideo" -> <<Item("stop", None), Item("seek", c.frame)>>
    [] c.type = "kPlayForwards" ->
         IF c.frame = None THEN <<Item("play", None)>>
                           ELSE <<Item("seek", c.frame), Item("play", None)>>

\* The network thread has commands_mutex.
Parsing(v) == net[v].pc \in {"parse", "parsed"}

\* handle_commands() takes the first command, with network_active as given.
TakeCommand(v, active) ==
  /\ calls[v] = <<>> /\ commands[v] # <<>>
  /\ serving' = [serving EXCEPT ![v] = TRUE]
  /\ saved' = [saved EXCEPT ![v] = network_active[v]]
  /\ network_active' = [network_active EXCEPT ![v] = active]
  /\ commands' = [commands EXCEPT ![v] = Tail(@)]
  /\ calls' = [calls EXCEPT ![v] = CallsOf(Head(commands[v]))]
  /\ UNCHANGED <<view, net, wire, left, races>>

\* Mutant: a client sends what it does for the others.
HandleCommandActive(v) == ~Parsing(v) /\ TakeCommand(v, network_active[v])

\* Mutant: the server does not send what it does for its clients either.
HandleCommandMuted(v) == ~Parsing(v) /\ TakeCommand(v, FALSE)

\* Mutant: timeout() does not take commands_mutex.
HandleCommandUnlocked(v) == TakeCommand(v, network_active[v] /\ v = server)

\* ImageView::timeout() takes commands_mutex, unless it has it, and handles a
\* command: a client with network_active off, the server as it is.
HandleCommand(v) == ~Parsing(v) /\ TakeCommand(v, network_active[v] /\ v = server)

-----------------------------------------------------------------------------
(* The network thread.                                                     *)

\* handle_read(), and Parser::parse() up to where it makes commands.
Parse(v, w) ==
  /\ net[v] = Idle /\ ~serving[v]
  /\ link[<<w, v>>] # <<>>
  /\ v = server => w \in accepted
  /\ net' = [net EXCEPT ![v] = [pc |-> "parse", msg |-> Head(link[<<w, v>>]), from |-> w]]
  /\ link' = [link EXCEPT ![<<w, v>>] = Tail(@)]
  /\ network_active' = [network_active EXCEPT ![v] = FALSE]
  /\ UNCHANGED <<view, ui, commands, connected, accepted, left, races>>

\* The commands that parse() makes of a message.
CommandsOf(v, m) ==
  CASE m.type = "seek" ->
         IF playing[v] THEN <<Item("kStopVideo", m.frame), Item("kSeek", m.frame),
                              Item("kPlayForwards", m.frame)>>
                       ELSE <<Item("kSeek", m.frame)>>
    [] m.type = "stop" -> <<Item("kStopVideo", m.frame)>>
    [] m.type = "playfwd" -> <<Item("kPlayForwards", None)>>

\* A sync_image is answered with the state of the view.
Answer(v) ==
  /\ net[v].pc = "parse" /\ net[v].msg.type = "sync_image"
  /\ link' = [link EXCEPT ![<<v, net[v].from>>] = Append(@, Item("seek", frame[v]))]
  /\ net' = [net EXCEPT ![v].pc = "parsed"]
  /\ UNCHANGED <<view, network_active, ui, commands, connected, accepted, left, races>>

\* The last of these commands that stops or plays is one that stops.
EndsStopped(s) ==
  /\ \E i \in DOMAIN s : s[i].type = "kStopVideo"
  /\ \A i \in DOMAIN s :
       s[i].type = "kPlayForwards" => \E j \in DOMAIN s : i < j /\ s[j].type = "kStopVideo"

\* Any other message makes commands.  Whether a seek makes one to play on depends on
\* whether the view plays now, which is "stale" when the commands that wait stop it.
PushCommands(v) ==
  /\ net[v].pc = "parse" /\ net[v].msg.type # "sync_image"
  /\ commands' = [commands EXCEPT ![v] = @ \o CommandsOf(v, net[v].msg)]
  /\ net' = [net EXCEPT ![v].pc = "parsed"]
  /\ races' = races
       \cup (IF v # server /\ net[v].msg.type = "seek" /\ playing[v] /\ EndsStopped(commands[v])
               THEN {"stale"} ELSE {})
  /\ UNCHANGED <<view, network_active, ui, wire, left>>

\* The end of parse().
Parsed(v) ==
  /\ net[v].pc = "parsed"
  /\ net' = [net EXCEPT ![v] = IF v = server THEN [@ EXCEPT !.pc = "forward"] ELSE Idle]
  /\ network_active' = [network_active EXCEPT ![v] = TRUE]
  /\ UNCHANGED <<view, ui, commands, wire, left, races>>

\* tcp_session::handle_read() passes the message on to the other clients.
Forward ==
  /\ net[server].pc = "forward"
  /\ Write(server, net[server].msg, {net[server].from})
  /\ net' = [net EXCEPT ![server] = Idle]
  /\ UNCHANGED <<view, network_active, ui, commands, connected, accepted, left, races>>

\* client::handle_connect().  The sync_image asks for a frame only: who played before
\* the connection stood was "late" to say so.
Connect(c) ==
  /\ c \in left.later \ connected
  /\ connected' = connected \cup {c}
  /\ link' = [link EXCEPT ![<<c, server>>] = Append(@, Item("sync_image", None))]
  /\ races' = races \cup (IF playing[c] THEN {"late"} ELSE {})
  /\ UNCHANGED <<view, network_active, ui, commands, net, accepted, left>>

\* server::handle_accept().
Accept(c) ==
  /\ net[server] = Idle
  /\ c \in connected \ accepted
  /\ accepted' = accepted \cup {c}
  /\ races' = races \cup (IF playing[server] THEN {"late"} ELSE {})
  /\ UNCHANGED <<view, network_active, ui, commands, net, link, connected, left>>

-----------------------------------------------------------------------------
(* The users, and the threads of a playback.                               *)

UserCalls(v, what, call) ==
  /\ calls[v] = <<>> /\ ~serving[v]
  /\ left[what] > 0 /\ left' = [left EXCEPT ![what] = @ - 1]
  /\ calls' = [calls EXCEPT ![v] = <<call>>]
  /\ UNCHANGED <<view, serving, commands, net, wire, races>>

UserSeek(v) ==
  /\ \E f \in Frames \ {frame[v]} : UserCalls(v, "seek", Item("seek", f))
  /\ UNCHANGED <<network_active, saved>>
UserPlay(v) ==
  /\ ~playing[v] /\ UserCalls(v, "play", Item("play", None))
  /\ UNCHANGED <<network_active, saved>>
UserStop(v) ==
  /\ playing[v] /\ UserCalls(v, "stop", Item("stop", None))
  /\ UNCHANGED <<network_active, saved>>

\* ImageView::fit_image(): the zoom it sets is not sent.  (That it tells the others to
\* fit their image, which changes nothing of the state here, is left out.)
UserFit(v) ==
  /\ UserCalls(v, "fit", Item("zoom", None))
  /\ saved' = [saved EXCEPT ![v] = network_active[v]]
  /\ network_active' = [network_active EXCEPT ![v] = FALSE]

\* Mutant: the video thread goes past the last frame.
AdvancePast(v) ==
  /\ playing[v]
  /\ image' = [image EXCEPT ![v] = @ + 1]
  /\ frame' = [frame EXCEPT ![v] = image[v] + 1]
  /\ UNCHANGED <<playing, network_active, ui, commands, net, wire, left, races>>

\* The video thread shows the next frame, of the image and in the view.
Advance(v) ==
  /\ playing[v] /\ image[v] < LastFrame
  /\ image' = [image EXCEPT ![v] = @ + 1]
  /\ frame' = [frame EXCEPT ![v] = image[v] + 1]
  /\ UNCHANGED <<playing, network_active, ui, commands, net, wire, left, races>>

Network(v) == (\E w \in Viewers : Parse(v, w)) \/ Answer(v) \/ PushCommands(v) \/ Parsed(v) \/ (v = server /\ Forward)
Interface(v) == MakeCall(v) \/ Zoomed(v) \/ HandleCommand(v)
User(v) == UserSeek(v) \/ UserPlay(v) \/ UserStop(v) \/ UserFit(v)

Next ==
  \/ \E v \in Viewers : Network(v) \/ Interface(v) \/ User(v) \/ Advance(v)
  \/ \E c \in Clients : Connect(c) \/ Accept(c)

Spec == Init /\ [][Next]_vars

\* The threads of a viewer go on, and the server accepts who connects.
FairSpec ==
  /\ Spec
  /\ \A v \in Viewers : WF_vars(Network(v)) /\ WF_vars(Interface(v))
  /\ \A c \in Clients : WF_vars(Accept(c))

-----------------------------------------------------------------------------
\* Type correctness: frames in the clip, messages and commands of the known kinds.
TypeOK ==
  /\ frame \in [Viewers -> Frames] /\ image \in [Viewers -> Frames]
  /\ playing \in [Viewers -> BOOLEAN]
  /\ network_active \in [Viewers -> BOOLEAN] /\ saved \in [Viewers -> BOOLEAN]
  /\ commands \in [Viewers -> Seq(Command)]
  /\ calls \in [Viewers -> Seq(Call)]
  /\ serving \in [Viewers -> BOOLEAN]
  /\ net \in [Viewers -> {Idle} \cup [pc : {"parse", "parsed", "forward"}, msg : Message, from : Viewers]]
  /\ link \in [Viewers \X Viewers -> Seq(Message)]
  /\ accepted \subseteq connected /\ connected \subseteq Clients
  /\ races \subseteq {"muted", "overtook", "silenced", "stale", "late"}

\* No message, command or call is under way.
Quiet ==
  /\ \A v \in Viewers : commands[v] = <<>> /\ calls[v] = <<>> /\ net[v] = Idle
  /\ \A p \in DOMAIN link : link[p] = <<>>

\* What the users do comes to an end: the server sends what it does for a client to
\* all of them, and none of them sends it back, so that no message goes round for ever.
MessagesEnd == <>[]Quiet

\* Once all is quiet the clients play if the server does, and show its frame if not,
\* however the calls of several users crossed: the server's order prevails.  It does
\* not after one of five races: what a user did while a message was parsed was not
\* sent; the server sent something between parsing a message and passing it on; a
\* viewer was silenced by fit_image(); a client that plays made commands of a seek
\* while others that stop it waited; or one of the two played before the connection.
ViewersAgree ==
  Quiet /\ races = {} =>
    \A c \in accepted :
      /\ playing[c] = playing[server]
      /\ ~playing[c] => frame[c] = frame[server]

\* A viewer that does nothing for others, and would not send what its user does.
Silent(v) == calls[v] = <<>> /\ ~Parsing(v) /\ ~network_active[v]
\* commands_mutex keeps handle_commands() from giving network_active back the value it
\* has while a message is parsed.  fit_image() does the same without that mutex; but for
\* it, a viewer in which nothing is under way sends what its user does.
NobodySilenced == "silenced" \notin races => \A v \in Viewers : ~Silent(v)
=============================================================================
