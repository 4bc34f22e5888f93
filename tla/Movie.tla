------------------------------- MODULE Movie -------------------------------
(***************************************************************************)
(* The packets of a movie with picture and sound: how aviImage's decode    *)
(* thread reads them from the file into the two packet queues, by seeks    *)
(* and one by one, how the video and the audio thread take them from there *)
(* into their stores, and how a stopped movie is scrubbed and stepped.     *)
(*                                                                         *)
(* The file is a sequence of packets, one for each frame of a stream.  The *)
(* decoder of the picture gives an image back when Delay more packets have *)
(* been sent to it.  A thread that works on a queue has its mutex: nobody  *)
(* else touches the queue meanwhile.  The movie does not loop.  What is    *)
(* said in module Playback is not said again: the loop barrier is the one  *)
(* step EndPass, and view->playback() follows the playback of the movie.   *)
(*                                                                         *)
(* Two things are left out.  The marker of a loop that turns at the end    *)
(* drops the packets from past the end of the clip: a File whose sound     *)
(* goes on after its picture would lose them there.  And a packet of a     *)
(* preroll whose samples are stored already is decoded once more into the  *)
(* buffer that the next samples are taken from: which samples those are    *)
(* then is followed forwards only.                                         *)
(***************************************************************************)
EXTENDS Integers, Sequences, Functions, FiniteSetsExt

CONSTANTS
  File,       \* the packets, in the order av_read_frame() gives them
  Delay,      \* _frame_offset: how many packets the decoder is behind
  MinFrames,  \* kMIN_FRAMES
  MaxVideo,   \* max_video_frames()
  MaxAudio,   \* max_audio_frames()
  Plays, Scrubs, Asks  \* bounds on what the user does, and on both together

Frames(stream) == {File[i].frame : i \in {j \in DOMAIN File : File[j].stream = stream}}

FrameIn == 1
FrameOut == Max(Frames("video"))
Clip == FrameIn..FrameOut

ASSUME MovieAssumption ==
  /\ File \in Seq([stream : {"video", "audio"}, frame : Nat \ {0}, key : BOOLEAN])
  /\ \E i \in DOMAIN File : File[i] = [stream |-> "video", frame |-> FrameIn, key |-> TRUE]
  /\ FrameOut \in Nat \ {0} /\ Frames("video") = FrameIn..FrameOut
  /\ \A i, j \in DOMAIN File :   \* av_read_frame() gives them by their dts
       i < j /\ File[i].stream = "video" /\ File[j].stream = "video" => File[i].frame < File[j].frame
  /\ Delay \in Nat /\ MinFrames \in Nat /\ MaxVideo \in Nat \ {0} /\ MaxAudio \in Nat \ {0}
  /\ Plays \in Nat /\ Scrubs \in Nat /\ Asks \in Nat

kForwards == 1
kBackwards == -1
kStopped == 0

Threads == {"decode", "video", "audio"}

VARIABLES
  pos,       \* how much of the file has been read
  vq, aq,    \* _video_packets, _audio_packets
  playback,  \* CMedia::_playback
  frame,     \* CMedia::_frame
  dts, adts, expected,   \* _dts, _adts, _expected
  asked,     \* what queue_packets() is reading: its locals
  decoder,   \* _video_ctx: the frames it holds, and whether it was drained
  images,    \* _images, in the order they were stored in
  audio,     \* _audio, likewise
  audioFrame, \* _audio_frame
  hires,     \* the frame of the image that is shown
  pc, at,    \* where each thread is, and its local frame
  scrubbing, \* the UI thread decodes, of a movie that is stopped
  left,      \* the plays and scrubs the user may still ask for
  sought     \* history: the next frame shown is one that was sought in the file

\* What is queued: packets of the frames of a stream and the marks of a seek, or the
\* markers of a loop, which are out of the clip.
Begin == {"seek", "preroll"}
Coded == {"packet", "null"}
Items(frames) ==
  [kind : {"flush", "seekEnd"} \cup Begin \cup Coded, frame : frames] \cup
  [kind : {"loopStart", "loopEnd"}, frame : {FrameIn - 2, FrameIn - 1, FrameOut + 1, FrameOut + 2}]

VideoPlaces == {"none", "top", "decode", "show", "gate", "exited"}
AudioPlaces == {"none", "top", "decode", "sound", "gate", "exited"}
DecodePlaces == {"none", "top", "read", "gate", "exited"}

TypeOK ==
  /\ pos \in 0..Len(File)
  /\ vq \in Seq(Items(Clip)) /\ aq \in Seq(Items(Nat))
  /\ playback \in {kForwards, kBackwards, kStopped}
  /\ frame \in Clip /\ hires \in Clip /\ dts \in Clip
  /\ adts \in Int /\ expected \in Int /\ audioFrame \in Int
  /\ asked \in [frame : Clip, dts : Int, video : BOOLEAN, audio : BOOLEAN]
  /\ decoder \in [held : Seq(Clip), drained : BOOLEAN]
  /\ images \in Seq(Clip) /\ audio \in Seq(Nat)
  /\ pc \in [Threads -> VideoPlaces \cup AudioPlaces \cup DecodePlaces]
  /\ pc["decode"] \in DecodePlaces /\ pc["video"] \in VideoPlaces /\ pc["audio"] \in AudioPlaces
  /\ at \in [Threads -> Int]
  /\ scrubbing \in BOOLEAN /\ sought \in BOOLEAN
  /\ left \in [play : 0..Plays, scrub : 0..Scrubs, both : 0..Asks]

file == <<pos, dts, adts, expected>>
queues == <<vq, aq>>
picture == <<decoder, images, frame, hires>>
sound == <<audio, audioFrame>>
user == <<playback, scrubbing, left, sought>>
vars == <<file, queues, asked, picture, sound, pc, at, user>>

Item(kind, f) == [kind |-> kind, frame |-> f]

stopped == playback = kStopped
Goto(t, place) == pc' = [pc EXCEPT ![t] = place]

\* How many frames of sound are kept.
MaxSound == Max({MaxVideo, MaxAudio})

\* An impossible frame.
Never == -1000

\* Frames as far out of the clip as the audio thread is followed.
Slack == 3

\* op of the value of x (without it, TLC goes over x again at each of its uses).
Strictly(op(_), x) == CHOOSE y \in {op(v) : v \in {x}} : TRUE

\* The elements of s that are in S, in their order.
Kept(s, S) ==
  LET kept[i \in 0..Len(s)] ==
        IF i = 0 THEN <<>> ELSE IF s[i] \in S THEN Append(kept[i - 1], s[i]) ELSE kept[i - 1]
  IN kept[Len(s)]
Only(s, S) == Strictly(LAMBDA T : Kept(s, T), S)

-----------------------------------------------------------------------------
\* queue_packets(): r holds the place in the file, the queues and the locals.

Got(r) == r.video /\ r.audio
Nothing == [frame |-> FrameIn, dts |-> FrameIn, video |-> TRUE, audio |-> TRUE]

\* A packet is queued when playing backwards only if it is not past the frame.
Wanted(dir, pf, f) == dir = kBackwards => pf <= f

Marked(isSeek, f) == IF isSeek THEN <<Item("seekEnd", f)>> ELSE <<>>

ReadVideo(r, f, isSeek, dir, n) ==
  LET pf == n - Delay
      reached == ~r.video /\ pf >= f IN
  [r EXCEPT !.vq = @ \o (IF Wanted(dir, pf, f) THEN <<Item("packet", n)>> ELSE <<>>)
                     \o (IF reached THEN Marked(isSeek, f) ELSE <<>>),
            !.dts = IF dir = kBackwards THEN Min({@, pf}) ELSE Max({@, pf}),
            !.video = @ \/ reached,
            !.pos = @ + 1]

ReadAudio(r, f, isSeek, dir, n) ==
  LET pf == n - Delay
      reached == ~r.audio /\ pf >= f IN
  [r EXCEPT !.aq = @ \o (IF Wanted(dir, pf, f) THEN <<Item("packet", n)>> ELSE <<>>)
                     \o (IF reached THEN Marked(isSeek, f) ELSE <<>>),
            !.adts = pf,
            !.audio = @ \/ reached,
            !.pos = @ + 1]

\* At the end of the file, the picture gets the null packet that drains its
\* decoder.
ReadEof(r, f, isSeek) ==
  [r EXCEPT !.vq = IF r.video THEN @ ELSE Append(@, Item("null", f)) \o Marked(isSeek, f),
            !.aq = IF r.audio THEN @ ELSE @ \o Marked(isSeek, f),
            !.video = TRUE, !.audio = TRUE]

\* What the loop does with a packet, or with none.
Read(r, f, isSeek, dir) ==
  IF r.pos = Len(File) THEN ReadEof(r, f, isSeek)
  ELSE LET p == File[r.pos + 1] IN
       IF p.stream = "video" THEN ReadVideo(r, f, isSeek, dir, p.frame)
                             ELSE ReadAudio(r, f, isSeek, dir, p.frame)

\* The loop ends when it has got all.
Turn(r, f, isSeek, dir) == IF Got(r) THEN r ELSE Read(r, f, isSeek, dir)

\* All turns.
ReadAll(r, f, isSeek, dir) ==
  LET n == Len(File) - r.pos + 1
      turn[i \in 0..n] ==
        IF i = 0 THEN r
        ELSE Strictly(LAMBDA v : Turn(v, f, isSeek, dir), turn[i - 1])
  IN turn[n]

Clamp(f) == IF f > FrameOut THEN FrameOut ELSE IF f < FrameIn THEN FrameIn ELSE f

Reader(f) ==
  [pos |-> pos, vq |-> vq, aq |-> aq, dts |-> f, adts |-> adts, video |-> FALSE, audio |-> FALSE]

\* av_seek_frame() goes to the last key frame that is not past the timestamp:
\* that of frame f + 1, as the first frame has timestamp 0.
SeekPos(f) ==
  Max({i \in DOMAIN File : File[i].stream = "video" /\ File[i].key /\ File[i].frame <= f + 1}) - 1

\* Mutant: not clamped to the clip.
SeekDtsUnclamped(f, dir, d) == IF dir = kBackwards /\ d >= f THEN f - 1 ELSE d

\* What seek_to_position() makes of the frame that was read, for the next
\* packets backwards to be those before the key frame.
SeekDts(f, dir, d) ==
  LET smooth == IF d > FrameIn /\ d < FrameOut THEN d + Delay ELSE d IN
  IF dir = kBackwards
    THEN Clamp(IF smooth >= f THEN f - 1 ELSE smooth)
    ELSE d

\* Mutant: a seek that does not flush the decoders.
BeginsUnflushed(f, dir, seekReq) ==
  << Item(IF ~seekReq /\ dir = kBackwards THEN "preroll" ELSE "seek", f) >>

\* What a seek puts in front of the packets.
Begins(f, dir, seekReq) ==
  << Item("flush", f), Item(IF ~seekReq /\ dir = kBackwards THEN "preroll" ELSE "seek", f) >>

\* The frame that was read is set.
Redated(r, d) == [r EXCEPT !.dts = d, !.adts = d]

\* seek_to_position(), past the test for a frame that is in the stores.
SeekResult(r0, f, dir, seekReq) ==
  LET begin == Begins(f, dir, seekReq) IN
  Strictly(LAMBDA r : Redated(r, SeekDts(f, dir, Clamp(r.dts))),
           ReadAll([r0 EXCEPT !.pos = SeekPos(f), !.vq = @ \o begin, !.aq = @ \o begin],
                   f, TRUE, dir))

Commit(r, next) ==
  /\ pos' = r.pos /\ vq' = r.vq /\ aq' = r.aq
  /\ dts' = r.dts /\ adts' = r.adts /\ expected' = next

-----------------------------------------------------------------------------
\* The decode thread.

VideoFree == pc["video"] # "decode"
AudioFree == pc["audio"] # "decode"

\* The way out of the three threads: what holds them does so no more when the
\* movie is stopped.
Exit(t) ==
  /\ pc[t] \in {"top", "gate"}
  /\ stopped
  /\ Goto(t, "exited")
  /\ UNCHANGED <<file, queues, asked, picture, sound, at, user>>

\* Mutant: no markers.
LoopMarkersForgotten == <<>>

LoopMarkers ==
  IF at["decode"] + playback > FrameOut
    THEN <<Item("loopEnd", FrameOut + 1), Item("loopEnd", FrameOut + 2)>>
    ELSE <<Item("loopStart", FrameIn - 1), Item("loopStart", FrameIn - 2)>>

\* check_decode_loop(), for a frame that is out of the clip.
DecodeLoop ==
  /\ pc["decode"] = "top" /\ ~stopped
  /\ at["decode"] + playback \notin Clip
  /\ VideoFree /\ AudioFree
  /\ vq' = vq \o LoopMarkers
  /\ aq' = aq \o LoopMarkers
  /\ Goto("decode", "gate")
  /\ UNCHANGED <<file, asked, picture, sound, at, user>>

Full == Len(aq) > MinFrames /\ Len(vq) > MinFrames

\* frame( frame += step ), unless the queues are full, and fetch(): a seek, all
\* at once, as it has the mutexes, or the first of the packets.
Request ==
  /\ pc["decode"] = "top" /\ ~stopped
  /\ at["decode"] + playback \in Clip
  /\ ~Full
  /\ LET f == at["decode"] + playback IN
       IF f # expected
         THEN /\ VideoFree /\ AudioFree
              /\ UNCHANGED <<asked, pc>>
              /\ \E r \in {SeekResult(Reader(f), f, playback, FALSE)} : Commit(r, r.dts + 1)
              /\ at' = [at EXCEPT !["decode"] = dts']
         ELSE /\ asked' = [frame |-> f, dts |-> f, video |-> FALSE, audio |-> FALSE]
              /\ Goto("decode", "read")
              /\ UNCHANGED <<file, queues, at>>
  /\ UNCHANGED <<picture, sound, user>>

\* queue_packets(), one packet at a time.
ReadPacket ==
  /\ pc["decode"] = "read"
  /\ ~Got(asked)
  /\ VideoFree /\ AudioFree
  /\ UNCHANGED <<dts, expected, picture, sound, pc, at, user>>
  /\ \E r \in {Read([pos |-> pos, vq |-> vq, aq |-> aq, dts |-> asked.dts,
                      adts |-> adts, video |-> asked.video, audio |-> asked.audio],
                     asked.frame, FALSE, playback)} :
       /\ pos' = r.pos /\ vq' = r.vq /\ aq' = r.aq /\ adts' = r.adts
       /\ asked' = [asked EXCEPT !.dts = r.dts, !.video = r.video, !.audio = r.audio]

\* Mutant: the frame that was read is expected again.
FetchedUnadvanced ==
  /\ pc["decode"] = "read"
  /\ Got(asked)
  /\ dts' = Clamp(asked.dts)
  /\ expected' = dts'
  /\ at' = [at EXCEPT !["decode"] = dts']
  /\ Goto("decode", "top")
  /\ asked' = Nothing
  /\ UNCHANGED <<pos, adts, queues, picture, sound, user>>

\* The rest of fetch(); frame = img->dts().
Fetched ==
  /\ pc["decode"] = "read"
  /\ Got(asked)
  /\ dts' = Clamp(asked.dts)
  /\ expected' = dts' + 1
  /\ at' = [at EXCEPT !["decode"] = dts']
  /\ Goto("decode", "top")
  /\ asked' = Nothing
  /\ UNCHANGED <<pos, adts, queues, picture, sound, user>>

-----------------------------------------------------------------------------
\* The video thread.

\* store_image(): an image takes the place of an older one of its frame.
Stored(store, f) == Append(Only(store, Range(store) \ {f}), f)
StoredAll(store, fs) ==
  LET done[i \in 0..Len(fs)] ==
        IF i = 0 THEN store ELSE Strictly(LAMBDA s : Stored(s, fs[i]), done[i - 1])
  IN done[Len(fs)]

\* decode_image(): d is the decoder and the images.
Send(d, item) ==
  IF d.drained THEN [d EXCEPT !.ok = FALSE]
  ELSE IF item.kind = "null"
    THEN [d EXCEPT !.images = StoredAll(@, d.held), !.held = <<>>, !.drained = TRUE,
                   !.ok = d.held # <<>>]
  ELSE LET held == Append(d.held, item.frame) IN
       IF Len(held) <= Delay
         THEN [d EXCEPT !.held = held, !.ok = FALSE]
         ELSE [d EXCEPT !.held = Tail(held), !.images = Stored(@, Head(held)), !.ok = TRUE]

Flushed == [held |-> <<>>, drained |-> FALSE]
Decoder == [held |-> decoder.held, drained |-> decoder.drained, images |-> images,
            ok |-> FALSE, got |-> FALSE]

Decoded(d) ==
  /\ decoder' = [held |-> d.held, drained |-> d.drained]
  /\ images' = d.images

InStore(store, f) == \E i \in DOMAIN store : store[i] = f

\* wait_image().
VideoTop ==
  /\ pc["video"] = "top" /\ ~stopped
  /\ vq # <<>>
  /\ Goto("video", "decode")
  /\ UNCHANGED <<file, queues, asked, picture, sound, at, user>>

\* Mutant: `>=` taken for `>` at the last frame.
AfterDecodeEarly ==
  IF scrubbing \/ at["video"] \in FrameIn..(FrameOut - 1) THEN "show" ELSE "gate"

\* After decode_video(): check_loop() has the last word.
AfterDecode ==
  IF scrubbing \/ at["video"] \in Clip THEN "show" ELSE "gate"

VideoFront(kind) == pc["video"] = "decode" /\ vq # <<>> /\ Head(vq).kind = kind

VideoEmpty ==
  /\ pc["video"] = "decode"
  /\ vq = <<>>
  /\ Goto("video", AfterDecode)
  /\ UNCHANGED <<file, queues, asked, picture, sound, at, user>>

VideoFlush ==
  /\ VideoFront("flush")
  /\ decoder' = Flushed
  /\ vq' = Tail(vq)
  /\ UNCHANGED <<file, aq, asked, images, frame, hires, sound, pc, at, user>>

\* The segment a seek or preroll packet begins, with neither of its ends.
SegmentLen(q) == Min({i \in DOMAIN q : q[i].kind = "seekEnd"} \cup {Len(q) + 1})
Segment(q) == SubSeq(q, 2, SegmentLen(q) - 1)
PastSegmentShort(q) == SubSeq(q, SegmentLen(q), Len(q))   \* mutant: the end is left
PastSegment(q) == SubSeq(q, SegmentLen(q) + 1, Len(q))

\* handle_video_packet_seek(): is the frame that was asked for decoded?
SegmentOk(d, item, f, backwards) ==
  LET e == Send(d, item) IN
  [e EXCEPT !.got = @ \/ (e.ok /\ (IF backwards THEN item.frame <= f ELSE item.frame >= f))]

SegmentDecoded(d, seg, f, backwards) ==
  LET done[i \in 0..Len(seg)] ==
        IF i = 0 THEN d ELSE Strictly(LAMBDA e : SegmentOk(e, seg[i], f, backwards), done[i - 1])
  IN done[Len(seg)]

HandleSegment(isSeek, leave) ==
  /\ vq' = PastSegment(vq)
  /\ UNCHANGED <<file, aq, asked, frame, hires, sound, at, user>>
  /\ \E d \in {SegmentDecoded(Decoder, Segment(vq), at["video"], ~isSeek /\ playback = kBackwards)} :
       /\ Decoded(d)
       /\ Goto("video", IF d.got \/ leave THEN AfterDecode ELSE "decode")

VideoSeek ==
  /\ VideoFront("seek")
  /\ HandleSegment(TRUE, FALSE)

StoreFull == playback = kBackwards /\ Len(images) > MaxVideo

VideoPreroll ==
  /\ VideoFront("preroll")
  /\ ~StoreFull
  /\ HandleSegment(FALSE, InStore(images, at["video"]))

\* The store is full: the preroll stays until more of it has been shown.
VideoPrerollLater ==
  /\ VideoFront("preroll")
  /\ StoreFull
  /\ Goto("video", AfterDecode)
  /\ UNCHANGED <<file, queues, asked, picture, sound, at, user>>

\* A loop marker stays until the frame it was put at is reached.
VideoMarker ==
  /\ pc["video"] = "decode" /\ vq # <<>>
  /\ Head(vq).kind \in {"loopStart", "loopEnd"}
  /\ vq' = IF (IF Head(vq).kind = "loopStart" THEN at["video"] > FrameIn ELSE at["video"] < FrameOut)
             THEN vq ELSE Tail(vq)
  /\ Goto("video", AfterDecode)
  /\ UNCHANGED <<file, aq, asked, picture, sound, at, user>>

\* "Avoid storing too many frames in advance": then the packet stays.
Ahead(item) == playback = kForwards /\ item.kind = "packet" /\ item.frame > frame + MaxVideo

VideoPacket ==
  /\ VideoFront("packet") \/ VideoFront("null")
  /\ vq' = IF Ahead(Head(vq)) THEN vq ELSE Tail(vq)
  /\ UNCHANGED <<file, aq, asked, frame, hires, sound, at, user>>
  /\ \E d \in {IF Ahead(Head(vq)) THEN [Decoder EXCEPT !.ok = TRUE] ELSE Send(Decoder, Head(vq))} :
       /\ Decoded(d)
       /\ Goto("video", IF d.ok THEN AfterDecode ELSE "decode")

\* Mutant: the first image of the store.
CandidatesAll(f) == Range(images)

\* find_image(): the first image that is not before the frame; playing
\* backwards, the first image after it.
Candidates(f) ==
  {i \in Range(images) : IF playback = kBackwards THEN i > f ELSE i >= f}

Found(f) ==
  IF Candidates(f) # {} THEN Min(Candidates(f))
  ELSE IF images # <<>> THEN Max(Range(images))
  ELSE hires

\* limit_video_store(): by age playing forwards, else by distance.
LimitedByAgeLate(store, n) ==   \* mutant: one too many
  IF Len(store) > n + 1 THEN SubSeq(store, Len(store) - n, Len(store)) ELSE store
LimitedByAge(store, n) ==
  IF Len(store) >= n THEN SubSeq(store, Len(store) - n + 2, Len(store)) ELSE store

Limited(f) ==
  IF images = <<>> THEN images
  ELSE IF playback = kForwards THEN LimitedByAge(images, MaxVideo)
  ELSE LET first == f - MaxVideo
           last == f + (IF playback = kBackwards THEN MaxVideo \div 2 ELSE MaxVideo)
           lo == IF playback = kBackwards /\ dts < first THEN dts ELSE first
           hi == IF playback = kBackwards /\ dts > last THEN dts ELSE last IN
       Only(images, lo..hi)

Show ==
  /\ pc["video"] = "show"
  /\ IF scrubbing
       THEN /\ Goto("video", "none")
            /\ scrubbing' = FALSE
            /\ UNCHANGED at
       ELSE /\ Goto("video", "top")
            /\ at' = [at EXCEPT !["video"] = @ + playback]
            /\ UNCHANGED scrubbing
  /\ sought' = FALSE
  /\ frame' = at["video"]
  /\ hires' = Found(at["video"])
  /\ images' = Limited(at["video"])
  /\ UNCHANGED <<file, queues, asked, decoder, sound, playback, left>>

-----------------------------------------------------------------------------
\* The audio thread.

\* wait_audio().
AudioTop ==
  /\ pc["audio"] = "top" /\ ~stopped
  /\ aq # <<>> \/ InStore(audio, frame)
  /\ Goto("audio", "decode")
  /\ UNCHANGED <<file, queues, asked, picture, sound, at, user>>

\* The next frame of the audio thread.  Nothing tells frames further out apart.
Drifted(f) == Max({FrameIn - Slack, Min({FrameOut + Slack, f + playback})})

\* What follows decode_audio(), by its status: check_loop(), or another frame.
AfterAudio(status) ==
  \/ /\ status = "missing"
     /\ Goto("audio", IF scrubbing THEN "sound" ELSE "top")
     /\ at' = IF scrubbing THEN at ELSE [at EXCEPT !["audio"] = Drifted(@)]
  \/ /\ status = "loop"
     /\ Goto("audio", IF scrubbing THEN "sound" ELSE "gate")
     /\ UNCHANGED at
  \/ /\ status = "ok"
     /\ Goto("audio", IF scrubbing \/ at["audio"] \in Clip THEN "sound" ELSE "gate")
     /\ UNCHANGED at

AudioFront(kind) == pc["audio"] = "decode" /\ aq # <<>> /\ Head(aq).kind = kind

Heard == InStore(audio, at["audio"])

AudioEmpty ==
  /\ pc["audio"] = "decode"
  /\ aq = <<>>
  /\ AfterAudio(IF Heard THEN "ok" ELSE "missing")
  /\ UNCHANGED <<file, queues, asked, picture, sound, user>>

AudioFlush ==
  /\ AudioFront("flush")
  /\ aq' = Tail(aq)
  /\ UNCHANGED <<file, vq, asked, picture, sound, pc, at, user>>

AudioMarker ==
  /\ pc["audio"] = "decode" /\ aq # <<>>
  /\ Head(aq).kind \in {"loopStart", "loopEnd"}
  /\ IF Heard /\ (IF Head(aq).kind = "loopStart" THEN at["audio"] >= FrameIn
                                                 ELSE at["audio"] <= FrameOut)
       THEN AfterAudio("ok") /\ UNCHANGED aq
       ELSE AfterAudio("loop") /\ aq' = Tail(aq)
  /\ UNCHANGED <<file, vq, asked, picture, sound, user>>

\* handle_audio_packet_seek(): a segment also ends at a loop marker.
AudioSegmentLen(q) ==
  Min({i \in DOMAIN q : q[i].kind \in {"seekEnd", "loopStart", "loopEnd"}} \cup {Len(q) + 1})

\* The frames of packets.
FramesOf(items) == [i \in DOMAIN items |-> items[i].frame]

\* It is done when packets follow, or, backwards, when it had the frame.
HandleAudio(store, isSeek) ==
  \E e \in {AudioSegmentLen(aq)} : \E fs \in {FramesOf(SubSeq(aq, 2, e - 1))} :
  \E fresh \in {Only(fs, Range(fs) \ Range(store))} :
    LET rest == SubSeq(aq, IF e <= Len(aq) /\ aq[e].kind = "seekEnd" THEN e + 1 ELSE e, Len(aq))
        got == playback = kBackwards /\ \E i \in DOMAIN fresh : fresh[i] <= at["audio"] IN
    /\ aq' = rest
    /\ audio' = StoredAll(store, fresh)
    /\ audioFrame' = IF e <= Len(aq) /\ fs # <<>> /\ isSeek THEN aq[e].frame ELSE audioFrame
    /\ AfterAudio(IF (Heard /\ ~isSeek) \/ rest # <<>> \/ (e <= Len(aq) /\ got)
                    THEN "ok" ELSE "missing")

\* The audio store is cleared when seeked.
AudioSeek ==
  /\ AudioFront("seek")
  /\ HandleAudio(<<>>, TRUE)
  /\ UNCHANGED <<file, vq, asked, picture, user>>

\* A preroll waits until the frames that have been prerolled are heard.
AudioLater ==
  \/ playback = kBackwards /\ Len(audio) > MaxAudio
  \/ Heard /\ Head(aq).frame < at["audio"]

AudioPreroll ==
  /\ AudioFront("preroll")
  /\ IF AudioLater THEN AfterAudio("ok") /\ UNCHANGED <<aq, sound>>
                   ELSE HandleAudio(audio, FALSE)
  /\ UNCHANGED <<file, vq, asked, picture, user>>

\* Mutant: the first packet will do.
AudioPacketAny ==
  /\ AudioFront("packet")
  /\ aq' = Tail(aq)
  /\ audio' = Stored(audio, Head(aq).frame)
  /\ AfterAudio("ok")
  /\ UNCHANGED <<file, vq, asked, picture, audioFrame, user>>

\* decode_audio( frame, pkt ): packets of earlier frames are stored on the way.
AudioPacket ==
  /\ AudioFront("packet")
  /\ aq' = Tail(aq)
  /\ audio' = Stored(audio, Head(aq).frame)
  /\ IF Head(aq).frame >= at["audio"] THEN AfterAudio("ok")
     ELSE IF Len(aq) = 1 THEN AfterAudio("missing")
     ELSE UNCHANGED <<pc, at>>
  /\ UNCHANGED <<file, vq, asked, picture, audioFrame, user>>

\* The first n elements of s, or all.
FirstOf(s, n) == {s[i] : i \in 1..Min({Len(s), n})}

\* limit_audio_store(): by age playing forwards, else by distance.
AudioByAge(f) ==
  LET old == Only(audio, {i \in Range(audio) : i + MaxSound < f}) IN
  Only(audio, Range(audio) \ Strictly(LAMBDA s : FirstOf(s, Max({0, Len(audio) - MaxSound})), old))

AudioInRange(f) ==
  LET first == f - MaxSound
      last == f + (IF playback = kBackwards THEN MaxSound \div 2 ELSE MaxSound) IN
  Only(audio, Min({first, adts})..Max({last, adts}))

\* find_audio().
Sound ==
  /\ pc["audio"] = "sound"
  /\ LET f == at["audio"]
         near == {i \in Range(audio) : i >= f} IN
       IF f = audioFrame \/ near = {} \/ (stopped /\ ~scrubbing)
         THEN UNCHANGED sound
         ELSE /\ audioFrame' = Min(near)
              /\ audio' = IF playback = kForwards THEN AudioByAge(f) ELSE AudioInRange(f)
  /\ IF scrubbing
       THEN pc' = [pc EXCEPT !["audio"] = "none", !["video"] = "decode"] /\ UNCHANGED at
       ELSE Goto("audio", "top") /\ at' = [at EXCEPT !["audio"] = @ + playback]
  /\ UNCHANGED <<file, queues, asked, picture, user>>

-----------------------------------------------------------------------------
\* The UI thread.

\* A clip that does not loop ends when the three threads have met at its end.
EndPass ==
  /\ \A t \in Threads : pc[t] = "gate"
  /\ ~stopped
  /\ vq' = <<>> /\ aq' = <<>>
  /\ playback' = kStopped
  /\ pc' = [t \in Threads |-> "exited"]
  /\ UNCHANGED <<file, asked, picture, sound, at, scrubbing, left, sought>>

\* stop(): it joins the threads and clears the packets.
Join ==
  /\ stopped
  /\ \A t \in Threads : pc[t] = "exited"
  /\ vq' = <<>> /\ aq' = <<>>
  /\ pc' = [t \in Threads |-> "none"]
  /\ at' = [t \in Threads |-> FrameIn]
  /\ UNCHANGED <<file, asked, picture, sound, user>>

Idle == \A t \in Threads : pc[t] = "none"
Spend(what) ==
  /\ left[what] > 0 /\ left.both > 0
  /\ left' = [left EXCEPT ![what] = @ - 1, !.both = @ - 1]

UserStop ==
  /\ ~stopped
  /\ playback' = kStopped
  /\ UNCHANGED <<file, queues, asked, picture, sound, pc, at, scrubbing, left, sought>>

\* play(): forwards, it seeks; backwards, it prerolls.
Play(dir) ==
  /\ Idle
  /\ Spend("play")
  /\ playback' = dir
  /\ \E r \in {SeekResult([Reader(frame) EXCEPT !.vq = <<>>, !.aq = <<>>], frame, dir,
                          dir = kForwards)} : Commit(r, r.dts + 1)
  /\ audioFrame' = frame
  /\ at' = [decode |-> dts', video |-> frame, audio |-> frame]
  /\ pc' = [t \in Threads |-> "top"]
  /\ sought' = TRUE
  /\ UNCHANGED <<asked, picture, audio, scrubbing>>

\* seek() of a movie that is stopped: do_seek(), and the frame is decoded by the
\* UI thread.  A frame that is in both stores is not looked for in the file.
Scrub(f) ==
  /\ Idle
  /\ Spend("scrub")
  /\ LET r0 == IF f # expected THEN [Reader(f) EXCEPT !.vq = <<>>, !.aq = <<>>] ELSE Reader(f)
         skip == InStore(images, f) /\ InStore(audio, f)
         plain == LET r == ReadAll(r0, f, FALSE, kStopped) IN [r EXCEPT !.dts = Clamp(@)] IN
       IF f # expected /\ ~skip
         THEN /\ LET r == SeekResult(r0, f, kStopped, TRUE) IN Commit(r, r.dts + 1)
              /\ UNCHANGED decoder
       ELSE IF f # expected
         THEN /\ Commit([plain EXCEPT !.adts = plain.dts], Never)
              /\ decoder' = Flushed
       ELSE Commit(plain, plain.dts + 1) /\ UNCHANGED decoder
  /\ at' = [at EXCEPT !["audio"] = f, !["video"] = f]
  /\ pc' = [pc EXCEPT !["audio"] = "decode"]
  /\ scrubbing' = TRUE
  /\ sought' = (f # expected /\ ~(InStore(images, f) /\ InStore(audio, f)))
  /\ UNCHANGED <<asked, images, frame, hires, sound, playback>>

-----------------------------------------------------------------------------
\* populate(): the movie is read until its decoder has given the first image and
\* the audio of that frame is queued.
Populate(r, i) ==
  LET p == File[i] IN
  IF Got(r) THEN r
  ELSE IF p.stream = "audio"
    THEN [r EXCEPT !.aq = Append(@, Item("packet", p.frame)), !.adts = p.frame - Delay,
                   !.audio = @ \/ p.frame - Delay >= FrameIn, !.pos = i]
  ELSE IF r.video THEN [r EXCEPT !.vq = Append(@, Item("packet", p.frame)), !.pos = i]
  ELSE LET d == Send(r.d, Item("packet", p.frame)) IN [r EXCEPT !.d = d, !.video = d.ok, !.pos = i]

Unopened ==
  [pos |-> 0, vq |-> <<>>, aq |-> <<>>, adts |-> FrameIn, video |-> FALSE, audio |-> FALSE,
   d |-> [held |-> <<>>, drained |-> FALSE, images |-> <<>>, ok |-> FALSE, got |-> FALSE]]

Opened ==
  LET r[i \in 0..Len(File)] ==
        IF i = 0 THEN Unopened ELSE Strictly(LAMBDA v : Populate(v, i), r[i - 1])
  IN r[Len(File)]

Init ==
  /\ pos = Opened.pos /\ vq = Opened.vq /\ aq = Opened.aq /\ adts = Opened.adts
  /\ dts = FrameIn /\ expected = FrameIn + 1
  /\ asked = Nothing
  /\ decoder = [held |-> Opened.d.held, drained |-> FALSE]
  /\ images = Opened.d.images /\ frame = FrameIn /\ hires = FrameIn
  /\ audio = <<>> /\ audioFrame = FrameIn
  /\ pc = [t \in Threads |-> "none"]
  /\ at = [t \in Threads |-> FrameIn]
  /\ playback = kStopped /\ scrubbing = FALSE /\ sought = FALSE
  /\ left = [play |-> Plays, scrub |-> Scrubs, both |-> Asks]

DecodeThread == DecodeLoop \/ Request \/ ReadPacket \/ Fetched \/ Exit("decode")

VideoThread ==
  \/ VideoTop \/ VideoEmpty \/ VideoFlush \/ VideoSeek \/ VideoPreroll \/ VideoPrerollLater
  \/ VideoMarker \/ VideoPacket \/ Show \/ Exit("video")

AudioThread ==
  \/ AudioTop \/ AudioEmpty \/ AudioFlush \/ AudioMarker \/ AudioSeek \/ AudioPreroll
  \/ AudioPacket \/ Sound \/ Exit("audio")

User ==
  \/ UserStop
  \/ \E dir \in {kForwards, kBackwards} : Play(dir)
  \/ \E f \in Clip : Scrub(f)

Next == DecodeThread \/ VideoThread \/ AudioThread \/ EndPass \/ Join \/ User

Spec == Init /\ [][Next]_vars

Fairness == SF_vars(DecodeThread) /\ WF_vars(VideoThread) /\ WF_vars(AudioThread)
            /\ WF_vars(EndPass \/ Join)
FairSpec == Spec /\ Fairness

-----------------------------------------------------------------------------
\* A seek or a preroll at i has its seek_end at j.
Segmented(q, i, j) ==
  /\ i < j /\ q[i].kind \in Begin /\ q[j].kind = "seekEnd"
  /\ \A k \in (i + 1)..(j - 1) : q[k].kind \in Coded

Closed(q) ==
  \A i \in DOMAIN q : /\ q[i].kind \in Begin => \E j \in DOMAIN q : Segmented(q, i, j)
                      /\ q[i].kind = "seekEnd" => \E j \in DOMAIN q : Segmented(q, j, i)

\* In both queues, what a seek or a preroll begins ends with a seek_end, with nothing
\* but packets in between, and no seek_end is left without its beginning: the
\* handlers go on to the first seek_end, and decode_audio() asserts that it never
\* meets one.
SegmentsAreClosed ==
  /\ Closed(vq) /\ Closed(aq)
  /\ ~VideoFront("seekEnd") /\ ~AudioFront("seekEnd")

\* Playing forwards, the packets of the picture are queued one after the other,
\* with none left out and none twice, from the seek of play() on: whatever the
\* decode thread reads ahead, _expected spares it the next seek.
PacketsInOrder ==
  playback = kForwards =>
    \A i, j \in DOMAIN vq :
      /\ i < j /\ vq[i].kind = "packet" /\ vq[j].kind = "packet"
      /\ \A k \in (i + 1)..(j - 1) : vq[k].kind # "packet"
      => vq[j].frame = vq[i].frame + 1

\* The three threads meet at the end of the clip only when its last frame has
\* been shown, far ahead as the decode thread and the audio thread may be.
PassEndsAtTheEnd ==
  (\A t \in Threads : pc[t] = "gate") /\ ~stopped =>
    frame = (IF playback = kForwards THEN FrameOut ELSE FrameIn)

\* Playing forwards, once the frame it began with has been shown, the store holds no
\* more images than it was told to, or, at the end, than that and what the decoder is
\* drained of.  (The seek of play() stores all that it decodes.)
ImagesBounded ==
  playback = kForwards /\ at["video"] # frame =>
    Len(images) <= MaxVideo - 1 + (IF Delay = 0 THEN 1 ELSE Delay)

KeyAt(f) == \E i \in DOMAIN File : File[i] = [stream |-> "video", frame |-> f, key |-> TRUE]

\* The image that is shown is the one of the frame.  Only the frame that was sought in
\* the file may have another, when it is the last one of its group: such a seek goes
\* to the key frame after it.
Shown == hires' = frame' \/ (sought /\ KeyAt(frame' + 1))

\* Playing forwards, every frame is shown, whether it is a key frame or has to be
\* decoded on from one, with a decoder that is behind and a store that drops images.
ShowsFrame ==
  [][ Show /\ playback = kForwards => Shown ]_vars

\* So it is when a movie is scrubbed, back or forth, frame by frame or not: a seek
\* into a group of pictures decodes it from its key frame on.  (A movie that was
\* stopped while packets were queued may show an older image.)
ScrubShowsFrame ==
  [][ Show /\ scrubbing /\ left["play"] = Plays => Shown ]_vars

\* Playing forwards, the samples that are heard are those of the frame.
SoundInStep ==
  [][ Sound /\ playback = kForwards => audioFrame' = at["audio"] ]_vars

\* A movie that is played comes to its end, or is stopped: the threads do not
\* wait for one another for ever, with full queues and full stores.
MovieEnds == ~stopped ~> stopped
=============================================================================
