-------------------------------- MODULE Reel --------------------------------
(***************************************************************************)
(* A reel of clips and the frame of the viewer: how the frames of the view *)
(* (the timeline of the clip, or of the whole reel when it is an edit list)*)
(* map to the frames of the clips, and what each command of the user makes *)
(* of both.  All of it runs in the UI thread, with the clips stopped; what *)
(* a clip makes of a seek is in modules Playback and Movie.                *)
(*                                                                         *)
(* The commands are chains of calls that read what the calls before them   *)
(* have left, so each of them is a function of the state, r.  One reel,    *)
(* without a background; a clip is opened once and keeps its frames.       *)
(***************************************************************************)
EXTENDS Integers, Sequences, SequencesExt, FiniteSetsExt

CONSTANTS
  Clips, None,
  FirstFrame, LastFrame,  \* first_frame() and last_frame() of each clip
  Files,                  \* the clips the viewer is started with
  Strides,                \* the steps of step_frame(): one frame, or a second
  Commands                \* bound: how many commands the user gives

ASSUME ReelAssumption ==
  /\ None \notin Clips
  /\ FirstFrame \in [Clips -> Nat \ {0}] /\ LastFrame \in [Clips -> Nat \ {0}]
  /\ \A m \in Clips : FirstFrame[m] <= LastFrame[m]
  /\ Files \in Seq(Clips) /\ IsInjective(Files)
  /\ Strides \subseteq Nat \ {0}
  /\ Commands \in Nat

VARIABLES
  reel,    \* the reel, its view and its timeline
  edited,  \* clips have been taken out, or moved, while the reel was open
  left     \* the commands the user may still give

vars == <<reel, edited, left>>

Nopts == 0  \* AV_NOPTS_VALUE, which is no frame of a timeline

Frames == Nat \ {0}

Timelines ==
  [min : Frames, max : Frames,                \* the range of the slider
   dmin : Frames, dmax : Frames,              \* the marks: _display_min, _display_max
   undoMin : Nat, undoMax : Nat,              \* the marks before them
   selection : BOOLEAN]                       \* uiPrefsTimelineSelectionDisplay

Reels ==
  [images : {s \in Seq(Clips) : IsInjective(s)},
   position : [Clips -> Frames],              \* _pos
   local : [Clips -> Int],                    \* CMedia::_frame
   edl : BOOLEAN,
   fg : Clips \cup {None},
   value : Nat,                               \* of the browser, from 1
   frame : Int,                               \* of the view
   timeline : Timelines,
   switching : BOOLEAN,                       \* Preferences::switching_images
   start : BOOLEAN, end : BOOLEAN]            \* the S and E buttons

\* The view shows one of the images, if there are any.
TypeOK ==
  /\ reel \in Reels
  /\ reel.fg \in (IF reel.images = <<>> THEN {None} ELSE Range(reel.images))
  /\ edited \in BOOLEAN
  /\ left \in 0..Commands

-----------------------------------------------------------------------------
\* Reel_t.

Duration(m) == LastFrame[m] - FirstFrame[m] + 1
End(r, m) == r.position[m] + Duration(m) - 1

\* index( f ) and media_at( f ).
IndexAt(r, f) ==
  LET at == {i \in DOMAIN r.images : f \in r.position[r.images[i]]..End(r, r.images[i])} IN
  IF r.images = <<>> \/ at = {} THEN 0
  ELSE IF f \notin r.position[Head(r.images)]..End(r, Last(r.images)) THEN 0
  ELSE Min(at)

MediaAt(r, f) == IF IndexAt(r, f) = 0 THEN None ELSE r.images[IndexAt(r, f)]

IndexOf(r, m) == IF m \in Range(r.images) THEN CHOOSE i \in DOMAIN r.images : r.images[i] = m ELSE 0

\* The frame each clip starts at when the clips follow each other: offset(), and
\* one more.
Starts(images) ==
  LET start[i \in DOMAIN images] == IF i = 1 THEN 1 ELSE start[i - 1] + Duration(images[i - 1])
  IN  start

\* Mutant: offset() taken for location().
LocationFromZero(r, m) == Starts(r.images)[IndexOf(r, m)] - 1

Location(r, m) == Starts(r.images)[IndexOf(r, m)]

LocalToGlobal(r, f, m) == IF r.edl THEN f + Location(r, m) - FirstFrame[m] ELSE f

GlobalToLocal(r, f) ==
  LET at == {i \in DOMAIN r.images : f \in r.position[r.images[i]]..End(r, r.images[i])}
      m == r.images[Min(at)] IN
  IF ~r.edl THEN f
  ELSE IF at = {} THEN 0
  ELSE f - r.position[m] + FirstFrame[m]

-----------------------------------------------------------------------------
\* Timeline.

Minimum(r, x) ==
  LET y == Min({x, r.timeline.dmax}) IN
  [r EXCEPT !.timeline.min = y, !.timeline.dmin = y]

Maximum(r, x) ==
  LET y == Max({x, r.timeline.dmin}) IN
  [r EXCEPT !.timeline.max = y, !.timeline.dmax = y]

\* With the preference for the selection, a mark is the end of the slider, too.
MarkedMin(t, y) == [t EXCEPT !.dmin = y, !.min = IF t.selection THEN y ELSE t.min]
MarkedMax(t, y) == [t EXCEPT !.dmax = y, !.max = IF t.selection THEN y ELSE t.max]

DisplayMinimum(r, x) ==
  LET t == r.timeline
      y == Min({x, t.dmax}) IN
  IF y < t.min THEN r
  ELSE [r EXCEPT !.timeline = [MarkedMin(t, y) EXCEPT !.undoMin = t.dmin]]

DisplayMaximum(r, x) ==
  LET t == r.timeline
      y == Max({x, t.dmin}) IN
  IF y > t.max THEN r
  ELSE [r EXCEPT !.timeline = [MarkedMax(t, y) EXCEPT !.undoMax = t.dmax]]

UndoDisplayMinimum(r) ==
  LET t == r.timeline IN
  IF t.undoMin = Nopts THEN r
  ELSE [r EXCEPT !.timeline = [MarkedMin(t, t.undoMin) EXCEPT !.undoMin = Nopts]]

UndoDisplayMaximum(r) ==
  LET t == r.timeline IN
  IF t.undoMax = Nopts THEN r
  ELSE [r EXCEPT !.timeline = [MarkedMax(t, t.undoMax) EXCEPT !.undoMax = Nopts]]

-----------------------------------------------------------------------------
\* ImageBrowser: what the commands are made of.

\* CMedia::seek() of a clip that is stopped; a still has a single frame.
SeekImage(r, m, f) == [r EXCEPT !.local[m] = IF FirstFrame[m] = LastFrame[m] THEN FirstFrame[m] ELSE f]

\* Mutant: a clip follows the one before it whatever its own length.
PositionsLoosely(r) ==
  LET position[i \in DOMAIN r.images] ==
        IF i = 1 THEN 1 ELSE Max({r.position[r.images[i]], position[i - 1] + 1})
  IN  position

\* In an edit list, the first clip is put at frame 1 and each clip after the one
\* before it, if it is not there already.
Positions(r) ==
  LET position[i \in DOMAIN r.images] ==
        IF i = 1 THEN 1
        ELSE Max({r.position[r.images[i]], position[i - 1] + Duration(r.images[i - 1])})
  IN  position

Placed(r) ==
  [r EXCEPT !.position = [m \in Clips |-> IF m \in Range(r.images) THEN Positions(r)[IndexOf(r, m)]
                                         ELSE r.position[m]]]

\* adjust_timeline(), and the range it gives to set_timeline().
Adjusted(r) ==
  IF r.images = <<>> THEN [r EXCEPT !.frame = 1]
  ELSE IF r.edl THEN Placed(r)
  ELSE IF r.fg = None THEN r
  ELSE LET f == IF r.switching THEN r.local[r.fg] ELSE r.frame IN
       [r EXCEPT !.frame = Max({FirstFrame[r.fg], Min({LastFrame[r.fg], f})})]

FirstOf(r) == IF r.images = <<>> \/ r.edl THEN 1 ELSE FirstFrame[r.fg]
LastOf(r) == IF r.images = <<>> THEN 50 ELSE IF r.edl THEN End(r, Last(r.images)) ELSE LastFrame[r.fg]

SetTimeline(r) == Maximum(Minimum(r, FirstOf(r)), LastOf(r))

Refreshed(r) == SetTimeline(Adjusted(r))

\* real_change_image() and change_image().
RealChangeImage(r, i) ==
  LET q == Refreshed([r EXCEPT !.value = i, !.fg = r.images[i]]) IN
  IF r.edl THEN q ELSE SeekImage(q, q.fg, FirstFrame[q.fg])

ChangeImage(r, i) ==
  IF i = 0 THEN [r EXCEPT !.fg = None]
  ELSE IF i = r.value THEN r
  ELSE RealChangeImage(r, i)

\* Mutant: the clip of the view is not looked for.
TreeOrderOnly(r, images) == [r EXCEPT !.images = images]

\* match_tree_order(), for a tree that shows these images.
MatchTreeOrder(r, images) ==
  LET q == [r EXCEPT !.images = images, !.value = 0] IN ChangeImage(q, IndexOf(q, q.fg))

\* A frame out of the marks is taken round, in seek().
Wrapped(r, f) ==
  IF f < r.timeline.dmin THEN r.timeline.dmax - r.timeline.dmin - f + 1
  ELSE IF f > r.timeline.dmax THEN r.timeline.dmin - r.timeline.dmax + f - 1
  ELSE f

\* seek(), in an edit list, with the view at the frame already.
SeekInList(r, f) ==
  LET m == MediaAt(r, f)
      g == Wrapped(r, f)
      n == MediaAt(r, g) IN
  IF m = None THEN r
  ELSE IF r.fg = None \/ m = r.fg THEN SeekImage(r, m, GlobalToLocal(r, g))
  ELSE IF n = None THEN r
  ELSE ChangeImage(SeekImage(r, n, GlobalToLocal(r, g)), IndexAt(r, g))

\* Mutant: the clip is not changed.
SoughtInClip(r, f) ==
  IF f = r.frame THEN r
  ELSE LET q == [r EXCEPT !.frame = f] IN
       IF q.fg = None THEN q
       ELSE IF q.edl THEN SeekImage(q, q.fg, f - q.position[q.fg] + FirstFrame[q.fg])
       ELSE SeekImage(q, q.fg, f)

\* seek().  The frame of the view is not sought again.
Sought(r, f) ==
  IF f = r.frame THEN r
  ELSE LET q == [r EXCEPT !.frame = f] IN
       IF q.edl THEN SeekInList(q, f)
       ELSE IF q.fg = None THEN q
       ELSE SeekImage(q, q.fg, f)

\* add(), of a new clip.
Added(r, m) ==
  LET q == MatchTreeOrder([r EXCEPT !.position[m] = 1, !.local[m] = FirstFrame[m]], Append(r.images, m)) IN
  Refreshed(IF Len(q.images) = 1 THEN ChangeImage(q, 1) ELSE q)

AddedAll(r, ms) ==
  LET added[i \in 0..Len(ms)] == IF i = 0 THEN r ELSE Added(added[i - 1], ms[i])
  IN  added[Len(ms)]

\* load(), of new clips.
Loaded(r, ms) ==
  LET all == AddedAll(r, ms)
      q == Refreshed(MatchTreeOrder(all, all.images))
      s == ChangeImage(q, IF r.images = <<>> THEN 1 ELSE Len(q.images)) IN
  IF q.images = <<>> THEN q
  ELSE [s EXCEPT !.frame = LocalToGlobal(s, FirstFrame[s.fg], s.fg)]

-----------------------------------------------------------------------------
\* The commands.

Empty ==
  [images |-> <<>>, position |-> [m \in Clips |-> 1], local |-> FirstFrame, edl |-> FALSE,
   fg |-> None, value |-> 0, frame |-> 1,
   timeline |-> [min |-> 1, max |-> 50, dmin |-> 1, dmax |-> 50, undoMin |-> Nopts, undoMax |-> Nopts,
                 selection |-> FALSE],
   start |-> FALSE, end |-> FALSE, switching |-> FALSE]

Init ==
  /\ \E switching, selection \in BOOLEAN :
       reel = Loaded([Empty EXCEPT !.switching = switching, !.timeline.selection = selection], Files)
  /\ edited = FALSE
  /\ left = Commands

Gives(r) == left > 0 /\ left' = left - 1 /\ reel' = r

Shown == Range(reel.images)

\* A file is opened, or dropped on the window.
Load ==
  \E m \in Clips \ Shown : Gives(Loaded(reel, <<m>>)) /\ UNCHANGED edited

\* insert(): the copy of a clip is put after it, or another viewer sends a clip.
Insert ==
  \E m \in Clips \ Shown, i \in 1..(Len(reel.images) + 1) :
    /\ reel.images # <<>>
    /\ Gives(Refreshed(MatchTreeOrder([reel EXCEPT !.position[m] = 1, !.local[m] = FirstFrame[m]],
                                      InsertAt(reel.images, i, m))))
    /\ UNCHANGED edited

\* remove(): the clip after it comes to the foreground, and its frame is sought
\* before the clips are put at their new positions.
Removed(r, i) ==
  LET images == RemoveAt(r.images, i)
      fg == IF images = <<>> THEN None ELSE images[Min({i, Len(images)})]
      q == [r EXCEPT !.images = images, !.fg = fg]
      s == Sought(q, IF fg = None THEN 1 ELSE LocalToGlobal(q, q.local[fg], fg)) IN
  Refreshed(MatchTreeOrder(s, s.images))

Take_out ==
  \E i \in DOMAIN reel.images : Gives(Removed(reel, i)) /\ edited' = TRUE

\* Mutant: one of the two is lost.
SwappedHalf(s, i, j) == [s EXCEPT ![j] = s[i]]

Swapped(s, i, j) == [s EXCEPT ![i] = s[j], ![j] = s[i]]

\* exchange(), which another viewer sends: the frame of the view is counted from
\* the frame of the clip, not from the first of the clip.
Exchanged(r, i, j) ==
  LET q == Refreshed(MatchTreeOrder([r EXCEPT !.fg = r.images[i]], Swapped(r.images, i, j))) IN
  IF q.edl THEN [q EXCEPT !.frame = q.local[q.fg] + Location(q, q.fg) - 1] ELSE q

Exchange ==
  \E i, j \in DOMAIN reel.images : i # j /\ Gives(Exchanged(reel, i, j)) /\ edited' = TRUE

\* mousePush() on a clip of the reel window.
Picked(r, m) ==
  LET q == [r EXCEPT !.fg = m]
      s == IF q.edl THEN Sought(q, LocalToGlobal(q, q.local[m], m)) ELSE q IN
  Refreshed(MatchTreeOrder(s, s.images))

Pick == \E m \in Shown : Gives(Picked(reel, m)) /\ UNCHANGED edited

\* mouseRelease() when the clip has been dragged to another place in the tree.
Dragged(r, i) ==
  LET q == MatchTreeOrder(r, InsertAt(RemoveAt(r.images, IndexOf(r, r.fg)), i, r.fg)) IN
  IF q.value = r.value THEN q ELSE Refreshed(q)

Drag ==
  \E i \in DOMAIN reel.images :
    /\ reel.fg # None
    /\ Gives(Dragged(reel, i))
    /\ edited' = TRUE

\* last_image(), and the change of image another viewer sends.
Change == \E i \in DOMAIN reel.images : Gives(ChangeImage(reel, i)) /\ UNCHANGED edited

\* next_image() and previous_image(), for the clip they go to.
Turned(r, i) == Refreshed([r EXCEPT !.value = i, !.fg = r.images[i]])
Neighbour(r, i) ==
  IF i \notin DOMAIN r.images THEN r
  ELSE LET q == Turned(r, i) IN
       IF q.edl THEN Sought(q, q.position[q.fg]) ELSE q

\* next_image_limited() and previous_image_limited(): in an edit list, the view is
\* limited to the clip.
Limited(r, i) ==
  IF i \notin DOMAIN r.images THEN r
  ELSE LET q == Turned(r, i)
           s == DisplayMaximum(DisplayMinimum(q, q.position[q.fg]), End(q, q.fg)) IN
       IF q.edl THEN Sought(s, q.position[q.fg]) ELSE Sought(q, FirstFrame[q.fg])

Next_image == Gives(Neighbour(reel, reel.value + 1)) /\ UNCHANGED edited
Previous_image == Gives(Neighbour(reel, reel.value - 1)) /\ UNCHANGED edited
Next_limited == Gives(Limited(reel, reel.value + 1)) /\ UNCHANGED edited
Previous_limited == Gives(Limited(reel, reel.value - 1)) /\ UNCHANGED edited

\* Mutant: a step past the end goes round to the second frame.
SteppedTooFar(r, n, loop) ==
  LET f == r.frame + n IN
  IF n > 0 /\ f > r.timeline.dmax THEN (IF loop THEN r.timeline.dmin + f - r.timeline.dmax ELSE r.timeline.dmax)
  ELSE IF n < 0 /\ f < r.timeline.dmin
       THEN (IF loop THEN r.timeline.dmax - (r.timeline.dmin - r.frame + n) - 1 ELSE r.timeline.dmin)
  ELSE f

\* step_frame(), which goes round when the view loops.
Stepped(r, n, loop) ==
  LET f == r.frame + n
      start == r.timeline.dmin
      end == r.timeline.dmax IN
  IF n > 0 /\ f > end THEN (IF loop THEN start + f - end - 1 ELSE end)
  ELSE IF n < 0 /\ f < start THEN (IF loop THEN end - (start - r.frame + n) - 1 ELSE start)
  ELSE f

Step ==
  \E n \in Strides \cup {-n : n \in Strides}, loop \in BOOLEAN :
    Gives(Sought(reel, Stepped(reel, n, loop))) /\ UNCHANGED edited

\* first_frame() and last_frame(): in an edit list, of the clip, or of the clip
\* beside it when the view is there already.  The frame of the view is set first,
\* and seek() does not seek the frame of the view.
Go_first ==
  LET r == reel
      f == IF r.edl THEN r.position[r.fg] ELSE FirstFrame[r.fg] IN
  /\ r.fg # None
  /\ IF r.edl /\ r.frame = f THEN Gives(Neighbour(r, r.value - 1))
     ELSE Gives(Sought(IF r.edl THEN [r EXCEPT !.frame = f] ELSE r, Max({f, r.timeline.dmin})))
  /\ UNCHANGED edited

Go_last ==
  LET r == reel
      f == IF r.edl THEN End(r, r.fg) ELSE LastFrame[r.fg] IN
  /\ r.fg # None
  /\ IF r.edl /\ r.frame = f THEN Gives(Neighbour(r, r.value + 1))
     ELSE Gives(Sought(IF r.edl THEN [r EXCEPT !.frame = f] ELSE r, Min({f, r.timeline.dmax})))
  /\ UNCHANGED edited

First_timeline == Gives(Sought(reel, reel.timeline.min)) /\ UNCHANGED edited
Last_timeline == Gives(Sought(reel, reel.timeline.max)) /\ UNCHANGED edited

\* A frame is picked on the timeline.  A mark that is taken back may be one of
\* another clip, and turn the slider round.
Seek ==
  LET t == reel.timeline IN
  \E f \in (t.min..t.max) \cup (t.max..t.min) : Gives(Sought(reel, f)) /\ UNCHANGED edited

\* Mutant: the images are ordered before the reel is an edit list.
Set_edl_late ==
  LET q == Refreshed([MatchTreeOrder(reel, reel.images) EXCEPT !.edl = TRUE]) IN
  /\ ~reel.edl
  /\ Gives(IF q.fg = None THEN q ELSE [q EXCEPT !.frame = LocalToGlobal(q, q.local[q.fg], q.fg)])
  /\ UNCHANGED edited

\* set_edl() and clear_edl().  What Timeline::edl() makes of the timeline is made
\* again by the refresh.
Set_edl ==
  LET q == Refreshed(MatchTreeOrder([reel EXCEPT !.edl = TRUE], reel.images)) IN
  /\ ~reel.edl
  /\ Gives(IF q.fg = None THEN q ELSE [q EXCEPT !.frame = LocalToGlobal(q, q.local[q.fg], q.fg)])
  /\ UNCHANGED edited

Clear_edl ==
  LET q == [reel EXCEPT !.edl = FALSE] IN
  /\ reel.edl
  /\ Gives(IF q.fg = None THEN q ELSE Refreshed([q EXCEPT !.frame = q.local[q.fg]]))
  /\ UNCHANGED edited

\* The S and E buttons mark the frame of the view as the first, or the last, of
\* the view, and take the mark back.
Mark_start ==
  /\ Gives([IF reel.start THEN UndoDisplayMinimum(reel) ELSE DisplayMinimum(reel, reel.frame)
             EXCEPT !.start = ~reel.start])
  /\ UNCHANGED edited

Mark_end ==
  /\ Gives([IF reel.end THEN UndoDisplayMaximum(reel) ELSE DisplayMaximum(reel, reel.frame)
             EXCEPT !.end = ~reel.end])
  /\ UNCHANGED edited

\* The clip has been played for a while, and stopped at a frame of its own.
Played ==
  /\ reel.fg # None
  /\ \E f \in FirstFrame[reel.fg]..LastFrame[reel.fg] :
       Gives([reel EXCEPT !.local[reel.fg] = f, !.frame = LocalToGlobal(reel, f, reel.fg)])
  /\ UNCHANGED edited

Next ==
  \/ Load \/ Insert \/ Take_out \/ Exchange \/ Pick \/ Drag \/ Change
  \/ Next_image \/ Previous_image \/ Next_limited \/ Previous_limited
  \/ Step \/ Go_first \/ Go_last \/ First_timeline \/ Last_timeline \/ Seek
  \/ Set_edl \/ Clear_edl \/ Mark_start \/ Mark_end \/ Played

Spec == Init /\ [][Next]_vars

-----------------------------------------------------------------------------
\* In an edit list no two clips overlap and the first one starts at frame 1,
\* whatever was loaded, taken out, moved or marked before (adjust_timeline(),
\* set_timeline()).  The timeline goes from there to the end of the last one, or,
\* with the preference for the selection, from mark to mark.
InOrder ==
  LET r == reel IN
  r.edl /\ r.images # <<>> =>
    /\ r.position[Head(r.images)] = 1
    /\ \A i \in 2..Len(r.images) : End(r, r.images[i - 1]) < r.position[r.images[i]]
    /\ IF r.timeline.selection
       THEN r.timeline.min = r.timeline.dmin /\ r.timeline.max = r.timeline.dmax
       ELSE r.timeline.min = 1 /\ r.timeline.max = End(r, Last(r.images))

\* The browser and the view agree on the current clip after every command: both
\* keep it for themselves, and the clips before it come and go.
ForegroundIsCurrent == reel.value = IndexOf(reel, reel.fg)

\* local_to_global() counts the frames of the clips before, global_to_local() and
\* media_at() look for the position that was given to the clip: the one undoes the
\* other for every frame of every clip, as long as no clip has been taken out or
\* moved, which may leave a gap that only the second of them knows.
LocalAndGlobalAgree ==
  reel.edl /\ ~edited =>
    \A m \in Shown : \A f \in FirstFrame[m]..LastFrame[m] :
      /\ MediaAt(reel, LocalToGlobal(reel, f, m)) = m
      /\ GlobalToLocal(reel, LocalToGlobal(reel, f, m)) = f

Shows(r) == r.fg # None /\ r.frame = r.local[r.fg] - FirstFrame[r.fg] + r.position[r.fg]

Moves == Seek \/ Step \/ First_timeline \/ Last_timeline \/ Next_image \/ Previous_image
         \/ Next_limited \/ Previous_limited

\* A seek, a step or a change of clip that moves the view to a frame of a clip, in
\* an edit list, leaves this clip in the foreground at this frame.
LandsOnFrame ==
  [][/\ reel.edl /\ reel'.frame # reel.frame
     /\ reel'.frame \in reel.timeline.dmin..reel.timeline.dmax
     /\ MediaAt(reel, reel'.frame) # None
     /\ Moves
     => Shows(reel')]_vars

OnAFrame(r) == r.fg # None /\ r.local[r.fg] \in FirstFrame[r.fg]..LastFrame[r.fg]

\* Making a reel an edit list, and a reel of it again, keeps the clip and its frame,
\* if the view is at one, and the view goes to the place this frame has there.
SwitchKeepsFrame ==
  [][OnAFrame(reel) /\ ((~edited /\ Set_edl) \/ Clear_edl) =>
       /\ reel'.fg = reel.fg /\ reel'.local = reel.local
       /\ IF reel'.edl THEN Shows(reel') ELSE reel'.frame = reel.local[reel.fg]]_vars

\* Stepping a frame on in a view that loops, and back, returns to the same frame,
\* and leaves the view at no frame out of its marks.
StepsComeBack ==
  LET r == reel
      At(f) == [r EXCEPT !.frame = f]
      view == r.timeline.dmin..r.timeline.dmax IN
  \A f \in view :
    LET on == Stepped(At(f), 1, TRUE)
        back == Stepped(At(f), -1, TRUE) IN
    /\ on \in view /\ Stepped(At(on), -1, TRUE) = f
    /\ back \in view /\ Stepped(At(back), 1, TRUE) = f
=============================================================================
