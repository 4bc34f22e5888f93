\* A clip that plays once: the user plays it twice, in either direction, stops
\* it and seeks in it, at any time.
CONSTANTS
  First = 1
  Last = 3
  MarkIn = 1
  MarkOut = 3
  Loopings = {"NoLoop"}
  Ahead = 4
  Plays = 2
  Stops = 1
  Seeks = 1
SPECIFICATION FairSpec
INVARIANTS QuietWhenStopped SeekFindsItStopped
PROPERTIES ClipEnds
\* The clip ends, and the user need not play it again.
CHECK_DEADLOCK FALSE
