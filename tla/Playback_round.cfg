\* A clip that loops or swings, with a memory that is full three frames ahead: the
\* user plays it twice, in either direction, and stops it at any time.
CONSTANTS
  First = 1
  Last = 3
  MarkIn = 1
  MarkOut = 3
  Loopings = {"Loop", "PingPong"}
  Ahead = 3
  Plays = 2
  Stops = 1
  Seeks = 0
SPECIFICATION FairSpec
INVARIANTS MarkersOfThisPass
PROPERTIES PassEndsAfterLastFrame NoFrameSkipped ComesRound ReadAheadGoesOn
\* The user need not play it, and a join may time out.
CHECK_DEADLOCK FALSE
