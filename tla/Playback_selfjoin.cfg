\* The UI thread joins a thread that waits for commands_mutex, which it holds.
CONSTANTS
  First = 1
  Last = 3
  MarkIn = 1
  MarkOut = 3
  Loopings = {"Loop"}
  Ahead = 3
  Plays = 1
  Stops = 0
  Seeks = 0
SPECIFICATION FairSpec
INVARIANTS JoinsAll
\* The system may stop: the user need not go on.
CHECK_DEADLOCK FALSE
