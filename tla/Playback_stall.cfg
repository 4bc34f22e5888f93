\* The video thread drops what the decode thread queued for the way back.
CONSTANTS
  First = 1
  Last = 3
  MarkIn = 1
  MarkOut = 3
  Loopings = {"PingPong"}
  Ahead = 4
  Plays = 1
  Stops = 0
  Seeks = 0
SPECIFICATION FairSpec
PROPERTIES SwingComesRound
\* The system may stop: the user need not go on.
CHECK_DEADLOCK FALSE
