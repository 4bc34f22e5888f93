\* A movie of two groups of three pictures, with a decoder that is one frame behind, and
\* with queues and stores that are full after two frames: the user asks twice for a
\* playback, in either direction, or for a frame, and stops the movie at any time.
CONSTANTS
  File <- TwoGroups
  Delay = 1
  MinFrames = 2
  MaxVideo = 2
  MaxAudio = 2
  Plays = 2
  Scrubs = 2
  Asks = 2
SPECIFICATION FairSpec
INVARIANTS TypeOK SegmentsAreClosed PacketsInOrder PassEndsAtTheEnd ImagesBounded
PROPERTIES ShowsFrame ScrubShowsFrame SoundInStep MovieEnds
\* The user may leave it stopped.
CHECK_DEADLOCK FALSE
