\* The barrier between foreground and background: play() may resize it.
CONSTANTS
  decode = decode
  video = video
  audio = audio
  Threads = {decode, video, audio}
  Parties = 2
  Thresholds = {1, 2}
  UMax = 7
  MaxGeneration = 3
SYMMETRY Symmetry
SPECIFICATION Spec
INVARIANTS CountMeansMissing NoSleeperLeftBehind
CHECK_DEADLOCK FALSE
