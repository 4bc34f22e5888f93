\* Three clips, one of them a still: the user loads and takes out clips, moves and
\* picks them, seeks, steps and marks frames, and switches the edit list, five
\* times in any order.
CONSTANTS
  a = a
  b = b
  c = c
  None = None
  Clips <- ThreeClips
  FirstFrame <- Firsts
  LastFrame <- Lasts
  Files <- TwoFiles
  Strides = {1, 3}
  Commands = 5
SPECIFICATION Spec
INVARIANTS TypeOK InOrder ForegroundIsCurrent LocalAndGlobalAgree StepsComeBack
PROPERTIES LandsOnFrame SwitchKeepsFrame
\* The user has given all commands.
CHECK_DEADLOCK FALSE
