\* The loop barrier: three threads, three parties, never resized.
CONSTANTS
  decode = decode
  video = video
  audio = audio
  Threads = {decode, video, audio}
  Parties = 3
  Thresholds = {}
  UMax = 7
  MaxGeneration = 4
SPECIFICATION FairSpec
PROPERTIES Rendezvous EveryWaitReturns ImplementsGate
CHECK_DEADLOCK FALSE
