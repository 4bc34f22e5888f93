\* The wakeup that stop() may lose.
CONSTANTS
  video = video
  audio = audio
  Queues = {video, audio}
  NotifyOrder <- MCNotifyOrder
  SeekOrder <- MCSeekOrder
  Storing = {}
  MaxPackets = 1
SPECIFICATION FairSpec
PROPERTIES StopEndsEveryWait
CHECK_DEADLOCK FALSE
