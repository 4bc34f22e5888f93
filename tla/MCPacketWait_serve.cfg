\* Picture and sound; the audio store may have a frame the queue does not.
CONSTANTS
  video = video
  audio = audio
  Queues = {video, audio}
  NotifyOrder <- MCNotifyOrder
  SeekOrder <- MCSeekOrder
  Storing = {audio}
  MaxPackets = 2
SPECIFICATION FairSpec
INVARIANTS NoMissedPacket
PROPERTIES WaitersAreServed StopWakesSleepers
