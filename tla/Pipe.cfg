SPECIFICATION FairSpec
CONSTANTS
  Outputs <- NetVideoAudio
  MaxPackets = 2
  BroadcastCap = 1
  QueueCap = 1
CHECK_DEADLOCK FALSE
INVARIANTS
  BarrierSound
  FramesIntact
PROPERTIES
  Unwinds
