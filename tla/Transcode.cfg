SPECIFICATION FairSpec
CONSTANTS
  MaxPackets = 4
  SrcCap = 2
  PacketQueue = 1
  FrameCap = 2
  FrameQueue = 1
  OutCap = 2
CHECK_DEADLOCK FALSE
INVARIANTS
  FlowKept
PROPERTIES
  EofPasses
