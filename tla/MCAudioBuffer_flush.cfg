CONSTANTS
  Capacity = 3
  RtpModulus = 6
  PacketChunks = 2
  MaxPackets = 3
  Filled = 0
  recv = recv
  playback = playback
  rtsp = rtsp
  NoSlot = NoSlot
  Producers <- OneProducer
  Throttled <- NoTasks
  Consumers <- OneConsumer
  Flushers <- AllFlushers

SPECIFICATION Spec

INVARIANT SlotOwnership
PROPERTY ImplementsQueue
