CONSTANTS
  Capacity = 21
  RtpModulus = 48
  PacketChunks = 2
  MaxPackets = 20
  Filled = 18
  recv = recv
  playback = playback
  rtsp = rtsp
  NoSlot = NoSlot
  Producers <- OneProducer
  Throttled <- OneProducer
  Consumers <- OneConsumer
  Flushers <- NoTasks

SPECIFICATION SteadySpec

INVARIANT ThrottledNeverLoses
PROPERTY Drains
