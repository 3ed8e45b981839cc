SPECIFICATION FairSpec
CONSTANTS
  isMainTrack = TRUE
  preambleBits = 2
  ByteBits = 2
  MAX_PACKET_SIZE = 3
  Buffers <- MCBuffers
  Repeats = {0, 2}
  ResetCap = 3
  AckResets = 1
  ResetMin = 2
  MinPulse = 1
  MaxPulse = 2
  PulseWrap = 4
  NoMail = NoMail
INVARIANTS
  TypeOK
  WriterExcludesReader
  WaitingPacketHasNoResets
  BalancedBits
PROPERTIES
  PendingIsStable
  ScheduleReturns
  EveryPacketIsHeard
