SPECIFICATION FairSpec
CONSTANTS
  isMainTrack = FALSE
  preambleBits = 2
  ByteBits = 2
  MAX_PACKET_SIZE = 3
  Buffers <- MCOneBuffer
  Repeats = {2}
  ResetCap = 5
  AckResets = 1
  ResetMin = 2
  MinPulse = 2
  MaxPulse = 3
  PulseWrap = 8
  NoMail = NoMail
INVARIANTS
  ProgrammingNeverSpins
  CountedResetsWereHeard
PROPERTIES
  TimeoutAfterLastCopy
  ImplementsTrackPackets
