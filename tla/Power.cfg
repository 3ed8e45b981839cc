SPECIFICATION FairPowerSpec
CONSTANTS
  POWER_SAMPLE_ON_WAIT = 1
  POWER_SAMPLE_OFF_WAIT = 1
  POWER_SAMPLE_OVERLOAD_WAIT = 1
  GoodEnough = 1
  UInt = 4
INVARIANTS
  NoUnwantedPower
  JoinedTracksInPhase
PROPERTIES
  OverloadIsCutAndRetried
