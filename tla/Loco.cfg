SPECIFICATION FairSpec
CONSTANTS
  MAX_LOCOS = 2
  Cabs <- MCCabs
  Listening = {3}
  Speeds = {1, 9}
  Functions = {9}
  NoPacket = NoPacket
  MaxCommands = 3
  MaxLosses = 1
INVARIANTS
  TypeOK
  OneSlotPerLoco
  BroadcastStopHolds
PROPERTIES
  LocosObey
CHECK_DEADLOCK FALSE
