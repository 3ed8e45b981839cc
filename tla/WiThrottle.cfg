SPECIFICATION FairSpec
CONSTANTS
  Clients = {0, 1}
  Cabs = {3, 4}
  Letters = {"0"}
  MAX_MY_LOCO = 2
  Speeds = {0, 9}
  Timeout = 1
  MaxMessages = 4
INVARIANTS
  TypeOK
  NoRunaway
  RememberedIsTold
PROPERTIES
  VanishedClientsLocosStop
CHECK_DEADLOCK FALSE
