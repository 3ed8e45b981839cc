SPECIFICATION FairSpec
CONSTANTS
  MAX_BUFFER = 5
  MAX_PARAMS = 10
  Serial = "serial"
  Clients = {"c1", "c2"}
  NoClient = "none"
  MAX_SOCK_NUM = 1
  MAX_ETH_BUFFER = 6
  Lines <- MCLines
  Commands <- MCCommands
  MaxInputs = 3
INVARIANTS
  ExecutesWhatWasSent
PROPERTIES
  TakenIsAnswered
  SlotsAreFreed
CHECK_DEADLOCK FALSE
