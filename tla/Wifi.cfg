SPECIFICATION FairSpec
CONSTANTS
  Clients = {0, 1}
  Kinds = {"jmri", "withrottle", "http"}
  MAX_WIFI_BUFFER = 3
  ReplyLengths = {1, 2}
  MaxFifo = 1
  MaxRestarts = 1
INVARIANTS
  ExecutesWholeRequests
  RepliesGoToTheAsker
PROPERTIES
  ListensAgain
