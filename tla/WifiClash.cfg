SPECIFICATION PunctualSpec
CONSTANTS
  Clients = {0, 1}
  Kinds = {"http"}
  MAX_WIFI_BUFFER = 4
  ReplyLengths = {2}
  MaxFifo = 14
  MaxRestarts = 0
INVARIANTS
  NoPartOfAReplyAstray
