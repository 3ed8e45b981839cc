SPECIFICATION FairSpec
CONSTANTS
  Callers = {parser, sketch}
  Requests <- MCRequests
  Memories <- MCMemories
  NoQuestion = NoQuestion
  Reset = Reset
  Nothing = Nothing
  PROG_REPEATS = 1
  RESET_MIN = 2
  BaselineResets = 1
  PowerUpResets = 3
  WindowResets = 1
  ResetCap = 3
  PowerCommands = 2
INVARIANTS
  NoPowerLeftOn
  NoEarlierQuestionOnRails
PROPERTIES
  ImplementsAckManager
  EveryOperationEnds
