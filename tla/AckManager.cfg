SPECIFICATION FairSpec
CONSTANTS
  Callers = {parser}
  Requests <- MCRequests
  Memories <- MCMemories
  NoQuestion = NoQuestion
INVARIANTS
  TypeOK
  CallbackIsAwaited
PROPERTIES
  ResultIsTrueOrFailure
  FailureNeedsALostAnswer
