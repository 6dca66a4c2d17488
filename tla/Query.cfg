SPECIFICATION FairSpec
CONSTANTS
  Queries = {q1}
  Requests <- SomeRequests
  ServerCounts = {0, 2}
  ResendAttempts = 1
  ShortMax = 32767
  StartRR = {0}
  NoAnswer = NoAnswer
  NoServer = NoServer
  NoReply = NoReply
INVARIANTS
  TypeOK
  AnswersTheQuestionAsked
  NativeFirst
  ExpectedReply
PROPERTIES
  ImplementsDns64
  QueryEnds
CHECK_DEADLOCK FALSE
