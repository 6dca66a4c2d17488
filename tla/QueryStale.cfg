\* One resend is enough for a second answer to be under way.
SPECIFICATION FairSpec
CONSTANTS
  Queries = {q1}
  Requests <- OneRequest
  ServerCounts = {2}
  ResendAttempts = 1
  ShortMax = 32767
  StartRR = {0}
  NoAnswer = NoAnswer
  NoServer = NoServer
  NoReply = NoReply
INVARIANT
  AnswerMatchesQuery
CHECK_DEADLOCK FALSE
