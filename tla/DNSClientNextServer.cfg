\* Two clients and two servers: each client asks twice.
SPECIFICATION FairSpec
CONSTANTS
  Clients = {q1, q2}
  ServerCounts = {2}
  ResendAttempts = 1
  ShortMax = 32767
  StartRR = {0}
  Answers = {a}
  NoAnswer = NoAnswer
  NoServer = NoServer
INVARIANT
  NextServerOnRetry
CHECK_DEADLOCK FALSE
