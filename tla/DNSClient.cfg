\* Two clients share rr_; no server, two, or three, which do not divide 2^32; one
\* resend; rr_ starts two steps before it wraps, and two before it is 0 again.
SPECIFICATION FairSpec
CONSTANTS
  Clients = {q1, q2}
  ServerCounts = {0, 2, 3}
  ResendAttempts = 1
  ShortMax = 32767
  StartRR <- StartValues
  Answers = {a}
  NoAnswer = NoAnswer
  NoServer = NoServer
INVARIANTS
  TypeOK
  AttemptsExact
PROPERTIES
  InTurn
  SendQueryEnds
\* Every sendQuery() ends.
CHECK_DEADLOCK FALSE
