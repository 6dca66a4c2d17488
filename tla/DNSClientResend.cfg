\* resend_attempts_ is the largest short, as the configuration file allows.
SPECIFICATION Spec
CONSTANTS
  Clients = {q1}
  ServerCounts = {2}
  ResendAttempts = 2
  ShortMax = 2
  StartRR = {0}
  Answers = {a}
  NoAnswer = NoAnswer
  NoServer = NoServer
INVARIANT
  AttemptsExact
CHECK_DEADLOCK FALSE
