\* One worker is enough to lose the wakeup of stop().
SPECIFICATION FairSpec
CONSTANTS
  Workers = {w1, w2}
  Callers = {c1}
  Tasks = {t1}
  NoThread = NoThread
  NoTask = NoTask
PROPERTY
  StopReturns
CHECK_DEADLOCK FALSE
