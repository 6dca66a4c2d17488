\* Three workers, so that a notified worker can be overtaken by one that has just
\* finished a task while the third sleeps; two callers, so that two notifications
\* can be outstanding at once; three tasks, so that the deque holds several.
SPECIFICATION FairSpec
CONSTANTS
  Workers = {w1, w2, w3}
  Callers = {c1, c2}
  Tasks = {t1, t2, t3}
  NoThread = NoThread
  NoTask = NoTask
INVARIANTS
  TypeOK
  MutexOwned
  DequeAsTested
  OnePlace
  NoLostWakeup
PROPERTIES
  ImplementsTaskPool
  TasksExecuted
  StopFromQuietPool
\* Once stop() has returned and every task was added, nothing is left to do.
CHECK_DEADLOCK FALSE
