SPECIFICATION FairSpec
CONSTANTS
  Workers = {w1}
  Main = Main
  Tasks = {d1, d2}
  MaxSignals = 1
  NoThread = NoThread
  NoTask = NoTask
PROPERTY
  HandlerReturns
CHECK_DEADLOCK FALSE
