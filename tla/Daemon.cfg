\* Two workers, so that one can sleep while the other serves; three datagrams, so
\* that one can be queued behind two running ones when the signal arrives;
\* a second SIGTERM after the first was handled.
SPECIFICATION FairSpec
CONSTANTS
  Workers = {w1, w2}
  Main = Main
  Tasks = {d1, d2, d3}
  MaxSignals = 2
  NoThread = NoThread
  NoTask = NoTask
INVARIANTS
  TypeOK
  ServesOnOpenSocket
  DeletedAfterJoin
  NothingCutOff
  OneOwner
  OneLateDatagram
PROPERTIES
  ShutdownFromRecvfrom
  EndsWithNextDatagram
\* The process ends.
CHECK_DEADLOCK FALSE
