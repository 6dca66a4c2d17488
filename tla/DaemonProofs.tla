----------------------------- MODULE DaemonProofs -----------------------------
(***************************************************************************)
(* Theorems about Daemon, for any finite set of workers, any set of        *)
(* datagrams and any number of signals.                                    *)
(*                                                                         *)
(* What holds of the pool is taken from ThreadPoolProofs: each step of the *)
(* process is a step of the pool or leaves it alone (PoolStep), so the     *)
(* pool's invariant is kept, and what its actions do to the places of a    *)
(* task need not be argued again.  The process adds where the main thread  *)
(* can be while there is a pool, a socket, a datagram in its hands, and    *)
(* how far stop() is then.                                                 *)
(***************************************************************************)
EXTENDS Daemon, FiniteSetTheorems, TLAPS

P == INSTANCE ThreadPoolProofs WITH Callers <- {Main}

ProcessTypes ==
  /\ main \in MainPC
  /\ server \in {"none", "alive", "deleted"}
  /\ pool \in BOOLEAN
  /\ sock \in {"none", "open", "closed"}
  /\ received \subseteq Tasks
  /\ local \in Tasks \cup {NoTask}
  /\ signals \in 0 .. MaxSignals
  /\ late \subseteq received

AllExited == \A w \in Workers : worker[w] = "exit"

\* Where main receives and hands over datagrams.
Serving == {"test", "call", "recv", "eintr", "add", "adding"}

Starting == {"register", "construct", "configure", "listen", "spawn"}

Ended == {"gone", "crashed"}

Leaving == {"delete", "exit", "gone", "crashed"}

\* A datagram is in the hands of main until addTask() has it, or a second signal has taken
\* main out of the loop.
HandsOver ==
  /\ main = "add" => local \in Tasks
  /\ local # NoTask => main \in {"add"} \cup Leaving
  /\ local # NoTask /\ main # "add" /\ main # "crashed" => signals >= 2
  /\ caller[Main] # "idle" => main \in {"adding", "crashed"}

\* There is a pool as long as main serves, a server and a socket with it; main leaves the
\* loop, and the process ends with a pool, only when stop() has returned.
PoolThere ==
  /\ main \in Starting \cup {"exit"} => ~pool
  /\ main \in Serving \cup {"close"} => pool
  /\ pool => server = "alive"
  /\ main \in Serving \cup {"spawn"} => sock = "open"
  /\ main \in {"configure", "listen", "spawn"} => server = "alive"
  /\ pool /\ main \in {"close", "delete"} \cup Ended => stopper = "returned"

\* How far stop() is: a signal finds the pool, or ends the process.
Stopping ==
  /\ stopper = "returned" => AllExited
  /\ main = "eintr" => stopper # "idle"
  /\ signals > 0 /\ main \notin Ended => stopper # "idle"
  /\ stopper # "idle" => signals > 0

\* Without a pool there is nothing in one: it was not created, or is stopped.
NoPool ==
  ~pool /\ stopper # "returned" =>
    /\ stopper = "idle"
    /\ \A w \in Workers : worker[w] = "lock"
    /\ received = {}

Process == ProcessTypes /\ HandsOver /\ PoolThere /\ Stopping /\ NoPool

\* With the late datagram main is on its way out of the loop, and no worker is left.
LateLeaves ==
  late # {} => stopper = "returned" /\ main \notin Starting \cup {"call", "recv", "eintr"}

DInv == P!IInv /\ Process /\ OneOwner /\ LateLeaves /\ OneLateDatagram
-------------------------------------------------------------------------------
(* The pool *)

\* The assumptions of ThreadPoolProofs are those of the pool.
LEMMA PoolAssumptions == P!ThreadsAssumption /\ P!TasksAssumption
BY PoolAssumption
DEF P!ThreadsAssumption, P!TasksAssumption, Pool!ThreadsAssumption, Pool!TasksAssumption,
    P!IsFiniteSet, Pool!IsFiniteSet

LEMMA PoolInit == Pool!Init => P!IInv
BY PoolAssumptions, P!InitInv DEF Pool!Init, P!Init

\* Every step of the process is a step of the pool or leaves the pool alone.
LEMMA PoolStep == HandsOver /\ [Next]_vars => [Pool!Next]_(Pool!vars)
<1> SUFFICES ASSUME HandsOver, [Next]_vars PROVE [Pool!Next]_(Pool!vars)
  OBVIOUS
<1> USE DEF Pool!vars, poolVars
<1>1. ASSUME Sigterm PROVE [Pool!Next]_(Pool!vars)
  BY <1>1 DEF Sigterm, StopAsked, StopAgain, NothingToStop, Pool!Next
<1>2. ASSUME Handler PROVE [Pool!Next]_(Pool!vars)
  BY <1>2 DEF Handler, Pool!Next
<1>3. ASSUME CallAddTask PROVE [Pool!Next]_(Pool!vars)
  BY <1>3 DEF CallAddTask, At, HandsOver, Pool!Next
<1>4. ASSUME AddTask PROVE [Pool!Next]_(Pool!vars)
  BY <1>4 DEF AddTask, Pool!Next, Pool!CallerStep
<1>5. ASSUME Register \/ Construct \/ Configure \/ Delete \/ Exit \/ Listen \/ Spawn
             \/ TestStopped \/ CallRecvfrom \/ Interrupted \/ Close \/ ReceiveNothing
             \/ (\E d \in Tasks : Receive(d)) \/ UNCHANGED vars
      PROVE  UNCHANGED poolVars
  BY <1>5 DEF Register, Construct, Configure, Delete, Exit, Listen, Spawn, TestStopped,
              CallRecvfrom, Interrupted, Close, ReceiveNothing, Receive, vars
<1>6. ASSUME NEW w \in Workers, WorkerThread(w) \/ Pool!SpuriousWakeup(w)
      PROVE  [Pool!Next]_(Pool!vars)
  BY <1>6 DEF WorkerThread, Pool!Next
<1>7. QED
  BY <1>1, <1>2, <1>3, <1>4, <1>5, <1>6 DEF Next, MainStep

\* The two instances of ThreadPool are the same.
LEMMA SameSets ==
  /\ Pool!Queued = P!Queued /\ Pool!Running = P!Running /\ Pool!Pending = P!Pending
  /\ Pool!Queued' = P!Queued' /\ Pool!Running' = P!Running' /\ Pool!Pending' = P!Pending'
BY DEF Pool!Queued, P!Queued, Pool!Running, P!Running, Pool!Pending, P!Pending

LEMMA SameWorker ==
  ASSUME NEW w \in Workers
  PROVE  /\ Pool!Lock(w) <=> P!Lock(w)
         /\ Pool!Test(w) <=> P!Test(w)
         /\ Pool!Sleep(w) <=> P!Sleep(w)
         /\ Pool!SpuriousWakeup(w) <=> P!SpuriousWakeup(w)
         /\ Pool!Check(w) <=> P!Check(w)
         /\ Pool!Take(w) <=> P!Take(w)
         /\ Pool!Finish(w) <=> P!Finish(w)
<1> USE DEF Pool!Goto, P!Goto
<1>1. Pool!Lock(w) <=> P!Lock(w)
  BY DEF Pool!Lock, P!Lock
<1>2. Pool!Test(w) <=> P!Test(w)
  BY DEF Pool!Test, P!Test
<1>3. Pool!Sleep(w) <=> P!Sleep(w)
  BY DEF Pool!Sleep, P!Sleep
<1>4. Pool!SpuriousWakeup(w) <=> P!SpuriousWakeup(w)
  BY DEF Pool!SpuriousWakeup, P!SpuriousWakeup
<1>5. Pool!Check(w) <=> P!Check(w)
  BY DEF Pool!Check, P!Check
<1>6. Pool!Take(w) <=> P!Take(w)
  BY DEF Pool!Take, P!Take
<1>7. Pool!Finish(w) <=> P!Finish(w)
  BY DEF Pool!Finish, P!Finish
<1>8. QED
  BY <1>1, <1>2, <1>3, <1>4, <1>5, <1>6, <1>7

LEMMA SameMain ==
  /\ \A t \in Tasks : Pool!AddLock(Main, t) <=> P!AddLock(Main, t)
  /\ Pool!AddPush(Main) <=> P!AddPush(Main)
  /\ Pool!AddNotify(Main) <=> P!AddNotify(Main)
  /\ Pool!StopSet <=> P!StopSet
  /\ Pool!StopNotify <=> P!StopNotify
  /\ Pool!StopJoin <=> P!StopJoin
<1>1. ASSUME NEW t \in Tasks PROVE Pool!AddLock(Main, t) <=> P!AddLock(Main, t)
  BY SameSets DEF Pool!AddLock, P!AddLock
<1>2. Pool!AddPush(Main) <=> P!AddPush(Main)
  BY DEF Pool!AddPush, P!AddPush
<1>3. Pool!AddNotify(Main) <=> P!AddNotify(Main)
  <2> USE DEF Pool!Sleeping, P!Sleeping, Pool!Goto, P!Goto
  <2>1. Pool!NotifyOne <=> P!NotifyOne
    BY DEF Pool!NotifyOne, P!NotifyOne
  <2>2. QED
    BY <2>1 DEF Pool!AddNotify, P!AddNotify
<1>4. Pool!StopSet <=> P!StopSet
  BY DEF Pool!StopSet, P!StopSet
<1>5. Pool!StopNotify <=> P!StopNotify
  BY DEF Pool!StopNotify, P!StopNotify, Pool!NotifyAll, P!NotifyAll, Pool!Sleeping, P!Sleeping
<1>6. Pool!StopJoin <=> P!StopJoin
  BY DEF Pool!StopJoin, P!StopJoin
<1>7. QED
  BY <1>1, <1>2, <1>3, <1>4, <1>5, <1>6

\* So the pool's invariant is kept.
LEMMA PoolInvStep == P!IInv /\ HandsOver /\ [Next]_vars => P!IInv'
<1> SUFFICES ASSUME P!IInv, HandsOver, [Next]_vars PROVE P!IInv'
  OBVIOUS
<1>1. [Pool!Next]_(Pool!vars)
  BY PoolStep
<1>2. [P!Next]_(P!vars)
  BY <1>1, SameWorker, SameMain
  DEF Pool!Next, Pool!vars, Pool!WorkerStep, Pool!CallerStep, Pool!StopperStep,
      P!Next, P!vars, P!WorkerStep, P!CallerStep, P!StopperStep
<1>3. QED
  BY <1>2, PoolAssumptions, P!InvarianceStep
-------------------------------------------------------------------------------
(* The places of a task *)

Owned == Pool!Queued \cup Pool!Running \cup Pool!Pending \cup done

\* Only the call of addTask() brings a task into the pool; the pool passes it on, and does
\* not lose it.
LEMMA OwnedKept ==
  ASSUME P!IInv,
         \/ Pool!AddPush(Main) \/ Pool!AddNotify(Main) \/ Pool!StopSet \/ Pool!StopperStep
         \/ \E w \in Workers : Pool!WorkerStep(w) \/ Pool!SpuriousWakeup(w)
         \/ UNCHANGED poolVars
  PROVE  Owned' = Owned
<1> USE PoolAssumptions, SameSets DEF Owned
<1>1. CASE Pool!AddPush(Main)
  <2>1. P!AddPush(Main) /\ Main \in {Main}
    BY <1>1, SameMain
  <2>2. /\ P!Queued' = P!Queued \cup {arg[Main]}
        /\ P!Running' = P!Running
        /\ P!Pending' = {}
        /\ P!Pending = {arg[Main]}
    BY <2>1, P!AddPushEffect
  <2>3. done' = done
    BY <1>1 DEF Pool!AddPush
  <2>4. QED
    BY <2>2, <2>3
<1>2. ASSUME P!MovesNoTask PROVE Owned' = Owned
  <2>1. P!Queued' = P!Queued /\ P!Running' = P!Running /\ P!Pending' = P!Pending
    BY <1>2, P!MovesNoTaskEffect
  <2>2. done' = done
    BY <1>2 DEF P!MovesNoTask
  <2>3. QED
    BY <2>1, <2>2
<1>3. CASE Pool!AddNotify(Main)
  <2>1. P!AddNotify(Main) /\ Main \in {Main}
    BY <1>3, SameMain
  <2>2. QED
    BY <2>1, <1>2, P!QuietCallerSteps
<1>4. CASE Pool!StopSet \/ Pool!StopperStep
  <2>1. P!StopSet \/ P!StopNotify \/ P!StopJoin
    BY <1>4, SameMain DEF Pool!StopperStep
  <2>2. QED
    BY <2>1, <1>2, P!QuietStopperSteps
<1>5. ASSUME NEW w \in Workers, Pool!Take(w) PROVE Owned' = Owned
  <2>1. P!Take(w)
    BY <1>5, SameWorker
  <2>2. /\ P!Queued = P!Queued' \cup {Head(tasks)}
        /\ P!Running' = P!Running \cup {Head(tasks)}
        /\ P!Pending' = P!Pending
    BY <2>1, P!TakeEffect
  <2>3. done' = done
    BY <1>5 DEF Pool!Take
  <2>4. QED
    BY <2>2, <2>3
<1>6. ASSUME NEW w \in Workers, Pool!Finish(w) PROVE Owned' = Owned
  <2>1. P!Finish(w)
    BY <1>6, SameWorker
  <2>2. /\ task[w] \in P!Running
        /\ P!Running' = P!Running \ {task[w]}
        /\ P!Queued' = P!Queued
        /\ P!Pending' = P!Pending
    BY <2>1, P!FinishEffect
  <2>3. done' = done \cup {task[w]}
    BY <1>6 DEF Pool!Finish
  <2>4. QED
    BY <2>2, <2>3
<1>7. ASSUME NEW w \in Workers,
             Pool!Lock(w) \/ Pool!Test(w) \/ Pool!Sleep(w) \/ Pool!SpuriousWakeup(w)
             \/ Pool!Check(w)
      PROVE  Owned' = Owned
  <2>1. P!Lock(w) \/ P!Test(w) \/ P!Sleep(w) \/ P!SpuriousWakeup(w) \/ P!Check(w)
    BY <1>7, SameWorker
  <2>2. QED
    BY <2>1, <1>2, P!QuietWorkerSteps
<1>8. CASE UNCHANGED poolVars
  BY <1>8 DEF poolVars, Pool!Queued, Pool!Running, Pool!Pending
<1>9. QED
  BY <1>1, <1>3, <1>4, <1>5, <1>6, <1>7, <1>8 DEF Pool!WorkerStep

\* The call of addTask() brings in its argument, which was not there before.
LEMMA OwnedByCall ==
  ASSUME P!IInv, NEW t \in Tasks, Pool!AddLock(Main, t)
  PROVE  Owned' = Owned \cup {t}
<1>1. P!AddLock(Main, t) /\ Main \in {Main}
  BY SameMain
<1>2. /\ P!Queued' = P!Queued
      /\ P!Running' = P!Running
      /\ P!Pending' = P!Pending \cup {t}
  BY <1>1, PoolAssumptions, P!AddLockEffect
<1>3. done' = done
  BY DEF Pool!AddLock
<1>4. QED
  BY <1>2, <1>3, SameSets DEF Owned
-------------------------------------------------------------------------------
(* The main thread, the handler and the signals *)

\* What the pool's invariant says of stop().
LEMMA StopperKnown ==
  ASSUME P!IInv
  PROVE  /\ stopper \in {"idle", "notify", "join", "returned"}
         /\ stop <=> stopper # "idle"
         /\ caller \in [{Main} -> {"idle", "push", "notify"}]
         /\ worker \in [Workers -> Pool!WorkerPC]
BY DEF P!IInv, P!TypeOK, P!StopAsked, P!StopperPC, P!CallerPC, P!WorkerPC, Pool!WorkerPC

\* The three things a signal finds.
LEMMA SigtermCases ==
  ASSUME Sigterm
  PROVE  /\ ~InHandler
         /\ main \notin Ended
         /\ signals < MaxSignals /\ signals' = signals + 1
         /\ UNCHANGED <<server, pool, sock, received, local, late>>
         /\ \/ /\ pool /\ Pool!StopSet
               /\ main' = IF main = "recv" THEN "eintr" ELSE main
            \/ /\ pool /\ stopper = "returned" /\ UNCHANGED poolVars
               /\ \/ main' = main
                  \/ main = "recv" /\ main' = "eintr"
                  \/ main \in MayCatch /\ main' = "delete"
                  \/ main' = "crashed"
            \/ /\ server # "alive" \/ ~pool
               /\ UNCHANGED poolVars
               /\ main' \in Ended
<1> USE DEF Sigterm, Ended
<1>1. CASE pool /\ StopAsked
  BY <1>1 DEF StopAsked, Pool!StopSet
<1>2. CASE pool /\ StopAgain
  <2>1. \/ main' = main
        \/ main = "recv" /\ main' = "eintr"
        \/ main \in MayCatch /\ main' = "delete"
        \/ main' = "crashed"
    BY <1>2 DEF StopAgain
  <2>2. QED
    BY <1>2, <2>1 DEF StopAgain
<1>3. CASE NothingToStop
  BY <1>3 DEF NothingToStop
<1>4. QED
  BY <1>1, <1>2, <1>3 DEF Ended

\* A worker that moves has not left, and touches neither main nor stop().
LEMMA WorkerEffect ==
  ASSUME NEW w \in Workers, Pool!WorkerStep(w) \/ Pool!SpuriousWakeup(w)
  PROVE  worker[w] # "exit" /\ UNCHANGED <<caller, stopper>>
BY DEF Pool!WorkerStep, Pool!Lock, Pool!Test, Pool!Sleep, Pool!SpuriousWakeup, Pool!Check,
       Pool!Take, Pool!Finish

\* Every step of the process keeps what main knows of pool, socket and datagram.
LEMMA ProcessStep == P!IInv /\ Process /\ [Next]_vars => Process'
<1> SUFFICES ASSUME P!IInv, Process, [Next]_vars PROVE Process'
  OBVIOUS
<1> USE StopperKnown
    DEF Process, ProcessTypes, HandsOver, PoolThere, Stopping, NoPool, AllExited,
        Serving, Starting, Ended, Leaving, MayCatch, MainPC, InHandler, At, poolVars
<1>1. ASSUME Sigterm PROVE Process'
  <2>1. signals' \in 0 .. MaxSignals
    BY <1>1, SigtermCases, SignalsAssumption
  <2>2. CASE Pool!StopSet /\ main' = IF main = "recv" THEN "eintr" ELSE main
    BY <1>1, <2>1, <2>2, SigtermCases DEF Pool!StopSet
  <2>3. CASE UNCHANGED poolVars /\ pool /\ stopper = "returned"
    BY <1>1, <2>1, <2>3, SigtermCases DEF Pool!StopSet
  <2>4. CASE UNCHANGED poolVars /\ (server # "alive" \/ ~pool) /\ main' \in Ended
    BY <1>1, <2>1, <2>4, SigtermCases
  <2>5. QED
    BY <1>1, <2>2, <2>3, <2>4, SigtermCases
<1>2. ASSUME Handler PROVE Process'
  <2>1. CASE Pool!StopNotify
    BY <1>2, <2>1 DEF Handler, mainVars, Pool!StopNotify
  <2>2. CASE Pool!StopJoin
    BY <1>2, <2>2 DEF Handler, mainVars, Pool!StopJoin
  <2>3. QED
    BY <1>2, <2>1, <2>2 DEF Handler, Pool!StopperStep
<1>3. ASSUME Register \/ Construct \/ Configure PROVE Process'
  BY <1>3 DEF Register, Construct, Configure
<1>4. ASSUME Delete PROVE Process'
  BY <1>4 DEF Delete
<1>5. ASSUME Exit PROVE Process'
  BY <1>5 DEF Exit
<1>6. ASSUME Listen PROVE Process'
  BY <1>6 DEF Listen
<1>7. ASSUME Spawn PROVE Process'
  BY <1>7 DEF Spawn
<1>8. ASSUME TestStopped \/ CallRecvfrom PROVE Process'
  BY <1>8 DEF TestStopped, CallRecvfrom
<1>9. ASSUME Interrupted \/ Close \/ ReceiveNothing PROVE Process'
  BY <1>9 DEF Interrupted, Close, ReceiveNothing
<1>10. ASSUME NEW d \in Tasks, Receive(d) PROVE Process'
  BY <1>10 DEF Receive
<1>11. ASSUME CallAddTask PROVE Process'
  BY <1>11 DEF CallAddTask, Pool!AddLock
<1>12. ASSUME AddTask PROVE Process'
  <2>1. CASE Pool!AddPush(Main)
    BY <1>12, <2>1 DEF AddTask, Pool!AddPush, Pool!AddNotify
  <2>2. CASE Pool!AddNotify(Main)
    <3>1. /\ main = "adding" /\ main' = "test" /\ caller' = [caller EXCEPT ![Main] = "idle"]
          /\ UNCHANGED <<server, pool, sock, received, local, signals, late, stopper>>
      BY <1>12, <2>2 DEF AddTask, Pool!AddNotify, Pool!AddPush
    <3>2. stopper = "returned" => AllExited'
      BY <2>2 DEF Pool!AddNotify, Pool!NotifyOne, Pool!Sleeping
    <3>3. caller'[Main] = "idle"
      BY <3>1, StopperKnown
    <3>4. QED
      BY <3>1, <3>2, <3>3
  <2>3. QED
    BY <1>12, <2>1, <2>2 DEF AddTask
<1>13. ASSUME NEW w \in Workers, Alive, Pool!WorkerStep(w) \/ Pool!SpuriousWakeup(w),
              UNCHANGED mainVars
       PROVE  Process'
  BY <1>13, WorkerEffect DEF Alive, mainVars
<1>14. CASE UNCHANGED vars
  BY <1>14 DEF vars, mainVars
<1>15. QED
  BY <1>1, <1>2, <1>3, <1>4, <1>5, <1>6, <1>7, <1>8, <1>9, <1>10, <1>11, <1>12, <1>13, <1>14
  DEF Next, MainStep, WorkerThread

\* Once stop() has returned nothing is executed any more.
LEMMA NoneExecuted ==
  ASSUME P!IInv, Process, [Next]_vars, stopper = "returned"
  PROVE  stopper' = "returned" /\ Pool!Running' = {} /\ Pool!Running = {} /\ done' = done
<1>1. AllExited /\ \A w \in Workers : worker[w] # "run"
  BY DEF Process, Stopping, AllExited
<1>2. worker' = worker /\ UNCHANGED <<stopper, done>>
  <2> USE DEF poolVars
  <2>1. ASSUME Sigterm PROVE UNCHANGED <<worker, stopper, done>>
    BY <2>1, SigtermCases DEF Pool!StopSet
  <2>2. ~Handler
    BY DEF Handler, Pool!StopperStep, Pool!StopNotify, Pool!StopJoin
  <2>3. ASSUME CallAddTask PROVE UNCHANGED <<worker, stopper, done>>
    BY <2>3 DEF CallAddTask, Pool!AddLock
  <2>4. ASSUME AddTask PROVE UNCHANGED <<worker, stopper, done>>
    <3>1. Pool!Sleeping = {}
      BY <1>1 DEF Pool!Sleeping, AllExited
    <3>2. QED
      BY <2>4, <3>1 DEF AddTask, Pool!AddPush, Pool!AddNotify, Pool!NotifyOne
  <2>5. ASSUME Register \/ Construct \/ Configure \/ Delete \/ Exit \/ Listen \/ Spawn
               \/ TestStopped \/ CallRecvfrom \/ Interrupted \/ Close \/ ReceiveNothing
               \/ (\E d \in Tasks : Receive(d)) \/ UNCHANGED vars
        PROVE  UNCHANGED <<worker, stopper, done>>
    BY <2>5 DEF Register, Construct, Configure, Delete, Exit, Listen, Spawn, TestStopped,
                CallRecvfrom, Interrupted, Close, ReceiveNothing, Receive, vars
  <2>6. ASSUME NEW w \in Workers PROVE ~(Pool!WorkerStep(w) \/ Pool!SpuriousWakeup(w))
    BY <1>1, WorkerEffect DEF AllExited
  <2>7. QED
    BY <2>1, <2>2, <2>3, <2>4, <2>5, <2>6 DEF Next, MainStep, WorkerThread
<1>3. QED
  BY <1>1, <1>2 DEF Pool!Running

\* The datagram received after stop() is the last, and nobody is left to execute it.
LEMMA LateStep == DInv /\ [Next]_vars => LateLeaves' /\ OneLateDatagram'
<1> SUFFICES ASSUME DInv, [Next]_vars PROVE LateLeaves' /\ OneLateDatagram'
  OBVIOUS
<1>a. P!IInv /\ Process /\ OneOwner /\ LateLeaves /\ OneLateDatagram
  BY DEF DInv
<1>1. ASSUME late' = late,
             late # {} => main' \notin Starting \cup {"call", "recv", "eintr"}
      PROVE  LateLeaves' /\ OneLateDatagram'
  <2>1. CASE late = {}
    BY <1>1, <2>1 DEF LateLeaves, OneLateDatagram
  <2>2. CASE late # {}
    <3>1. stopper = "returned"
      BY <1>a, <2>2 DEF LateLeaves
    <3>2. stopper' = "returned" /\ Pool!Running' = {} /\ done' = done
      BY <1>a, <3>1, NoneExecuted
    <3>3. LateLeaves'
      BY <1>1, <2>2, <3>2 DEF LateLeaves
    <3>4. OneLateDatagram'
      BY <1>a, <1>1, <3>2 DEF OneLateDatagram
    <3>5. QED
      BY <3>3, <3>4
  <2>3. QED
    BY <2>1, <2>2
<1> USE DEF Starting
<1>2. ASSUME Sigterm PROVE LateLeaves' /\ OneLateDatagram'
  BY <1>2, <1>1, <1>a, SigtermCases DEF LateLeaves, Ended, Pool!StopSet
<1>3. ASSUME Handler PROVE LateLeaves' /\ OneLateDatagram'
  BY <1>3, <1>1, <1>a DEF Handler, mainVars, LateLeaves
<1>4. ASSUME Register \/ Construct \/ Configure \/ Delete \/ Exit \/ Listen \/ Spawn
             \/ CallRecvfrom \/ Interrupted \/ Close \/ ReceiveNothing
      PROVE  LateLeaves' /\ OneLateDatagram'
  BY <1>4, <1>1, <1>a
  DEF Register, Construct, Configure, Delete, Exit, Listen, Spawn, CallRecvfrom, Interrupted,
      Close, ReceiveNothing, At, LateLeaves
<1>5. ASSUME TestStopped PROVE LateLeaves' /\ OneLateDatagram'
  <2>1. late # {} => stop
    BY <1>a, StopperKnown DEF LateLeaves
  <2>2. QED
    BY <1>5, <1>1, <2>1 DEF TestStopped
<1>6. ASSUME CallAddTask \/ AddTask PROVE LateLeaves' /\ OneLateDatagram'
  BY <1>6, <1>1 DEF CallAddTask, AddTask, At
<1>7. ASSUME NEW d \in Tasks, Receive(d) PROVE LateLeaves' /\ OneLateDatagram'
  <2>1. /\ main = "recv" /\ main' = "add" /\ ~InHandler
        /\ d \notin received
        /\ UNCHANGED poolVars
        /\ late' = IF stop THEN late \cup {d} ELSE late
    BY <1>7 DEF Receive, At
  <2>2. late = {}
    BY <1>a, <2>1 DEF LateLeaves
  <2>3. CASE ~stop
    BY <2>1, <2>2, <2>3 DEF LateLeaves, OneLateDatagram
  <2>4. CASE stop
    <3>1. stopper = "returned"
      BY <1>a, <2>1, <2>4, StopperKnown DEF InHandler
    <3>2. stopper' = "returned" /\ Pool!Running' = {} /\ done' = done
      BY <1>a, <3>1, NoneExecuted
    <3>3. d \notin done
      BY <1>a, <2>1 DEF OneOwner
    <3>4. late' = {d}
      BY <2>1, <2>2, <2>4
    <3>5. LateLeaves'
      BY <2>1, <3>2 DEF LateLeaves
    <3>6. OneLateDatagram'
      BY <3>2, <3>3, <3>4 DEF OneLateDatagram
    <3>7. QED
      BY <3>5, <3>6
  <2>5. QED
    BY <2>3, <2>4
<1>8. ASSUME NEW w \in Workers, UNCHANGED mainVars PROVE LateLeaves' /\ OneLateDatagram'
  BY <1>8, <1>1, <1>a DEF mainVars, LateLeaves
<1>9. CASE UNCHANGED vars
  BY <1>9, <1>1, <1>a DEF vars, mainVars, LateLeaves
<1>10. QED
  BY <1>2, <1>3, <1>4, <1>5, <1>6, <1>7, <1>8, <1>9 DEF Next, MainStep, WorkerThread

\* What the loop has received, and the datagram it holds.
Hands == <<received, local>>

\* Each datagram passes from the loop to addTask() and on, and none is left anywhere but in
\* the deque when the server is deleted.
LEMMA OwnerStep == DInv /\ [Next]_vars => OneOwner'
<1> SUFFICES ASSUME DInv, [Next]_vars PROVE OneOwner'
  OBVIOUS
<1>a. P!IInv /\ Process
  BY DEF DInv
<1>b. /\ received = Owned \cup ({local} \ {NoTask})
      /\ local \notin Owned
      /\ main = "exit" /\ signals < 2 => received = Pool!Queued \cup done
  BY DEF DInv, OneOwner, Owned
<1>c. NoTask \notin Tasks /\ NoTask \notin Owned
  BY <1>a, <1>b, PoolAssumption DEF Pool!TasksAssumption, Process, ProcessTypes
<1>1. ASSUME Owned' = Owned, UNCHANGED Hands,
             main' # "exit" \/ (main = "exit" /\ UNCHANGED <<poolVars, signals>>)
      PROVE  OneOwner'
  <2>1. main' = "exit" /\ signals' < 2 => received' = (Pool!Queued \cup done)'
    BY <1>1, <1>b DEF Hands, poolVars, Pool!Queued
  <2>2. QED
    BY <1>1, <1>b, <2>1 DEF OneOwner, Hands, Owned
<1>2. ASSUME Sigterm PROVE OneOwner'
  <2>1. Pool!StopSet \/ UNCHANGED poolVars
    BY <1>2, SigtermCases
  <2>2. Owned' = Owned
    BY <1>a, <2>1, OwnedKept
  <2>3. UNCHANGED Hands
    BY <1>2, SigtermCases DEF Hands
  <2>4. main' # "exit"
    BY <1>2, <1>a, SigtermCases DEF Process, PoolThere, Ended, Pool!StopSet
  <2>5. QED
    BY <1>1, <2>2, <2>3, <2>4
<1>3. ASSUME Handler PROVE OneOwner'
  <2>1. Owned' = Owned
    BY <1>3, <1>a, OwnedKept DEF Handler
  <2>2. UNCHANGED <<Hands, main>> /\ stopper \in {"notify", "join"}
    BY <1>3 DEF Handler, mainVars, Hands, Pool!StopperStep, Pool!StopNotify, Pool!StopJoin
  <2>3. main # "exit"
    BY <2>2, <1>a DEF Process, PoolThere, NoPool
  <2>4. QED
    BY <1>1, <2>1, <2>2, <2>3
<1>4. ASSUME Register \/ Construct \/ Configure \/ Exit \/ Listen \/ Spawn \/ TestStopped
             \/ CallRecvfrom \/ Interrupted \/ Close \/ ReceiveNothing
      PROVE  OneOwner'
  <2>1. UNCHANGED poolVars /\ UNCHANGED Hands /\ main' # "exit"
    BY <1>4 DEF Register, Construct, Configure, Exit, Listen, Spawn, TestStopped,
                CallRecvfrom, Interrupted, Close, ReceiveNothing, Hands
  <2>2. QED
    BY <1>1, <1>a, <2>1, OwnedKept
<1>5. ASSUME Delete PROVE OneOwner'
  <2>1. /\ main = "delete"
        /\ UNCHANGED poolVars /\ UNCHANGED Hands
    BY <1>5 DEF Delete, At, Hands
  <2>2. Owned' = Owned
    BY <1>a, <2>1, OwnedKept
  <2>3. \A w \in Workers : worker[w] # "run"
    BY <1>a, <2>1 DEF Process, PoolThere, Stopping, AllExited, NoPool
  <2>4. Pool!Running = {} /\ Pool!Pending = {}
    BY <1>a, <2>1, <2>3 DEF Pool!Running, Pool!Pending, Process, HandsOver
  <2>5. signals < 2 => local = NoTask
    BY <1>a, <2>1, SignalsAssumption DEF Process, ProcessTypes, HandsOver
  <2>6. signals < 2 => received = Pool!Queued \cup done
    BY <1>b, <2>4, <2>5 DEF Owned
  <2>7. Pool!Queued' = Pool!Queued /\ signals' = signals
    BY <1>5 DEF Delete, poolVars, Pool!Queued
  <2>8. QED
    BY <1>b, <2>1, <2>2, <2>6, <2>7 DEF OneOwner, Owned, Hands, poolVars
<1>6. ASSUME NEW d \in Tasks, Receive(d) PROVE OneOwner'
  <2>1. /\ UNCHANGED poolVars
        /\ main = "recv" /\ main' = "add"
        /\ d \notin received /\ received' = received \cup {d} /\ local' = d
    BY <1>6 DEF Receive, At
  <2>2. Owned' = Owned
    BY <1>a, <2>1, OwnedKept
  <2>3. local = NoTask
    BY <1>a, <2>1 DEF Process, HandsOver, Leaving
  <2>4. QED
    BY <1>b, <1>c, <2>1, <2>2, <2>3 DEF OneOwner, Owned
<1>7. ASSUME CallAddTask PROVE OneOwner'
  <2>1. /\ Pool!AddLock(Main, local)
        /\ main = "add" /\ main' = "adding"
        /\ local' = NoTask /\ received' = received
    BY <1>7 DEF CallAddTask, At
  <2>2. local \in Tasks
    BY <1>a, <2>1 DEF Process, HandsOver
  <2>3. Owned' = Owned \cup {local}
    BY <1>a, <2>1, <2>2, OwnedByCall
  <2>4. QED
    BY <1>b, <1>c, <2>1, <2>2, <2>3 DEF OneOwner, Owned
<1>8. ASSUME AddTask PROVE OneOwner'
  <2>1. Owned' = Owned
    BY <1>8, <1>a, OwnedKept DEF AddTask
  <2>2. UNCHANGED Hands /\ main' # "exit"
    BY <1>8 DEF AddTask, At, Hands
  <2>3. QED
    BY <1>1, <2>1, <2>2
<1>9. ASSUME NEW w \in Workers, Alive, Pool!WorkerStep(w) \/ Pool!SpuriousWakeup(w),
             UNCHANGED mainVars
      PROVE  OneOwner'
  <2>1. Owned' = Owned
    BY <1>9, <1>a, OwnedKept
  <2>2. main # "exit" /\ UNCHANGED <<Hands, main>>
    BY <1>9, <1>a DEF Alive, mainVars, Hands, Process, PoolThere
  <2>3. QED
    BY <1>1, <2>1, <2>2
<1>10. CASE UNCHANGED vars
  BY <1>10, <1>1, <1>a, OwnedKept DEF vars, mainVars, Hands
<1>11. QED
  BY <1>2, <1>3, <1>4, <1>5, <1>6, <1>7, <1>8, <1>9, <1>10
  DEF Next, MainStep, WorkerThread
-------------------------------------------------------------------------------
(* The theorems *)

\* Before sigaction() there is nothing but a pool to be made.
LEMMA DaemonInit == Init => DInv
<1> SUFFICES ASSUME Init PROVE DInv
  OBVIOUS
<1>1. P!IInv
  BY PoolInit DEF Init
<1>2. Process
  <2> USE DEF Init, Serving, Starting, Ended
  <2>1. ProcessTypes
    <3>1. 0 \in 0 .. MaxSignals
      BY SignalsAssumption, SMT
    <3>2. pool \in BOOLEAN
      BY Zenon
    <3>3. main \in MainPC
      BY DEF MainPC
    <3>4. QED
      BY <3>1, <3>2, <3>3 DEF ProcessTypes
  <2>2. caller[Main] = "idle" /\ stopper = "idle" /\ \A w \in Workers : worker[w] = "lock"
    BY DEF Pool!Init
  <2>3. HandsOver /\ PoolThere /\ Stopping /\ NoPool
    BY <2>2 DEF HandsOver, PoolThere, Stopping, NoPool
  <2>4. QED
    BY <2>1, <2>3 DEF Process
<1>3. OneOwner
  BY DEF Init, Pool!Init, OneOwner, Pool!Queued, Pool!Running, Pool!Pending
<1>4. LateLeaves /\ OneLateDatagram
  BY DEF Init, LateLeaves, OneLateDatagram
<1>5. QED
  BY <1>1, <1>2, <1>3, <1>4 DEF DInv

\* DInv holds in every reachable state.
LEMMA DaemonInvariance == Spec => []DInv
<1>1. DInv /\ [Next]_vars => DInv'
  BY PoolInvStep, ProcessStep, OwnerStep, LateStep DEF DInv, Process
<1>2. QED
  BY <1>1, DaemonInit, PTL DEF Spec

\* Every variable of process and pool keeps its type, whenever the signals come.
THEOREM DaemonTypeCorrect == Spec => []TypeOK
<1>1. DInv => TypeOK
  BY DEF DInv, Process, ProcessTypes, TypeOK, P!IInv, P!TypeOK, Pool!TypeOK,
         P!WorkerPC, P!CallerPC, P!StopperPC, Pool!WorkerPC, Pool!CallerPC, Pool!StopperPC
<1>2. QED
  BY <1>1, DaemonInvariance, PTL

\* While a worker runs there is a pool, and main serves: anywhere else the threads are
\* joined or not begun.
LEMMA RunningWhileServing ==
  ASSUME DInv, Pool!Running # {}
  PROVE  pool /\ stopper # "returned" /\ main \in Serving
<1>1. PICK w \in Workers : worker[w] = "run"
  BY DEF Pool!Running
<1>2. stopper # "returned" /\ pool
  BY <1>1 DEF DInv, Process, Stopping, AllExited, NoPool
<1>3. QED
  BY <1>2 DEF DInv, Process, ProcessTypes, MainPC, PoolThere, Serving, Starting, Ended

\* A task never outlives the socket or the server (src/mtd64-ng/server.cpp, src/pool.cpp).
THEOREM SocketOutlivesTasks == Spec => []ServesOnOpenSocket
<1>1. DInv => ServesOnOpenSocket
  BY RunningWhileServing DEF DInv, Process, PoolThere, ServesOnOpenSocket
<1>2. QED
  BY <1>1, DaemonInvariance, PTL

\* ~Server() finds a pool whose threads are joined and whose mutex is free.
THEOREM JoinedBeforeDeleted == Spec => []DeletedAfterJoin
<1>1. ASSUME DInv, main \in {"close", "delete"}, pool
      PROVE  stopper = "returned" /\ AllExited /\ mutex = NoThread
  <2>1. stopper = "returned" /\ AllExited /\ caller[Main] = "idle"
    BY <1>1 DEF DInv, Process, PoolThere, Stopping, HandsOver
  <2>2. mutex \in Workers \cup {Main} \cup {NoThread}
    BY <1>1 DEF DInv, P!IInv, P!TypeOK
  <2>3. mutex \notin Workers /\ mutex # Main
    BY <1>1, <2>1 DEF DInv, P!IInv, P!MutexOwned, P!Holding, AllExited
  <2>4. QED
    BY <2>1, <2>2, <2>3
<1>2. DInv => DeletedAfterJoin
  BY <1>1 DEF DeletedAfterJoin, AllExited
<1>3. QED
  BY <1>2, DaemonInvariance, PTL

\* However the process ends, no client's query is cut off.
THEOREM NoQueryCutOff == Spec => []NothingCutOff
<1>1. ASSUME DInv, main \in Ended
      PROVE  Pool!Running = {} /\ (stopper = "returned" \/ received = {})
  <2>1. Pool!Running = {}
    BY <1>1, RunningWhileServing DEF Ended, Serving
  <2>2. pool => stopper = "returned"
    BY <1>1 DEF DInv, Process, PoolThere
  <2>3. QED
    BY <1>1, <2>1, <2>2 DEF DInv, Process, NoPool
<1>2. DInv => NothingCutOff
  BY <1>1 DEF NothingCutOff, Ended
<1>3. QED
  BY <1>2, DaemonInvariance, PTL

\* The buffer of every datagram has one owner, from recvfrom() to its destruction.
THEOREM BuffersOwned == Spec => []OneOwner
<1>1. DInv => OneOwner
  BY DEF DInv
<1>2. QED
  BY <1>1, DaemonInvariance, PTL

\* After stop() one datagram is received at most, and it is never executed
\* (src/mtd64-ng/server.cpp, start()).
THEOREM LateDatagramIsLast == Spec => []OneLateDatagram
<1>1. DInv => OneLateDatagram
  BY DEF DInv
<1>2. QED
  BY <1>1, DaemonInvariance, PTL
===============================================================================
