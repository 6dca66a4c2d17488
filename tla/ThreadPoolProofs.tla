--------------------------- MODULE ThreadPoolProofs ---------------------------
(***************************************************************************)
(* Theorems about ThreadPool, for any finite set of workers and of callers *)
(* and any set of tasks.                                                   *)
(*                                                                         *)
(* IInv is inductive.  TypeOK alone is not: the front of the deque has the *)
(* type of a task only because a worker about to take it knows the deque   *)
(* is not empty (DequeAsTested), which holds because nobody else holds m_  *)
(* meanwhile (MutexOwned).  NoLostWakeup needs both, and OnePlace gives    *)
(* the tasks their identity for the refinement, which also has to know     *)
(* that stop() returns only from a pool that was stopped (StopAsked).      *)
(***************************************************************************)
EXTENDS ThreadPool, FiniteSetTheorems, TLAPS

\* stop_ is set exactly from the first step of stop() on.
StopAsked == stop <=> stopper # "idle"

IInv ==
  /\ TypeOK
  /\ StopAsked
  /\ MutexOwned
  /\ DequeAsTested
  /\ OnePlace
  /\ NoLostWakeup
-------------------------------------------------------------------------------
(* What the actions that move a task do to the places it can be in *)

\* The constructor establishes the invariant: an empty deque and workers
\* that have not locked m_ yet.
LEMMA InitInv == Init => IInv
<1> SUFFICES ASSUME Init PROVE IInv
  OBVIOUS
<1> USE DEF Init
<1>1. TypeOK
  <2>1. tasks \in Seq(Tasks)
    OBVIOUS
  <2>2. worker \in [Workers -> WorkerPC] /\ caller \in [Callers -> CallerPC]
    BY DEF WorkerPC, CallerPC
  <2>3. QED
    BY <2>1, <2>2 DEF TypeOK, StopperPC
<1>2. MutexOwned
  BY ThreadsAssumption DEF MutexOwned, Holding
<1>3. DequeAsTested
  BY DEF DequeAsTested
<1>4. OnePlace
  BY DEF OnePlace, Queued, Running, Pending
<1>5. NoLostWakeup
  BY DEF NoLostWakeup, Sleeping
<1>6. StopAsked
  BY DEF StopAsked
<1>7. QED
  BY <1>1, <1>2, <1>3, <1>4, <1>5, <1>6 DEF IInv

\* A caller that locks m_ to add a task makes the task pending.
LEMMA AddLockEffect ==
  ASSUME IInv, NEW c \in Callers, NEW t \in Tasks, AddLock(c, t)
  PROVE  /\ Queued' = Queued
         /\ Running' = Running
         /\ Pending' = Pending \cup {t}
<1> USE DEF AddLock
<1>1. Queued' = Queued
  BY DEF Queued
<1>2. Running' = Running
  BY DEF Running
<1>3. Pending' = Pending \cup {t}
  BY DEF Pending, IInv, TypeOK
<1>4. QED
  BY <1>1, <1>2, <1>3

\* push_back() moves the caller's task to the end of the deque.
LEMMA AddPushEffect ==
  ASSUME IInv, NEW c \in Callers, AddPush(c)
  PROVE  /\ Queued' = Queued \cup {arg[c]}
         /\ Running' = Running
         /\ Pending' = {}
         /\ Pending = {arg[c]}
<1> USE DEF AddPush
<1>1. Queued' = Queued \cup {arg[c]}
  <2>1. /\ Len(tasks') = Len(tasks) + 1
        /\ \A i \in 1 .. Len(tasks) : tasks'[i] = tasks[i]
        /\ tasks'[Len(tasks) + 1] = arg[c]
        /\ Len(tasks) \in Nat
    BY DEF IInv, TypeOK, OnePlace
  <2>2. QED
    BY <2>1 DEF Queued
<1>2. Running' = Running
  BY DEF Running
<1>3. \A d \in Callers : caller[d] = "push" <=> d = c
  BY DEF IInv, MutexOwned
<1>4. Pending = {arg[c]}
  BY <1>3 DEF Pending
<1>5. Pending' = {}
  BY <1>3 DEF Pending, IInv, TypeOK
<1>6. QED
  BY <1>1, <1>2, <1>4, <1>5

\* front() and pop_front() move the first task of the deque to the worker.
LEMMA TakeEffect ==
  ASSUME IInv, NEW w \in Workers, Take(w)
  PROVE  /\ Head(tasks) \in Tasks
         /\ Queued = Queued' \cup {Head(tasks)}
         /\ Head(tasks) \notin Queued'
         /\ Running' = Running \cup {Head(tasks)}
         /\ Pending' = Pending
<1> USE DEF Take
<1>1. /\ tasks \in Seq(Tasks)
      /\ tasks # <<>>
  BY DEF IInv, TypeOK, DequeAsTested
<1>2. /\ Head(tasks) = tasks[1]
      /\ Head(tasks) \in Tasks
      /\ Len(tasks) \in Nat \ {0}
      /\ Len(tasks') = Len(tasks) - 1
      /\ \A i \in 1 .. Len(tasks) - 1 : tasks'[i] = tasks[i + 1]
  BY <1>1
<1>3. Queued = Queued' \cup {Head(tasks)}
  <2>1. ASSUME NEW i \in 1 .. Len(tasks)
        PROVE  tasks[i] \in Queued' \cup {Head(tasks)}
    <3>1. CASE i = 1
      BY <3>1, <1>2
    <3>2. CASE i # 1
      <4>1. i - 1 \in 1 .. Len(tasks') /\ tasks'[i - 1] = tasks[i]
        BY <3>2, <1>2
      <4>2. QED
        BY <4>1 DEF Queued
    <3>3. QED
      BY <3>1, <3>2
  <2>2. ASSUME NEW i \in 1 .. Len(tasks')
        PROVE  tasks'[i] \in Queued
    <3>1. i + 1 \in 1 .. Len(tasks) /\ tasks'[i] = tasks[i + 1]
      BY <1>2
    <3>2. QED
      BY <3>1 DEF Queued
  <2>3. Head(tasks) \in Queued
    BY <1>2 DEF Queued
  <2>4. QED
    BY <2>1, <2>2, <2>3 DEF Queued
<1>4. Head(tasks) \notin Queued'
  <2>1. ASSUME NEW i \in 1 .. Len(tasks')
        PROVE  tasks'[i] # Head(tasks)
    <3>1. i + 1 \in 1 .. Len(tasks) /\ i + 1 # 1 /\ 1 \in 1 .. Len(tasks)
      BY <1>2
    <3>2. tasks[i + 1] # tasks[1]
      BY <3>1 DEF IInv, OnePlace
    <3>3. QED
      BY <3>2, <1>2
  <2>2. QED
    BY <2>1 DEF Queued
<1>5. Running' = Running \cup {Head(tasks)}
  <2>1. /\ worker' = [worker EXCEPT ![w] = "run"]
        /\ task' = [task EXCEPT ![w] = Head(tasks)]
        /\ worker \in [Workers -> WorkerPC]
        /\ task \in [Workers -> Tasks \cup {NoTask}]
        /\ worker[w] = "take"
    BY DEF Goto, IInv, TypeOK
  <2>2. QED
    BY <2>1 DEF Running
<1>6. Pending' = Pending
  BY DEF Pending
<1>7. QED
  BY <1>2, <1>3, <1>4, <1>5, <1>6

\* A task that returns leaves its worker, and is in no place again.
LEMMA FinishEffect ==
  ASSUME IInv, NEW w \in Workers, Finish(w)
  PROVE  /\ task[w] \in Running
         /\ task[w] \in Tasks
         /\ Running' = Running \ {task[w]}
         /\ Queued' = Queued
         /\ Pending' = Pending
<1> USE DEF Finish
<1>1. task[w] \in Running /\ task[w] \in Tasks
  BY DEF Running, IInv, OnePlace
<1>2. Running' = Running \ {task[w]}
  <2>1. /\ worker' = [worker EXCEPT ![w] = "lock"]
        /\ task' = [task EXCEPT ![w] = NoTask]
        /\ worker \in [Workers -> WorkerPC]
        /\ task \in [Workers -> Tasks \cup {NoTask}]
        /\ worker[w] = "run"
    BY DEF Goto, IInv, TypeOK
  <2>2. \A v \in Workers : worker[v] = "run" /\ task[v] = task[w] => v = w
    BY <2>1 DEF IInv, OnePlace
  <2>3. QED
    BY <2>1, <2>2 DEF Running
<1>3. Queued' = Queued
  BY DEF Queued
<1>4. Pending' = Pending
  BY DEF Pending
<1>5. QED
  BY <1>1, <1>2, <1>3, <1>4

\* The steps that move no task: the same workers run and the same callers push.
MovesNoTask ==
  /\ UNCHANGED <<tasks, task, arg, done>>
  /\ \A w \in Workers : worker'[w] = "run" <=> worker[w] = "run"
  /\ \A c \in Callers : caller'[c] = "push" <=> caller[c] = "push"

\* A step that leaves deque, tasks and the callers at AddPush alone moves no task.
LEMMA MovesNoTaskEffect ==
  ASSUME MovesNoTask
  PROVE  Queued' = Queued /\ Running' = Running /\ Pending' = Pending
<1>1. Queued' = Queued
  BY DEF MovesNoTask, Queued
<1>2. Running' = Running
  BY DEF MovesNoTask, Running
<1>3. Pending' = Pending
  BY DEF MovesNoTask, Pending
<1>4. QED
  BY <1>1, <1>2, <1>3

\* The worker's steps but Take and Finish move no task.
LEMMA QuietWorkerSteps ==
  ASSUME IInv, NEW w \in Workers,
         Lock(w) \/ Test(w) \/ Sleep(w) \/ SpuriousWakeup(w) \/ Check(w)
  PROVE  MovesNoTask
<1> USE DEF MovesNoTask, IInv, TypeOK, Goto
<1>1. CASE Lock(w)
  BY <1>1 DEF Lock
<1>2. CASE Test(w)
  BY <1>2 DEF Test
<1>3. CASE Sleep(w)
  BY <1>3 DEF Sleep
<1>4. CASE SpuriousWakeup(w)
  BY <1>4 DEF SpuriousWakeup
<1>5. CASE Check(w)
  BY <1>5 DEF Check
<1>6. QED
  BY <1>1, <1>2, <1>3, <1>4, <1>5

\* notify_one() moves no task.
LEMMA QuietCallerSteps ==
  ASSUME IInv, NEW c \in Callers, AddNotify(c)
  PROVE  MovesNoTask
BY DEF AddNotify, NotifyOne, Sleeping, MovesNoTask, IInv, TypeOK, Goto

\* The steps of stop() move no task.
LEMMA QuietStopperSteps ==
  ASSUME IInv, StopSet \/ StopNotify \/ StopJoin
  PROVE  MovesNoTask
BY DEF StopSet, StopNotify, StopJoin, NotifyAll, Sleeping, MovesNoTask, IInv, TypeOK
-------------------------------------------------------------------------------
(* The parts of IInv, one at a time *)

\* Types are kept: Take needs the deque not to be empty (DequeAsTested).
LEMMA TypeStep == IInv /\ [Next]_vars => TypeOK'
<1> SUFFICES ASSUME IInv, [Next]_vars PROVE TypeOK'
  OBVIOUS
<1> USE DEF TypeOK, Goto
<1> TypeOK
  BY DEF IInv
<1>1. ASSUME NEW w \in Workers, Lock(w) PROVE TypeOK'
  BY <1>1 DEF Lock, WorkerPC
<1>2. ASSUME NEW w \in Workers, Test(w) PROVE TypeOK'
  BY <1>2 DEF Test, WorkerPC
<1>3. ASSUME NEW w \in Workers, Sleep(w) PROVE TypeOK'
  BY <1>3 DEF Sleep, WorkerPC
<1>4. ASSUME NEW w \in Workers, SpuriousWakeup(w) PROVE TypeOK'
  BY <1>4 DEF SpuriousWakeup, WorkerPC
<1>5. ASSUME NEW w \in Workers, Check(w) PROVE TypeOK'
  BY <1>5 DEF Check, WorkerPC
<1>6. ASSUME NEW w \in Workers, Take(w) PROVE TypeOK'
  <2>1. Head(tasks) \in Tasks /\ Tail(tasks) \in Seq(Tasks)
    BY <1>6 DEF Take, IInv, DequeAsTested
  <2>2. QED
    BY <1>6, <2>1 DEF Take, WorkerPC
<1>7. ASSUME NEW w \in Workers, Finish(w) PROVE TypeOK'
  BY <1>7, FinishEffect DEF Finish, WorkerPC
<1>8. ASSUME NEW c \in Callers, NEW t \in Tasks, AddLock(c, t) PROVE TypeOK'
  BY <1>8 DEF AddLock, CallerPC
<1>9. ASSUME NEW c \in Callers, AddPush(c) PROVE TypeOK'
  <2>1. Append(tasks, arg[c]) \in Seq(Tasks)
    BY <1>9 DEF AddPush, IInv, OnePlace
  <2>2. QED
    BY <1>9, <2>1 DEF AddPush, CallerPC
<1>10. ASSUME NEW c \in Callers, AddNotify(c) PROVE TypeOK'
  BY <1>10 DEF AddNotify, NotifyOne, Sleeping, CallerPC, WorkerPC
<1>11. ASSUME StopSet PROVE TypeOK'
  BY <1>11 DEF StopSet, StopperPC
<1>12. ASSUME StopNotify PROVE TypeOK'
  BY <1>12 DEF StopNotify, NotifyAll, StopperPC, WorkerPC
<1>13. ASSUME StopJoin PROVE TypeOK'
  BY <1>13 DEF StopJoin, StopperPC
<1>14. CASE UNCHANGED vars
  BY <1>14 DEF vars
<1>15. QED
  BY <1>1, <1>2, <1>3, <1>4, <1>5, <1>6, <1>7, <1>8, <1>9, <1>10, <1>11, <1>12,
     <1>13, <1>14 DEF Next, WorkerStep, CallerStep, StopperStep

\* Only AddLock and Lock take m_, from nobody; only its holder gives it back.
LEMMA MutexStep == IInv /\ [Next]_vars => MutexOwned'
<1> SUFFICES ASSUME IInv, [Next]_vars PROVE MutexOwned'
  OBVIOUS
<1> USE ThreadsAssumption DEF MutexOwned, TypeOK, Holding, Goto
<1> TypeOK /\ MutexOwned
  BY DEF IInv
<1>1. ASSUME NEW w \in Workers, Lock(w) PROVE MutexOwned'
  BY <1>1 DEF Lock
<1>2. ASSUME NEW w \in Workers, Test(w) PROVE MutexOwned'
  BY <1>2 DEF Test
<1>3. ASSUME NEW w \in Workers, Sleep(w) PROVE MutexOwned'
  BY <1>3 DEF Sleep
<1>4. ASSUME NEW w \in Workers, SpuriousWakeup(w) PROVE MutexOwned'
  BY <1>4 DEF SpuriousWakeup
<1>5. ASSUME NEW w \in Workers, Check(w) PROVE MutexOwned'
  BY <1>5 DEF Check
<1>6. ASSUME NEW w \in Workers, Take(w) PROVE MutexOwned'
  BY <1>6 DEF Take
<1>7. ASSUME NEW w \in Workers, Finish(w) PROVE MutexOwned'
  BY <1>7 DEF Finish
<1>8. ASSUME NEW c \in Callers, NEW t \in Tasks, AddLock(c, t) PROVE MutexOwned'
  BY <1>8 DEF AddLock
<1>9. ASSUME NEW c \in Callers, AddPush(c) PROVE MutexOwned'
  BY <1>9 DEF AddPush
<1>10. ASSUME NEW c \in Callers, AddNotify(c) PROVE MutexOwned'
  BY <1>10 DEF AddNotify, NotifyOne, Sleeping
<1>11. ASSUME StopSet PROVE MutexOwned'
  BY <1>11 DEF StopSet
<1>12. ASSUME StopNotify PROVE MutexOwned'
  BY <1>12 DEF StopNotify, NotifyAll, Sleeping
<1>13. ASSUME StopJoin PROVE MutexOwned'
  BY <1>13 DEF StopJoin
<1>14. CASE UNCHANGED vars
  BY <1>14 DEF vars
<1>15. QED
  BY <1>1, <1>2, <1>3, <1>4, <1>5, <1>6, <1>7, <1>8, <1>9, <1>10, <1>11, <1>12,
     <1>13, <1>14 DEF Next, WorkerStep, CallerStep, StopperStep

\* What a worker has tested of the deque stays true while it holds m_, since all
\* others that change the deque need m_ (MutexOwned).
LEMMA DequeStep == IInv /\ [Next]_vars => DequeAsTested'
<1> SUFFICES ASSUME IInv, [Next]_vars PROVE DequeAsTested'
  OBVIOUS
<1> USE DEF DequeAsTested, TypeOK, Goto
<1> TypeOK /\ DequeAsTested
  BY DEF IInv
<1> MutexOwned
  BY DEF IInv
<1>1. ASSUME NEW w \in Workers, Lock(w) PROVE DequeAsTested'
  BY <1>1 DEF Lock
<1>2. ASSUME NEW w \in Workers, Test(w) PROVE DequeAsTested'
  BY <1>2 DEF Test
<1>3. ASSUME NEW w \in Workers, Sleep(w) PROVE DequeAsTested'
  BY <1>3 DEF Sleep
<1>4. ASSUME NEW w \in Workers, SpuriousWakeup(w) PROVE DequeAsTested'
  BY <1>4 DEF SpuriousWakeup
<1>5. ASSUME NEW w \in Workers, Check(w) PROVE DequeAsTested'
  BY <1>5 DEF Check
<1>6. ASSUME NEW w \in Workers, Take(w) PROVE DequeAsTested'
  <2>1. \A v \in Workers : v # w => worker[v] \notin Holding
    BY <1>6, ThreadsAssumption DEF Take, MutexOwned, Holding
  <2>2. QED
    BY <1>6, <2>1 DEF Take, Holding
<1>7. ASSUME NEW w \in Workers, Finish(w) PROVE DequeAsTested'
  BY <1>7 DEF Finish
<1>8. ASSUME NEW c \in Callers, NEW t \in Tasks, AddLock(c, t) PROVE DequeAsTested'
  BY <1>8 DEF AddLock
<1>9. ASSUME NEW c \in Callers, AddPush(c) PROVE DequeAsTested'
  <2>1. \A v \in Workers : worker[v] \notin Holding
    BY <1>9, ThreadsAssumption DEF AddPush, MutexOwned
  <2>2. QED
    BY <1>9, <2>1 DEF AddPush, Holding
<1>10. ASSUME NEW c \in Callers, AddNotify(c) PROVE DequeAsTested'
  BY <1>10 DEF AddNotify, NotifyOne, Sleeping
<1>11. ASSUME StopSet PROVE DequeAsTested'
  BY <1>11 DEF StopSet
<1>12. ASSUME StopNotify PROVE DequeAsTested'
  BY <1>12 DEF StopNotify, NotifyAll, Sleeping
<1>13. ASSUME StopJoin PROVE DequeAsTested'
  BY <1>13 DEF StopJoin
<1>14. CASE UNCHANGED vars
  BY <1>14 DEF vars
<1>15. QED
  BY <1>1, <1>2, <1>3, <1>4, <1>5, <1>6, <1>7, <1>8, <1>9, <1>10, <1>11, <1>12,
     <1>13, <1>14 DEF Next, WorkerStep, CallerStep, StopperStep

\* Each action takes a task from one place to another.
LEMMA OnePlaceStep == IInv /\ [Next]_vars => OnePlace'
<1> SUFFICES ASSUME IInv, [Next]_vars PROVE OnePlace'
  OBVIOUS
<1> TypeOK /\ OnePlace
  BY DEF IInv
<1>1. ASSUME MovesNoTask PROVE OnePlace'
  BY <1>1, MovesNoTaskEffect DEF MovesNoTask, OnePlace
<1>2. ASSUME NEW c \in Callers, NEW t \in Tasks, AddLock(c, t) PROVE OnePlace'
  <2>1. /\ caller' = [caller EXCEPT ![c] = "push"]
        /\ arg' = [arg EXCEPT ![c] = t]
        /\ UNCHANGED <<tasks, worker, task, done>>
        /\ t \notin Queued \cup Running \cup Pending \cup done
    BY <1>2 DEF AddLock
  <2>2. \A w \in Workers : worker'[w] = "run" => task'[w] \in Tasks
    BY <2>1 DEF OnePlace
  <2>3. \A d \in Callers : caller'[d] = "push" => arg'[d] \in Tasks
    BY <2>1 DEF OnePlace, TypeOK
  <2>4. QED
    BY <2>1, <2>2, <2>3, <1>2, AddLockEffect DEF OnePlace
<1>3. ASSUME NEW c \in Callers, AddPush(c) PROVE OnePlace'
  <2>1. /\ caller' = [caller EXCEPT ![c] = "notify"]
        /\ arg' = [arg EXCEPT ![c] = NoTask]
        /\ tasks' = Append(tasks, arg[c])
        /\ UNCHANGED <<worker, task, done>>
        /\ caller[c] = "push"
    BY <1>3 DEF AddPush
  <2>2. \A d \in Callers : caller'[d] = "push" => arg'[d] \in Tasks
    BY <2>1 DEF OnePlace, TypeOK
  <2>3. \A i, j \in 1 .. Len(tasks') : tasks'[i] = tasks'[j] => i = j
    <3>1. arg[c] \in Pending
      BY <1>3, AddPushEffect
    <3>2. arg[c] \notin Queued
      BY <3>1 DEF OnePlace
    <3>3. \A i \in 1 .. Len(tasks) : tasks[i] # arg[c]
      BY <3>2 DEF Queued
    <3>4. arg[c] \in Tasks
      BY <2>1 DEF OnePlace
    <3>5. /\ Len(tasks) \in Nat
          /\ Len(tasks') = Len(tasks) + 1
          /\ \A i \in 1 .. Len(tasks) : tasks'[i] = tasks[i]
          /\ tasks'[Len(tasks) + 1] = arg[c]
      BY <2>1, <3>4 DEF TypeOK
    <3>6. QED
      BY <3>3, <3>5 DEF OnePlace
  <2>4. /\ Queued' \cap Running' = {}
        /\ Pending' \cap (Queued' \cup Running') = {}
        /\ done' \cap (Queued' \cup Running' \cup Pending') = {}
    BY <2>1, <1>3, AddPushEffect DEF OnePlace
  <2>5. QED
    BY <2>1, <2>2, <2>3, <2>4 DEF OnePlace
<1>4. ASSUME NEW w \in Workers, Take(w) PROVE OnePlace'
  <2>1. /\ worker' = [worker EXCEPT ![w] = "run"]
        /\ task' = [task EXCEPT ![w] = Head(tasks)]
        /\ tasks' = Tail(tasks)
        /\ UNCHANGED <<caller, arg, done>>
        /\ worker[w] = "take"
    BY <1>4 DEF Take, Goto
  <2>2. /\ Head(tasks) \in Tasks
        /\ Queued = Queued' \cup {Head(tasks)}
        /\ Head(tasks) \notin Queued'
        /\ Running' = Running \cup {Head(tasks)}
        /\ Pending' = Pending
    BY <1>4, TakeEffect
  <2>3. \A v \in Workers : worker'[v] = "run" => task'[v] \in Tasks
    BY <2>1, <2>2 DEF OnePlace, TypeOK
  <2>4. \A i, j \in 1 .. Len(tasks') : tasks'[i] = tasks'[j] => i = j
    <3>1. tasks # <<>>
      BY <2>1 DEF IInv, DequeAsTested
    <3>2. /\ Len(tasks) \in Nat \ {0}
          /\ Len(tasks') = Len(tasks) - 1
          /\ \A i \in 1 .. Len(tasks') :
               i + 1 \in 1 .. Len(tasks) /\ tasks'[i] = tasks[i + 1]
      BY <2>1, <3>1 DEF TypeOK
    <3>3. QED
      BY <3>2 DEF OnePlace
  <2>5. \A u, v \in Workers :
          worker'[u] = "run" /\ worker'[v] = "run" /\ task'[u] = task'[v] => u = v
    <3>1. \A v \in Workers : worker[v] = "run" => task[v] # Head(tasks)
      BY <2>2 DEF OnePlace, Running
    <3>2. QED
      BY <2>1, <3>1 DEF OnePlace, TypeOK
  <2>6. QED
    BY <2>1, <2>2, <2>3, <2>4, <2>5 DEF OnePlace
<1>5. ASSUME NEW w \in Workers, Finish(w) PROVE OnePlace'
  <2>1. /\ worker' = [worker EXCEPT ![w] = "lock"]
        /\ task' = [task EXCEPT ![w] = NoTask]
        /\ done' = done \cup {task[w]}
        /\ UNCHANGED <<tasks, caller, arg>>
    BY <1>5 DEF Finish, Goto
  <2>2. /\ task[w] \in Running
        /\ Running' = Running \ {task[w]}
        /\ Queued' = Queued
        /\ Pending' = Pending
    BY <1>5, FinishEffect
  <2>3. \A v \in Workers : worker'[v] = "run" => worker[v] = "run" /\ task'[v] = task[v]
    BY <2>1 DEF TypeOK
  <2>4. QED
    BY <2>1, <2>2, <2>3 DEF OnePlace
<1>6. CASE UNCHANGED vars
  BY <1>6, <1>1 DEF vars, MovesNoTask
<1>7. QED
  BY <1>1, <1>2, <1>3, <1>4, <1>5, <1>6, QuietWorkerSteps, QuietCallerSteps,
     QuietStopperSteps
  DEF Next, WorkerStep, CallerStep, StopperStep

\* The count of tasks never exceeds the workers on their way to the deque and
\* the notifications to come, unless no worker sleeps: action by action.
LEMMA WakeupStep == IInv /\ [Next]_vars => NoLostWakeup'
<1> SUFFICES ASSUME IInv, [Next]_vars PROVE NoLostWakeup'
  OBVIOUS
<1> USE DEF NoLostWakeup
<1> TypeOK /\ NoLostWakeup /\ DequeAsTested
  BY DEF IInv
<1>a. /\ IsFiniteSet(Alert) /\ IsFiniteSet(Notifying)
      /\ Cardinality(Alert) \in Nat /\ Cardinality(Notifying) \in Nat
      /\ Len(tasks) \in Nat
  <2>1. Alert \subseteq Workers /\ Notifying \subseteq Callers
    BY DEF Alert, Notifying
  <2>2. IsFiniteSet(Alert) /\ IsFiniteSet(Notifying)
    BY <2>1, ThreadsAssumption, FS_Subset
  <2>3. QED
    BY <2>2, FS_CardinalityType DEF TypeOK
\* A worker leaves Alert only where the deque is empty, stop_ is set, or it takes
\* a task with it.
<1>1. ASSUME NEW w \in Workers, Lock(w) PROVE NoLostWakeup'
  <2>1. Alert' = Alert /\ Sleeping' = Sleeping /\ Notifying' = Notifying
    BY <1>1 DEF Lock, Goto, Alert, Sleeping, Notifying, TypeOK
  <2>2. QED
    BY <1>1, <2>1 DEF Lock
<1>2. ASSUME NEW w \in Workers, Test(w) PROVE NoLostWakeup'
  <2>1. CASE ~stop /\ tasks = <<>>
    <3>1. Len(tasks') = 0
      BY <1>2, <2>1 DEF Test
    <3>2. Alert' = Alert \ {w} /\ Notifying' = Notifying
      BY <1>2, <2>1 DEF Test, Goto, Alert, Notifying, TypeOK
    <3>3. Cardinality(Alert') \in Nat
      BY <3>2, <1>a, FS_RemoveElement, FS_CardinalityType
    <3>4. QED
      BY <3>1, <3>2, <3>3, <1>a
  <2>2. CASE ~(~stop /\ tasks = <<>>)
    <3>1. Alert' = Alert /\ Sleeping' = Sleeping /\ Notifying' = Notifying
      BY <1>2, <2>2 DEF Test, Goto, Alert, Sleeping, Notifying, TypeOK
    <3>2. QED
      BY <1>2, <3>1 DEF Test
  <2>3. QED
    BY <2>1, <2>2
<1>3. ASSUME NEW w \in Workers, Sleep(w) PROVE NoLostWakeup'
  <2>1. Len(tasks') = 0
    BY <1>3 DEF Sleep, DequeAsTested
  <2>2. Alert' = Alert /\ Notifying' = Notifying
    BY <1>3 DEF Sleep, Goto, Alert, Notifying, TypeOK
  <2>3. QED
    BY <2>1, <2>2, <1>a
<1>4. ASSUME NEW w \in Workers, worker[w] = "waiting", Goto(w, "woken"),
             UNCHANGED <<tasks, stop>>
      PROVE  /\ Cardinality(Alert') = Cardinality(Alert) + 1
             /\ Sleeping' \subseteq Sleeping
             /\ w \in Sleeping
  <2>1. Alert' = Alert \cup {w} /\ w \notin Alert
    BY <1>4 DEF Goto, Alert, TypeOK
  <2>2. Cardinality(Alert') = Cardinality(Alert) + 1
    BY <2>1, <1>a, FS_AddElement
  <2>3. Sleeping' \subseteq Sleeping /\ w \in Sleeping
    BY <1>4 DEF Goto, Sleeping, TypeOK
  <2>4. QED
    BY <2>2, <2>3
<1>5. ASSUME NEW w \in Workers, SpuriousWakeup(w) PROVE NoLostWakeup'
  <2>1. Notifying' = Notifying
    BY <1>5 DEF SpuriousWakeup, Notifying
  <2>2. Cardinality(Alert') = Cardinality(Alert) + 1 /\ Sleeping # {}
    BY <1>5, <1>4 DEF SpuriousWakeup
  <2>3. QED
    BY <1>5, <1>a, <2>1, <2>2 DEF SpuriousWakeup
<1>6. ASSUME NEW w \in Workers, Check(w) PROVE NoLostWakeup'
  <2>1. CASE stop
    BY <1>6, <2>1 DEF Check
  <2>2. CASE ~stop
    <3>1. Alert' = Alert /\ Sleeping' = Sleeping /\ Notifying' = Notifying
      BY <1>6, <2>2 DEF Check, Goto, Alert, Sleeping, Notifying, TypeOK
    <3>2. QED
      BY <1>6, <3>1 DEF Check
  <2>3. QED
    BY <2>1, <2>2
<1>7. ASSUME NEW w \in Workers, Take(w) PROVE NoLostWakeup'
  <2>1. /\ w \in Alert /\ Alert' = Alert \ {w}
        /\ Sleeping' = Sleeping /\ Notifying' = Notifying
    BY <1>7 DEF Take, Goto, Alert, Sleeping, Notifying, TypeOK
  <2>2. Cardinality(Alert') = Cardinality(Alert) - 1
    BY <2>1, <1>a, FS_RemoveElement
  <2>3. Len(tasks') = Len(tasks) - 1
    BY <1>7 DEF Take, TypeOK, DequeAsTested
  <2>4. QED
    BY <1>7, <1>a, <2>1, <2>2, <2>3 DEF Take
<1>8. ASSUME NEW w \in Workers, Finish(w) PROVE NoLostWakeup'
  <2>1. /\ Alert' = Alert \cup {w} /\ w \notin Alert
        /\ Sleeping' = Sleeping /\ Notifying' = Notifying
    BY <1>8 DEF Finish, Goto, Alert, Sleeping, Notifying, TypeOK
  <2>2. Cardinality(Alert') = Cardinality(Alert) + 1
    BY <2>1, <1>a, FS_AddElement
  <2>3. QED
    BY <1>8, <1>a, <2>1, <2>2 DEF Finish
<1>9. ASSUME NEW c \in Callers, NEW t \in Tasks, AddLock(c, t) PROVE NoLostWakeup'
  <2>1. Alert' = Alert /\ Sleeping' = Sleeping /\ Notifying' = Notifying
    BY <1>9 DEF AddLock, Alert, Sleeping, Notifying, TypeOK
  <2>2. QED
    BY <1>9, <2>1 DEF AddLock
\* push_back() is matched by the notification the caller still owes.
<1>10. ASSUME NEW c \in Callers, AddPush(c) PROVE NoLostWakeup'
  <2>1. /\ Notifying' = Notifying \cup {c} /\ c \notin Notifying
        /\ Alert' = Alert /\ Sleeping' = Sleeping
    BY <1>10 DEF AddPush, Alert, Sleeping, Notifying, TypeOK
  <2>2. Cardinality(Notifying') = Cardinality(Notifying) + 1
    BY <2>1, <1>a, FS_AddElement
  <2>3. Len(tasks') = Len(tasks) + 1
    BY <1>10 DEF AddPush, TypeOK, IInv, OnePlace
  <2>4. QED
    BY <1>10, <1>a, <2>1, <2>2, <2>3 DEF AddPush
\* The notification turns into an alert worker, if one sleeps.
<1>11. ASSUME NEW c \in Callers, AddNotify(c) PROVE NoLostWakeup'
  <2>1. c \in Notifying /\ Notifying' = Notifying \ {c} /\ UNCHANGED <<tasks, stop>>
    BY <1>11 DEF AddNotify, Notifying, TypeOK
  <2>2. Cardinality(Notifying') = Cardinality(Notifying) - 1
    BY <2>1, <1>a, FS_RemoveElement
  <2>3. CASE Sleeping = {} /\ worker' = worker
    BY <2>3 DEF Sleeping
  <2>4. CASE \E w \in Sleeping : Goto(w, "woken")
    <3>1. Cardinality(Alert') = Cardinality(Alert) + 1 /\ Sleeping # {}
      BY <2>1, <2>4, <1>4 DEF Sleeping
    <3>2. QED
      BY <1>a, <2>1, <2>2, <3>1
  <2>5. QED
    BY <1>11, <2>3, <2>4 DEF AddNotify, NotifyOne
<1>12. ASSUME StopSet PROVE NoLostWakeup'
  BY <1>12 DEF StopSet
<1>13. ASSUME StopNotify PROVE NoLostWakeup'
  BY <1>13 DEF StopNotify, NotifyAll, Sleeping
<1>14. ASSUME StopJoin PROVE NoLostWakeup'
  BY <1>14 DEF StopJoin, Alert, Sleeping, Notifying
<1>15. CASE UNCHANGED vars
  BY <1>15 DEF vars, Alert, Sleeping, Notifying
<1>16. QED
  BY <1>1, <1>2, <1>3, <1>5, <1>6, <1>7, <1>8, <1>9, <1>10, <1>11, <1>12, <1>13,
     <1>14, <1>15 DEF Next, WorkerStep, CallerStep, StopperStep

\* stop_ is set from the first step of stop() on, and never reset.
LEMMA StopAskedStep == IInv /\ [Next]_vars => StopAsked'
<1> SUFFICES ASSUME IInv, [Next]_vars PROVE StopAsked'
  OBVIOUS
<1> USE DEF StopAsked
<1>1. StopAsked
  BY DEF IInv
<1>2. ASSUME NEW w \in Workers, WorkerStep(w) \/ SpuriousWakeup(w)
      PROVE  UNCHANGED <<stop, stopper>>
  BY <1>2 DEF WorkerStep, Lock, Test, Sleep, SpuriousWakeup, Check, Take, Finish
<1>3. ASSUME NEW c \in Callers, CallerStep(c) \/ (\E t \in Tasks : AddLock(c, t))
      PROVE  UNCHANGED <<stop, stopper>>
  BY <1>3 DEF CallerStep, AddPush, AddNotify, AddLock
<1>4. CASE StopSet
  BY <1>4 DEF StopSet
<1>5. CASE StopperStep
  BY <1>1, <1>5 DEF StopperStep, StopNotify, StopJoin
<1>6. CASE UNCHANGED vars
  BY <1>1, <1>6 DEF vars
<1>7. QED
  BY <1>1, <1>2, <1>3, <1>4, <1>5, <1>6 DEF Next
-------------------------------------------------------------------------------
(* The theorems *)

\* Every step keeps all parts of the invariant.
LEMMA InvarianceStep == IInv /\ [Next]_vars => IInv'
BY TypeStep, StopAskedStep, MutexStep, DequeStep, OnePlaceStep, WakeupStep DEF IInv

\* IInv holds in every reachable state.
LEMMA Invariance == Spec => []IInv
<1>1. Init => IInv
  BY InitInv
<1>2. IInv /\ [Next]_vars => IInv'
  BY InvarianceStep
<1>3. QED
  BY <1>1, <1>2, PTL DEF Spec

\* Whatever the threads do, every variable keeps its type: in particular no
\* worker ever picks up something that is not a task.
THEOREM TypeCorrect == Spec => []TypeOK
<1>1. IInv => TypeOK
  BY DEF IInv
<1>2. QED
  BY <1>1, Invariance, PTL

\* m_ is held by exactly the thread that is in a critical section of
\* operator()() or addTask().
THEOREM MutualExclusion == Spec => []MutexOwned
<1>1. IInv => MutexOwned
  BY DEF IInv
<1>2. QED
  BY <1>1, Invariance, PTL

\* front() and pop_front() are never called on an empty deque, and no worker goes
\* to sleep on one that holds a task.
THEOREM NoEmptyPop == Spec => []DequeAsTested
<1>1. IInv => DequeAsTested
  BY DEF IInv
<1>2. QED
  BY <1>1, Invariance, PTL

\* No task is lost between addTask() and its worker, none runs twice.
THEOREM EachTaskOnce == Spec => []OnePlace
<1>1. IInv => OnePlace
  BY DEF IInv
<1>2. QED
  BY <1>1, Invariance, PTL

\* notify_one() outside m_ loses no wakeup, for any number of workers and callers.
THEOREM WakeupsSuffice == Spec => []NoLostWakeup
<1>1. IInv => NoLostWakeup
  BY DEF IInv
<1>2. QED
  BY <1>1, Invariance, PTL

\* A step that moves no task and leaves stop_, stopper and the workers at "take"
\* as they are is a stutter of the TaskPool.
LEMMA QuietStutter ==
  ASSUME MovesNoTask, UNCHANGED <<stop, stopper>>,
         ~stop \/ (\A w \in Workers : worker'[w] = "take" <=> worker[w] = "take")
  PROVE  UNCHANGED Promise!poolVars
BY MovesNoTaskEffect DEF MovesNoTask, Promise!poolVars

\* Take is Begin, Finish is Complete; all other steps of the workers stutter.
LEMMA StepImplements == IInv /\ [Next]_vars => [Promise!Next]_(Promise!poolVars)
<1> SUFFICES ASSUME IInv, [Next]_vars PROVE [Promise!Next]_(Promise!poolVars)
  OBVIOUS
<1> TypeOK /\ StopAsked /\ MutexOwned /\ DequeAsTested /\ OnePlace
  BY DEF IInv
<1>1. ASSUME NEW w \in Workers,
             Lock(w) \/ Test(w) \/ Sleep(w) \/ SpuriousWakeup(w) \/ Check(w)
      PROVE  UNCHANGED Promise!poolVars
  <2>1. UNCHANGED <<stop, stopper>>
    BY <1>1 DEF Lock, Test, Sleep, SpuriousWakeup, Check
  <2>2. ~stop \/ (\A v \in Workers : worker'[v] = "take" <=> worker[v] = "take")
    <3> USE DEF Goto, TypeOK
    <3>1. CASE Lock(w)
      BY <3>1 DEF Lock
    <3>2. CASE Test(w)
      BY <3>2 DEF Test
    <3>3. CASE Sleep(w)
      BY <3>3 DEF Sleep
    <3>4. CASE SpuriousWakeup(w)
      BY <3>4 DEF SpuriousWakeup
    <3>5. CASE Check(w)
      BY <3>5 DEF Check
    <3>6. QED
      BY <1>1, <3>1, <3>2, <3>3, <3>4, <3>5
  <2>3. QED
    BY <1>1, <2>1, <2>2, QuietWorkerSteps, QuietStutter
<1>2. ASSUME NEW w \in Workers, Take(w) PROVE Promise!Begin
  <2>1. /\ worker' = [worker EXCEPT ![w] = "run"]
        /\ tasks' = Tail(tasks)
        /\ UNCHANGED <<stop, stopper, done>>
        /\ worker[w] = "take"
    BY <1>2 DEF Take, Goto
  <2>2. tasks # <<>> /\ Head(tasks) \in Queued
    <3>1. tasks # <<>>
      BY <2>1 DEF DequeAsTested
    <3>2. QED
      BY <3>1 DEF TypeOK, Queued
  <2>3. Head(tasks) \notin Running \cup done
    BY <2>2 DEF OnePlace
  <2>4. Running' = Running \cup {Head(tasks)}
    BY <1>2, TakeEffect
  <2>5. \A v \in Workers : worker'[v] # "take"
    BY <2>1 DEF MutexOwned, Holding, TypeOK
  <2>6. QED
    BY <2>1, <2>2, <2>3, <2>4, <2>5 DEF Promise!Begin
<1>3. ASSUME NEW w \in Workers, Finish(w) PROVE Promise!Complete(task[w])
  <2>1. /\ worker' = [worker EXCEPT ![w] = "lock"]
        /\ worker[w] = "run"
        /\ done' = done \cup {task[w]}
        /\ UNCHANGED <<tasks, stop, stopper>>
    BY <1>3 DEF Finish, Goto
  <2>2. \A v \in Workers : worker'[v] = "take" <=> worker[v] = "take"
    BY <2>1 DEF TypeOK
  <2>3. task[w] \in Running /\ Running' = Running \ {task[w]}
    BY <1>3, FinishEffect
  <2>4. QED
    BY <2>1, <2>2, <2>3 DEF Promise!Complete
<1>4. ASSUME NEW c \in Callers, NEW t \in Tasks, AddLock(c, t)
      PROVE  UNCHANGED Promise!poolVars
  BY <1>4, AddLockEffect DEF AddLock, Promise!poolVars
<1>5. ASSUME NEW c \in Callers, AddPush(c) PROVE Promise!Submit(arg[c])
  <2>1. Running' = Running /\ arg[c] \in Pending
    BY <1>5, AddPushEffect
  <2>2. arg[c] \notin Queued \cup Running \cup done
    BY <2>1 DEF OnePlace
  <2>3. \A i \in 1 .. Len(tasks) : tasks[i] # arg[c]
    BY <2>2 DEF Queued
  <2>4. QED
    BY <1>5, <2>1, <2>2, <2>3 DEF AddPush, Promise!Submit
<1>6. ASSUME NEW c \in Callers, AddNotify(c) PROVE UNCHANGED Promise!poolVars
  <2>1. \A v \in Workers : worker'[v] = "take" <=> worker[v] = "take"
    BY <1>6 DEF AddNotify, NotifyOne, Sleeping, Goto, TypeOK
  <2>2. UNCHANGED <<stop, stopper>>
    BY <1>6 DEF AddNotify
  <2>3. QED
    BY <1>6, <2>1, <2>2, QuietCallerSteps, QuietStutter
<1>7. ASSUME StopSet PROVE Promise!Close
  <2>1. Queued' = Queued /\ Running' = Running
    BY <1>7, QuietStopperSteps, MovesNoTaskEffect
  <2>2. stop = FALSE
    BY <1>7 DEF StopSet, StopAsked, TypeOK
  <2>3. QED
    BY <1>7, <2>1, <2>2 DEF StopSet, Promise!Close
<1>8. ASSUME StopNotify PROVE UNCHANGED Promise!poolVars
  <2>1. \A v \in Workers : worker'[v] = "take" <=> worker[v] = "take"
    BY <1>8 DEF StopNotify, NotifyAll, Sleeping, TypeOK
  <2>2. Running' = Running /\ UNCHANGED <<tasks, stop, done>>
    BY <1>8, QuietStopperSteps, MovesNoTaskEffect DEF StopNotify
  <2>3. QED
    BY <1>8, <2>1, <2>2 DEF StopNotify, Promise!poolVars
<1>9. ASSUME StopJoin PROVE Promise!Terminate
  <2>1. Running' = Running
    BY <1>9, QuietStopperSteps, MovesNoTaskEffect
  <2>2. Running = {} /\ \A w \in Workers : worker[w] # "take"
    BY <1>9 DEF StopJoin, Running
  <2>3. stop = TRUE
    BY <1>9 DEF StopJoin, StopAsked, TypeOK
  <2>4. QED
    BY <1>9, <2>1, <2>2, <2>3 DEF StopJoin, Promise!Terminate
<1>10. CASE UNCHANGED vars
  BY <1>10 DEF vars, Promise!poolVars, Running
<1>11. ASSUME NEW t \in Tasks, Promise!Submit(t) \/ Promise!Complete(t)
       PROVE  Promise!Next
  BY <1>11 DEF Promise!Next
<1>12. ASSUME NEW w \in Workers, WorkerStep(w) \/ SpuriousWakeup(w)
       PROVE  [Promise!Next]_(Promise!poolVars)
  <2>1. CASE Finish(w)
    BY <2>1, <1>3, <1>11, FinishEffect
  <2>2. CASE Take(w)
    BY <2>2, <1>2 DEF Promise!Next
  <2>3. QED
    BY <1>1, <1>12, <2>1, <2>2 DEF WorkerStep
<1>13. ASSUME NEW c \in Callers, CallerStep(c) \/ (\E t \in Tasks : AddLock(c, t))
       PROVE  [Promise!Next]_(Promise!poolVars)
  <2>1. CASE AddPush(c)
    <3>1. arg[c] \in Tasks
      BY <2>1 DEF AddPush, OnePlace
    <3>2. QED
      BY <2>1, <3>1, <1>5, <1>11
  <2>2. QED
    BY <1>4, <1>6, <1>13, <2>1 DEF CallerStep
<1>14. QED
  BY <1>7, <1>8, <1>9, <1>10, <1>12, <1>13 DEF Next, StopperStep, Promise!Next

\* The threads, the mutex and the condition variable keep the promises of
\* TaskPool: tasks are begun in the order of their addTask(), each once, at most
\* one after stop_ was set, and none after stop() has returned.
THEOREM PoolImplementsTaskPool == Spec => ImplementsTaskPool
<1>1. Init => Promise!Init
  <2> SUFFICES ASSUME Init PROVE Promise!Init
    OBVIOUS
  <2>1. Running = {}
    BY DEF Init, Running
  <2>2. QED
    BY <2>1 DEF Init, Promise!Init
<1>2. IInv /\ [Next]_vars => [Promise!Next]_(Promise!poolVars)
  BY StepImplements
<1>3. QED
  BY <1>1, <1>2, Invariance, PTL DEF Spec, ImplementsTaskPool, Promise!Spec
===============================================================================
