------------------------------ MODULE ThreadPool ------------------------------
(***************************************************************************)
(* ThreadPool and WorkerThread (src/pool.h, src/pool.cpp): a deque of      *)
(* tasks guarded by the mutex m_, worker threads that sleep on the         *)
(* condition variable work_to_do_, addTask() called by any number of       *)
(* threads and one call of stop().                                         *)
(*                                                                         *)
(* Between two actions of a thread every other thread may run.  A step     *)
(* holds at most one access to shared state that is not guarded by m_: the *)
(* atomic stop_ is read twice by a worker (the loop condition and the if   *)
(* after the loop) and each read is a step of its own.                     *)
(***************************************************************************)
EXTENDS Naturals, Sequences, FiniteSets

CONSTANTS Workers,    \* threads_, started by the constructor
          Callers,    \* the threads that call addTask()
          Tasks,      \* the tasks they add, each of them once
          NoThread,   \* m_ is free
          NoTask      \* no task held

ASSUME ThreadsAssumption ==
  /\ IsFiniteSet(Workers)
  /\ IsFiniteSet(Callers)
  /\ Workers \cap Callers = {}
  /\ NoThread \notin Workers \cup Callers

ASSUME TasksAssumption == NoTask \notin Tasks

VARIABLES mutex,      \* m_: the thread that holds it, or NoThread
          tasks,      \* tasks_
          stop,       \* stop_
          worker,     \* where each worker thread is in operator()()
          task,       \* the local `task` of each worker
          caller,     \* where each caller is in addTask()
          arg,        \* the argument of the addTask() it is in
          stopper,    \* where the thread that calls stop() is
          done        \* the tasks that were executed

vars == <<mutex, tasks, stop, worker, task, caller, arg, stopper, done>>

WorkerPC == {"lock",      \* about to lock m_ at the top of the loop
             "test",      \* holds m_, about to test the wait condition
             "sleep",     \* holds m_, about to call wait(lock)
             "waiting",   \* blocked in wait(lock)
             "woken",     \* notified, wants m_ back before wait() returns
             "check",     \* holds m_, about to test stop_ again
             "take",      \* holds m_, about to pop the front task
             "run",       \* executing the task
             "exit"}      \* the thread function has returned

\* Where a worker holds m_.
Holding == {"test", "sleep", "check", "take"}

CallerPC == {"idle", "push", "notify"}

StopperPC == {"idle", "notify", "join", "returned"}

Queued == {tasks[i] : i \in 1 .. Len(tasks)}

Running == {task[w] : w \in {v \in Workers : worker[v] = "run"}}

\* Tasks locked in by a caller but not yet in the deque.
Pending == {arg[c] : c \in {d \in Callers : caller[d] = "push"}}

TypeOK ==
  /\ mutex \in Workers \cup Callers \cup {NoThread}
  /\ tasks \in Seq(Tasks)
  /\ stop \in BOOLEAN
  /\ worker \in [Workers -> WorkerPC]
  /\ task \in [Workers -> Tasks \cup {NoTask}]
  /\ caller \in [Callers -> CallerPC]
  /\ arg \in [Callers -> Tasks \cup {NoTask}]
  /\ stopper \in StopperPC
  /\ done \subseteq Tasks

\* The constructor: stop_ is false, the deque is empty and every worker is
\* started.  A worker that the system has not scheduled yet stands at "lock".
Init ==
  /\ mutex = NoThread
  /\ tasks = <<>>
  /\ stop = FALSE
  /\ worker = [w \in Workers |-> "lock"]
  /\ task = [w \in Workers |-> NoTask]
  /\ caller = [c \in Callers |-> "idle"]
  /\ arg = [c \in Callers |-> NoTask]
  /\ stopper = "idle"
  /\ done = {}
-------------------------------------------------------------------------------
(* WorkerThread::operator()() *)

Goto(w, pc) == worker' = [worker EXCEPT ![w] = pc]

\* Bug: if instead of while around the wait; a woken worker does not test again.
LockWithoutRetest(w) ==
  /\ worker[w] \in {"lock", "woken"}
  /\ mutex = NoThread
  /\ mutex' = w
  /\ Goto(w, IF worker[w] = "woken" THEN "check" ELSE "test")
  /\ UNCHANGED <<tasks, stop, task, caller, arg, stopper, done>>

\* std::unique_lock at the top of the loop, or the re-locking that ends a wait.
Lock(w) ==
  /\ worker[w] \in {"lock", "woken"}
  /\ mutex = NoThread
  /\ mutex' = w
  /\ Goto(w, "test")
  /\ UNCHANGED <<tasks, stop, task, caller, arg, stopper, done>>

\* while (!stop_ && tasks_.size() == 0)
Test(w) ==
  /\ worker[w] = "test"
  /\ Goto(w, IF ~stop /\ tasks = <<>> THEN "sleep" ELSE "check")
  /\ UNCHANGED <<mutex, tasks, stop, task, caller, arg, stopper, done>>

\* work_to_do_.wait(lock): m_ is released and the thread blocked in one step.
Sleep(w) ==
  /\ worker[w] = "sleep"
  /\ mutex' = NoThread
  /\ Goto(w, "waiting")
  /\ UNCHANGED <<tasks, stop, task, caller, arg, stopper, done>>

\* A condition variable may wake a thread that nobody notified.
SpuriousWakeup(w) ==
  /\ worker[w] = "waiting"
  /\ Goto(w, "woken")
  /\ UNCHANGED <<mutex, tasks, stop, task, caller, arg, stopper, done>>

\* Bug: the stopped worker leaves with m_ locked.
CheckLeavingLocked(w) ==
  /\ worker[w] = "check"
  /\ Goto(w, IF stop THEN "exit" ELSE "take")
  /\ UNCHANGED <<mutex, tasks, stop, task, caller, arg, stopper, done>>

\* if (stop_) break; the break destroys the lock, which releases m_.
Check(w) ==
  /\ worker[w] = "check"
  /\ IF stop THEN Goto(w, "exit") /\ mutex' = NoThread
             ELSE Goto(w, "take") /\ mutex' = mutex
  /\ UNCHANGED <<tasks, stop, task, caller, arg, stopper, done>>

\* Bug: no pop_front().
TakeKeepingFront(w) ==
  /\ worker[w] = "take"
  /\ task' = [task EXCEPT ![w] = Head(tasks)]
  /\ mutex' = NoThread
  /\ Goto(w, "run")
  /\ UNCHANGED <<tasks, stop, caller, arg, stopper, done>>

\* front(), pop_front() and unlock(): m_ is held, nobody sees them apart.
Take(w) ==
  /\ worker[w] = "take"
  /\ task' = [task EXCEPT ![w] = Head(tasks)]
  /\ tasks' = Tail(tasks)
  /\ mutex' = NoThread
  /\ Goto(w, "run")
  /\ UNCHANGED <<stop, caller, arg, stopper, done>>

\* task() returns and the local is destroyed at the end of the loop body.
Finish(w) ==
  /\ worker[w] = "run"
  /\ done' = done \cup {task[w]}
  /\ task' = [task EXCEPT ![w] = NoTask]
  /\ Goto(w, "lock")
  /\ UNCHANGED <<mutex, tasks, stop, caller, arg, stopper>>
-------------------------------------------------------------------------------
(* ThreadPool::addTask() *)

\* The call, and std::unique_lock.  A task is a closure of its own, so none is
\* added twice.
AddLock(c, t) ==
  /\ caller[c] = "idle"
  /\ t \notin Queued \cup Running \cup Pending \cup done
  /\ mutex = NoThread
  /\ mutex' = c
  /\ arg' = [arg EXCEPT ![c] = t]
  /\ caller' = [caller EXCEPT ![c] = "push"]
  /\ UNCHANGED <<tasks, stop, worker, task, stopper, done>>

\* Bug: the argument was moved from before it is pushed.
AddPushMovedFrom(c) ==
  /\ caller[c] = "push"
  /\ tasks' = Append(tasks, NoTask)
  /\ mutex' = NoThread
  /\ arg' = [arg EXCEPT ![c] = NoTask]
  /\ caller' = [caller EXCEPT ![c] = "notify"]
  /\ UNCHANGED <<stop, worker, task, stopper, done>>

\* push_back() and unlock()
AddPush(c) ==
  /\ caller[c] = "push"
  /\ tasks' = Append(tasks, arg[c])
  /\ mutex' = NoThread
  /\ arg' = [arg EXCEPT ![c] = NoTask]
  /\ caller' = [caller EXCEPT ![c] = "notify"]
  /\ UNCHANGED <<stop, worker, task, stopper, done>>

Sleeping == {w \in Workers : worker[w] = "waiting"}

\* notify_one(): wakes one waiting thread, any of them, if there is one.
NotifyOne ==
  \/ /\ Sleeping = {}
     /\ worker' = worker
  \/ \E w \in Sleeping : Goto(w, "woken")

\* Bug: only the first task of an empty deque is announced.
AddNotifyFirstOnly(c) ==
  /\ caller[c] = "notify"
  /\ IF Len(tasks) = 1 THEN NotifyOne ELSE worker' = worker
  /\ caller' = [caller EXCEPT ![c] = "idle"]
  /\ UNCHANGED <<mutex, tasks, stop, task, arg, stopper, done>>

\* Bug: nobody is notified.
AddNotifyNobody(c) ==
  /\ caller[c] = "notify"
  /\ caller' = [caller EXCEPT ![c] = "idle"]
  /\ UNCHANGED <<mutex, tasks, stop, worker, task, arg, stopper, done>>

AddNotify(c) ==
  /\ caller[c] = "notify"
  /\ NotifyOne
  /\ caller' = [caller EXCEPT ![c] = "idle"]
  /\ UNCHANGED <<mutex, tasks, stop, task, arg, stopper, done>>
-------------------------------------------------------------------------------
(* ThreadPool::stop() *)

\* stop_ = true, without m_.
StopSet ==
  /\ stopper = "idle"
  /\ stop' = TRUE
  /\ stopper' = "notify"
  /\ UNCHANGED <<mutex, tasks, worker, task, caller, arg, done>>

\* Bug: notify_one() in stop().
NotifyOnlyOne == NotifyOne

NotifyAll == worker' = [w \in Workers |-> IF w \in Sleeping THEN "woken" ELSE worker[w]]

StopNotify ==
  /\ stopper = "notify"
  /\ NotifyAll
  /\ stopper' = "join"
  /\ UNCHANGED <<mutex, tasks, stop, task, caller, arg, done>>

\* Bug: the threads are detached.
StopDetach ==
  /\ stopper = "join"
  /\ stopper' = "returned"
  /\ UNCHANGED <<mutex, tasks, stop, worker, task, caller, arg, done>>

\* The joins, one thread after the other: together they wait for all of them.
StopJoin ==
  /\ stopper = "join"
  /\ \A w \in Workers : worker[w] = "exit"
  /\ stopper' = "returned"
  /\ UNCHANGED <<mutex, tasks, stop, worker, task, caller, arg, done>>
-------------------------------------------------------------------------------
\* What a worker thread does by itself once it is scheduled.
WorkerStep(w) ==
  Lock(w) \/ Test(w) \/ Sleep(w) \/ Check(w) \/ Take(w) \/ Finish(w)

CallerStep(c) == AddPush(c) \/ AddNotify(c)

StopperStep == StopNotify \/ StopJoin

Next ==
  \/ \E w \in Workers : WorkerStep(w) \/ SpuriousWakeup(w)
  \/ \E c \in Callers : CallerStep(c) \/ (\E t \in Tasks : AddLock(c, t))
  \/ StopSet
  \/ StopperStep

Spec == Init /\ [][Next]_vars

\* The system schedules every thread that can run, a task returns, and a call
\* that was begun goes on.  Nothing says that addTask() or stop() is called, nor
\* that a wait ends by itself.
Fairness ==
  /\ \A w \in Workers : WF_vars(WorkerStep(w))
  /\ \A c \in Callers : WF_vars(CallerStep(c))
  /\ WF_vars(StopperStep)

FairSpec == Spec /\ Fairness
-------------------------------------------------------------------------------
(* Properties *)

\* m_ is held by exactly the thread whose control is between locking and
\* unlocking: no two threads are in a critical section, and none leaves one,
\* by the break or by a wait, with m_ still locked.
MutexOwned ==
  /\ \A w \in Workers : worker[w] \in Holding <=> mutex = w
  /\ \A c \in Callers : caller[c] = "push" <=> mutex = c

\* What a worker learnt of the deque under m_ still holds when it acts on it: it
\* goes to sleep on an empty deque, and front() and pop_front() are never called
\* on one, whoever else was woken for the same task and whenever stop_ is set.
DequeAsTested ==
  \A w \in Workers :
    /\ worker[w] = "sleep" => tasks = <<>>
    /\ worker[w] = "check" /\ ~stop => tasks # <<>>
    /\ worker[w] = "take" => tasks # <<>>

\* Every task is in one place: in the hands of one caller, once in the deque, on
\* one worker, or executed.  So no task runs twice and none is shared.
OnePlace ==
  /\ \A w \in Workers : worker[w] = "run" => task[w] \in Tasks
  /\ \A c \in Callers : caller[c] = "push" => arg[c] \in Tasks
  /\ \A i, j \in 1 .. Len(tasks) : tasks[i] = tasks[j] => i = j
  /\ \A v, w \in Workers :
       worker[v] = "run" /\ worker[w] = "run" /\ task[v] = task[w] => v = w
  /\ Queued \cap Running = {}
  /\ Pending \cap (Queued \cup Running) = {}
  /\ done \cap (Queued \cup Running \cup Pending) = {}

Notifying == {c \in Callers : caller[c] = "notify"}

\* Workers that will look at the deque again before they sleep.
Alert == {w \in Workers : worker[w] \in {"lock", "woken", "test", "check", "take"}}

\* No wakeup of addTask() is lost: while a worker sleeps, every queued task is
\* matched by a worker on its way to the deque or a notification still to come.
\* So a task is never left waiting because notify_one() went unheard.
NoLostWakeup ==
  ~stop /\ Sleeping # {} => Len(tasks) <= Cardinality(Alert) + Cardinality(Notifying)

\* stop() may find workers asleep, but if none of them stands between its test
\* and its wait when stop_ is set, then stop() returns.
StopFromQuietPool ==
  (stopper = "notify" /\ \A w \in Workers : worker[w] # "sleep") ~> stopper = "returned"

\* A task in the deque is executed, unless the pool is stopped first.
TasksExecuted == \A t \in Tasks : t \in Queued ~> (t \in done \/ stop)

\* stop() "waits for all running jobs to finish and shuts down the pool": once
\* called it returns.
StopReturns == stopper = "notify" ~> stopper = "returned"

\* The pool keeps the promises of TaskPool: tasks are begun in the order of their
\* addTask(), each once, at most one after stop_ was set, none after stop()
\* returned.
Promise == INSTANCE TaskPool WITH
  queue <- tasks,
  running <- Running,
  completed <- done,
  closed <- stop,
  accepting <- ~stop \/ \E w \in Workers : worker[w] = "take",
  terminated <- stopper = "returned"

ImplementsTaskPool == Promise!Spec
===============================================================================
