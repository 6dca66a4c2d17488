-------------------------------- MODULE Daemon --------------------------------
(***************************************************************************)
(* The process around the ThreadPool: main() (src/mtd64-ng/main.cpp), the  *)
(* receive loop Server::start() (src/mtd64-ng/server.cpp) and the SIGTERM  *)
(* handler.                                                                *)
(*                                                                         *)
(* The main thread is the pool's only caller.  The handler runs on the     *)
(* main thread, where the kernel delivers a signal that main does not      *)
(* block: while it is in Server::stop() main does not move, whatever main  *)
(* was in the middle of.  (A SIGTERM that comes while the handler is there *)
(* goes to a worker thread; that one is not modelled.)                     *)
(***************************************************************************)
EXTENDS Naturals, Sequences, FiniteSets

CONSTANTS Workers,    \* the num_threads_ threads of the pool
          Main,       \* the main thread
          Tasks,      \* the client datagrams, each a Query
          MaxSignals, \* how often SIGTERM is sent
          NoThread,
          NoTask

ASSUME SignalsAssumption == MaxSignals \in Nat

VARIABLES
  mutex, tasks, stop, worker, task, caller, arg, stopper, done,  \* *pool_
  main,       \* where the main thread is
  server,     \* the global `server`: not created yet, alive or deleted
  pool,       \* Server::pool_ is a pool, and not nullptr
  sock,       \* Server::sock6fd_
  received,   \* the datagrams recvfrom() has returned
  local,      \* the datagram in the loop's buffer, if any
  signals,    \* how often SIGTERM was delivered
  late        \* history: the datagrams received when stop() had been called

poolVars == <<mutex, tasks, stop, worker, task, caller, arg, stopper, done>>
mainVars == <<main, server, pool, sock, received, local, signals, late>>
vars == <<poolVars, mainVars>>

Pool == INSTANCE ThreadPool WITH Callers <- {Main}

ASSUME PoolAssumption == Pool!ThreadsAssumption /\ Pool!TasksAssumption

MainPC == {"register",   \* before sigaction()
           "construct",  \* about to create the Server
           "configure",  \* about to call loadConfig()
           "listen",     \* about to create and bind the socket
           "spawn",      \* about to create the ThreadPool
           "test",       \* about to test isStopped()
           "call",       \* about to call recvfrom()
           "recv",       \* blocked in recvfrom()
           "eintr",      \* recvfrom() was interrupted by the signal
           "add",        \* about to call addTask()
           "adding",     \* in addTask()
           "close",      \* after the loop, about to close the socket
           "delete",     \* about to delete the server
           "exit",       \* about to call exit()
           "gone",       \* the process has ended
           "crashed"}    \* the process was ended by an error

TypeOK ==
  /\ Pool!TypeOK
  /\ main \in MainPC
  /\ server \in {"none", "alive", "deleted"}
  /\ pool \in BOOLEAN
  /\ sock \in {"none", "open", "closed"}
  /\ received \subseteq Tasks
  /\ local \in Tasks \cup {NoTask}
  /\ signals \in 0 .. MaxSignals
  /\ late \subseteq received

Init ==
  /\ Pool!Init
  /\ main = "register"
  /\ server = "none"
  /\ pool = FALSE
  /\ sock = "none"
  /\ received = {}
  /\ local = NoTask
  /\ signals = 0
  /\ late = {}
-------------------------------------------------------------------------------
(* The SIGTERM handler *)

\* Bug: the handler returns before the threads are joined.
InHandlerNotJoining == stopper = "notify"

\* The handler has interrupted the main thread and has not returned.
InHandler == stopper \in {"notify", "join"}

\* The handler calls server->stop(), which is pool_->stop().  Blocked in recvfrom(), main
\* will return from it with EINTR (no SA_RESTART).
StopAsked ==
  /\ stopper = "idle"
  /\ Pool!StopSet
  /\ main' = IF main = "recv" THEN "eintr" ELSE main

\* Where an exception out of the handler may pass through what main has called to the catch
\* of main(): recvfrom(), new, syslog() and close() let it.  Behind close() main is at
\* "delete" for the model, though not yet out of start().
MayCatch == {"test", "call", "recv", "eintr", "add", "close", "delete"}

\* The threads were joined before: join() throws, out of the handler.  main()'s catch may see
\* the exception, and the buffer of the loop is leaked; or it ends the process.  Without
\* threads there is nothing to join.
StopAgain ==
  /\ stopper = "returned"
  /\ main' \in IF Workers = {} THEN {IF main = "recv" THEN "eintr" ELSE main}
               ELSE (IF main \in MayCatch THEN {"delete"} ELSE {}) \cup {"crashed"}
  /\ UNCHANGED poolVars

\* Before sigaction() the signal ends the process.  Later, without a server or a pool,
\* the handler goes through a null or a dangling pointer.
NothingToStop ==
  /\ server # "alive" \/ ~pool
  /\ main' = IF main = "register" THEN "gone" ELSE "crashed"
  /\ UNCHANGED poolVars

\* Bug: the handler calls exit().
SigtermExiting ==
  /\ signals < MaxSignals
  /\ main \notin {"gone", "crashed"}
  /\ signals' = signals + 1
  /\ main' = "gone"
  /\ UNCHANGED <<poolVars, server, pool, sock, received, local, late>>

Sigterm ==
  /\ signals < MaxSignals
  /\ ~InHandler
  /\ main \notin {"gone", "crashed"}
  /\ signals' = signals + 1
  /\ \/ server = "alive" /\ pool /\ (StopAsked \/ StopAgain)
     \/ NothingToStop
  /\ UNCHANGED <<server, pool, sock, received, local, late>>

Handler == Pool!StopperStep /\ UNCHANGED mainVars
-------------------------------------------------------------------------------
(* main() *)

\* Bug: the handler runs beside the main thread.
AtBesideHandler(pc) == main = pc

At(pc) == main = pc /\ ~InHandler

Register ==
  /\ At("register")
  /\ main' = "construct"
  /\ UNCHANGED <<poolVars, server, pool, sock, received, local, signals, late>>

Construct ==
  /\ At("construct")
  /\ server' = "alive"
  /\ main' = "configure"
  /\ UNCHANGED <<poolVars, pool, sock, received, local, signals, late>>

\* loadConfig() throws if there is no file. What it returns is not looked at.
Configure ==
  /\ At("configure")
  /\ main' \in {"listen", "delete"}
  /\ UNCHANGED <<poolVars, server, pool, sock, received, local, signals, late>>

\* delete server: ~Server() deletes the pool, which destroys the tasks that are
\* still in the deque with their buffers.
Delete ==
  /\ At("delete")
  /\ server' = "deleted"
  /\ pool' = FALSE
  /\ main' = "exit"
  /\ UNCHANGED <<poolVars, sock, received, local, signals, late>>

Exit ==
  /\ At("exit")
  /\ main' = "gone"
  /\ UNCHANGED <<poolVars, server, pool, sock, received, local, signals, late>>
-------------------------------------------------------------------------------
(* Server::start() *)

\* socket() and bind(). Either may fail; the exception is caught in main().
Listen ==
  /\ At("listen")
  /\ \/ sock' = "none" /\ main' = "delete"
     \/ sock' = "open" /\ main' = "delete"
     \/ sock' = "open" /\ main' = "spawn"
  /\ UNCHANGED <<poolVars, server, pool, received, local, signals, late>>

\* new ThreadPool{num_threads_}. If the first thread cannot be started the
\* exception is caught in main(); if a later one cannot, destroying the threads
\* already started terminates the process.
Spawn ==
  /\ At("spawn")
  /\ \/ pool' = TRUE /\ main' = "test"
     \/ pool' = FALSE /\ Workers # {} /\ main' = "delete"
     \/ pool' = FALSE /\ Cardinality(Workers) > 1 /\ main' = "crashed"
  /\ UNCHANGED <<poolVars, server, sock, received, local, signals, late>>

\* Bug: the loop does not look at isStopped().
TestNothing ==
  /\ At("test")
  /\ main' = "call"
  /\ UNCHANGED <<poolVars, server, pool, sock, received, local, signals, late>>

\* while (!pool_->isStopped())
TestStopped ==
  /\ At("test")
  /\ main' = IF stop THEN "close" ELSE "call"
  /\ UNCHANGED <<poolVars, server, pool, sock, received, local, signals, late>>

CallRecvfrom ==
  /\ At("call")
  /\ main' = "recv"
  /\ UNCHANGED <<poolVars, server, pool, sock, received, local, signals, late>>

\* Bug: a datagram that arrives when the pool is stopped is forgotten.
ReceiveUnlessStopped(d) ==
  /\ At("recv")
  /\ d \notin received
  /\ received' = received \cup {d}
  /\ local' = IF stop THEN NoTask ELSE d
  /\ main' = IF stop THEN "test" ELSE "add"
  /\ late' = IF stop THEN late \cup {d} ELSE late
  /\ UNCHANGED <<poolVars, server, pool, sock, signals>>

Receive(d) ==
  /\ At("recv")
  /\ d \notin received
  /\ received' = received \cup {d}
  /\ local' = d
  /\ main' = "add"
  /\ late' = IF stop THEN late \cup {d} ELSE late
  /\ UNCHANGED <<poolVars, server, pool, sock, signals>>

\* An empty datagram, or an error other than EINTR: the buffer is freed.  After an empty
\* datagram errno is that of an earlier call, which a signal may have interrupted.
ReceiveNothing ==
  /\ At("recv")
  /\ main' \in {"test"} \cup (IF signals > 0 THEN {"close"} ELSE {})
  /\ UNCHANGED <<poolVars, server, pool, sock, received, local, signals, late>>

\* Bug: recvfrom() is retried when it is interrupted.
InterruptedRetrying ==
  /\ At("eintr")
  /\ main' = "call"
  /\ UNCHANGED <<poolVars, server, pool, sock, received, local, signals, late>>

\* errno == EINTR: break
Interrupted ==
  /\ At("eintr")
  /\ main' = "close"
  /\ UNCHANGED <<poolVars, server, pool, sock, received, local, signals, late>>

\* Bug: the Query was moved from before it is added.
CallAddTaskMovedFrom ==
  /\ At("add")
  /\ Pool!AddLock(Main, NoTask)
  /\ local' = NoTask
  /\ main' = "adding"
  /\ UNCHANGED <<server, pool, sock, received, signals, late>>

\* addTask(Query{...}): the Query, and the buffer with it, moves into the task.
CallAddTask ==
  /\ At("add")
  /\ Pool!AddLock(Main, local)
  /\ local' = NoTask
  /\ main' = "adding"
  /\ UNCHANGED <<server, pool, sock, received, signals, late>>

AddTask ==
  /\ At("adding")
  /\ \/ Pool!AddPush(Main) /\ main' = main
     \/ Pool!AddNotify(Main) /\ main' = "test"
  /\ UNCHANGED <<server, pool, sock, received, local, signals, late>>

Close ==
  /\ At("close")
  /\ sock' = "closed"
  /\ main' = "delete"
  /\ UNCHANGED <<poolVars, server, pool, received, local, signals, late>>
-------------------------------------------------------------------------------
\* What the main thread does without waiting for a datagram.
MainStep ==
  \/ Register \/ Construct \/ Configure \/ Delete \/ Exit
  \/ Listen \/ Spawn \/ TestStopped \/ CallRecvfrom \/ Interrupted
  \/ CallAddTask \/ AddTask \/ Close

Alive == pool /\ main # "gone" /\ main # "crashed"

WorkerThread(w) == Alive /\ Pool!WorkerStep(w) /\ UNCHANGED mainVars

Next ==
  \/ Sigterm
  \/ Handler
  \/ MainStep
  \/ \E d \in Tasks : Receive(d)
  \/ ReceiveNothing
  \/ \E w \in Workers :
       \/ WorkerThread(w)
       \/ Alive /\ Pool!SpuriousWakeup(w) /\ UNCHANGED mainVars

Spec == Init /\ [][Next]_vars

\* Every thread that can run is scheduled.  Nothing says that a datagram or a
\* signal arrives.
Fairness ==
  /\ WF_vars(MainStep)
  /\ WF_vars(Handler)
  /\ \A w \in Workers : WF_vars(WorkerThread(w))

FairSpec == Spec /\ Fairness
-------------------------------------------------------------------------------
(* Properties *)

\* A worker answers its client through the server's socket and configuration:
\* both are there as long as a task runs, however the process is ended.
ServesOnOpenSocket ==
  Pool!Running # {} => sock = "open" /\ server = "alive"

\* The pool is deleted, and its socket closed, only after stop() has returned:
\* no thread is joinable and m_ is free (anything else ends the process).
DeletedAfterJoin ==
  main \in {"close", "delete"} /\ pool =>
    /\ stopper = "returned"
    /\ \A w \in Workers : worker[w] = "exit"
    /\ mutex = NoThread

\* However the process ends - by exit(), by the signal itself, through a null pointer before
\* the pool is there, or when a second stop() throws - it cuts no query off: none is
\* running, and if the pool was not stopped no datagram had been received.
NothingCutOff ==
  main \in {"gone", "crashed"} =>
    /\ Pool!Running = {}
    /\ stopper = "returned" \/ received = {}

\* The buffer of every datagram has one owner: the loop, addTask(), the deque, or
\* a worker until it is executed.  When the process ends, all are executed or
\* destroyed with the deque; none is freed twice, and none leaked but the one a second
\* SIGTERM finds in the loop's hands.
OneOwner ==
  LET owned == Pool!Queued \cup Pool!Pending \cup Pool!Running \cup done
  IN  /\ received = owned \cup ({local} \ {NoTask})
      /\ local \notin owned
      /\ main = "exit" /\ signals < 2 => received = Pool!Queued \cup done

\* A SIGTERM between the test of isStopped() and recvfrom() does not interrupt recvfrom():
\* stop() is done, and main waits for a datagram all the same.  It then takes one more, at
\* most, whatever the signals do; and that one is never executed.
OneLateDatagram ==
  /\ \A d, e \in late : d = e
  /\ late \cap (Pool!Running \cup done) = {}

\* And with that datagram the process ends (src/mtd64-ng/server.cpp, the loop of start()).
EndsWithNextDatagram ==
  (stopper = "returned" /\ main = "add") ~> main \in {"gone", "crashed"}

\* A SIGTERM that finds main blocked in recvfrom(), and no worker between the
\* test of its wait condition and the wait, ends the process (a second SIGTERM may have
\* done so first, and not as orderly).
ShutdownFromRecvfrom ==
  (main = "eintr" /\ stopper = "notify" /\ \A w \in Workers : worker[w] # "sleep")
    ~> main \in {"gone", "crashed"}

\* stop() "waits for all running jobs to finish and shuts down the pool": if no
\* worker is about to sleep unnoticed, the handler returns.
HandlerReturns ==
  (stopper = "notify" /\ \A w \in Workers : worker[w] # "sleep") ~> stopper = "returned"
===============================================================================
