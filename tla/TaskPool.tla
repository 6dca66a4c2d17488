------------------------------- MODULE TaskPool -------------------------------
(***************************************************************************)
(* What a ThreadPool promises to the code that uses it, without threads,   *)
(* mutex or condition variable: tasks are begun in the order they were     *)
(* added, each at most once; a task that was begun is completed; after     *)
(* the pool is closed at most one more task may still be begun; and once   *)
(* the pool has terminated nothing runs and nothing is begun any more.     *)
(***************************************************************************)
EXTENDS Sequences, Naturals

CONSTANT Tasks      \* the tasks that may be added

VARIABLES queue,        \* tasks added and not begun, oldest first
          running,      \* tasks begun and not completed
          completed,    \* tasks completed
          closed,       \* a stop has been asked for
          accepting,    \* whether a task may still be begun
          terminated    \* stop() has returned

poolVars == <<queue, running, completed, closed, accepting, terminated>>

Init ==
  /\ queue = <<>>
  /\ running = {}
  /\ completed = {}
  /\ closed = FALSE
  /\ accepting = TRUE
  /\ terminated = FALSE

\* A task the pool has never seen is put at the end of the queue, whether or
\* not the pool is closed.
Submit(t) ==
  /\ \A i \in 1 .. Len(queue) : queue[i] # t
  /\ t \notin running \cup completed
  /\ queue' = Append(queue, t)
  /\ UNCHANGED <<running, completed, closed, accepting, terminated>>

\* The oldest task is begun. Past the closing this may happen once at most.
Begin ==
  /\ accepting
  /\ queue # <<>>
  /\ Head(queue) \notin running \cup completed
  /\ running' = running \cup {Head(queue)}
  /\ queue' = Tail(queue)
  /\ accepting' = ~closed
  /\ UNCHANGED <<completed, closed, terminated>>

Complete(t) ==
  /\ t \in running
  /\ running' = running \ {t}
  /\ completed' = completed \cup {t}
  /\ UNCHANGED <<queue, closed, accepting, terminated>>

\* Closing leaves open whether one task is just about to be begun.
Close ==
  /\ ~closed
  /\ closed' = TRUE
  /\ accepting' \in BOOLEAN
  /\ UNCHANGED <<queue, running, completed, terminated>>

Terminate ==
  /\ closed
  /\ ~accepting
  /\ running = {}
  /\ terminated' = TRUE
  /\ UNCHANGED <<queue, running, completed, closed, accepting>>

Next ==
  \/ \E t \in Tasks : Submit(t) \/ Complete(t)
  \/ Begin
  \/ Close
  \/ Terminate

Spec == Init /\ [][Next]_poolVars
===============================================================================
