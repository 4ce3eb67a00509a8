------------------------------ MODULE TaskQueue ------------------------------
(***************************************************************************)
(* What a thread pool may expect of the queue between the accept loop and  *)
(* the workers: tasks leave in the order in which they were added, every   *)
(* task goes to exactly one worker, and a worker that took a task hands    *)
(* out that very task.  Tasks are numbered in the order they are added.    *)
(***************************************************************************)
EXTENDS Naturals, Sequences

CONSTANTS Workers,   \* the threads that take tasks
          NoTask     \* what a worker holds when it holds nothing

VARIABLES added,     \* how many tasks have been added
          waiting,   \* the tasks that wait for a worker, oldest first
          hold,      \* hold[w]: the task worker w took and has not delivered
          delivered  \* the tasks that reached a worker's handler

vars == <<added, waiting, hold, delivered>>

Init ==
  /\ added = 0
  /\ waiting = <<>>
  /\ hold = [w \in Workers |-> NoTask]
  /\ delivered = {}

Add ==
  /\ waiting' = Append(waiting, added)
  /\ added' = added + 1
  /\ UNCHANGED <<hold, delivered>>

Take(w) ==
  /\ hold[w] = NoTask
  /\ waiting # <<>>
  /\ hold' = [hold EXCEPT ![w] = Head(waiting)]
  /\ waiting' = Tail(waiting)
  /\ UNCHANGED <<added, delivered>>

Deliver(w) ==
  /\ hold[w] # NoTask
  /\ hold[w] \notin delivered
  /\ delivered' = delivered \cup {hold[w]}
  /\ hold' = [hold EXCEPT ![w] = NoTask]
  /\ UNCHANGED <<added, waiting>>

Next == Add \/ \E w \in Workers : Take(w) \/ Deliver(w)

Spec == Init /\ [][Next]_vars
=============================================================================
