------------------------------ MODULE TaskPool ------------------------------
(***************************************************************************)
(* What handing out numbered tasks to workers promises: of a batch, each   *)
(* task is done once, by one worker, a worker has one task at a time, and  *)
(* the next batch is not begun before the results of all tasks of this one *)
(* are in.                                                                 *)
(***************************************************************************)
EXTENDS Integers

CONSTANTS
  Worker,
  Tasks,     \* the tasks of a batch
  Idle       \* what a worker without a task has in place of one

VARIABLES
  todo,      \* the tasks nobody has been given yet
  doing,     \* doing[w]: the task whose result w owes, or Idle
  done       \* the tasks whose results are in

vars == <<todo, doing, done>>

Init ==
  /\ todo = Tasks
  /\ doing = [w \in Worker |-> Idle]
  /\ done = {}

\* The result of w's task comes in, if w has a task.
In(w) == done \union ({doing[w]} \ {Idle})

\* Hand in the result and take another task.
Take(w) ==
  /\ \E k \in todo :
       /\ todo' = todo \ {k}
       /\ doing' = [doing EXCEPT ![w] = k]
  /\ done' = In(w)

\* Hand in the result when there is nothing left to take.
Rest(w) ==
  /\ todo = {}
  /\ doing' = [doing EXCEPT ![w] = Idle]
  /\ done' = In(w)
  /\ UNCHANGED todo

NextBatch ==
  /\ todo = {}
  /\ \A w \in Worker : doing[w] = Idle
  /\ todo' = Tasks
  /\ done' = {}
  /\ UNCHANGED doing

Next == NextBatch \/ \E w \in Worker : Take(w) \/ Rest(w)

Spec == Init /\ [][Next]_vars
=============================================================================
