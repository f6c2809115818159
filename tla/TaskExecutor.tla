---------------------------- MODULE TaskExecutor ----------------------------
(***************************************************************************)
(* What a caller of include/ThreadPool.h may rely on: tasks are accepted   *)
(* while the executor is open, started in the order they were accepted,    *)
(* each by one slot and once, at most one task per slot at a time; and the *)
(* executor only closes when every accepted task has completed.            *)
(* ThreadPool.tla, the mutex and condition variable protocol, implements   *)
(* it; Transcriber.tla runs its workers on it.                             *)
(***************************************************************************)
EXTENDS Sequences, Functions

CONSTANTS Slots,  \* the places a task can run in: one per worker thread
          Tasks,  \* the tasks a caller may submit
          Idle    \* what a slot holds while it runs no task

VARIABLES queue,      \* accepted, not started, in order of acceptance
          slot,       \* slot[s] is the task s is running, or Idle
          completed,  \* the tasks that have run to their end
          closed      \* the executor has been destroyed

vars == <<queue, slot, completed, closed>>

-----------------------------------------------------------------------------

Init == /\ queue = <<>>
        /\ slot = [s \in Slots |-> Idle]
        /\ completed = {}
        /\ closed = FALSE

\* The caller hands over a task it has not handed over before.
Submit(t) ==
  /\ ~closed
  /\ t \notin Range(queue) \cup Range(slot) \cup completed
  /\ queue' = Append(queue, t)
  /\ UNCHANGED <<slot, completed, closed>>

\* A free slot starts the oldest task that waits.
Begin(s) ==
  /\ slot[s] = Idle
  /\ queue # <<>>
  /\ slot' = [slot EXCEPT ![s] = Head(queue)]
  /\ queue' = Tail(queue)
  /\ UNCHANGED <<completed, closed>>

Complete(s) ==
  /\ slot[s] # Idle
  /\ completed' = completed \cup {slot[s]}
  /\ slot' = [slot EXCEPT ![s] = Idle]
  /\ UNCHANGED <<queue, closed>>

\* The destructor returns: nothing waits and nothing runs.
Close ==
  /\ ~closed
  /\ queue = <<>>
  /\ \A s \in Slots : slot[s] = Idle
  /\ closed' = TRUE
  /\ UNCHANGED <<queue, slot, completed>>

Next == \/ \E t \in Tasks : Submit(t)
        \/ \E s \in Slots : Begin(s) \/ Complete(s)
        \/ Close

Spec == Init /\ [][Next]_vars
=============================================================================
