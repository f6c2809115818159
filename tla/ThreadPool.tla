----------------------------- MODULE ThreadPool -----------------------------
(***************************************************************************)
(* include/ThreadPool.h: the worker threads, their owner, and the mutex,   *)
(* the condition variable and the stop flag between them.                  *)
(*                                                                         *)
(* The owner is the one thread that constructs the pool, submits to it,    *)
(* waits for its futures and destroys it (main.cpp processDirectory, and   *)
(* the tests).  What the owner does under the mutex never blocks, so       *)
(* Enqueue is one step that needs the mutex free.  A worker's critical     *)
(* section is split where the code can be interrupted by the destructor,   *)
(* which stores stop_ WITHOUT the mutex: between the evaluation of the     *)
(* wait predicate and the moment the thread is registered as waiting.      *)
(***************************************************************************)
EXTENDS Naturals, Sequences, FiniteSets, Functions

CONSTANTS Workers,  \* the threads of workers_
          Tasks,    \* the closures the owner may submit
          Nobody,   \* no thread: the mutex is free, or nobody is being joined
          NoTask    \* a worker's local variable `task` while it is empty

ASSUME NobodyAssumption == Nobody \notin Workers
ASSUME NoTaskAssumption == NoTask \notin Tasks
ASSUME WorkersAssumption == IsFiniteSet(Workers) /\ Workers # {}

VARIABLES tasks,      \* tasks_, the queue
          stop,       \* stop_, the atomic flag the destructor stores
          requested,  \* the workers whose jthread stop_token was triggered
          mutex,      \* queueMutex_: the worker holding it, or Nobody
          wpc,        \* where each worker is
          task,       \* each worker's local variable `task`
          ready,      \* the tasks whose shared state has been made ready
          opc,        \* where the owner is
          futures,    \* the futures enqueue returned, in order
          got,        \* how many of them the owner has waited for
          joined,     \* the workers the destructor has joined
          joining     \* the worker it is joining, or Nobody

workerVars == <<wpc, task, mutex>>
ownerVars == <<opc, futures, got>>
stopVars == <<stop, requested, joined, joining>>
vars == <<tasks, ready, workerVars, ownerVars, stopVars>>

WorkerPC == {"idle",     \* about to lock queueMutex_
             "holding",  \* holds the mutex, about to evaluate the predicate
             "parking",  \* found it false, not registered as waiting yet
             "blocked",  \* waits on condition_, mutex released
             "woken",    \* notified, about to lock the mutex again
             "running",  \* executes task()
             "exited"}   \* the thread function has returned

OwnerPC == {"submitting", "notifying", "awaiting",
            "stopping", "notifyingAll", "joining", "returned"}

\* Each variable has its type.
TypeOK ==
  /\ tasks \in Seq(Tasks)
  /\ stop \in BOOLEAN
  /\ requested \subseteq Workers
  /\ mutex \in Workers \cup {Nobody}
  /\ wpc \in [Workers -> WorkerPC]
  /\ task \in [Workers -> Tasks \cup {NoTask}]
  /\ ready \subseteq Tasks
  /\ opc \in OwnerPC
  /\ futures \in Seq(Tasks)
  /\ got \in 0 .. Len(futures)
  /\ joined \subseteq Workers
  /\ joining \in Workers \cup {Nobody}

Init ==
  /\ tasks = <<>>
  /\ stop = FALSE
  /\ requested = {}
  /\ mutex = Nobody
  /\ wpc = [w \in Workers |-> "idle"]
  /\ task = [w \in Workers |-> NoTask]
  /\ ready = {}
  /\ opc = "submitting"
  /\ futures = <<>>
  /\ got = 0
  /\ joined = {}
  /\ joining = Nobody

-----------------------------------------------------------------------------
(* The workers *)

(* An operator with a suffix _X is the operator before the underscore as a *)
(* plausible bug X would leave it; no action uses it.                      *)

WakePredicate_StopOnly(w) == stop \/ w \in requested
WakePredicate_QueueOnly(w) == tasks # <<>>

\* The predicate of condition_.wait.
WakePredicate(w) == stop \/ w \in requested \/ tasks # <<>>

MayExit_Undrained(w) == stop \/ w \in requested

\* The test after it: leave only when the queue is drained.
MayExit(w) == (stop \/ w \in requested) /\ tasks = <<>>

Rest_NotPopped(q) == q

\* What is left of the queue after pop().
Rest(q) == Tail(q)

\* A thread at the lock, or coming back from a wait, gets the mutex.
Lock(w) ==
  /\ wpc[w] \in {"idle", "woken"}
  /\ mutex = Nobody
  /\ mutex' = w
  /\ wpc' = [wpc EXCEPT ![w] = "holding"]
  /\ UNCHANGED <<tasks, task, ready, ownerVars, stopVars>>

\* The predicate is false: the thread is on its way into the wait.
Park(w) ==
  /\ wpc[w] = "holding"
  /\ ~WakePredicate(w)
  /\ wpc' = [wpc EXCEPT ![w] = "parking"]
  /\ UNCHANGED <<tasks, task, mutex, ready, ownerVars, stopVars>>

\* It is registered as waiting and the mutex is released, in one step.
Block(w) ==
  /\ wpc[w] = "parking"
  /\ wpc' = [wpc EXCEPT ![w] = "blocked"]
  /\ mutex' = Nobody
  /\ UNCHANGED <<tasks, task, ready, ownerVars, stopVars>>

\* A condition variable may wake a waiter without a notification.
SpuriousWake(w) ==
  /\ wpc[w] = "blocked"
  /\ wpc' = [wpc EXCEPT ![w] = "woken"]
  /\ UNCHANGED <<tasks, task, mutex, ready, ownerVars, stopVars>>

Exit(w) ==
  /\ wpc[w] = "holding"
  /\ WakePredicate(w)
  /\ MayExit(w)
  /\ wpc' = [wpc EXCEPT ![w] = "exited"]
  /\ mutex' = Nobody
  /\ UNCHANGED <<tasks, task, ready, ownerVars, stopVars>>

\* Move the front of the queue into the local variable and unlock.
Take(w) ==
  /\ wpc[w] = "holding"
  /\ WakePredicate(w)
  /\ ~MayExit(w)
  /\ task' = [task EXCEPT ![w] = Head(tasks)]
  /\ tasks' = Rest(tasks)
  /\ mutex' = Nobody
  /\ wpc' = [wpc EXCEPT ![w] = "running"]
  /\ UNCHANGED <<ready, ownerVars, stopVars>>

Served_AfterClear(w) == task'[w]

\* The task a worker's iteration ran, once its local variable is gone.
Served(w) == task[w]

\* task() returns and its future becomes ready.
Finish(w) ==
  /\ wpc[w] = "running"
  /\ task' = [task EXCEPT ![w] = NoTask]
  /\ ready' = ready \cup {Served(w)}
  /\ wpc' = [wpc EXCEPT ![w] = "idle"]
  /\ UNCHANGED <<tasks, mutex, ownerVars, stopVars>>

-----------------------------------------------------------------------------
(* The owner *)

Accepted == Range(futures)

\* enqueue, up to the unlock.
Enqueue(t) ==
  /\ opc = "submitting"
  /\ t \notin Accepted
  /\ mutex = Nobody
  /\ ~stop
  /\ tasks' = Append(tasks, t)
  /\ futures' = Append(futures, t)
  /\ opc' = "notifying"
  /\ UNCHANGED <<got, workerVars, ready, stopVars>>

Blocked == {w \in Workers : wpc[w] = "blocked"}

NotifyOne_Never == /\ opc = "notifying"
                   /\ opc' = "submitting"
                   /\ UNCHANGED <<wpc, tasks, task, mutex, ready, futures, got, stopVars>>

\* condition_.notify_one: one waiter, if there is one.
NotifyOne ==
  /\ opc = "notifying"
  /\ opc' = "submitting"
  /\ \/ \E w \in Blocked : wpc' = [wpc EXCEPT ![w] = "woken"]
     \/ Blocked = {} /\ UNCHANGED wpc
  /\ UNCHANGED <<tasks, task, mutex, ready, futures, got, stopVars>>

\* All paths are submitted: the loop over the futures begins.
BeginAwait ==
  /\ opc = "submitting"
  /\ futures # <<>>
  /\ opc' = "awaiting"
  /\ UNCHANGED <<futures, got, tasks, ready, workerVars, stopVars>>

\* future.get() for the next future in submission order.
AwaitNext ==
  /\ opc = "awaiting"
  /\ got < Len(futures)
  /\ futures[got + 1] \in ready
  /\ got' = got + 1
  /\ UNCHANGED <<opc, futures, tasks, ready, workerVars, stopVars>>

\* The pool goes out of scope: after the last future, or earlier, when the
\* owner leaves the block by an exception or (tests) without waiting at all.
LeaveScope ==
  /\ opc \in {"submitting", "awaiting"}
  /\ opc' = "stopping"
  /\ UNCHANGED <<futures, got, tasks, ready, workerVars, stopVars>>

\* ~ThreadPool: the flag is stored without holding the mutex.
StoreStop ==
  /\ opc = "stopping"
  /\ stop' = TRUE
  /\ opc' = "notifyingAll"
  /\ UNCHANGED <<requested, joined, joining, futures, got, tasks, ready, workerVars>>

NotifyAll ==
  /\ opc = "notifyingAll"
  /\ wpc' = [w \in Workers |-> IF w \in Blocked THEN "woken" ELSE wpc[w]]
  /\ opc' = "joining"
  /\ UNCHANGED <<tasks, task, mutex, ready, futures, got, stopVars>>

\* request_stop: sets the token; nothing waits on it (condition_ is a
\* std::condition_variable, whose wait does not know the token).
RequestStop(w) ==
  /\ opc = "joining"
  /\ joining = Nobody
  /\ w \notin joined
  /\ requested' = requested \cup {w}
  /\ joining' = w
  /\ UNCHANGED <<stop, joined, tasks, ready, workerVars, ownerVars>>

Join ==
  /\ joining # Nobody
  /\ wpc[joining] = "exited"
  /\ joined' = joined \cup {joining}
  /\ joining' = Nobody
  /\ UNCHANGED <<stop, requested, tasks, ready, workerVars, ownerVars>>

\* The destructor returns and the members are destroyed.
Return ==
  /\ opc = "joining"
  /\ joined = Workers
  /\ opc' = "returned"
  /\ UNCHANGED <<futures, got, tasks, ready, workerVars, stopVars>>

-----------------------------------------------------------------------------

Worker(w) == \/ Lock(w) \/ Park(w) \/ Block(w) \/ SpuriousWake(w)
             \/ Exit(w) \/ Take(w) \/ Finish(w)

Owner == \/ \E t \in Tasks : Enqueue(t)
         \/ NotifyOne \/ BeginAwait \/ AwaitNext
         \/ LeaveScope \/ StoreStop \/ NotifyAll
         \/ \E w \in Workers : RequestStop(w)
         \/ Join \/ Return

Next == Owner \/ \E w \in Workers : Worker(w)

Spec == Init /\ [][Next]_vars

\* A thread that can run does run; one that competes for the mutex gets it
\* if it is free again and again.  Nothing forces the owner to submit, to
\* leave the scope, or a waiter to wake spuriously.
WorkerFairness(w) ==
  /\ SF_vars(Lock(w))
  /\ WF_vars(Park(w) \/ Block(w) \/ Exit(w) \/ Take(w))
  /\ WF_vars(Finish(w))

OwnerFairness ==
  /\ WF_vars(NotifyOne) /\ WF_vars(AwaitNext)
  /\ WF_vars(StoreStop) /\ WF_vars(NotifyAll)
  /\ WF_vars(\E w \in Workers : RequestStop(w))
  /\ WF_vars(Join) /\ WF_vars(Return)

FairSpec == Spec /\ OwnerFairness /\ \A w \in Workers : WorkerFairness(w)

-----------------------------------------------------------------------------
(* Properties *)

Queued == Range(tasks)
Held == Range(task) \ {NoTask}

\* Every closure that enqueue accepted is in exactly one place: waiting in
\* the queue once, in the local variable of one worker, or finished.  It is
\* neither dropped nor run twice, whatever the worker loop, the destructor
\* and enqueue do in between.
TaskConservation ==
  /\ Accepted = Queued \cup Held \cup ready
  /\ \A i, j \in DOMAIN tasks : tasks[i] = tasks[j] => i = j
  /\ \A v, w \in Workers : task[v] = task[w] /\ task[v] # NoTask => v = w
  /\ Queued \cap Held = {}
  /\ (Queued \cup Held) \cap ready = {}

\* ~ThreadPool abandons nothing: by the time it returns, all workers have
\* left and every accepted task has run, even those still queued when stop_
\* was stored.
DrainedOnReturn ==
  opc = "returned" => /\ \A w \in Workers : wpc[w] = "exited"
                      /\ ready = Accepted

\* enqueue releases the mutex before it notifies; still, outside that
\* window a queued task always has a worker that will look at the queue
\* without a further notification.
QueuedTaskHasTaker ==
  tasks # <<>> /\ opc # "notifying" =>
    \E w \in Workers : wpc[w] \in {"idle", "woken", "holding", "running"}

\* And more: no worker sleeps while there are more queued tasks than workers
\* already on their way to the queue, so parallelism is never lost.
Heading == {w \in Workers : wpc[w] \in {"idle", "woken", "holding"}}
NoSleeperNeeded ==
  Blocked # {} /\ opc # "notifying" => Len(tasks) <= Cardinality(Heading)

\* Every future the owner could wait for becomes ready: no interleaving of
\* waits, notifications and submissions leaves a task in the queue.
EveryTaskRuns ==
  \A t \in Tasks : t \in Accepted ~> t \in ready

\* Once notify_all has been issued and no worker waits or is about to wait,
\* the destructor returns.
DestructorReturnsIfAllAwake ==
  (opc = "joining" /\ \A w \in Workers : wpc[w] \notin {"parking", "blocked"})
     ~> opc = "returned"

\* docs/API.md: "Worker threads automatically join on destruction": the
\* destructor, once entered, returns.
DestructorReturns == opc = "stopping" ~> opc = "returned"

Abstract == INSTANCE TaskExecutor WITH
              Slots <- Workers, Idle <- NoTask,
              queue <- tasks, slot <- task,
              completed <- ready, closed <- (opc = "returned")

\* The protocol implements the abstract executor: order of acceptance,
\* one task per worker at a time, each task once, drained when closed.
ImplementsTaskExecutor == Abstract!Spec
=============================================================================
