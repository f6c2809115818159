-------------------------- MODULE ThreadPoolProofs --------------------------
(***************************************************************************)
(* Proofs about ThreadPool.tla for any finite, non-empty set of workers    *)
(* and any set of tasks: type correctness, conservation of tasks, the      *)
(* draining destructor, that a queued task always has a taker, that no     *)
(* worker sleeps while it is needed, and that the protocol implements      *)
(* TaskExecutor.                                                           *)
(***************************************************************************)
EXTENDS ThreadPool, SequenceTheorems, FiniteSetTheorems, TLAPS

-----------------------------------------------------------------------------
(* What Append and Tail do to the elements of a sequence *)

\* Appending adds one element, at the end.
LEMMA AppendElements ==
  ASSUME NEW S, NEW s \in Seq(S), NEW e \in S
  PROVE  /\ Append(s, e) \in Seq(S)
         /\ Range(Append(s, e)) = Range(s) \cup {e}
         /\ Append(s, e) # <<>>
<1>1. /\ Append(s, e) \in Seq(S)
      /\ Len(Append(s, e)) = Len(s) + 1
      /\ \A i \in 1 .. Len(s) : Append(s, e)[i] = s[i]
      /\ Append(s, e)[Len(s) + 1] = e
  OBVIOUS
<1>2. DOMAIN Append(s, e) = 1 .. (Len(s) + 1) /\ DOMAIN s = 1 .. Len(s) /\ Len(s) \in Nat
  BY <1>1
<1>3. 1 .. (Len(s) + 1) = (1 .. Len(s)) \cup {Len(s) + 1}
  BY <1>2
<1>4. Range(Append(s, e)) = Range(s) \cup {e}
  BY <1>1, <1>2, <1>3 DEF Range
<1>5. Append(s, e) # <<>>
  BY AppendProperties
<1> QED BY <1>1, <1>4, <1>5

\* A sequence with a new element appended repeats nothing if it did not.
LEMMA AppendDistinct ==
  ASSUME NEW S, NEW s \in Seq(S), NEW e \in S, e \notin Range(s),
         \A i, j \in DOMAIN s : s[i] = s[j] => i = j
  PROVE  \A i, j \in DOMAIN Append(s, e) : Append(s, e)[i] = Append(s, e)[j] => i = j
<1>1. /\ \A i \in 1 .. Len(s) : Append(s, e)[i] = s[i]
      /\ Append(s, e)[Len(s) + 1] = e
      /\ DOMAIN Append(s, e) = 1 .. (Len(s) + 1)
      /\ DOMAIN s = 1 .. Len(s)
      /\ Len(s) \in Nat
  OBVIOUS
<1>2. \A i \in 1 .. Len(s) : s[i] # e
  BY <1>1 DEF Range
<1> QED BY <1>1, <1>2

\* Taking the head splits the elements into it and those of the tail.
LEMMA HeadTailElements ==
  ASSUME NEW S, NEW s \in Seq(S), s # <<>>
  PROVE  /\ Head(s) \in S
         /\ Tail(s) \in Seq(S)
         /\ Range(s) = {Head(s)} \cup Range(Tail(s))
<1>1. /\ Head(s) \in S /\ Head(s) = s[1]
      /\ Tail(s) \in Seq(S)
      /\ Len(Tail(s)) = Len(s) - 1
      /\ \A i \in 1 .. Len(Tail(s)) : Tail(s)[i] = s[i + 1]
  BY HeadTailProperties
<1>2. /\ DOMAIN s = 1 .. Len(s) /\ Len(s) \in Nat /\ Len(s) # 0
      /\ DOMAIN Tail(s) = 1 .. (Len(s) - 1)
  BY <1>1, EmptySeq
<1>3. ASSUME NEW i \in DOMAIN s  PROVE  s[i] \in {Head(s)} \cup Range(Tail(s))
  <2>1. CASE i = 1
    BY <2>1, <1>1
  <2>2. CASE i # 1
    <3>1. i - 1 \in 1 .. (Len(s) - 1) /\ (i - 1) + 1 = i
      BY <1>2, <2>2
    <3> QED BY <3>1, <1>1, <1>2 DEF Range
  <2> QED BY <2>1, <2>2
<1>4. ASSUME NEW i \in DOMAIN Tail(s)  PROVE  Tail(s)[i] \in Range(s)
  <2>1. i + 1 \in DOMAIN s /\ Tail(s)[i] = s[i + 1]
    BY <1>1, <1>2
  <2> QED BY <2>1 DEF Range
<1>5. Head(s) \in Range(s)
  BY <1>1, <1>2 DEF Range
<1> QED BY <1>1, <1>3, <1>4, <1>5 DEF Range

\* In a sequence without repetitions the head is not in the tail.
LEMMA TailDistinct ==
  ASSUME NEW S, NEW s \in Seq(S), s # <<>>,
         \A i, j \in DOMAIN s : s[i] = s[j] => i = j
  PROVE  /\ \A i, j \in DOMAIN Tail(s) : Tail(s)[i] = Tail(s)[j] => i = j
         /\ Head(s) \notin Range(Tail(s))
<1>1. /\ Head(s) = s[1]
      /\ Len(Tail(s)) = Len(s) - 1
      /\ Tail(s) \in Seq(S)
      /\ \A i \in 1 .. Len(Tail(s)) : Tail(s)[i] = s[i + 1]
  BY HeadTailProperties
<1>2. /\ DOMAIN s = 1 .. Len(s) /\ Len(s) \in Nat /\ Len(s) # 0
      /\ DOMAIN Tail(s) = 1 .. (Len(s) - 1)
  BY <1>1, EmptySeq
<1>3. \A i \in DOMAIN Tail(s) : i + 1 \in DOMAIN s /\ Tail(s)[i] = s[i + 1] /\ i + 1 # 1
  BY <1>1, <1>2
<1>4. 1 \in DOMAIN s
  BY <1>2
<1>5. \A i, j \in DOMAIN Tail(s) : i + 1 = j + 1 => i = j
  BY <1>2
<1> QED BY <1>1, <1>3, <1>4, <1>5 DEF Range

-----------------------------------------------------------------------------
(***************************************************************************)
(* The inductive invariant.  TypeOK and the properties are not inductive   *)
(* alone: that a running worker has a task needs the link between wpc and  *)
(* task; that a parked worker leaves no task behind needs the mutex; that  *)
(* the destructor drains needs to know what an exited worker saw.          *)
(***************************************************************************)

\* The mutex is held exactly inside the critical section.
MutexInv == \A w \in Workers : mutex = w <=> wpc[w] \in {"holding", "parking"}

\* The local variable `task` is set exactly while it runs.
TaskInv == \A w \in Workers : task[w] # NoTask <=> wpc[w] = "running"

\* A worker on its way into the wait saw an empty queue, and still holds
\* the mutex; one that exited saw stop_ and an empty queue, and nothing can
\* be enqueued once stop_ is set.
ParkInv == \A w \in Workers : wpc[w] = "parking" => tasks = <<>>
ExitInv == \A w \in Workers : wpc[w] = "exited" => stop /\ tasks = <<>>

\* How far the destructor is.
StopInv ==
  /\ stop <=> opc \in {"notifyingAll", "joining", "returned"}
  /\ requested # {} => stop
  /\ joining # Nobody => opc = "joining" /\ joining \notin joined
  /\ \A w \in joined : wpc[w] = "exited"
  /\ opc = "returned" => joined = Workers

Control == MutexInv /\ TaskInv /\ ParkInv /\ ExitInv /\ StopInv
IInv == TypeOK /\ Control /\ TaskConservation /\ QueuedTaskHasTaker

-----------------------------------------------------------------------------
(* Every action preserves the types and the control part *)

\* The initial state.
LEMMA InitIInv == Init => IInv
<1> SUFFICES ASSUME Init PROVE IInv
  OBVIOUS
<1> USE DEF Init
<1>1. /\ tasks = <<>> /\ futures = <<>> /\ Len(futures) = 0
      /\ \A S : <<>> \in Seq(S)
      /\ DOMAIN tasks = {} /\ DOMAIN futures = {}
  OBVIOUS
<1>2. got \in 0 .. Len(futures)
  BY <1>1
<1>3. TypeOK
  BY <1>1, <1>2 DEF TypeOK, WorkerPC, OwnerPC
<1>4. Control
  BY NobodyAssumption DEF Control, MutexInv, TaskInv, ParkInv, ExitInv, StopInv
<1>5. Accepted = {} /\ Queued = {} /\ Held = {}
  BY <1>1 DEF Accepted, Queued, Held, Range
<1>6. TaskConservation
  BY <1>1, <1>5 DEF TaskConservation
<1>7. QueuedTaskHasTaker
  BY DEF QueuedTaskHasTaker
<1> QED BY <1>3, <1>4, <1>6, <1>7 DEF IInv

\* A worker takes a task only from a queue that has one.
LEMMA TakeNonEmpty ==
  ASSUME NEW w \in Workers, Take(w)
  PROVE  tasks # <<>>
BY DEF Take, WakePredicate, MayExit

\* Types are preserved.
LEMMA TypeStep ==
  ASSUME TypeOK, Control, [Next]_vars
  PROVE  TypeOK'
<1> USE DEF TypeOK, WorkerPC, OwnerPC, vars, workerVars, ownerVars, stopVars
<1>1. CASE UNCHANGED vars
  BY <1>1
<1>2. ASSUME NEW w \in Workers, Worker(w) PROVE TypeOK'
  <2>1. CASE Lock(w)  BY <2>1 DEF Lock
  <2>2. CASE Park(w)  BY <2>2 DEF Park
  <2>3. CASE Block(w)  BY <2>3 DEF Block
  <2>4. CASE SpuriousWake(w)  BY <2>4 DEF SpuriousWake
  <2>5. CASE Exit(w)  BY <2>5 DEF Exit
  <2>6. CASE Take(w)
    <3>1. Head(tasks) \in Tasks /\ Tail(tasks) \in Seq(Tasks)
      BY <2>6, TakeNonEmpty, HeadTailElements
    <3> QED BY <2>6, <3>1 DEF Take, Rest
  <2>7. CASE Finish(w)
    <3>1. task[w] \in Tasks
      BY <2>7 DEF Finish, Control, TaskInv
    <3> QED BY <2>7, <3>1 DEF Finish, Served
  <2> QED BY <1>2, <2>1, <2>2, <2>3, <2>4, <2>5, <2>6, <2>7 DEF Worker
<1>3. CASE Owner
  <2>1. ASSUME NEW t \in Tasks, Enqueue(t) PROVE TypeOK'
    <3>1. /\ Append(tasks, t) \in Seq(Tasks) /\ Append(futures, t) \in Seq(Tasks)
          /\ Len(Append(futures, t)) = Len(futures) + 1
      BY AppendElements
    <3>2. got \in 0 .. Len(Append(futures, t))
      BY <3>1
    <3> QED BY <2>1, <3>1, <3>2 DEF Enqueue
  <2>2. CASE NotifyOne
    <3>1. wpc' \in [Workers -> WorkerPC]
      BY <2>2 DEF NotifyOne, Blocked
    <3> QED BY <2>2, <3>1 DEF NotifyOne
  <2>3. CASE BeginAwait  BY <2>3 DEF BeginAwait
  <2>4. CASE AwaitNext
    <3>1. got + 1 \in 0 .. Len(futures)
      BY <2>4 DEF AwaitNext
    <3> QED BY <2>4, <3>1 DEF AwaitNext
  <2>5. CASE LeaveScope  BY <2>5 DEF LeaveScope
  <2>6. CASE StoreStop  BY <2>6 DEF StoreStop
  <2>7. CASE NotifyAll
    <3>1. wpc' \in [Workers -> WorkerPC]
      BY <2>7 DEF NotifyAll
    <3> QED BY <2>7, <3>1 DEF NotifyAll
  <2>8. ASSUME NEW w \in Workers, RequestStop(w) PROVE TypeOK'
    BY <2>8 DEF RequestStop
  <2>9. CASE Join  BY <2>9 DEF Join
  <2>10. CASE Return  BY <2>10 DEF Return
  <2> QED BY <1>3, <2>1, <2>2, <2>3, <2>4, <2>5, <2>6, <2>7, <2>8, <2>9, <2>10 DEF Owner
<1> QED BY <1>1, <1>2, <1>3 DEF Next

\* The links between program counters, mutex, local variables and flags are
\* preserved.
LEMMA ControlStep ==
  ASSUME TypeOK, Control, [Next]_vars
  PROVE  Control'
<1> USE DEF Control, MutexInv, TaskInv, ParkInv, ExitInv, StopInv,
            TypeOK, WorkerPC, OwnerPC, vars, workerVars, ownerVars, stopVars
<1>1. CASE UNCHANGED vars
  BY <1>1
<1>2. ASSUME NEW w \in Workers, Worker(w) PROVE Control'
  <2>1. CASE Lock(w)  BY <2>1, NobodyAssumption DEF Lock
  <2>2. CASE Park(w)  BY <2>2, NobodyAssumption DEF Park, WakePredicate
  <2>3. CASE Block(w)  BY <2>3, NobodyAssumption DEF Block
  <2>4. CASE SpuriousWake(w)  BY <2>4, NobodyAssumption DEF SpuriousWake
  <2>5. CASE Exit(w)  BY <2>5, NobodyAssumption DEF Exit, MayExit
  <2>6. CASE Take(w)
    <3>1. tasks # <<>> /\ Head(tasks) \in Tasks
      BY <2>6, TakeNonEmpty, HeadTailElements
    <3>2. Head(tasks) # NoTask
      BY <3>1, NoTaskAssumption
    <3>3. \A v \in Workers : wpc[v] \notin {"parking", "exited"}
      BY <3>1
    <3>4. MutexInv'  BY <2>6, NobodyAssumption DEF Take
    <3>5. TaskInv'  BY <2>6, <3>2 DEF Take
    <3>6. ParkInv' /\ ExitInv'  BY <2>6, <3>3 DEF Take
    <3>7. StopInv'  BY <2>6, <3>3 DEF Take
    <3> QED BY <3>4, <3>5, <3>6, <3>7
  <2>7. CASE Finish(w)
    <3>1. MutexInv' /\ TaskInv'  BY <2>7 DEF Finish
    <3>2. ParkInv' /\ ExitInv'  BY <2>7 DEF Finish
    <3>3. StopInv'  BY <2>7 DEF Finish
    <3> QED BY <3>1, <3>2, <3>3
  <2> QED BY <1>2, <2>1, <2>2, <2>3, <2>4, <2>5, <2>6, <2>7 DEF Worker
<1>3. CASE Owner
  <2>1. ASSUME NEW t \in Tasks, Enqueue(t) PROVE Control'
    <3>1. \A w \in Workers : wpc[w] \notin {"holding", "parking", "exited"}
      BY <2>1, NobodyAssumption DEF Enqueue
    <3> QED BY <2>1, <3>1 DEF Enqueue
  <2>2. CASE NotifyOne  BY <2>2 DEF NotifyOne, Blocked
  <2>3. CASE BeginAwait  BY <2>3 DEF BeginAwait
  <2>4. CASE AwaitNext  BY <2>4 DEF AwaitNext
  <2>5. CASE LeaveScope  BY <2>5 DEF LeaveScope
  <2>6. CASE StoreStop  BY <2>6 DEF StoreStop
  <2>7. CASE NotifyAll  BY <2>7 DEF NotifyAll, Blocked
  <2>8. ASSUME NEW w \in Workers, RequestStop(w) PROVE Control'
    BY <2>8 DEF RequestStop
  <2>9. CASE Join
    <3>1. joining \in Workers /\ opc = "joining"
      BY <2>9 DEF Join
    <3>2. MutexInv' /\ TaskInv' /\ ParkInv' /\ ExitInv'
      BY <2>9 DEF Join
    <3>3. StopInv'
      BY <2>9, <3>1 DEF Join
    <3> QED BY <3>2, <3>3
  <2>10. CASE Return
    <3>1. /\ joining = Nobody
          /\ joined = Workers
      BY <2>10, NobodyAssumption DEF Return
    <3> QED BY <2>10, <3>1 DEF Return
  <2> QED BY <1>3, <2>1, <2>2, <2>3, <2>4, <2>5, <2>6, <2>7, <2>8, <2>9, <2>10 DEF Owner
<1> QED BY <1>1, <1>2, <1>3 DEF Next

-----------------------------------------------------------------------------
(* Conservation of tasks *)

\* What a step leaves alone: conservation depends on four variables only.
LEMMA ConservationFrame ==
  ASSUME TaskConservation, UNCHANGED <<tasks, task, ready, futures>>
  PROVE  TaskConservation'
BY DEF TaskConservation, Accepted, Queued, Held, Range

\* Enqueue adds the task to the queue and to the accepted ones.
LEMMA EnqueueConserves ==
  ASSUME TypeOK, TaskConservation, NEW t \in Tasks, Enqueue(t)
  PROVE  TaskConservation'
<1>1. /\ tasks \in Seq(Tasks) /\ futures \in Seq(Tasks)
      /\ tasks' = Append(tasks, t) /\ futures' = Append(futures, t)
      /\ task' = task /\ ready' = ready
      /\ t \notin Accepted
  BY DEF Enqueue, TypeOK, workerVars
<1>2. /\ Queued' = Queued \cup {t} /\ Accepted' = Accepted \cup {t}
      /\ Held' = Held
  BY <1>1, AppendElements DEF Queued, Accepted, Held
<1>3. t \notin Queued /\ t \notin Held /\ t \notin ready
  BY <1>1 DEF TaskConservation
<1>4. \A i, j \in DOMAIN tasks' : tasks'[i] = tasks'[j] => i = j
  <2>1. t \notin Range(tasks)
    BY <1>3 DEF Queued
  <2>2. \A i, j \in DOMAIN tasks : tasks[i] = tasks[j] => i = j
    BY DEF TaskConservation
  <2>3. \A i, j \in DOMAIN Append(tasks, t) :
          Append(tasks, t)[i] = Append(tasks, t)[j] => i = j
    BY <1>1, <2>1, <2>2, AppendDistinct
  <2> QED BY <1>1, <2>3
<1> QED BY <1>1, <1>2, <1>3, <1>4 DEF TaskConservation

\* Take moves the head of the queue into the local variable.
LEMMA TakeConserves ==
  ASSUME TypeOK, Control, TaskConservation, NEW w \in Workers, Take(w)
  PROVE  TaskConservation'
<1> DEFINE h == Head(tasks)
<1>1. tasks # <<>>
  BY TakeNonEmpty
<1>2. /\ tasks \in Seq(Tasks) /\ task \in [Workers -> Tasks \cup {NoTask}]
      /\ tasks' = Tail(tasks) /\ task' = [task EXCEPT ![w] = h]
      /\ ready' = ready /\ futures' = futures
  BY DEF Take, Rest, TypeOK, ownerVars
<1>3. task[w] = NoTask
  BY DEF Take, Control, TaskInv
<1>4. /\ \A i, j \in DOMAIN tasks' : tasks'[i] = tasks'[j] => i = j
      /\ h \notin Queued'
  <2>1. \A i, j \in DOMAIN tasks : tasks[i] = tasks[j] => i = j
    BY DEF TaskConservation
  <2>2. /\ \A i, j \in DOMAIN Tail(tasks) : Tail(tasks)[i] = Tail(tasks)[j] => i = j
        /\ h \notin Range(Tail(tasks))
    BY <1>1, <1>2, <2>1, TailDistinct
  <2> QED BY <1>2, <2>2 DEF Queued
<1>5. h \in Tasks /\ Queued = {h} \cup Queued'
  BY <1>1, <1>2, HeadTailElements DEF Queued
<1>6. Held' = Held \cup {h}
  BY <1>2, <1>3, <1>5, NoTaskAssumption DEF Held, Range
<1>7. h \notin Held /\ h \notin ready
  BY <1>5 DEF TaskConservation
<1>8. \A v \in Workers : task[v] # h
  BY <1>2, <1>5, <1>7, NoTaskAssumption DEF Held, Range
<1>9. \A u, v \in Workers : task'[u] = task'[v] /\ task'[u] # NoTask => u = v
  BY <1>2, <1>8 DEF TaskConservation
<1>10. Accepted' = Accepted
  BY <1>2 DEF Accepted
<1> QED BY <1>2, <1>4, <1>5, <1>6, <1>7, <1>9, <1>10 DEF TaskConservation

\* Finish moves it on to the finished ones.
LEMMA FinishConserves ==
  ASSUME TypeOK, Control, TaskConservation, NEW w \in Workers, Finish(w)
  PROVE  TaskConservation'
<1>1. /\ task \in [Workers -> Tasks \cup {NoTask}]
      /\ tasks' = tasks /\ futures' = futures
      /\ task' = [task EXCEPT ![w] = NoTask]
      /\ ready' = ready \cup {task[w]}
  BY DEF Finish, Served, TypeOK, ownerVars
<1>2. task[w] # NoTask
  BY DEF Finish, Control, TaskInv
<1>3. \A v \in Workers : task[v] = task[w] => v = w
  BY <1>2 DEF TaskConservation
<1>4. Held = Held' \cup {task[w]} /\ task[w] \notin Held'
  BY <1>1, <1>2, <1>3 DEF Held, Range
<1>5. Queued' = Queued /\ Accepted' = Accepted
  BY <1>1 DEF Queued, Accepted
<1>6. \A u, v \in Workers : task'[u] = task'[v] /\ task'[u] # NoTask => u = v
  BY <1>1 DEF TaskConservation
<1> QED BY <1>1, <1>4, <1>5, <1>6 DEF TaskConservation

\* Only those three actions move a task.
LEMMA ConservationStep ==
  ASSUME TypeOK, Control, TaskConservation, [Next]_vars
  PROVE  TaskConservation'
<1> USE DEF vars, workerVars, ownerVars, stopVars
<1>1. CASE UNCHANGED vars
  BY <1>1, ConservationFrame
<1>2. ASSUME NEW w \in Workers, Worker(w) PROVE TaskConservation'
  <2>1. CASE Take(w)  BY <2>1, TakeConserves
  <2>2. CASE Finish(w)  BY <2>2, FinishConserves
  <2>3. CASE Lock(w) \/ Park(w) \/ Block(w) \/ SpuriousWake(w) \/ Exit(w)
    <3>1. UNCHANGED <<tasks, task, ready, futures>>
      BY <2>3 DEF Lock, Park, Block, SpuriousWake, Exit
    <3> QED BY <3>1, ConservationFrame
  <2> QED BY <1>2, <2>1, <2>2, <2>3 DEF Worker
<1>3. CASE Owner
  <2>1. ASSUME NEW t \in Tasks, Enqueue(t) PROVE TaskConservation'
    BY <2>1, EnqueueConserves
  <2>2. CASE \/ NotifyOne \/ BeginAwait \/ AwaitNext \/ LeaveScope \/ StoreStop
             \/ NotifyAll \/ (\E w \in Workers : RequestStop(w)) \/ Join \/ Return
    <3>1. UNCHANGED <<tasks, task, ready, futures>>
      BY <2>2 DEF NotifyOne, BeginAwait, AwaitNext, LeaveScope, StoreStop,
                  NotifyAll, RequestStop, Join, Return
    <3> QED BY <3>1, ConservationFrame
  <2> QED BY <1>3, <2>1, <2>2 DEF Owner
<1> QED BY <1>1, <1>2, <1>3 DEF Next

-----------------------------------------------------------------------------
(* A queued task has a taker *)

\* A worker goes to sleep or leaves only when the queue is empty; a task
\* enqueued while all others slept is followed by a notification.
LEMMA TakerStep ==
  ASSUME TypeOK, Control, QueuedTaskHasTaker, [Next]_vars
  PROVE  QueuedTaskHasTaker'
<1> USE DEF vars, workerVars, ownerVars, stopVars, TypeOK, WorkerPC, OwnerPC,
            QueuedTaskHasTaker
<1>1. CASE UNCHANGED vars
  BY <1>1
<1>2. ASSUME NEW w \in Workers, Worker(w) PROVE QueuedTaskHasTaker'
  <2>1. CASE Lock(w)  BY <2>1 DEF Lock
  <2>2. CASE Park(w) BY <2>2 DEF Park, WakePredicate
  <2>3. CASE Block(w)  BY <2>3 DEF Block, Control, ParkInv
  <2>4. CASE SpuriousWake(w)  BY <2>4 DEF SpuriousWake
  <2>5. CASE Exit(w)  BY <2>5 DEF Exit, MayExit
  <2>6. CASE Take(w)  BY <2>6 DEF Take
  <2>7. CASE Finish(w)  BY <2>7 DEF Finish
  <2> QED BY <1>2, <2>1, <2>2, <2>3, <2>4, <2>5, <2>6, <2>7 DEF Worker
<1>3. CASE Owner
  <2>1. ASSUME NEW t \in Tasks, Enqueue(t) PROVE QueuedTaskHasTaker'
    BY <2>1 DEF Enqueue
  <2>2. CASE NotifyOne
    <3>1. CASE Blocked = {} /\ UNCHANGED wpc
      <4>1. SUFFICES ASSUME tasks # <<>>
                     PROVE  \E w \in Workers : wpc[w] \in {"idle", "woken", "holding", "running"}
        BY <2>2, <3>1 DEF NotifyOne
      <4>2. ~stop
        BY <2>2 DEF NotifyOne, Control, StopInv
      <4>3. \A w \in Workers : wpc[w] \notin {"blocked", "parking", "exited"}
        BY <3>1, <4>1, <4>2 DEF Blocked, Control, ParkInv, ExitInv
      <4> QED BY <4>3, WorkersAssumption
    <3>2. CASE \E w \in Blocked : wpc' = [wpc EXCEPT ![w] = "woken"]
      BY <2>2, <3>2 DEF NotifyOne, Blocked
    <3> QED BY <2>2, <3>1, <3>2 DEF NotifyOne
  <2>3. CASE BeginAwait  BY <2>3 DEF BeginAwait
  <2>4. CASE AwaitNext  BY <2>4 DEF AwaitNext
  <2>5. CASE LeaveScope  BY <2>5 DEF LeaveScope
  <2>6. CASE StoreStop  BY <2>6 DEF StoreStop
  <2>7. CASE NotifyAll  BY <2>7 DEF NotifyAll, Blocked
  <2>8. ASSUME NEW w \in Workers, RequestStop(w) PROVE QueuedTaskHasTaker'
    BY <2>8 DEF RequestStop
  <2>9. CASE Join  BY <2>9 DEF Join
  <2>10. CASE Return  BY <2>10 DEF Return
  <2> QED BY <1>3, <2>1, <2>2, <2>3, <2>4, <2>5, <2>6, <2>7, <2>8, <2>9, <2>10 DEF Owner
<1> QED BY <1>1, <1>2, <1>3 DEF Next

-----------------------------------------------------------------------------
(* No worker sleeps while it is needed *)

\* Between its unlock and its notify_one, enqueue is one notification short.
Owed == IF opc = "notifying" THEN 1 ELSE 0
SleeperInv == Blocked # {} => Len(tasks) <= Cardinality(Heading) + Owed

\* A worker that joins or leaves those on their way to the queue counts once.
LEMMA HeadingCount ==
  ASSUME TypeOK, TypeOK'
  PROVE  /\ Cardinality(Heading) \in Nat /\ Cardinality(Heading') \in Nat
         /\ Heading \subseteq Heading' => Cardinality(Heading) <= Cardinality(Heading')
         /\ \A w : w \in Heading /\ Heading' = Heading \ {w} =>
                    Cardinality(Heading') = Cardinality(Heading) - 1
         /\ \A w : w \notin Heading /\ Heading' = Heading \cup {w} =>
                    Cardinality(Heading') = Cardinality(Heading) + 1
<1>1. Heading \subseteq Workers /\ Heading' \subseteq Workers
  BY DEF Heading
<1>2. IsFiniteSet(Heading) /\ IsFiniteSet(Heading')
  BY <1>1, FS_Subset, WorkersAssumption
<1> QED BY <1>2, FS_CardinalityType, FS_Subset, FS_AddElement, FS_RemoveElement

\* A worker falls asleep only before an empty queue; one that takes a task
\* leaves one task less; every task enqueued owes one notification.
LEMMA SleeperStep ==
  ASSUME TypeOK, Control, SleeperInv, [Next]_vars
  PROVE  SleeperInv'
<1> DEFINE c == Cardinality(Heading)
           d == Cardinality(Heading')
<1>0. TypeOK'
  BY TypeStep
<1>1. /\ c \in Nat /\ d \in Nat /\ Len(tasks) \in Nat /\ Len(tasks') \in Nat
      /\ Heading \subseteq Heading' => c <= d
      /\ \A w : w \in Heading /\ Heading' = Heading \ {w} => d = c - 1
      /\ \A w : w \notin Heading /\ Heading' = Heading \cup {w} => d = c + 1
  BY <1>0, HeadingCount DEF TypeOK
<1>2. /\ Blocked # {} => Len(tasks) <= c + (IF opc = "notifying" THEN 1 ELSE 0)
      /\ SleeperInv' <=> (Blocked' # {} =>
                            Len(tasks') <= d + (IF opc' = "notifying" THEN 1 ELSE 0))
  BY DEF SleeperInv, Owed
<1> HIDE DEF c, d
<1> USE DEF workerVars, ownerVars, stopVars
<1>3. ASSUME tasks' = tasks, Heading \subseteq Heading', Blocked' # {} => Blocked # {},
             opc' = "notifying" <=> opc = "notifying"
      PROVE  SleeperInv'
  BY <1>1, <1>2, <1>3
<1>4. ASSUME tasks' = <<>> PROVE SleeperInv'
  BY <1>1, <1>2, <1>4
<1>5. wpc \in [Workers -> WorkerPC] /\ tasks \in Seq(Tasks)
  BY DEF TypeOK
<1>6. CASE UNCHANGED vars
  BY <1>3, <1>6 DEF vars, Heading, Blocked
<1>7. ASSUME NEW w \in Workers, Worker(w) PROVE SleeperInv'
  <2>1. CASE Lock(w) \/ SpuriousWake(w) \/ Finish(w)
    <3>1. /\ tasks' = tasks /\ opc' = opc
          /\ wpc' = [wpc EXCEPT ![w] = wpc'[w]] /\ wpc'[w] \in {"holding", "woken", "idle"}
      BY <1>5, <2>1 DEF Lock, SpuriousWake, Finish
    <3> QED BY <1>3, <1>5, <3>1 DEF Heading, Blocked
  <2>2. CASE Park(w) \/ Block(w) \/ Exit(w)
    <3>1. tasks = <<>> /\ tasks' = tasks
      BY <2>2 DEF Park, WakePredicate, Block, Control, ParkInv, Exit, MayExit
    <3> QED BY <1>4, <3>1
  <2>3. CASE Take(w)
    <3>1. /\ tasks # <<>> /\ tasks' = Tail(tasks) /\ opc' = opc
          /\ wpc[w] = "holding" /\ wpc' = [wpc EXCEPT ![w] = "running"]
      BY <2>3, TakeNonEmpty DEF Take, Rest
    <3>2. Len(tasks') = Len(tasks) - 1
      BY <1>5, <3>1
    <3>3. w \in Heading /\ Heading' = Heading \ {w} /\ Blocked' = Blocked
      BY <1>5, <3>1 DEF Heading, Blocked
    <3>4. d = c - 1
      BY <1>1, <3>3
    <3> QED BY <1>1, <1>2, <3>1, <3>2, <3>3, <3>4
  <2> QED BY <1>7, <2>1, <2>2, <2>3 DEF Worker
<1>8. CASE Owner
  <2>1. ASSUME NEW t \in Tasks, Enqueue(t) PROVE SleeperInv'
    <3>1. /\ tasks' = Append(tasks, t) /\ wpc' = wpc
          /\ opc = "submitting" /\ opc' = "notifying"
      BY <2>1 DEF Enqueue
    <3>2. Len(tasks') = Len(tasks) + 1
      BY <1>5, <3>1
    <3>3. d = c /\ Blocked' = Blocked
      BY <3>1 DEF c, d, Heading, Blocked
    <3> QED BY <1>1, <1>2, <3>1, <3>2, <3>3
  <2>2. CASE NotifyOne
    <3>1. tasks' = tasks /\ opc = "notifying" /\ opc' = "submitting"
      BY <2>2 DEF NotifyOne
    <3>2. CASE Blocked = {} /\ UNCHANGED wpc
      <4>1. Blocked' = {}
        BY <3>2 DEF Blocked
      <4> QED BY <1>2, <4>1
    <3>3. ASSUME NEW w \in Blocked, wpc' = [wpc EXCEPT ![w] = "woken"] PROVE SleeperInv'
      <4>1. w \notin Heading /\ Heading' = Heading \cup {w}
        BY <1>5, <3>3 DEF Heading, Blocked
      <4>2. d = c + 1
        BY <1>1, <4>1
      <4> QED BY <1>1, <1>2, <3>1, <3>3, <4>2
    <3> QED BY <2>2, <3>2, <3>3 DEF NotifyOne
  <2>3. CASE NotifyAll
    <3>1. Blocked' = {}
      BY <2>3 DEF NotifyAll, Blocked
    <3> QED BY <1>2, <3>1
  <2>4. CASE \/ BeginAwait \/ AwaitNext \/ LeaveScope \/ StoreStop \/ Join \/ Return
             \/ \E w \in Workers : RequestStop(w)
    <3>1. tasks' = tasks /\ wpc' = wpc /\ (opc' = "notifying" <=> opc = "notifying")
      BY <2>4 DEF BeginAwait, AwaitNext, LeaveScope, StoreStop, Join, Return, RequestStop
    <3> QED BY <1>3, <3>1 DEF Heading, Blocked
  <2> QED BY <1>8, <2>1, <2>2, <2>3, <2>4 DEF Owner
<1> QED BY <1>6, <1>7, <1>8 DEF Next

-----------------------------------------------------------------------------
(* The theorems *)

\* The invariant is inductive, so it holds in every reachable state.
LEMMA Invariance == Spec => []IInv
<1>1. IInv /\ [Next]_vars => IInv'
  BY TypeStep, ControlStep, ConservationStep, TakerStep DEF IInv
<1> QED BY InitIInv, <1>1, PTL DEF Spec

\* Every variable keeps its type, whatever the workers and the tasks are.
THEOREM TypeCorrect == Spec => []TypeOK
<1>1. IInv => TypeOK
  BY DEF IInv
<1> QED BY Invariance, <1>1, PTL

\* No task that enqueue accepted is lost or duplicated by the worker loop
\* and the destructor.
THEOREM ConservationCorrect == Spec => []TaskConservation
<1>1. IInv => TaskConservation
  BY DEF IInv
<1> QED BY Invariance, <1>1, PTL

\* The destructor never returns with a task queued or a worker alive.
THEOREM DrainCorrect == Spec => []DrainedOnReturn
<1>1. IInv => DrainedOnReturn
  <2> SUFFICES ASSUME IInv, opc = "returned"
               PROVE  (\A w \in Workers : wpc[w] = "exited") /\ ready = Accepted
    BY DEF DrainedOnReturn
  <2> USE DEF IInv, Control
  <2>1. \A w \in Workers : wpc[w] = "exited"
    BY DEF StopInv
  <2>2. Held = {}
    BY <2>1 DEF TaskInv, Held, Range, TypeOK
  <2>3. tasks = <<>>
    BY <2>1, WorkersAssumption DEF ExitInv
  <2>4. Queued = {}
    BY <2>3 DEF Queued, Range
  <2> QED BY <2>1, <2>2, <2>4 DEF TaskConservation
<1> QED BY Invariance, <1>1, PTL

\* The split of enqueue into an unlock and a later notify_one never strands
\* a queued task.
THEOREM TakerCorrect == Spec => []QueuedTaskHasTaker
<1>1. IInv => QueuedTaskHasTaker
  BY DEF IInv
<1> QED BY Invariance, <1>1, PTL

\* Outside that window no worker sleeps while there are more queued tasks
\* than workers on their way to the queue: parallelism is never lost.
THEOREM SleeperCorrect == Spec => []NoSleeperNeeded
<1>1. Init => SleeperInv
  BY DEF Init, SleeperInv, Blocked
<1>2. IInv /\ SleeperInv /\ [Next]_vars => SleeperInv'
  BY SleeperStep DEF IInv
<1>3. SleeperInv => NoSleeperNeeded
  <2>1. Heading \subseteq Workers
    BY DEF Heading
  <2>2. Cardinality(Heading) \in Nat
    BY <2>1, FS_Subset, FS_CardinalityType, WorkersAssumption
  <2> QED BY <2>2 DEF SleeperInv, Owed, NoSleeperNeeded
<1> QED BY Invariance, <1>1, <1>2, <1>3, PTL DEF Spec

-----------------------------------------------------------------------------
(* The protocol implements the abstract executor *)

\* Every step of the protocol is a step of TaskExecutor or leaves its
\* variables alone: Enqueue submits, Take begins, Finish completes, Return
\* closes; locking, waiting, notifying, stopping and joining are invisible.
LEMMA StepImplements ==
  ASSUME IInv, [Next]_vars
  PROVE  [Abstract!Next]_(Abstract!vars)
<1> USE DEF IInv, Abstract!vars, vars, workerVars, ownerVars, stopVars
<1>1. CASE UNCHANGED vars
  BY <1>1
<1>2. ASSUME NEW w \in Workers, Worker(w) PROVE [Abstract!Next]_(Abstract!vars)
  <2>1. CASE Take(w)
    <3>1. tasks # <<>> /\ task[w] = NoTask
      BY <2>1, TakeNonEmpty DEF Take, Control, TaskInv
    <3>2. Abstract!Begin(w)
      BY <2>1, <3>1 DEF Take, Rest, Abstract!Begin
    <3> QED BY <3>2 DEF Abstract!Next
  <2>2. CASE Finish(w)
    <3>1. task[w] # NoTask
      BY <2>2 DEF Finish, Control, TaskInv
    <3>2. Abstract!Complete(w)
      BY <2>2, <3>1 DEF Finish, Served, Abstract!Complete
    <3> QED BY <3>2 DEF Abstract!Next
  <2>3. CASE Lock(w) \/ Park(w) \/ Block(w) \/ SpuriousWake(w) \/ Exit(w)
    BY <2>3 DEF Lock, Park, Block, SpuriousWake, Exit
  <2> QED BY <1>2, <2>1, <2>2, <2>3 DEF Worker
<1>3. CASE Owner
  <2>1. ASSUME NEW t \in Tasks, Enqueue(t) PROVE [Abstract!Next]_(Abstract!vars)
    <3>1. t \notin Range(tasks) \cup ready /\ t \notin Held
      BY <2>1 DEF Enqueue, TaskConservation, Queued
    <3>2. t \notin Range(task)
      BY <3>1, NoTaskAssumption DEF Held
    <3>3. t \notin Abstract!Range(tasks) \cup Abstract!Range(task) \cup ready
      BY <3>1, <3>2 DEF Range, Abstract!Range
    <3>4. Abstract!Submit(t)
      BY <2>1, <3>3 DEF Enqueue, Abstract!Submit
    <3> QED BY <3>4 DEF Abstract!Next
  <2>2. CASE Return
    <3>1. \A w \in Workers : wpc[w] = "exited"
      BY <2>2 DEF Return, Control, StopInv
    <3>2. tasks = <<>> /\ \A w \in Workers : task[w] = NoTask
      BY <3>1, WorkersAssumption DEF Control, ExitInv, TaskInv
    <3>3. Abstract!Close
      BY <2>2, <3>2 DEF Return, Abstract!Close
    <3> QED BY <3>3 DEF Abstract!Next
  <2>3. CASE \/ NotifyOne \/ BeginAwait \/ AwaitNext \/ LeaveScope \/ StoreStop
             \/ NotifyAll \/ (\E w \in Workers : RequestStop(w)) \/ Join
    <3>1. UNCHANGED <<tasks, task, ready>>
      BY <2>3 DEF NotifyOne, BeginAwait, AwaitNext, LeaveScope, StoreStop,
                  NotifyAll, RequestStop, Join
    <3>2. opc # "returned" /\ opc' # "returned"
      <4>1. CASE NotifyOne \/ BeginAwait \/ AwaitNext \/ LeaveScope
        BY <4>1 DEF NotifyOne, BeginAwait, AwaitNext, LeaveScope
      <4>2. CASE StoreStop \/ NotifyAll \/ (\E w \in Workers : RequestStop(w))
        BY <4>2 DEF StoreStop, NotifyAll, RequestStop
      <4>3. CASE Join
        BY <4>3 DEF Join, Control, StopInv
      <4> QED BY <2>3, <4>1, <4>2, <4>3
    <3> QED BY <3>1, <3>2
  <2> QED BY <1>3, <2>1, <2>2, <2>3 DEF Owner
<1> QED BY <1>1, <1>2, <1>3 DEF Next

\* include/ThreadPool.h does what TaskExecutor promises.
THEOREM Refinement == Spec => ImplementsTaskExecutor
<1>1. Init => Abstract!Init
  BY DEF Init, Abstract!Init
<1>2. IInv /\ [Next]_vars => [Abstract!Next]_(Abstract!vars)
  BY StepImplements
<1> QED BY Invariance, <1>1, <1>2, PTL DEF Spec, ImplementsTaskExecutor, Abstract!Spec
=============================================================================
