---------------------------- MODULE FasterWhisper ----------------------------
(***************************************************************************)
(* src/fasterWhisper.cpp, the build with pybind11: local_transcribe_audio  *)
(* called by any number of pool threads, the once-only start of the Python *)
(* interpreter, the interpreter's lock (GIL), and transcribe_mutex.        *)
(* pybind11 and ctranslate2 are external: starting a second interpreter    *)
(* throws, and transcribe releases the GIL while the GPU computes.         *)
(***************************************************************************)
EXTENDS Naturals, Sequences

CONSTANTS Callers,  \* the threads that call local_transcribe_audio
          Nobody    \* the owner of a free lock

ASSUME NobodyAssumption == Nobody \notin Callers

VARIABLES
  once,      \* python_init_flag: "unset", "running" or "done"
  guard,     \* python_guard: the interpreter has been started
  imported,  \* faster_whisper_module is set
  owner,     \* the owner of each lock
  pc,        \* where each caller is
  failed     \* each caller: transcribe has raised an exception

vars == <<once, guard, imported, owner, pc, failed>>

Locks == {"mutex", "gil"}
PC == {"outside", "once", "creating", "importing", "releasing", "first", "second",
       "python", "computing", "finishing", "releasing1", "releasing2", "describing"}

\* Each variable has its type; and once Python is ready the GIL belongs to
\* nobody but a thread that is executing Python.
TypeOK ==
  /\ once \in {"unset", "running", "done"}
  /\ guard \in BOOLEAN /\ imported \in BOOLEAN
  /\ owner \in [Locks -> Callers \cup {Nobody}]
  /\ pc \in [Callers -> PC]
  /\ failed \in [Callers -> BOOLEAN]
  /\ \A t \in Callers : owner["gil"] = t /\ once = "done" =>
       pc[t] \in {"python", "finishing", "releasing1"}

Init ==
  /\ once = "unset" /\ guard = FALSE /\ imported = FALSE
  /\ owner = [l \in Locks |-> Nobody]
  /\ pc = [t \in Callers |-> "outside"]
  /\ failed = [t \in Callers |-> FALSE]

Go(t, from, to) == pc[t] = from /\ pc' = [pc EXCEPT ![t] = to]
Acquire(t, l) == owner[l] = Nobody /\ owner' = [owner EXCEPT ![l] = t]
Release(t, l) == owner[l] = t /\ owner' = [owner EXCEPT ![l] = Nobody]

-----------------------------------------------------------------------------
(* An operator with a suffix _X is the operator before the underscore as a  *)
(* plausible bug X would leave it; no action uses it.                       *)

\* GIL first, mutex second.
LockOrder_GilFirst == <<"gil", "mutex">>

\* The order in which local_transcribe_audio takes its two locks; they are
\* released in the opposite order.
LockOrder == <<"mutex", "gil">>

\* The call.  (One whose path does not exist returns an error at once.)
Call(t) ==
  /\ Go(t, "outside", "once")
  /\ failed' = [failed EXCEPT ![t] = FALSE]
  /\ UNCHANGED <<once, guard, imported, owner>>

-----------------------------------------------------------------------------
(* initialize_python_if_needed *)

\* The flag only says that somebody has begun.
PassOnce_NoWait(t) ==
  /\ Go(t, "once", "first")
  /\ once \in {"running", "done"}
  /\ UNCHANGED <<once, guard, imported, owner, failed>>

\* call_once has run; while it runs the others wait.
PassOnce(t) ==
  /\ Go(t, "once", "first")
  /\ once = "done"
  /\ UNCHANGED <<once, guard, imported, owner, failed>>

\* ... or runs in this thread, for the first time or after an exception.
EnterOnce(t) ==
  /\ Go(t, "once", "creating")
  /\ once = "unset"
  /\ once' = "running"
  /\ UNCHANGED <<guard, imported, owner, failed>>

\* scoped_interpreter: starts Python, and this thread has the GIL.
Create(t) ==
  /\ Go(t, "creating", "importing")
  /\ ~guard
  /\ guard' = TRUE
  /\ Acquire(t, "gil")
  /\ UNCHANGED <<once, imported, failed>>

\* The exception is swallowed, and the initialization tried again.
CreateThrows_Retries(t) ==
  /\ Go(t, "creating", "once")
  /\ guard
  /\ once' = "unset"
  /\ UNCHANGED <<guard, imported, owner, failed>>

\* "The interpreter is already running": not a Python error, so only
\* local_transcribe_audio catches it.
CreateThrows(t) ==
  /\ Go(t, "creating", "outside")
  /\ guard
  /\ once' = "unset"
  /\ UNCHANGED <<guard, imported, owner, failed>>

Import(t) ==
  /\ Go(t, "importing", "releasing")
  /\ imported' = TRUE
  /\ UNCHANGED <<once, guard, owner, failed>>

\* fasterWhisper.py or its packages cannot be imported; the interpreter stays,
\* and so does the GIL.
ImportThrows(t) ==
  /\ Go(t, "importing", "outside")
  /\ once' = "unset"
  /\ UNCHANGED <<guard, imported, owner, failed>>

\* The thread that started Python keeps the GIL.
ReleaseGil_Forgotten(t) ==
  /\ Go(t, "releasing", "first")
  /\ once' = "done"
  /\ UNCHANGED <<guard, imported, owner, failed>>

\* gil_scoped_release, and call_once is over.
ReleaseGil(t) ==
  /\ Go(t, "releasing", "first")
  /\ Release(t, "gil")
  /\ once' = "done"
  /\ UNCHANGED <<guard, imported, failed>>

-----------------------------------------------------------------------------
(* The transcription *)

\* The GIL is thought to be enough.
TakeFirst_NoMutex(t) ==
  /\ Go(t, "first", "second")
  /\ UNCHANGED <<once, guard, imported, owner, failed>>

TakeFirst(t) ==
  /\ Go(t, "first", "second")
  /\ Acquire(t, LockOrder[1])
  /\ UNCHANGED <<once, guard, imported, failed>>

TakeSecond(t) ==
  /\ Go(t, "second", "python")
  /\ Acquire(t, LockOrder[2])
  /\ UNCHANGED <<once, guard, imported, failed>>

\* ctranslate2 gives up the GIL while it computes ...
Compute(t) ==
  /\ Go(t, "python", "computing")
  /\ Release(t, "gil")
  /\ UNCHANGED <<once, guard, imported, failed>>

\* ... and takes it back.
ComputeEnds(t) ==
  /\ Go(t, "computing", "finishing")
  /\ Acquire(t, "gil")
  /\ UNCHANGED <<once, guard, imported, failed>>

\* transcribe returns, or raises an exception (before it computes or after: it
\* holds the same locks).
Finish(t) ==
  /\ Go(t, "finishing", "releasing1")
  /\ \E f \in BOOLEAN : failed' = [failed EXCEPT ![t] = f]
  /\ UNCHANGED <<once, guard, imported, owner>>

ReleaseSecond(t) ==
  /\ Go(t, "releasing1", "releasing2")
  /\ Release(t, LockOrder[2])
  /\ UNCHANGED <<once, guard, imported, failed>>

\* The text is returned; an exception is described first.
ReleaseFirst(t) ==
  /\ Go(t, "releasing2", IF failed[t] THEN "describing" ELSE "outside")
  /\ Release(t, LockOrder[1])
  /\ UNCHANGED <<once, guard, imported, failed>>

\* error_already_set::what takes the GIL for a moment.
Describe(t) ==
  /\ Go(t, "describing", "outside")
  /\ owner["gil"] = Nobody
  /\ UNCHANGED <<once, guard, imported, owner, failed>>

-----------------------------------------------------------------------------

Step(t) == \/ PassOnce(t) \/ EnterOnce(t) \/ Create(t) \/ CreateThrows(t)
           \/ Import(t) \/ ImportThrows(t) \/ ReleaseGil(t)
           \/ TakeFirst(t) \/ TakeSecond(t) \/ Compute(t) \/ ComputeEnds(t)
           \/ Finish(t) \/ ReleaseSecond(t) \/ ReleaseFirst(t) \/ Describe(t)

Next == \E t \in Callers : Call(t) \/ Step(t)

Spec == Init /\ [][Next]_vars

\* Threads run, and whoever waits for a mutex, the GIL or call_once while it
\* becomes free again and again gets it.
FairSpec == Spec /\ \A t \in Callers : SF_vars(Step(t))

-----------------------------------------------------------------------------
(* Properties *)

Inside == {"python", "computing", "finishing"}

\* One transcription at a time: although transcribe gives up the GIL in the
\* middle, no second thread is inside it.
OneTranscription ==
  \A s, t \in Callers : pc[s] \in Inside /\ pc[t] \in Inside => s = t

\* Nobody calls into Python before the module is imported, however many
\* threads begin at once and however often the import failed before.
ImportedBeforeUse == \A t \in Callers : pc[t] \in Inside => imported

\* The locks a thread waits for.
Wants(t) == CASE pc[t] = "first" -> {LockOrder[1]}
              [] pc[t] = "second" -> {LockOrder[2]}
              [] pc[t] \in {"computing", "describing"} -> {"gil"}
              [] OTHER -> {}

\* No two threads wait for each other, though transcribe gives up the GIL and
\* takes it back while its thread holds the mutex; nor one for itself.
NoCircularWait ==
  ~\E s, t \in Callers : /\ \E l \in Wants(s) : owner[l] = t
                         /\ \E l \in Wants(t) : owner[l] = s

\* No call waits or retries for ever: not for a thread that failed to start
\* Python, which keeps the GIL, nor after it.
EveryCallEnds == \A t \in Callers : pc[t] = "once" ~> pc[t] = "outside"
=============================================================================
