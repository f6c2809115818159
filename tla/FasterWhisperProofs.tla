------------------------- MODULE FasterWhisperProofs -------------------------
(***************************************************************************)
(* Theorems about FasterWhisper.tla, for any number of threads: types, one *)
(* transcription at a time, no call into Python before the import, and no  *)
(* circular wait between transcribe_mutex and the interpreter's lock.      *)
(***************************************************************************)
EXTENDS FasterWhisper, TLAPS

-----------------------------------------------------------------------------
(* The inductive invariant *)

Starting == {"creating", "importing", "releasing"}
HasMutex == {"second", "python", "computing", "finishing", "releasing1", "releasing2"}
HasGil == {"python", "finishing", "releasing1"}
Past == HasMutex \cup {"first", "describing"}

Types ==
  /\ once \in {"unset", "running", "done"}
  /\ guard \in BOOLEAN /\ imported \in BOOLEAN
  /\ owner \in [Locks -> Callers \cup {Nobody}]
  /\ pc \in [Callers -> PC]
  /\ failed \in [Callers -> BOOLEAN]

\* One thread at most is inside call_once, and then the flag says so; the
\* thread that has started Python has the GIL.
OnceControl ==
  /\ \A s, t \in Callers : pc[s] \in Starting /\ pc[t] \in Starting => s = t
  /\ \A t \in Callers : pc[t] \in Starting => once = "running"
  /\ \A t \in Callers : pc[t] \in {"importing", "releasing"} => guard /\ owner["gil"] = t
  /\ \A t \in Callers : pc[t] = "releasing" => imported

\* Who has got past it knows that it is done: Python is started and the
\* module imported.
PastControl ==
  /\ \A t \in Callers : pc[t] \in Past => once = "done"
  /\ once = "done" => imported /\ guard

\* Who is in the middle of a transcription has the locks it needs, and once
\* Python is ready nobody else has the GIL; before, only Python's starter has.
LockControl ==
  /\ \A t \in Callers : pc[t] \in HasMutex <=> owner["mutex"] = t
  /\ \A t \in Callers : pc[t] \in HasGil => owner["gil"] = t
  /\ \A t \in Callers : owner["gil"] = t /\ once = "done" => pc[t] \in HasGil
  /\ ~guard => owner["gil"] = Nobody

IInv == Types /\ OnceControl /\ PastControl /\ LockControl

-----------------------------------------------------------------------------
(* Every step keeps it *)

\* The locks by name: transcribe_mutex first, the GIL second.
LEMMA LockNames == LockOrder[1] = "mutex" /\ LockOrder[2] = "gil"
BY DEF LockOrder

LEMMA Initially == Init => IInv
BY NobodyAssumption
   DEF Init, IInv, Types, OnceControl, PastControl, LockControl, Locks, PC,
       Starting, HasMutex, HasGil, Past

\* A step of one thread, whichever it is, keeps each part of the invariant.
LEMMA StepKeeps ==
  ASSUME IInv, NEW t \in Callers, Call(t) \/ Step(t)
  PROVE  IInv'
<1> USE NobodyAssumption, LockNames
<1> USE DEF IInv, Types, OnceControl, PastControl, LockControl, Locks, PC,
            Starting, HasMutex, HasGil, Past, Go, Acquire, Release
<1>1. CASE Call(t)
  BY <1>1 DEF Call
<1>2. CASE PassOnce(t)
  BY <1>2 DEF PassOnce
<1>3. CASE EnterOnce(t)
  BY <1>3 DEF EnterOnce
<1>4. CASE Create(t)
  BY <1>4 DEF Create
<1>5. CASE CreateThrows(t)
  BY <1>5 DEF CreateThrows
<1>6. CASE Import(t)
  BY <1>6 DEF Import
<1>7. CASE ImportThrows(t)
  BY <1>7 DEF ImportThrows
<1>8. CASE ReleaseGil(t)
  BY <1>8 DEF ReleaseGil
<1>9. CASE TakeFirst(t)
  <2>1. /\ pc[t] = "first" /\ pc' = [pc EXCEPT ![t] = "second"]
        /\ owner["mutex"] = Nobody /\ owner' = [owner EXCEPT !["mutex"] = t]
        /\ UNCHANGED <<once, guard, imported, failed>>
    BY <1>9 DEF TakeFirst
  <2>2. Types' /\ OnceControl'
    BY <2>1
  <2>3. PastControl' /\ LockControl'
    BY <2>1
  <2> QED BY <2>2, <2>3
<1>10. CASE TakeSecond(t)
  <2>1. /\ pc[t] = "second" /\ pc' = [pc EXCEPT ![t] = "python"]
        /\ owner["gil"] = Nobody /\ owner' = [owner EXCEPT !["gil"] = t]
        /\ UNCHANGED <<once, guard, imported, failed>>
    BY <1>10 DEF TakeSecond
  <2>2. /\ \A s \in Callers : s # t => pc'[s] = pc[s]
        /\ pc'[t] = "python" /\ owner'["gil"] = t /\ owner'["mutex"] = owner["mutex"]
    BY <2>1
  <2>3. Types' /\ OnceControl'
    BY <2>1, SMTT(30)
  <2>4. PastControl' /\ once = "done" /\ guard = guard' /\ once' = once
    BY <2>1, <2>2, SMTT(30)
  <2>5. guard
    BY <2>4, SMTT(30)
  <2>6. \A s \in Callers : pc'[s] \in HasMutex <=> owner'["mutex"] = s
    BY <2>1, <2>2, SMTT(30)
  <2>7. \A s \in Callers : pc'[s] \in HasGil <=> s = t
    BY <2>1, <2>2, SMTT(30)
  <2> QED BY <2>2, <2>3, <2>4, <2>5, <2>6, <2>7
<1>11. CASE Compute(t)
  BY <1>11 DEF Compute
<1>12. CASE ComputeEnds(t)
  <2>1. /\ pc[t] = "computing" /\ pc' = [pc EXCEPT ![t] = "finishing"]
        /\ owner["gil"] = Nobody /\ owner' = [owner EXCEPT !["gil"] = t]
        /\ UNCHANGED <<once, guard, imported, failed>>
    BY <1>12 DEF ComputeEnds
  <2>2. /\ \A s \in Callers : s # t => pc'[s] = pc[s]
        /\ pc'[t] = "finishing" /\ owner'["gil"] = t /\ owner'["mutex"] = owner["mutex"]
    BY <2>1
  <2>3. Types' /\ OnceControl'
    BY <2>1, SMTT(30)
  <2>4. PastControl' /\ once = "done" /\ guard = guard' /\ once' = once
    BY <2>1, <2>2, SMTT(30)
  <2>5. guard
    BY <2>4, SMTT(30)
  <2>6. \A s \in Callers : pc'[s] \in HasMutex <=> owner'["mutex"] = s
    BY <2>1, <2>2, SMTT(30)
  <2>7. \A s \in Callers : pc'[s] \in HasGil <=> s = t
    BY <2>1, <2>2, SMTT(30)
  <2> QED BY <2>2, <2>3, <2>4, <2>5, <2>6, <2>7
<1>13. CASE Finish(t)
  BY <1>13 DEF Finish
<1>14. CASE ReleaseSecond(t)
  BY <1>14 DEF ReleaseSecond
<1>15. CASE ReleaseFirst(t)
  BY <1>15 DEF ReleaseFirst
<1>16. CASE Describe(t)
  BY <1>16 DEF Describe
<1> QED BY <1>1, <1>2, <1>3, <1>4, <1>5, <1>6, <1>7, <1>8, <1>9, <1>10, <1>11, <1>12, <1>13, <1>14, <1>15, <1>16 DEF Step

\* ... and so does stuttering.
LEMMA Inductive == IInv /\ [Next]_vars => IInv'
<1>1. CASE Next
  BY <1>1, StepKeeps DEF Next
<1>2. CASE UNCHANGED vars
  BY <1>2 DEF vars, IInv, Types, OnceControl, PastControl, LockControl
<1> QED BY <1>1, <1>2

LEMMA Invariance == Spec => []IInv
BY Initially, Inductive, PTL DEF Spec

-----------------------------------------------------------------------------
(* The theorems *)

\* Every variable has its type, and once Python is ready the GIL belongs to
\* nobody but a thread that is executing Python.
THEOREM TypeCorrect == Spec => []TypeOK
<1>1. IInv => TypeOK
  BY DEF IInv, TypeOK, Types, LockControl, HasGil
<1> QED BY <1>1, Invariance, PTL

\* However many threads call local_transcribe_audio, transcribe_mutex lets one
\* of them into transcribe, although transcribe gives up the GIL.
THEOREM OneTranscriptionCorrect == Spec => []OneTranscription
<1>1. IInv => OneTranscription
  <2> SUFFICES ASSUME IInv, NEW s \in Callers, NEW t \in Callers,
                      pc[s] \in Inside, pc[t] \in Inside
               PROVE  s = t
    BY DEF OneTranscription
  <2>1. owner["mutex"] = s /\ owner["mutex"] = t
    BY DEF IInv, LockControl, HasMutex, Inside
  <2> QED BY <2>1
<1> QED BY <1>1, Invariance, PTL

\* Whichever thread wins call_once, and however often its import failed, a
\* thread inside transcribe finds the module imported.
THEOREM ImportedBeforeUseCorrect == Spec => []ImportedBeforeUse
<1>1. IInv => ImportedBeforeUse
  BY DEF IInv, PastControl, ImportedBeforeUse, Inside, Past, HasMutex
<1> QED BY <1>1, Invariance, PTL

\* No two threads hold what the other waits for: one that waits for
\* transcribe_mutex has no lock, so nobody waits for it.
THEOREM NoCircularWaitCorrect == Spec => []NoCircularWait
<1>1. IInv => NoCircularWait
  <2> SUFFICES ASSUME IInv, NEW s \in Callers, NEW t \in Callers,
                      NEW l \in Wants(s), owner[l] = t,
                      NEW k \in Wants(t), owner[k] = s
               PROVE  FALSE
    BY DEF NoCircularWait
  <2>1. \A u \in Callers :
          \/ Wants(u) = {}
          \/ Wants(u) = {"mutex"} /\ pc[u] = "first"
          \/ Wants(u) = {"gil"} /\ pc[u] \in {"second", "computing", "describing"}
    <3> SUFFICES ASSUME NEW u \in Callers
                 PROVE  \/ Wants(u) = {}
                        \/ Wants(u) = {"mutex"} /\ pc[u] = "first"
                        \/ Wants(u) = {"gil"} /\ pc[u] \in {"second", "computing", "describing"}
      OBVIOUS
    <3>1. CASE pc[u] = "first"
      BY <3>1, LockNames DEF Wants
    <3>2. CASE pc[u] = "second"
      BY <3>2, LockNames DEF Wants
    <3>3. CASE pc[u] \in {"computing", "describing"}
      BY <3>3 DEF Wants
    <3>4. CASE pc[u] \notin {"first", "second", "computing", "describing"}
      BY <3>4 DEF Wants
    <3> QED BY <3>1, <3>2, <3>3, <3>4
  <2>2. \A u \in Callers : pc[u] \in Past => once = "done"
    BY DEF IInv, PastControl
  <2>3. \A u \in Callers : pc[u] \in {"first", "second", "computing", "describing"} =>
                            owner["gil"] # u
    BY <2>2 DEF IInv, LockControl, HasGil, Past, HasMutex
  <2>4. \A u \in Callers : pc[u] = "first" => owner["mutex"] # u
    BY DEF IInv, LockControl, HasMutex
  <2>5. l = "mutex" /\ k = "mutex"
    BY <2>1, <2>3
  <2> QED BY <2>1, <2>4, <2>5
<1> QED BY <1>1, Invariance, PTL
=============================================================================
