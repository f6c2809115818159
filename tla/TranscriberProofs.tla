------------------------- MODULE TranscriberProofs -------------------------
(***************************************************************************)
(* Proofs about Transcriber.tla for any recordings, workers, bounds and    *)
(* kinds of files: type correctness, that a recorded recording has left    *)
(* the monitored directory, that directory and table together implement    *)
(* RecordingArchive, through every fault, crash and restart; then that no  *)
(* two threads process the same recording, and what processFile may do to  *)
(* a recording that is still written, or long enough to be kept; last how  *)
(* its directory, .txt file, row and requests keep together.               *)
(***************************************************************************)
EXTENDS Transcriber, TLAPS

\* A recording has left the monitored directory: no step brings it back.
HasLeft(f) == mp3[f] \notin {"absent", "top"}

-----------------------------------------------------------------------------
(***************************************************************************)
(* The inductive invariant.  RecordedHasLeft follows the transcription on  *)
(* its way from the call (movingTxt: the .mp3 has been dealt with) over    *)
(* the result to the row.  That moveFiles finds the .mp3 in the directory  *)
(* or already gone, and never "absent", needs to know that only recordings *)
(* that were seen are listed, queued and processed.                        *)
(***************************************************************************)

\* A thread inside processFile has a file.
BusyHasJob == \A t \in Threads : pc[t] # "idle" => job[t] \in Files

\* Whatever the program holds has been in the directory.
HeldWasSeen ==
  /\ \A t \in Threads : job[t] # None => mp3[job[t]] # "absent"
  /\ \A f \in listed : mp3[f] # "absent"
  /\ \A i \in 1 .. Len(queue) : mp3[queue[i]] # "absent"

\* A transcription goes from the call to the result, and on to the row, only
\* when the .mp3 has left.
MovingHasLeft == \A t \in Threads : pc[t] = "movingTxt" => HasLeft(job[t])
ResultHasLeft == \A f \in Files : result[f] \in Texts => HasLeft(f)

IInv == TypeOK /\ BusyHasJob /\ HeldWasSeen /\ MovingHasLeft /\ ResultHasLeft
        /\ RecordedHasLeft

-----------------------------------------------------------------------------
(* Sequences of files *)

\* Taking the head of a sequence, or appending to it, keeps its type.
LEMMA SeqTypes ==
  ASSUME NEW q \in Seq(Files), NEW f \in Files
  PROVE  /\ Append(q, f) \in Seq(Files)
         /\ q # <<>> => Head(q) \in Files /\ Tail(q) \in Seq(Files)
<1> QED OBVIOUS

\* What holds of all elements holds of those that remain, and of those of a
\* sequence to which another such element was appended.
LEMMA SeqElements ==
  ASSUME NEW q \in Seq(Files), NEW S, NEW f \in S \cap Files,
         \A i \in 1 .. Len(q) : q[i] \in S
  PROVE  /\ \A i \in 1 .. Len(Append(q, f)) : Append(q, f)[i] \in S
         /\ q # <<>> => /\ Head(q) \in S
                        /\ \A i \in 1 .. Len(Tail(q)) : Tail(q)[i] \in S
<1> QED OBVIOUS

\* Assigning to one of the local variables of a call keeps their types.
LEMMA LocalsTypes ==
  ASSUME NEW l \in [Threads -> Locals], NEW t \in Threads,
         NEW n \in 0 .. MaxAudio, NEW b \in BOOLEAN, NEW x \in Texts \cup {None}
  PROVE  /\ [l EXCEPT ![t].sample = n] \in [Threads -> Locals]
         /\ [l EXCEPT ![t].skip = b] \in [Threads -> Locals]
         /\ [l EXCEPT ![t].duration = n] \in [Threads -> Locals]
         /\ [l EXCEPT ![t].text = x] \in [Threads -> Locals]
<1>1. l[t] \in Locals
  OBVIOUS
<1>2. /\ [l[t] EXCEPT !.sample = n] \in Locals
      /\ [l[t] EXCEPT !.skip = b] \in Locals
      /\ [l[t] EXCEPT !.duration = n] \in Locals
      /\ [l[t] EXCEPT !.text = x] \in Locals
  BY <1>1 DEF Locals
<1> QED BY <1>2

-----------------------------------------------------------------------------
(* The steps of a call *)

\* The initial state.
LEMMA InitIInv == Init => IInv
<1> SUFFICES ASSUME Init PROVE IInv
  OBVIOUS
<1> USE SentinelAssumption, DurationAssumption, BoundAssumption
<1>1. Fresh \in Locals
  BY DEF Fresh, Locals
<1>2. FileTypeOK
  BY <1>1 DEF Init, FileInit, FileTypeOK, Places, PC, Texts
<1>3. TypeOK
  <2>1. /\ main \in MainPC /\ listed \subseteq Files /\ pending \in Seq(Files)
        /\ swept \subseteq Files /\ queue \in Seq(Files)
        /\ row \in [Files -> Texts \cup {None}] /\ shutdown \in BOOLEAN
    <3>1. <<>> \in Seq(Files)
      OBVIOUS
    <3>2. row \in [Files -> Texts \cup {None}]
      BY DEF Init
    <3> QED BY <3>1, <3>2 DEF Init, MainPC
  <2> QED BY <1>2, <2>1 DEF TypeOK
<1>4. BusyHasJob /\ HeldWasSeen /\ MovingHasLeft /\ ResultHasLeft /\ RecordedHasLeft
  BY DEF Init, FileInit, BusyHasJob, HeldWasSeen, MovingHasLeft, ResultHasLeft,
         RecordedHasLeft, Texts
<1> QED BY <1>3, <1>4 DEF IInv

\* What a step has to respect to preserve the rest of the invariant: no
\* recording comes back, threads give up files or keep them, and what it puts
\* into a result or a row belongs to a recording that has left.
Respects ==
  /\ \A f \in Files : /\ mp3[f] # "absent" => mp3'[f] # "absent"
                      /\ HasLeft(f) => HasLeft(f)'
                      /\ result'[f] = result[f] \/ result'[f] \notin Texts \/ HasLeft(f)
                      /\ row'[f] = row[f] \/ HasLeft(f)
  /\ \A t \in Threads : /\ job'[t] = job[t] \/ (job'[t] = None /\ pc'[t] = "idle")
                        /\ pc'[t] # "idle" => pc[t] # "idle"
                        /\ pc'[t] = "movingTxt" =>
                             pc[t] = "movingTxt" \/ mp3'[job[t]] \notin {"absent", "top"}

\* Such a step preserves the invariant, if it hands nothing over.
LEMMA RespectsIInv ==
  ASSUME IInv, TypeOK', Respects, listed' \subseteq listed, queue' = queue
  PROVE  IInv'
<1> USE DEF IInv
<1>1. BusyHasJob'
  BY SentinelAssumption DEF Respects, BusyHasJob
<1>2. HeldWasSeen'
  BY DEF Respects, HeldWasSeen, TypeOK, FileTypeOK
<1>3. MovingHasLeft'
  BY DEF Respects, MovingHasLeft, HasLeft, BusyHasJob
<1>4. ResultHasLeft'
  BY DEF Respects, ResultHasLeft
<1>5. RecordedHasLeft'
  BY DEF Respects, RecordedHasLeft, HasLeft
<1> QED BY <1>1, <1>2, <1>3, <1>4, <1>5

-----------------------------------------------------------------------------
(* The steps of a call *)

\* Returning from processFile keeps the types.
LEMMA ReturnTypes ==
  ASSUME FileTypeOK, NEW t \in Threads, NEW r \in Texts \cup {None, Empty}, Return(t, r)
  PROVE  /\ job' \in [Threads -> Files \cup {None}]
         /\ pc' \in [Threads -> PC]
         /\ loc' \in [Threads -> Locals]
         /\ result' \in [Files -> Texts \cup {None, Empty}]
<1>1. Fresh \in Locals
  BY DurationAssumption DEF Fresh, Locals
<1> QED BY <1>1 DEF FileTypeOK, Return, Goto, PC

\* So does a step that assigns a local variable and goes on.
LEMMA LocalTypes ==
  ASSUME FileTypeOK, loc' \in [Threads -> Locals],
         NEW t \in Threads, NEW label \in PC, Goto(t, label),
         UNCHANGED <<dirVars, asked, job, result>>, left' \in [FaultKinds -> Nat]
  PROVE  FileTypeOK'
<1> QED BY DEF FileTypeOK, dirVars, Goto

\* A fault leaves the budget a function to the naturals.
LEMMA SpendTypes ==
  ASSUME left \in [FaultKinds -> Nat], NEW k \in FaultKinds, Spend(k)
  PROVE  left' \in [FaultKinds -> Nat]
<1> QED BY DEF Spend

\* A step of processFile, or a fault it handles, keeps the types.
LEMMA CallTypes ==
  ASSUME FileTypeOK, NEW t \in Threads, pc[t] # "idle" => job[t] \in Files,
         Process(t) \/ ProcessFault(t)
  PROVE  FileTypeOK'
<1> USE SentinelAssumption, DurationAssumption, BoundAssumption
<1>a. Empty \in Texts \cup {None, Empty} /\ None \in Texts \cup {None} /\ 0 \in Texts
  BY DEF Texts
<1>b. ASSUME Return(t, Empty), UNCHANGED <<dirVars, asked>>, left' \in [FaultKinds -> Nat]
      PROVE  FileTypeOK'
  BY <1>a, <1>b, ReturnTypes DEF FileTypeOK, dirVars
<1>c. left \in [FaultKinds -> Nat]
  BY DEF FileTypeOK
<1>1. CASE RejectPath(t)
  BY <1>1, <1>b, <1>c DEF RejectPath
<1>2. CASE FirstSize(t)
  <2>1. audio[job[t]] \in 0 .. MaxAudio
    BY <1>2 DEF FirstSize, FileTypeOK
  <2>2. loc' \in [Threads -> Locals]
    BY <1>2, <2>1, LocalsTypes DEF FirstSize, FileTypeOK
  <2> QED BY <1>2, <1>c, <2>2, LocalTypes DEF FirstSize, PC
<1>3. CASE SecondSize(t)
  <2>1. loc' \in [Threads -> Locals]
    BY <1>3, LocalsTypes DEF SecondSize, SizeChanged, FileTypeOK
  <2> QED BY <1>3, <1>c, <2>1, LocalTypes DEF SecondSize, PC
<1>4. CASE SizeThrows(t)
  BY <1>4, <1>b, <1>c DEF SizeThrows, Throw
<1>5. CASE CheckLock(t)
  <2>1. loc' \in [Threads -> Locals]
    BY <1>5, LocalsTypes DEF CheckLock, Locked, FileTypeOK
  <2> QED BY <1>5, <1>c, <2>1, LocalTypes DEF CheckLock, PC
<1>6. CASE Measure(t)
  <2>1. MP3Duration(t) \in 0 .. MaxAudio
    BY <1>6 DEF Measure, FileTypeOK, MP3Duration
  <2>2. loc' \in [Threads -> Locals]
    BY <1>6, <2>1, LocalsTypes DEF Measure, FileTypeOK
  <2> QED BY <1>6, <1>c, <2>2, LocalTypes DEF Measure, PC
<1>7. CASE Discard(t)
  BY <1>7, <1>a, ReturnTypes DEF Discard, FileTypeOK, Places
<1>8. CASE Skip(t)
  BY <1>8, <1>b, <1>c DEF Skip
<1>9. CASE Request(t)
  <2>1. asked' \in [Files -> 0 .. MaxAsks]
    <3>1. \A n \in 0 .. MaxAsks : (IF n < MaxAsks THEN n + 1 ELSE n) \in 0 .. MaxAsks
      OBVIOUS
    <3>2. job[t] \in Files
      BY <1>9 DEF Request, ToTranscribe
    <3>3. asked[job[t]] \in 0 .. MaxAsks
      BY <3>2 DEF FileTypeOK
    <3> QED BY <1>9, <3>1, <3>2, <3>3 DEF Request, FileTypeOK, CountAsk
  <2>2. pc' \in [Threads -> PC]
    BY <1>9 DEF Request, FileTypeOK, Goto, PC
  <2> QED BY <1>9, <2>1, <2>2 DEF Request, FileTypeOK, dirVars
<1>10. CASE RequestMissing(t)
  <2>1. CASE Local
    <3>1. loc' \in [Threads -> Locals]
      <4>1. loc' = [loc EXCEPT ![t].text = 0]
        BY <1>10, <2>1 DEF RequestMissing
      <4>2. 0 \in Texts \cup {None} /\ 0 \in 0 .. MaxAudio
        BY <1>a
      <4> QED BY <4>1, <4>2, LocalsTypes DEF FileTypeOK
    <3> QED BY <1>10, <1>c, <2>1, <3>1, LocalTypes DEF RequestMissing, PC
  <2>2. CASE ~Local
    BY <1>10, <1>b, <1>c, <2>2 DEF RequestMissing, Throw
  <2> QED BY <2>1, <2>2
<1>11. CASE Answer(t)
  <2>1. asked[job[t]] \in Texts
    BY <1>11 DEF Answer, FileTypeOK, Texts
  <2>2. loc' \in [Threads -> Locals]
    BY <1>11, <2>1, LocalsTypes DEF Answer, FileTypeOK
  <2> QED BY <1>11, <1>c, <2>2, LocalTypes DEF Answer, PC
<1>12. CASE RejectName(t)
  BY <1>12, <1>b, <1>c DEF RejectName, Throw
<1>13. CASE Save(t)
  BY <1>13 DEF Save, FileTypeOK, Locals, Goto, PC
<1>14. CASE MoveMp3(t)
  BY <1>14 DEF MoveMp3, FileTypeOK, Places, Goto, PC
<1>15. CASE MoveTxt(t)
  <2>1. loc[t].text \in Texts \cup {None, Empty}
    BY DEF FileTypeOK, Locals
  <2>2. txtTop' \in [Files -> Texts \cup {None}] /\ txtFiled' \in [Files -> Texts \cup {None}]
    BY <1>15 DEF MoveTxt, FileTypeOK
  <2> QED BY <1>15, <2>1, <2>2, ReturnTypes DEF MoveTxt, FileTypeOK
<1>16. CASE LocalFails(t)
  <2>1. left' \in [FaultKinds -> Nat]
    BY <1>16, <1>c, SpendTypes DEF LocalFails, FaultKinds
  <2>2. loc' \in [Threads -> Locals]
    BY <1>16, <1>a, LocalsTypes DEF LocalFails, FileTypeOK
  <2> QED BY <1>16, <2>1, <2>2, LocalTypes DEF LocalFails, PC
<1>17. CASE SaveFails(t)
  <2>1. left' \in [FaultKinds -> Nat]
    BY <1>17, <1>c, SpendTypes DEF SaveFails, FaultKinds
  <2> QED BY <1>17, <1>a, <2>1 DEF SaveFails, FileTypeOK, Goto, PC
<1>18. CASE MoveThrows(t)
  <2>1. left' \in [FaultKinds -> Nat]
    BY <1>18, <1>c, SpendTypes DEF MoveThrows, FaultKinds
  <2> QED BY <1>18, <1>b, <2>1 DEF MoveThrows, Throw
<1>19. CASE DiscardThrows(t)
  <2>1. left' \in [FaultKinds -> Nat]
    BY <1>19, <1>c, SpendTypes DEF DiscardThrows, FaultKinds
  <2> QED BY <1>19, <1>b, <2>1 DEF DiscardThrows, Throw
<1> QED
  BY <1>1, <1>2, <1>3, <1>4, <1>5, <1>6, <1>7, <1>8, <1>9, <1>10, <1>11, <1>12,
     <1>13, <1>14, <1>15, <1>16, <1>17, <1>18, <1>19 DEF Process, ProcessFault

\* A step of a call respects what the invariant says: the .mp3 leaves before
\* the transcription is returned.
LEMMA CallRespects ==
  ASSUME IInv, NEW t \in Threads, Process(t) \/ ProcessFault(t), row' = row
  PROVE  Respects
<1> USE SentinelAssumption DEF IInv, TypeOK, FileTypeOK, HasLeft, dirVars, Goto
<1>1. ASSUME Return(t, Empty), mp3' = mp3
      PROVE  Respects
  BY <1>1 DEF Return, Respects, Texts
<1>2. ASSUME UNCHANGED <<mp3, job, result>>, NEW label \in PC \ {"idle", "movingTxt"},
             pc[t] # "idle", Goto(t, label)
      PROVE  Respects
  BY <1>2 DEF Respects
<1>3. CASE \/ RejectPath(t) \/ SizeThrows(t) \/ Skip(t) \/ RejectName(t) \/ DiscardThrows(t)
           \/ MoveThrows(t)
  BY <1>1, <1>3 DEF RejectPath, SizeThrows, Skip, RejectName, DiscardThrows, MoveThrows, Throw
<1>4. CASE FirstSize(t) \/ SecondSize(t) \/ CheckLock(t) \/ Measure(t)
  BY <1>2, <1>4 DEF FirstSize, SecondSize, CheckLock, Measure, PC
<1>5. CASE Request(t) \/ RequestMissing(t)
  BY <1>1, <1>2, <1>5 DEF Request, RequestMissing, ToTranscribe, Throw, PC
<1>6. CASE Answer(t) \/ LocalFails(t)
  BY <1>2, <1>6 DEF Answer, LocalFails, PC
<1>7. CASE Save(t) \/ SaveFails(t)
  BY <1>2, <1>7 DEF Save, SaveFails, PC
<1>8. CASE Discard(t)
  BY <1>8 DEF Discard, Return, Respects, Texts, Present
<1>9. CASE MoveMp3(t)
  <2>1. job[t] \in Files /\ mp3[job[t]] # "absent"
    BY <1>9 DEF MoveMp3, BusyHasJob, HeldWasSeen
  <2> QED BY <1>9, <2>1 DEF MoveMp3, Respects, Present
<1>10. CASE MoveTxt(t)
  <2>1. job[t] \in Files /\ HasLeft(job[t])
    BY <1>10 DEF MoveTxt, BusyHasJob, MovingHasLeft
  <2> QED BY <1>10, <2>1 DEF MoveTxt, Return, Respects
<1> QED
  BY <1>3, <1>4, <1>5, <1>6, <1>7, <1>8, <1>9, <1>10 DEF Process, ProcessFault

\* A call, or a fault in it, preserves the invariant.
LEMMA CallIInv ==
  ASSUME IInv, NEW t \in Threads, Process(t) \/ ProcessFault(t),
         UNCHANGED <<memoryVars, row, shutdown>>
  PROVE  IInv'
<1>1. FileTypeOK'
  BY CallTypes DEF IInv, TypeOK, BusyHasJob
<1>2. TypeOK'
  BY <1>1 DEF IInv, TypeOK, memoryVars
<1> QED BY <1>2, CallRespects, RespectsIInv DEF memoryVars

-----------------------------------------------------------------------------
(* The steps of the main thread *)

\* A step of the main thread that touches neither the files nor the calls,
\* and hands nothing over.
LEMMA QuietIInv ==
  ASSUME IInv, UNCHANGED <<fileVars, queue, row>>, listed' \subseteq listed, TypeOK'
  PROVE  IInv'
<1>1. Respects
  BY DEF Respects, HasLeft, fileVars, dirVars, callVars
<1> QED BY <1>1, RespectsIInv

\* The steps of the polling loop that only move the main thread.
LEMMA LoopIInv ==
  ASSUME IInv,
         \/ CheckShutdown \/ Sweep \/ RenameSwept \/ Sleep \/ LastFile
         \/ BeginCollect \/ EndCollect \/ Restart \/ Signal
  PROVE  IInv'
<1>1. /\ UNCHANGED <<fileVars, listed, pending, queue, row>>
      /\ swept' \subseteq Files /\ main' \in MainPC /\ shutdown' \in BOOLEAN
  BY DEF IInv, TypeOK, MainPC, CheckShutdown, Sweep, RenameSwept, Sleep, LastFile,
         BeginCollect, EndCollect, Restart, Signal, memoryVars
<1>2. TypeOK'
  BY <1>1 DEF IInv, TypeOK, FileTypeOK, fileVars, dirVars, callVars
<1> QED BY <1>1, <1>2, QuietIInv

\* List hands over only what is in the directory.
LEMMA ListIInv == IInv /\ List => IInv'
<1> SUFFICES ASSUME IInv, List PROVE IInv'
  OBVIOUS
<1>1. /\ UNCHANGED <<fileVars, pending, swept, queue, row, shutdown>>
      /\ listed' = {f \in Files : mp3[f] = "top"}
      /\ main' \in MainPC
  BY DEF List, MainPC
<1>2. TypeOK'
  BY <1>1 DEF IInv, TypeOK, FileTypeOK, fileVars, dirVars, callVars
<1>3. HeldWasSeen'
  BY <1>1 DEF IInv, HeldWasSeen, fileVars, dirVars, callVars
<1>4. BusyHasJob' /\ MovingHasLeft' /\ ResultHasLeft' /\ RecordedHasLeft'
  BY <1>1 DEF IInv, BusyHasJob, MovingHasLeft, ResultHasLeft, RecordedHasLeft, HasLeft,
              fileVars, dirVars, callVars
<1> QED BY <1>2, <1>3, <1>4 DEF IInv

\* A call begins, on a file that has been seen.
LEMMA StartIInv ==
  ASSUME IInv, NEW t \in Threads, NEW f \in Files, mp3[f] # "absent", StartFile(t, f),
         row' = row, listed' \subseteq listed,
         /\ main' \in MainPC /\ pending' \in Seq(Files) /\ swept' \subseteq Files
         /\ queue' \in Seq(Files) /\ shutdown' \in BOOLEAN,
         \A i \in 1 .. Len(queue') : mp3[queue'[i]] # "absent"
  PROVE  IInv'
<1> USE DEF IInv, StartFile, dirVars, Goto
<1>1. FileTypeOK'
  BY DEF TypeOK, FileTypeOK, PC
<1>2. TypeOK'
  BY <1>1 DEF TypeOK
<1>3. BusyHasJob' /\ HeldWasSeen'
  BY DEF TypeOK, FileTypeOK, BusyHasJob, HeldWasSeen
<1>4. MovingHasLeft' /\ ResultHasLeft' /\ RecordedHasLeft'
  BY DEF TypeOK, FileTypeOK, MovingHasLeft, ResultHasLeft, RecordedHasLeft, HasLeft
<1> QED BY <1>2, <1>3, <1>4

\* The sequential branch and the workers of the pool begin their calls so.
LEMMA BeginIInv ==
  ASSUME IInv, NextFile \/ \E w \in Workers : WorkerBegins(w)
  PROVE  IInv'
<1>0. Main \in Threads /\ Workers \subseteq Threads
  BY ThreadAssumption
<1>1. CASE NextFile
  <2>1. PICK f \in listed : StartFile(Main, f) /\ listed' = listed \ {f} /\ pending' = <<f>>
    BY <1>1 DEF NextFile
  <2>2. f \in Files /\ mp3[f] # "absent"
    BY DEF IInv, TypeOK, HeldWasSeen
  <2>3. /\ main' \in MainPC /\ pending' \in Seq(Files) /\ swept' \subseteq Files
        /\ queue' = queue /\ queue \in Seq(Files) /\ shutdown' \in BOOLEAN /\ row' = row
    BY <1>1, <2>1, <2>2 DEF NextFile, MainPC, IInv, TypeOK
  <2>4. \A i \in 1 .. Len(queue') : mp3[queue'[i]] # "absent"
    BY <2>3 DEF IInv, HeldWasSeen
  <2> QED BY <1>0, <2>1, <2>2, <2>3, <2>4, StartIInv
<1>2. ASSUME NEW w \in Workers, WorkerBegins(w)
      PROVE  IInv'
  <2>1. /\ queue # <<>> /\ StartFile(w, Head(queue)) /\ queue' = Tail(queue)
        /\ UNCHANGED <<main, listed, pending, swept, row, shutdown>>
    BY <1>2 DEF WorkerBegins, Pool!Begin
  <2>2. queue \in Seq(Files) /\ Head(queue) \in Files /\ Tail(queue) \in Seq(Files)
    BY <2>1, SeqTypes DEF IInv, TypeOK
  <2>3. mp3[Head(queue)] # "absent" /\ \A i \in 1 .. Len(Tail(queue)) : mp3[Tail(queue)[i]] # "absent"
    <3> DEFINE S == {f \in Files : mp3[f] # "absent"}
    <3>1. \A i \in 1 .. Len(queue) : queue[i] \in S
      BY <2>2 DEF IInv, HeldWasSeen
    <3>2. queue # <<>> => Head(queue) \in S
      BY <2>1, <2>2, <3>1
    <3>3. Head(queue) \in S \cap Files
      BY <2>1, <3>2
    <3> QED BY <2>1, <2>2, <3>1, <3>3, SeqElements
  <2> QED BY <1>0, <2>1, <2>2, <2>3, StartIInv DEF IInv, TypeOK
<1> QED BY <1>1, <1>2

\* A file handed to the pool had been listed.
LEMMA SubmitIInv ==
  ASSUME IInv, NEW f \in Files, SubmitFile(f)
  PROVE  IInv'
<1>1. /\ f \in listed /\ listed' = listed \ {f}
      /\ pending' = Append(pending, f) /\ queue' = Append(queue, f)
      /\ UNCHANGED <<main, fileVars, swept, row, shutdown>>
  BY DEF SubmitFile, Pool!Submit
<1>2. pending' \in Seq(Files) /\ queue' \in Seq(Files)
  BY <1>1, SeqTypes DEF IInv, TypeOK
<1>3. TypeOK'
  BY <1>1, <1>2 DEF IInv, TypeOK, FileTypeOK, fileVars, dirVars, callVars
<1>4. \A i \in 1 .. Len(queue') : mp3[queue'[i]] # "absent"
  <2> DEFINE S == {g \in Files : mp3[g] # "absent"}
  <2>1. f \in S \cap Files
    BY <1>1 DEF IInv, HeldWasSeen
  <2>2. queue \in Seq(Files) /\ \A i \in 1 .. Len(queue) : queue[i] \in S
    BY DEF IInv, HeldWasSeen, TypeOK
  <2> QED BY <1>1, <2>1, <2>2, SeqElements
<1>5. HeldWasSeen'
  BY <1>1, <1>4 DEF IInv, HeldWasSeen, fileVars, dirVars, callVars
<1>6. BusyHasJob' /\ MovingHasLeft' /\ ResultHasLeft' /\ RecordedHasLeft'
  BY <1>1 DEF IInv, BusyHasJob, MovingHasLeft, ResultHasLeft, RecordedHasLeft, HasLeft,
              fileVars, dirVars, callVars
<1> QED BY <1>3, <1>5, <1>6 DEF IInv

\* Inserting the result of a file: a transcription enters only a row that was
\* empty, and only of a recording that has left.
LEMMA InsertRow ==
  ASSUME IInv, NEW f, Insert(f)
  PROVE  /\ row' \in [Files -> Texts \cup {None}]
         /\ left' \in [FaultKinds -> Nat]
         /\ \/ row' = row
            \/ /\ f \in Files /\ row[f] = None /\ result[f] \in Texts /\ HasLeft(f)
               /\ row' = [row EXCEPT ![f] = result[f]]
<1> USE DEF IInv, TypeOK, FileTypeOK
<1>1. left' \in [FaultKinds -> Nat]
  BY DEF Insert, Spend
<1>2. CASE f \notin Files
  BY <1>1, <1>2 DEF Insert
<1>3. CASE f \in Files /\ Recordable(f)
  <2>1. result[f] \in Texts
    BY <1>3 DEF Recordable
  <2>2. HasLeft(f)
    BY <1>3, <2>1 DEF ResultHasLeft
  <2> QED BY <1>1, <1>3, <2>1, <2>2 DEF Insert
<1>4. CASE ~Recordable(f)
  BY <1>1, <1>4 DEF Insert
<1> QED BY <1>2, <1>3, <1>4

\* Consuming results: in the sequential branch, and by future.get.
LEMMA ConsumeIInv == IInv /\ (Record \/ Collect) => IInv'
<1> SUFFICES ASSUME IInv, Record \/ Collect PROVE IInv'
  OBVIOUS
<1>1. /\ Insert(Head(pending))
      /\ UNCHANGED <<dirVars, asked, job, pc, loc, listed, swept, queue, shutdown>>
      /\ main' \in MainPC /\ pending' \in Seq(Files)
      /\ result' = result \/ Forget({Head(pending)})
  <2>1. CASE Record
    <3>1. <<>> \in Seq(Files)
      OBVIOUS
    <3> QED BY <2>1, <3>1 DEF Record, MainPC
  <2>2. CASE Collect
    <3>1. pending \in Seq(Files) /\ pending # <<>> /\ main' = main /\ main \in MainPC
      BY <2>2 DEF Collect, IInv, TypeOK
    <3>2. Head(pending) \in Files /\ Tail(pending) \in Seq(Files)
      BY <3>1
    <3> QED BY <2>2, <3>1, <3>2 DEF Collect, callVars
  <2> QED BY <2>1, <2>2
<1>2. /\ row' \in [Files -> Texts \cup {None}] /\ left' \in [FaultKinds -> Nat]
      /\ \A f \in Files : row'[f] = row[f] \/ HasLeft(f)
  BY <1>1, InsertRow DEF IInv, TypeOK
<1>3. /\ result' \in [Files -> Texts \cup {None, Empty}]
      /\ \A f \in Files : result'[f] = result[f] \/ result'[f] \notin Texts
  BY <1>1, SentinelAssumption DEF Forget, IInv, TypeOK, FileTypeOK, Texts
<1>4. TypeOK'
  BY <1>1, <1>2, <1>3 DEF IInv, TypeOK, FileTypeOK, dirVars
<1>5. Respects
  BY <1>1, <1>2, <1>3 DEF Respects, HasLeft, dirVars
<1> QED BY <1>1, <1>4, <1>5, RespectsIInv

\* The pool leaves its scope, and its futures are gone.
LEMMA CloseIInv == IInv /\ ClosePool => IInv'
<1> SUFFICES ASSUME IInv, ClosePool PROVE IInv'
  OBVIOUS
<1>1. /\ UNCHANGED <<dirVars, asked, left, job, pc, loc, listed, pending, swept, queue,
                     row, shutdown>>
      /\ result' = [f \in Files |-> None] /\ main' \in MainPC
  BY DEF ClosePool, Forget, MainPC
<1>2. TypeOK'
  BY <1>1 DEF IInv, TypeOK, FileTypeOK, dirVars
<1>3. Respects
  BY <1>1, SentinelAssumption DEF Respects, HasLeft, dirVars, Texts
<1> QED BY <1>1, <1>2, <1>3, RespectsIInv

-----------------------------------------------------------------------------
(* The end of the process, and the world around it *)

\* A process that dies takes its memory with it.
LEMMA DieIInv ==
  ASSUME IInv, Die, left' \in [FaultKinds -> Nat]
  PROVE  IInv'
<1>1. <<>> \in Seq(Files) /\ Fresh \in Locals
  BY DurationAssumption DEF Fresh, Locals
<1>2. /\ UNCHANGED <<dirVars, asked, row, shutdown>>
      /\ main' \in MainPC /\ listed' = {} /\ swept' = {} /\ pending' = <<>> /\ queue' = <<>>
      /\ job' = [t \in Threads |-> None] /\ pc' = [t \in Threads |-> "idle"]
      /\ loc' \in [Threads -> Locals] /\ result' = [f \in Files |-> None]
  BY <1>1 DEF Die, MainPC
<1>3. FileTypeOK'
  BY <1>2 DEF IInv, TypeOK, FileTypeOK, dirVars, PC
<1>4. TypeOK'
  BY <1>1, <1>2, <1>3 DEF IInv, TypeOK
<1>5. BusyHasJob' /\ MovingHasLeft' /\ HeldWasSeen'
  BY <1>2 DEF BusyHasJob, MovingHasLeft, HeldWasSeen
<1>6. ResultHasLeft' /\ RecordedHasLeft'
  BY <1>2, SentinelAssumption DEF IInv, ResultHasLeft, RecordedHasLeft, HasLeft, dirVars, Texts
<1> QED BY <1>4, <1>5, <1>6 DEF IInv

\* exit() in a call, the exception of find_and_move, and a crash are deaths.
LEMMA EndIInv ==
  ASSUME IInv, SweepThrows \/ Crash \/ \E t \in Threads : ApiGivesUp(t)
  PROVE  IInv'
<1>1. Die
  BY DEF SweepThrows, Crash, ApiGivesUp
<1>2. left' \in [FaultKinds -> Nat]
  <2>1. left \in [FaultKinds -> Nat] /\ {"api", "crash", "fs"} \subseteq FaultKinds
    BY DEF IInv, TypeOK, FileTypeOK, FaultKinds
  <2> QED BY <2>1, SpendTypes DEF SweepThrows, Crash, ApiGivesUp
<1> QED BY <1>1, <1>2, DieIInv

\* The recorder and the operator never put a recording back.
LEMMA WorldIInv ==
  ASSUME IInv, NEW f \in Files, Environment(f), UNCHANGED <<memoryVars, row, shutdown>>
  PROVE  IInv'
<1>1. /\ mp3 \in [Files -> Places] /\ audio \in [Files -> 0 .. MaxAudio]
      /\ open \in [Files -> BOOLEAN] /\ left \in [FaultKinds -> Nat]
  BY DEF IInv, TypeOK, FileTypeOK
<1>2. /\ mp3' \in [Files -> Places] /\ audio' \in [Files -> 0 .. MaxAudio]
      /\ open' \in [Files -> BOOLEAN] /\ left' \in [FaultKinds -> Nat]
      /\ UNCHANGED <<txtTop, txtFiled, asked, callVars>>
      /\ \A g \in Files : \/ mp3'[g] = mp3[g]
                          \/ mp3[g] = "absent" /\ mp3'[g] = "top"
                          \/ mp3[g] = "top" /\ mp3'[g] = "gone"
  <2>1. CASE Appear(f)
    BY <1>1, <2>1 DEF Appear, Places, callVars
  <2>2. CASE Append1(f)
    <3>1. audio[f] \in 0 .. MaxAudio /\ audio[f] < MaxAudio
      BY <1>1, <2>2 DEF Append1, callVars
    <3>2. audio[f] + 1 \in 0 .. MaxAudio
      BY <3>1, DurationAssumption
    <3> QED BY <1>1, <2>2, <3>2 DEF Append1, callVars
  <2>3. CASE Finalize(f)
    BY <1>1, <2>3 DEF Finalize, callVars
  <2>4. CASE RemoveExternally(f)
    <3>1. left' \in [FaultKinds -> Nat]
      BY <1>1, <2>4, SpendTypes DEF RemoveExternally, FaultKinds
    <3> QED BY <1>1, <2>4, <3>1 DEF RemoveExternally, Places, callVars
  <2> QED BY <2>1, <2>2, <2>3, <2>4 DEF Environment
<1>3. TypeOK'
  BY <1>2 DEF IInv, TypeOK, FileTypeOK, memoryVars, callVars
<1>4. Respects
  BY <1>2 DEF Respects, HasLeft, callVars
<1> QED BY <1>3, <1>4, RespectsIInv DEF memoryVars

-----------------------------------------------------------------------------
(* The invariant, and what follows from it *)

\* Every step preserves the invariant.
LEMMA StepIInv == IInv /\ [Next]_vars => IInv'
<1> SUFFICES ASSUME IInv, [Next]_vars PROVE IInv'
  OBVIOUS
<1>1. CASE MainLoop
  BY <1>1, LoopIInv, ListIInv, BeginIInv, SubmitIInv, ConsumeIInv, CloseIInv, EndIInv
     DEF MainLoop
<1>2. CASE (\E t \in Threads : Call(t)) \/ Fault
  BY <1>2, CallIInv, EndIInv DEF Call, Fault
<1>3. CASE \E w \in Workers : WorkerBegins(w)
  BY <1>3, BeginIInv
<1>4. CASE World
  BY <1>4, WorldIInv DEF World
<1>5. CASE Signal
  BY <1>5, LoopIInv
<1>6. CASE UNCHANGED vars
  BY <1>6 DEF vars, fileVars, dirVars, callVars, memoryVars, IInv, TypeOK, FileTypeOK,
     BusyHasJob, HeldWasSeen, MovingHasLeft, ResultHasLeft, RecordedHasLeft, HasLeft
<1> QED BY <1>1, <1>2, <1>3, <1>4, <1>5, <1>6 DEF Next

\* The invariant always holds.
LEMMA IInvCorrect == Spec => []IInv
<1> QED BY InitIInv, StepIInv, PTL DEF Spec

\* Only transcriptions enter the table, counts stay within their bounds, and
\* every other variable has its type.
THEOREM TypeCorrect == Spec => []TypeOK
<1>1. IInv => TypeOK
  BY DEF IInv
<1> QED BY <1>1, IInvCorrect, PTL

\* A recording that has a row has left the directory the program lists,
\* whatever fails and however often the program is started again: it is never
\* transcribed a second time.
THEOREM RecordedHasLeftCorrect == Spec => []RecordedHasLeft
<1>1. IInv => RecordedHasLeft
  BY DEF IInv
<1> QED BY <1>1, IInvCorrect, PTL

-----------------------------------------------------------------------------
(* The directory and the table implement RecordingArchive *)

\* A step that leaves the row alone moves at most one recording, forward.
LEMMA ArchiveMove ==
  ASSUME mp3 \in [Files -> Places], row' = row,
         \/ mp3' = mp3
         \/ \E f \in Files : mp3[f] = "absent" /\ mp3' = [mp3 EXCEPT ![f] = "top"]
         \/ \E f \in Files, p \in {"filed", "removed", "gone"} :
              mp3[f] = "top" /\ mp3' = [mp3 EXCEPT ![f] = p]
  PROVE  [Archive!Next]_(Archive!vars)
<1> QED BY DEF Archive!Next, Archive!vars, Archive!Appear, Archive!Leave, Archive!Left

\* Every step of the program is one of the archive, or leaves it alone.
LEMMA ArchiveStep == IInv /\ [Next]_vars => [Archive!Next]_(Archive!vars)
<1> SUFFICES ASSUME IInv, [Next]_vars PROVE [Archive!Next]_(Archive!vars)
  OBVIOUS
<1>0. mp3 \in [Files -> Places]
  BY DEF IInv, TypeOK, FileTypeOK
<1>1. ASSUME UNCHANGED <<mp3, row>>
      PROVE  [Archive!Next]_(Archive!vars)
  BY <1>1 DEF Archive!vars
<1>2. ASSUME NEW t \in Threads, Process(t) \/ ProcessFault(t), row' = row
      PROVE  [Archive!Next]_(Archive!vars)
  <2>1. CASE Discard(t) \/ MoveMp3(t)
    <3>1. job[t] \in Files
      BY <2>1 DEF Discard, MoveMp3, IInv, BusyHasJob
    <3> QED BY <1>0, <1>2, <2>1, <3>1, ArchiveMove DEF Discard, MoveMp3, Present
  <2>2. CASE ~(Discard(t) \/ MoveMp3(t))
    <3>1. mp3' = mp3
      BY <1>2, <2>2 DEF Process, ProcessFault, dirVars, RejectPath, FirstSize, SecondSize,
         SizeThrows, CheckLock, Measure, Skip, Request, RequestMissing, Answer, RejectName,
         Save, MoveTxt, DiscardThrows, LocalFails, SaveFails, MoveThrows
    <3> QED BY <1>1, <1>2, <3>1
  <2> QED BY <2>1, <2>2
<1>3. CASE Record \/ Collect
  <2>1. mp3' = mp3 /\ Insert(Head(pending))
    BY <1>3 DEF Record, Collect, dirVars
  <2>2. CASE row' = row
    BY <1>1, <2>1, <2>2
  <2>3. CASE row' # row
    <3>1. PICK f \in Files : /\ row[f] = None /\ result[f] \in Texts /\ HasLeft(f)
                             /\ row' = [row EXCEPT ![f] = result[f]]
      BY <2>1, <2>3, InsertRow
    <3>2. mp3[f] \in Archive!Left
      BY <1>0, <3>1 DEF HasLeft, Places, Archive!Left
    <3>3. Archive!Enter(f)
      BY <2>1, <3>1, <3>2 DEF Archive!Enter
    <3> QED BY <3>3 DEF Archive!Next
  <2> QED BY <2>2, <2>3
<1>4. CASE MainLoop /\ ~(Record \/ Collect)
  BY <1>1, <1>4 DEF MainLoop, CheckShutdown, Sweep, RenameSwept, List, Sleep, NextFile,
     StartFile, LastFile, SubmitFile, BeginCollect, EndCollect, ClosePool, SweepThrows,
     Restart, Die, fileVars, dirVars
<1>5. CASE \/ \E w \in Workers : WorkerBegins(w)
           \/ \E t \in Threads : ApiGivesUp(t)
           \/ Crash \/ Signal \/ UNCHANGED vars
  BY <1>1, <1>5 DEF WorkerBegins, StartFile, ApiGivesUp, Crash, Die, Signal, vars,
     fileVars, dirVars
<1>6. CASE World
  <2>1. PICK f \in Files : Environment(f) /\ row' = row
    BY <1>6 DEF World
  <2> QED BY <1>0, <2>1, ArchiveMove
          DEF Environment, Appear, Append1, Finalize, RemoveExternally
<1> QED BY <1>2, <1>3, <1>4, <1>5, <1>6 DEF Next, Call, Fault

\* The program implements RecordingArchive: a recording moves forward only,
\* and gets one row, which never changes, after it has left the directory -
\* through every interleaving, fault, crash and restart.
THEOREM Refinement == Spec => ImplementsArchive
<1>1. Init => Archive!Init
  BY DEF Init, FileInit, Archive!Init
<1> QED BY <1>1, ArchiveStep, IInvCorrect, PTL DEF Spec, ImplementsArchive, Archive!Spec

-----------------------------------------------------------------------------
(* The invariant of the threads *)

JobWhileBusy == \A t \in Threads : job[t] # None <=> pc[t] # "idle"

\* A recording is listed, or it waits in the pool, once, or one thread has it.
Exclusion ==
  /\ OneCallPerFile
  /\ \A t \in Threads : job[t] \notin listed \cup Range(queue)
  /\ listed \cap Range(queue) = {}
  /\ IsInjective(queue)

\* Which threads have work is known from where the main thread is.
InPool == main \in {"submit", "collect", "close"}

Phases ==
  /\ InPool => Parallel
  /\ ~InPool => queue = <<>> /\ \A w \in Workers : job[w] = None
  /\ main # "processing" => job[Main] = None
  /\ main \notin {"sequence", "processing", "submit"} => listed = {}

ThreadInv == JobWhileBusy /\ Exclusion /\ Phases

-----------------------------------------------------------------------------
(* The invariant of what is written *)

\* Only a recording that is written in place is ever open.
OpenInPlace == \A f \in Files \ InPlace : ~open[f]

\* What validateDuration measured of a complete recording is its length.
MeasuredInFull ==
  \A t \in Threads :
    pc[t] = "measured" /\ job[t] \notin InPlace =>
      loc[t].duration \in {0, audio[job[t]]}

\* A call that is going to file a recording has seen it without its lock.
LockSeenFree ==
  \A t \in Threads :
    /\ job[t] \in Locking
    /\ \/ pc[t] \in {"measuring", "measured"} /\ ~loc[t].skip
       \/ pc[t] \in {"asking", "answered", "movingMp3"}
    => ~open[job[t]]

WritingInv == /\ OpenInPlace /\ MeasuredInFull /\ LockSeenFree
              /\ LongRecordingKept /\ FiledIsComplete

-----------------------------------------------------------------------------
(* Sequences of files, as sets *)

\* What is in a sequence after appending to it, and after taking its head.
LEMMA SeqRange ==
  ASSUME NEW q \in Seq(Files), NEW f \in Files
  PROVE  /\ Range(q) \subseteq Files /\ Range(<<>>) = {}
         /\ Range(Append(q, f)) = Range(q) \cup {f}
         /\ IsInjective(q) /\ f \notin Range(q) => IsInjective(Append(q, f))
         /\ q # <<>> => /\ Head(q) \in Files /\ Tail(q) \in Seq(Files)
                        /\ Range(q) = {Head(q)} \cup Range(Tail(q))
                        /\ IsInjective(q) => /\ Head(q) \notin Range(Tail(q))
                                             /\ IsInjective(Tail(q))
<1> USE DEF Range, IsInjective
<1> DEFINE n == Len(q)
<1>1. n \in Nat /\ DOMAIN q = 1 .. n /\ \A i \in 1 .. n : q[i] \in Files
  OBVIOUS
<1>2. Range(q) \subseteq Files /\ Range(<<>>) = {}
  BY <1>1
<1>3. /\ DOMAIN Append(q, f) = 1 .. n + 1 /\ Append(q, f)[n + 1] = f
      /\ \A i \in 1 .. n : Append(q, f)[i] = q[i]
  OBVIOUS
<1>4. Range(Append(q, f)) = Range(q) \cup {f}
  <2>1. Range(Append(q, f)) \subseteq Range(q) \cup {f}
    <3> SUFFICES ASSUME NEW i \in 1 .. n + 1 PROVE Append(q, f)[i] \in Range(q) \cup {f}
      BY <1>3
    <3>1. CASE i = n + 1
      BY <1>3, <3>1
    <3>2. CASE i # n + 1
      BY <1>1, <1>3, <3>2
    <3> QED BY <3>1, <3>2
  <2>2. Range(q) \subseteq Range(Append(q, f)) /\ f \in Range(Append(q, f))
    BY <1>1, <1>3
  <2> QED BY <2>1, <2>2
<1>5. ASSUME IsInjective(q), f \notin Range(q) PROVE IsInjective(Append(q, f))
  <2> SUFFICES ASSUME NEW i \in 1 .. n + 1, NEW j \in 1 .. n + 1,
                      Append(q, f)[i] = Append(q, f)[j]
               PROVE  i = j
    BY <1>3
  <2>1. CASE i \in 1 .. n /\ j \in 1 .. n
    BY <1>1, <1>3, <1>5, <2>1
  <2>2. CASE i = n + 1 /\ j \in 1 .. n
    BY <1>1, <1>3, <1>5, <2>2
  <2>3. CASE j = n + 1 /\ i \in 1 .. n
    BY <1>1, <1>3, <1>5, <2>3
  <2> QED BY <1>1, <2>1, <2>2, <2>3
<1>6. ASSUME q # <<>>
      PROVE  /\ Head(q) \in Files /\ Tail(q) \in Seq(Files)
             /\ Range(q) = {Head(q)} \cup Range(Tail(q))
             /\ IsInjective(q) => Head(q) \notin Range(Tail(q)) /\ IsInjective(Tail(q))
  <2>1. /\ n >= 1 /\ Head(q) = q[1] /\ Head(q) \in Files /\ Tail(q) \in Seq(Files)
        /\ DOMAIN Tail(q) = 1 .. n - 1 /\ \A i \in 1 .. n - 1 : Tail(q)[i] = q[i + 1]
    BY <1>6
  <2>2. Range(q) \subseteq {Head(q)} \cup Range(Tail(q))
    <3> SUFFICES ASSUME NEW i \in 1 .. n, i # 1 PROVE q[i] \in Range(Tail(q))
      BY <1>1, <2>1
    <3>1. i - 1 \in 1 .. n - 1 /\ (i - 1) + 1 = i
      BY <1>1
    <3> QED BY <2>1, <3>1
  <2>3. {Head(q)} \cup Range(Tail(q)) \subseteq Range(q)
    BY <1>1, <2>1
  <2>4. IsInjective(q) => Head(q) \notin Range(Tail(q)) /\ IsInjective(Tail(q))
    BY <1>1, <2>1
  <2> QED BY <2>1, <2>2, <2>3, <2>4
<1> QED BY <1>2, <1>4, <1>5, <1>6

-----------------------------------------------------------------------------
(* The steps and the invariant of the threads *)

\* A step of a call either stays in processFile or returns.
Goes(t) ==
  /\ \E label \in PC \ {"idle"} : Goto(t, label)
  /\ UNCHANGED <<job, result>>

Ends(t) == \E r \in Texts \cup {None, Empty} : Return(t, r)

LEMMA CallShape ==
  ASSUME IInv, NEW t \in Threads, Process(t) \/ ProcessFault(t)
  PROVE  pc[t] # "idle" /\ (Goes(t) \/ Ends(t))
<1> USE DEF dirVars
<1>0. loc[t].text \in Texts \cup {None}
  BY DEF IInv, TypeOK, FileTypeOK, Locals
<1>1. CASE \/ RejectPath(t) \/ SizeThrows(t) \/ Skip(t) \/ RejectName(t) \/ DiscardThrows(t)
           \/ MoveThrows(t)
  BY <1>1 DEF RejectPath, SizeThrows, Skip, RejectName, DiscardThrows, MoveThrows, ToTranscribe,
     Throw, Ends
<1>2. CASE FirstSize(t) \/ SecondSize(t) \/ CheckLock(t) \/ Measure(t)
  BY <1>2 DEF FirstSize, SecondSize, CheckLock, Measure, Goes, PC
<1>3. CASE Request(t) \/ RequestMissing(t)
  BY <1>3 DEF Request, RequestMissing, ToTranscribe, Throw, Goes, Ends, PC
<1>4. CASE Answer(t) \/ LocalFails(t)
  BY <1>4 DEF Answer, LocalFails, Goes, PC
<1>5. CASE Save(t) \/ SaveFails(t) \/ MoveMp3(t)
  BY <1>5 DEF Save, SaveFails, MoveMp3, Goes, PC
<1>6. CASE Discard(t) \/ MoveTxt(t)
  BY <1>0, <1>6 DEF Discard, MoveTxt, Ends
<1> QED BY <1>1, <1>2, <1>3, <1>4, <1>5, <1>6 DEF Process, ProcessFault

LEMMA InitThreadInv == Init => ThreadInv
<1> SUFFICES ASSUME Init PROVE ThreadInv
  OBVIOUS
<1>1. Range(queue) = {} /\ IsInjective(queue)
  BY DEF Init, Range, IsInjective
<1> QED
  BY <1>1, ThreadAssumption DEF Init, FileInit, ThreadInv, JobWhileBusy, Exclusion, OneCallPerFile, Phases, InPool

\* Calls end without touching what waits.
LEMMA CallThreadInv ==
  ASSUME IInv, ThreadInv, NEW t \in Threads, Process(t) \/ ProcessFault(t),
         UNCHANGED memoryVars
  PROVE  ThreadInv'
<1> USE DEF memoryVars
<1>1. job \in [Threads -> Files \cup {None}] /\ pc \in [Threads -> PC]
  BY DEF IInv, TypeOK, FileTypeOK
<1>2. /\ pc[t] # "idle"
      /\ \/ \E label \in PC \ {"idle"} : pc' = [pc EXCEPT ![t] = label] /\ job' = job
         \/ pc' = [pc EXCEPT ![t] = "idle"] /\ job' = [job EXCEPT ![t] = None]
  BY CallShape DEF Goes, Ends, Goto, Return
<1>3. \A s \in Threads : job'[s] = job[s] \/ job'[s] = None
  BY <1>1, <1>2
<1>4. JobWhileBusy'
  BY <1>1, <1>2 DEF ThreadInv, JobWhileBusy
<1>5. None \notin listed \cup Range(queue)
  <2>1. \A i \in DOMAIN queue : queue[i] \in Files
    BY DEF IInv, TypeOK
  <2> QED BY <2>1, SentinelAssumption DEF IInv, TypeOK, Range
<1>6. Exclusion'
  BY <1>3, <1>5 DEF ThreadInv, Exclusion, OneCallPerFile
<1>7. Phases'
  BY <1>3, ThreadAssumption DEF ThreadInv, Phases, InPool
<1> QED BY <1>4, <1>6, <1>7 DEF ThreadInv

\* Steps that leave the calls and the queue alone, and list nothing new.
LEMMA StillThreadInv ==
  ASSUME ThreadInv, UNCHANGED <<job, pc, queue>>, listed' \subseteq listed, Phases'
  PROVE  ThreadInv'
<1> QED BY DEF ThreadInv, JobWhileBusy, Exclusion, OneCallPerFile

\* The main thread.
LEMMA LoopThreadInv ==
  ASSUME IInv, ThreadInv,
         \/ CheckShutdown \/ Sweep \/ RenameSwept \/ Sleep \/ LastFile \/ Record
         \/ BeginCollect \/ Collect \/ EndCollect \/ ClosePool \/ Restart \/ Signal
  PROVE  ThreadInv'
<1>1. UNCHANGED <<job, pc, queue, listed>>
  BY DEF CheckShutdown, Sweep, RenameSwept, Sleep, LastFile, Record, BeginCollect, Collect,
         EndCollect, ClosePool, Restart, Signal, fileVars, callVars, memoryVars
<1>2. Phases'
  <2>1. CASE CheckShutdown \/ Sweep \/ RenameSwept \/ Sleep \/ Restart
    BY <1>1, <2>1 DEF ThreadInv, Phases, InPool, CheckShutdown, Sweep, RenameSwept, Sleep, Restart
  <2>2. CASE LastFile \/ Record
    BY <1>1, <2>2 DEF ThreadInv, Phases, InPool, LastFile, Record
  <2>3. CASE BeginCollect \/ Collect \/ EndCollect \/ ClosePool
    BY <1>1, <2>3, ThreadAssumption
       DEF ThreadInv, Phases, InPool, BeginCollect, Collect, EndCollect, ClosePool
  <2>4. CASE Signal
    BY <1>1, <2>4 DEF ThreadInv, Phases, InPool, Signal, memoryVars
  <2> QED BY <2>1, <2>2, <2>3, <2>4
<1> QED BY <1>1, <1>2, StillThreadInv

\* A sweep begins only when no call runs and nothing waits.
LEMMA ListThreadInv == IInv /\ ThreadInv /\ List => ThreadInv'
<1> SUFFICES ASSUME IInv, ThreadInv, List PROVE ThreadInv'
  OBVIOUS
<1>1. /\ UNCHANGED <<job, pc, queue>> /\ listed' \subseteq Files
      /\ main' \in {"sleep", "submit", "sequence"} /\ main = "list"
      /\ main' = "submit" => Parallel
      /\ main' = "sleep" => listed' = {}
  BY DEF List, fileVars, callVars
<1>2. queue = <<>> /\ \A t \in Threads : job[t] = None
  BY <1>1, ThreadAssumption DEF ThreadInv, Phases, InPool
<1>3. Range(queue) = {}
  BY <1>2 DEF Range
<1>4. JobWhileBusy' /\ Phases'
  BY <1>1, <1>2 DEF ThreadInv, JobWhileBusy, Phases, InPool
<1>5. Exclusion'
  BY <1>1, <1>2, <1>3, SentinelAssumption DEF ThreadInv, Exclusion, OneCallPerFile
<1> QED BY <1>4, <1>5 DEF ThreadInv

\* A thread without a call takes a listed recording, or the oldest that waits.
LEMMA BeginThreadInv ==
  ASSUME IInv, ThreadInv, NextFile \/ \E w \in Workers : WorkerBegins(w)
  PROVE  ThreadInv'
<1> USE DEF ThreadInv
<1>0. Main \in Threads /\ Workers \subseteq Threads /\ Main \notin Workers
  BY ThreadAssumption
<1>1. job \in [Threads -> Files \cup {None}] /\ pc \in [Threads -> PC] /\ queue \in Seq(Files)
      /\ listed \subseteq Files
  BY DEF IInv, TypeOK, FileTypeOK
<1>2. CASE NextFile
  <2>1. PICK f \in listed : StartFile(Main, f) /\ listed' = listed \ {f}
    BY <1>2 DEF NextFile
  <2>2. queue' = queue /\ main = "sequence" /\ main' = "processing"
    BY <1>2 DEF NextFile
  <2>3. pc' = [pc EXCEPT ![Main] = "entered"] /\ job' = [job EXCEPT ![Main] = f]
        /\ f \in Files
    BY <1>1, <2>1 DEF StartFile, Goto
  <2>4. JobWhileBusy'
    BY <1>0, <1>1, <2>3, SentinelAssumption DEF JobWhileBusy
  <2>5. Phases'
    BY <1>0, <1>1, <2>2, <2>3 DEF Phases, InPool
  <2>6. Exclusion'
    BY <1>0, <1>1, <2>1, <2>2, <2>3 DEF Exclusion, OneCallPerFile
  <2> QED BY <2>4, <2>5, <2>6
<1>3. ASSUME NEW w \in Workers, WorkerBegins(w)
      PROVE  ThreadInv'
  <2>1. /\ queue # <<>> /\ StartFile(w, Head(queue)) /\ queue' = Tail(queue)
        /\ UNCHANGED <<main, listed>>
    BY <1>3 DEF WorkerBegins, Pool!Begin
  <2> DEFINE f == Head(queue)
  <2>2. /\ f \in Files /\ Range(queue) = {f} \cup Range(queue')
        /\ f \notin Range(queue') /\ IsInjective(queue')
    BY <1>1, <2>1, SeqRange DEF Exclusion
  <2>3. pc' = [pc EXCEPT ![w] = "entered"] /\ job' = [job EXCEPT ![w] = f]
    BY <2>1 DEF StartFile, Goto
  <2> HIDE DEF f
  <2>4. JobWhileBusy'
    BY <1>0, <1>1, <2>2, <2>3, SentinelAssumption DEF JobWhileBusy
  <2>5. Phases'
    BY <1>0, <1>1, <2>1, <2>3 DEF Phases, InPool
  <2>6. Exclusion'
    BY <1>0, <1>1, <2>1, <2>2, <2>3 DEF Exclusion, OneCallPerFile
  <2> QED BY <2>4, <2>5, <2>6
<1> QED BY <1>2, <1>3

LEMMA SubmitThreadInv ==
  ASSUME IInv, ThreadInv, NEW f \in Files, SubmitFile(f)
  PROVE  ThreadInv'
<1> USE DEF ThreadInv
<1>1. /\ f \in listed /\ listed' = listed \ {f} /\ queue' = Append(queue, f)
      /\ UNCHANGED <<main, job, pc>>
  BY DEF SubmitFile, Pool!Submit, fileVars, callVars
<1>2. main = "submit" /\ queue \in Seq(Files)
  BY DEF SubmitFile, IInv, TypeOK
<1>3. Range(queue') = Range(queue) \cup {f} /\ IsInjective(queue')
  BY <1>1, <1>2, SeqRange DEF Exclusion
<1>4. JobWhileBusy'
  BY <1>1 DEF JobWhileBusy
<1>5. Phases'
  BY <1>1, <1>2 DEF Phases, InPool
<1>6. Exclusion'
  BY <1>1, <1>3 DEF Exclusion, OneCallPerFile
<1> QED BY <1>4, <1>5, <1>6

LEMMA DieThreadInv == Die => ThreadInv'
<1> SUFFICES ASSUME Die PROVE ThreadInv'
  OBVIOUS
<1>1. /\ main' = "down" /\ listed' = {} /\ queue' = <<>>
      /\ job' = [t \in Threads |-> None] /\ pc' = [t \in Threads |-> "idle"]
  BY DEF Die
<1>2. Range(queue') = {} /\ IsInjective(queue')
  BY <1>1 DEF Range, IsInjective
<1>3. JobWhileBusy' /\ Phases'
  BY <1>1, ThreadAssumption DEF JobWhileBusy, Phases, InPool
<1>4. Exclusion'
  BY <1>1, <1>2 DEF Exclusion, OneCallPerFile
<1> QED BY <1>3, <1>4 DEF ThreadInv

LEMMA StepThreadInv == IInv /\ ThreadInv /\ [Next]_vars => ThreadInv'
<1> SUFFICES ASSUME IInv, ThreadInv, [Next]_vars PROVE ThreadInv'
  OBVIOUS
<1>1. CASE MainLoop
  BY <1>1, LoopThreadInv, ListThreadInv, BeginThreadInv, SubmitThreadInv, DieThreadInv
     DEF MainLoop, SweepThrows
<1>2. CASE (\E t \in Threads : Call(t)) \/ Fault
  BY <1>2, CallThreadInv, DieThreadInv DEF Call, Fault, ApiGivesUp, Crash
<1>3. CASE \E w \in Workers : WorkerBegins(w)
  BY <1>3, BeginThreadInv
<1>4. CASE World
  <2>1. UNCHANGED <<job, pc, queue, listed, main>>
    BY <1>4 DEF World, Environment, Appear, Append1, Finalize, RemoveExternally, callVars, memoryVars
  <2> QED BY <2>1, StillThreadInv DEF ThreadInv, Phases, InPool
<1>5. CASE Signal
  BY <1>5, LoopThreadInv
<1>6. CASE UNCHANGED vars
  <2>1. UNCHANGED <<job, pc, queue, listed, main>>
    BY <1>6 DEF vars, fileVars, callVars, memoryVars
  <2> QED BY <2>1, StillThreadInv DEF ThreadInv, Phases, InPool
<1> QED BY <1>1, <1>2, <1>3, <1>4, <1>5, <1>6 DEF Next

LEMMA ThreadInvCorrect == Spec => []ThreadInv
<1> QED BY InitThreadInv, StepThreadInv, IInvCorrect, PTL DEF Spec

\* No two threads ever process the same recording, whatever the pool, the
\* recorder, faults and restarts do.
THEOREM OneCallPerFileCorrect == Spec => []OneCallPerFile
<1>1. ThreadInv => OneCallPerFile
  BY DEF ThreadInv, Exclusion
<1> QED BY <1>1, ThreadInvCorrect, PTL

-----------------------------------------------------------------------------
(* The steps and the invariant of what is written *)

LEMMA InitWritingInv == Init => WritingInv
<1> QED
  BY FileKindAssumption
  DEF Init, FileInit, WritingInv, OpenInPlace, MeasuredInFull, LockSeenFree,
         LongRecordingKept, FiledIsComplete

\* Steps that leave the recordings alone and in which each call begins, ends
\* or stays where it is.
LEMMA QuietWritingInv ==
  ASSUME WritingInv, UNCHANGED <<mp3, audio, open>>,
         \A t \in Threads : \/ pc'[t] \in {"idle", "entered", "sampled", "locking"}
                            \/ pc'[t] = pc[t] /\ job'[t] = job[t] /\ loc'[t] = loc[t]
  PROVE  WritingInv'
<1> QED
  BY DEF WritingInv, OpenInPlace, MeasuredInFull, LockSeenFree, LongRecordingKept,
         FiledIsComplete

\* A call measures what is there, asks for the lock before, deletes only what
\* it has measured and files only what it has seen without a lock.
LEMMA CallWritingInv ==
  ASSUME IInv, WritingInv, NEW t \in Threads, Process(t) \/ ProcessFault(t)
  PROVE  WritingInv'
<1> USE DEF dirVars, Goto
<1>0. /\ mp3 \in [Files -> Places] /\ audio \in [Files -> 0 .. MaxAudio]
      /\ pc \in [Threads -> PC] /\ loc \in [Threads -> Locals]
      /\ job \in [Threads -> Files \cup {None}] /\ (pc[t] # "idle" => job[t] \in Files)
  BY DEF IInv, TypeOK, FileTypeOK, BusyHasJob
<1>1. ASSUME NEW r, Return(t, r), UNCHANGED <<mp3, audio, open>>
      PROVE  WritingInv'
  BY <1>0, <1>1, QuietWritingInv DEF Return
<1>2. CASE \/ RejectPath(t) \/ SizeThrows(t) \/ Skip(t) \/ RejectName(t) \/ DiscardThrows(t)
           \/ MoveThrows(t) \/ MoveTxt(t)
  BY <1>1, <1>2 DEF RejectPath, SizeThrows, Skip, RejectName, DiscardThrows, MoveThrows, MoveTxt, Throw
\* Steps to another place that leave the recordings alone: it remains to see
\* what is known there.
<1>3. ASSUME UNCHANGED <<mp3, audio, open, job>>,
             \A s \in Threads \ {t} : pc'[s] = pc[s] /\ loc'[s] = loc[s],
             pc'[t] = "measured" /\ job[t] \notin InPlace =>
               loc'[t].duration \in {0, audio[job[t]]},
             /\ job[t] \in Locking
             /\ \/ pc'[t] \in {"measuring", "measured"} /\ ~loc'[t].skip
                \/ pc'[t] \in {"asking", "answered", "movingMp3"}
             => ~open[job[t]]
      PROVE  WritingInv'
  <2>1. MeasuredInFull'
    BY <1>3 DEF WritingInv, MeasuredInFull
  <2>2. LockSeenFree'
    BY <1>3 DEF WritingInv, LockSeenFree
  <2> QED
    BY <1>3, <2>1, <2>2 DEF WritingInv, OpenInPlace, LongRecordingKept, FiledIsComplete
<1>4. CASE FirstSize(t) \/ CheckLock(t) \/ Measure(t)
  <2>1. CASE FirstSize(t)
    BY <1>0, <1>3, <2>1 DEF FirstSize
  <2>2. CASE CheckLock(t)
    <3>1. pc' = [pc EXCEPT ![t] = "measuring"] /\ loc'[t].skip = Locked(job[t])
          /\ \A s \in Threads \ {t} : loc'[s] = loc[s]
      BY <1>0, <2>2 DEF CheckLock, Locals
    <3> QED BY <1>0, <1>3, <2>2, <3>1 DEF CheckLock, Locked
  <2>3. CASE Measure(t)
    <3>1. /\ pc[t] = "measuring" /\ pc' = [pc EXCEPT ![t] = "measured"]
          /\ loc'[t].duration \in {0, audio[job[t]]} /\ loc'[t].skip = loc[t].skip
          /\ \A s \in Threads \ {t} : loc'[s] = loc[s]
      BY <1>0, <2>3 DEF Measure, Locals, MP3Duration
    <3>2. job[t] \in Locking /\ ~loc[t].skip => ~open[job[t]]
      BY <3>1 DEF WritingInv, LockSeenFree
    <3> QED BY <1>0, <1>3, <2>3, <3>1, <3>2 DEF Measure
  <2> QED BY <1>4, <2>1, <2>2, <2>3
<1>5. CASE SecondSize(t)
  <2>1. /\ pc'[t] = (IF SizeChanged(t) THEN "measuring" ELSE "locking")
        /\ loc'[t].skip = SizeChanged(t)
        /\ \A s \in Threads \ {t} : pc'[s] = pc[s] /\ loc'[s] = loc[s]
    BY <1>0, <1>5 DEF SecondSize, Locals
  <2> QED BY <1>3, <1>5, <2>1 DEF SecondSize
<1>6. CASE Request(t) \/ RequestMissing(t)
  <2>1. pc[t] = "measured" /\ ~loc[t].skip
    BY <1>6 DEF Request, RequestMissing, ToTranscribe, ShouldSkip
  <2>2. job[t] \in Locking => ~open[job[t]]
    BY <2>1 DEF WritingInv, LockSeenFree
  <2>3. CASE Request(t)
    BY <1>0, <1>3, <2>2, <2>3 DEF Request
  <2>4. CASE RequestMissing(t) /\ Local
    BY <1>0, <1>3, <2>2, <2>4 DEF RequestMissing
  <2>5. CASE RequestMissing(t) /\ ~Local
    BY <1>1, <2>5 DEF RequestMissing, Throw
  <2> QED BY <1>6, <2>3, <2>4, <2>5
<1>7. CASE Answer(t) \/ LocalFails(t) \/ Save(t) \/ SaveFails(t)
  <2>1. pc[t] \in {"asking", "answered"}
    BY <1>7 DEF Answer, LocalFails, Save, SaveFails
  <2>2. job[t] \in Locking => ~open[job[t]]
    BY <2>1 DEF WritingInv, LockSeenFree
  <2> QED BY <1>0, <1>3, <1>7, <2>2 DEF Answer, LocalFails, Save, SaveFails
<1>8. CASE Discard(t)
  <2>1. /\ pc[t] = "measured" /\ job[t] \in Files /\ UNCHANGED <<audio, open>>
        /\ mp3' = mp3 \/ mp3' = [mp3 EXCEPT ![job[t]] = "removed"]
        /\ \A s \in Threads : \/ pc'[s] = "idle"
                              \/ pc'[s] = pc[s] /\ job'[s] = job[s] /\ loc'[s] = loc[s]
    BY <1>0, <1>8 DEF Discard, Return
  <2>2. job[t] \notin InPlace => ~(audio[job[t]] >= MinDuration)
    <3>1. loc[t].duration # 0 /\ loc[t].duration < MinDuration
      BY <1>8 DEF Discard, TooShort
    <3>2. job[t] \notin InPlace => loc[t].duration = audio[job[t]]
      BY <2>1, <3>1 DEF WritingInv, MeasuredInFull
    <3>3. audio[job[t]] \in Nat /\ MinDuration \in Nat
      BY <1>0, <2>1, DurationAssumption
    <3> QED BY <3>1, <3>2, <3>3
  <2>3. LongRecordingKept'
    BY <1>0, <2>1, <2>2 DEF WritingInv, LongRecordingKept
  <2>4. FiledIsComplete'
    BY <1>0, <2>1, FileKindAssumption DEF WritingInv, FiledIsComplete
  <2>5. OpenInPlace' /\ MeasuredInFull' /\ LockSeenFree'
    BY <2>1 DEF WritingInv, OpenInPlace, MeasuredInFull, LockSeenFree
  <2> QED BY <2>3, <2>4, <2>5 DEF WritingInv
<1>9. CASE MoveMp3(t)
  <2>1. /\ pc[t] = "movingMp3" /\ job[t] \in Files /\ UNCHANGED <<audio, open, loc, job>>
        /\ mp3' = mp3 \/ mp3' = [mp3 EXCEPT ![job[t]] = "filed"]
        /\ pc' = [pc EXCEPT ![t] = "movingTxt"]
    BY <1>0, <1>9 DEF MoveMp3
  <2>2. job[t] \in Locking => ~open[job[t]]
    BY <2>1 DEF WritingInv, LockSeenFree
  <2>3. LongRecordingKept' /\ FiledIsComplete'
    BY <1>0, <2>1, <2>2, FileKindAssumption DEF WritingInv, LongRecordingKept, FiledIsComplete
  <2>4. OpenInPlace' /\ MeasuredInFull' /\ LockSeenFree'
    BY <1>0, <2>1 DEF WritingInv, OpenInPlace, MeasuredInFull, LockSeenFree
  <2> QED BY <2>3, <2>4 DEF WritingInv
<1> QED
  BY <1>2, <1>4, <1>5, <1>6, <1>7, <1>8, <1>9 DEF Process, ProcessFault

\* The recorder opens only what appears, which no call has, and appends only
\* to what it has open.
LEMMA WorldWritingInv ==
  ASSUME IInv, WritingInv, NEW f \in Files, Environment(f)
  PROVE  WritingInv'
<1> USE DEF callVars
<1>0. /\ mp3 \in [Files -> Places] /\ audio \in [Files -> 0 .. MaxAudio]
      /\ open \in [Files -> BOOLEAN] /\ UNCHANGED <<pc, job, loc>>
      /\ \A t \in Threads : pc[t] # "idle" => job[t] \in Files /\ mp3[job[t]] # "absent"
  <2>1. UNCHANGED <<pc, job, loc>>
    BY DEF Environment, Appear, Append1, Finalize, RemoveExternally
  <2> QED
    BY <2>1, SentinelAssumption DEF IInv, TypeOK, FileTypeOK, BusyHasJob, HeldWasSeen
<1>1. CASE Appear(f)
  <2>1. /\ mp3[f] = "absent" /\ mp3' = [mp3 EXCEPT ![f] = "top"]
        /\ open' = open \/ (f \in InPlace /\ open' = [open EXCEPT ![f] = TRUE])
        /\ \A g \in Files \ {f} : audio'[g] = audio[g]
    BY <1>0, <1>1 DEF Appear
  <2>2. MeasuredInFull' /\ LockSeenFree'
    BY <1>0, <2>1 DEF WritingInv, MeasuredInFull, LockSeenFree
  <2> QED
    BY <1>0, <2>1, <2>2, FileKindAssumption DEF WritingInv, OpenInPlace, LongRecordingKept, FiledIsComplete
<1>2. CASE Append1(f)
  <2>1. /\ f \in InPlace /\ UNCHANGED <<mp3, open>>
        /\ \A g \in Files \ {f} : audio'[g] = audio[g]
    BY <1>0, <1>2 DEF Append1, WritingInv, OpenInPlace
  <2> QED
    BY <1>0, <2>1 DEF WritingInv, OpenInPlace, MeasuredInFull, LockSeenFree, LongRecordingKept, FiledIsComplete
<1>3. CASE Finalize(f)
  <2>1. UNCHANGED <<mp3, audio>> /\ \A g \in Files : ~open[g] => ~open'[g]
    BY <1>0, <1>3 DEF Finalize
  <2> QED
    BY <1>0, <2>1, FileKindAssumption
    DEF WritingInv, OpenInPlace, MeasuredInFull, LockSeenFree, LongRecordingKept, FiledIsComplete
<1>4. CASE RemoveExternally(f)
  <2>1. UNCHANGED <<open, audio>> /\ mp3' = [mp3 EXCEPT ![f] = "gone"]
    BY <1>0, <1>4 DEF RemoveExternally
  <2> QED
    BY <1>0, <2>1, FileKindAssumption
    DEF WritingInv, OpenInPlace, MeasuredInFull, LockSeenFree, LongRecordingKept, FiledIsComplete
<1> QED BY <1>1, <1>2, <1>3, <1>4 DEF Environment

LEMMA StepWritingInv == IInv /\ WritingInv /\ [Next]_vars => WritingInv'
<1> SUFFICES ASSUME IInv, WritingInv, [Next]_vars PROVE WritingInv'
  OBVIOUS
<1>0. pc \in [Threads -> PC] /\ job \in [Threads -> Files \cup {None}]
      /\ Main \in Threads /\ Workers \subseteq Threads
  BY ThreadAssumption DEF IInv, TypeOK, FileTypeOK
<1>1. CASE \/ CheckShutdown \/ Sweep \/ RenameSwept \/ List \/ Sleep \/ LastFile \/ Record
           \/ BeginCollect \/ Collect \/ EndCollect \/ ClosePool \/ Restart \/ Signal
           \/ (\E f \in Files : SubmitFile(f)) \/ UNCHANGED vars
  <2>1. UNCHANGED <<mp3, audio, open, pc, job, loc>>
    BY <1>1 DEF CheckShutdown, Sweep, RenameSwept, List, Sleep, LastFile, Record, BeginCollect,
       Collect, EndCollect, ClosePool, Restart, Signal, SubmitFile, vars, fileVars, dirVars, callVars
  <2> QED BY <2>1, QuietWritingInv
<1>2. CASE NextFile \/ \E w \in Workers : WorkerBegins(w)
  <2>1. PICK t \in Threads : \E f : StartFile(t, f)
    BY <1>0, <1>2 DEF NextFile, WorkerBegins
  <2>2. /\ UNCHANGED <<mp3, audio, open, loc>> /\ pc' = [pc EXCEPT ![t] = "entered"]
        /\ \E f : job' = [job EXCEPT ![t] = f]
    BY <2>1 DEF StartFile, Goto, dirVars
  <2> QED BY <1>0, <2>2, QuietWritingInv
<1>3. CASE SweepThrows \/ Crash \/ \E t \in Threads : ApiGivesUp(t)
  <2>1. UNCHANGED <<mp3, audio, open>> /\ pc' = [t \in Threads |-> "idle"]
    BY <1>3 DEF SweepThrows, Crash, ApiGivesUp, Die, dirVars
  <2> QED BY <2>1, QuietWritingInv
<1>4. CASE \E t \in Threads : Process(t) \/ ProcessFault(t)
  BY <1>4, CallWritingInv
<1>5. CASE World
  BY <1>5, WorldWritingInv DEF World
<1> QED BY <1>1, <1>2, <1>3, <1>4, <1>5 DEF Next, MainLoop, Call, Fault

LEMMA WritingInvCorrect == Spec => []WritingInv
<1> QED BY InitWritingInv, StepWritingInv, IInvCorrect, PTL DEF Spec

\* A recording that appeared complete and is long enough is never deleted,
\* whatever its length and the minimum are.
THEOREM LongRecordingKeptCorrect == Spec => []LongRecordingKept
<1>1. WritingInv => LongRecordingKept
  BY DEF WritingInv
<1> QED BY <1>1, WritingInvCorrect, PTL

\* A recording that is filed is not written any more, if the recorder keeps a
\* .lock beside it: the look at the lock comes after the last look at the
\* size, and the recorder never opens a file again.
THEOREM FiledIsCompleteCorrect == Spec => []FiledIsComplete
<1>1. WritingInv => FiledIsComplete
  BY DEF WritingInv
<1> QED BY <1>1, WritingInvCorrect, PTL

-----------------------------------------------------------------------------
(***************************************************************************)
(* How the directory, the .txt files, the rows and the requests of a       *)
(* recording keep together, although they are written by different steps   *)
(* of different threads.                                                   *)
(***************************************************************************)

\* A recording that is listed, queued or in a call.
Held(f) == (f \in listed \cup Range(queue)) \/ InCall(f)

\* It has neither a result nor a row yet.
HeldIsNew == \A f \in Files : Held(f) => result[f] = None /\ row[f] = None

\* It has not been filed, unless by the call that is about to move its .txt.
HeldNotFiled ==
  /\ \A f \in listed \cup Range(queue) : mp3[f] # "filed"
  /\ \A t \in Threads : pc[t] \notin {"idle", "movingTxt"} => mp3[job[t]] # "filed"

\* Somebody waits for the result of every recording handed over.
TakenIsPending ==
  /\ Range(queue) \subseteq Range(pending)
  /\ \A t \in Threads : job[t] # None => InHand(job[t])

PendingPhases ==
  /\ main \notin {"processing", "submit", "collect"} => pending = <<>>
  /\ main = "processing" => pending # <<>> /\ pending = <<Head(pending)>>

ResultPhases ==
  \A f \in Files :
    result[f] # None => InPool \/ (main = "processing" /\ InHand(f))

TextReady ==
  \A t \in Threads :
    pc[t] \in {"answered", "movingMp3", "movingTxt"} => loc[t].text \in Texts

HeldInv == /\ HeldIsNew /\ HeldNotFiled /\ TakenIsPending
           /\ PendingPhases /\ ResultPhases /\ TextReady

-----------------------------------------------------------------------------
(* What a call does to what the invariants are about *)

LEMMA CallEffect ==
  ASSUME IInv, NEW t \in Threads, Process(t) \/ ProcessFault(t)
  PROVE  /\ pc[t] # "idle" /\ job[t] \in Files
         /\ \A s \in Threads \ {t} : /\ pc'[s] = pc[s] /\ job'[s] = job[s]
                                     /\ loc'[s].text = loc[s].text
         /\ \/ job' = job /\ result' = result /\ pc'[t] # "idle"
            \/ /\ job' = [job EXCEPT ![t] = None] /\ pc'[t] = "idle"
               /\ \E r \in Texts \cup {None, Empty} : result' = [result EXCEPT ![job[t]] = r]
         /\ \/ mp3' = mp3
            \/ mp3' = [mp3 EXCEPT ![job[t]] = "removed"]
            \/ mp3' = [mp3 EXCEPT ![job[t]] = "filed"] /\ pc'[t] = "movingTxt"
         /\ pc'[t] \notin {"idle", "movingTxt"} => pc[t] \notin {"idle", "movingTxt"}
         /\ pc'[t] \in {"answered", "movingMp3", "movingTxt"} =>
              \/ loc'[t].text \in Texts
              \/ /\ pc[t] \in {"answered", "movingMp3", "movingTxt"}
                 /\ loc'[t].text = loc[t].text
<1> USE DEF dirVars
<1>0. /\ job \in [Threads -> Files \cup {None}] /\ pc \in [Threads -> PC]
      /\ loc \in [Threads -> Locals] /\ asked \in [Files -> 0 .. MaxAsks]
      /\ 0 \in Texts /\ \A f \in Files : asked[f] \in Texts
  BY BoundAssumption DEF IInv, TypeOK, FileTypeOK, Texts
<1>1. pc[t] # "idle" /\ job[t] \in Files /\ (Goes(t) \/ Ends(t))
  BY CallShape DEF IInv, BusyHasJob
<1>2. \A s \in Threads \ {t} : pc'[s] = pc[s] /\ job'[s] = job[s]
  BY <1>0, <1>1 DEF Goes, Ends, Goto, Return
<1>3. \/ job' = job /\ result' = result /\ pc'[t] # "idle"
      \/ /\ job' = [job EXCEPT ![t] = None] /\ pc'[t] = "idle"
         /\ \E r \in Texts \cup {None, Empty} : result' = [result EXCEPT ![job[t]] = r]
  BY <1>0, <1>1 DEF Goes, Ends, Goto, Return
<1> DEFINE Rest == /\ \A s \in Threads \ {t} : loc'[s].text = loc[s].text
                   /\ \/ mp3' = mp3
                      \/ mp3' = [mp3 EXCEPT ![job[t]] = "removed"]
                      \/ mp3' = [mp3 EXCEPT ![job[t]] = "filed"] /\ pc'[t] = "movingTxt"
                   /\ pc'[t] \notin {"idle", "movingTxt"} => pc[t] \notin {"idle", "movingTxt"}
                   /\ pc'[t] \in {"answered", "movingMp3", "movingTxt"} =>
                        \/ loc'[t].text \in Texts
                        \/ /\ pc[t] \in {"answered", "movingMp3", "movingTxt"}
                           /\ loc'[t].text = loc[t].text
<1>4. CASE \/ RejectPath(t) \/ SizeThrows(t) \/ Skip(t) \/ RejectName(t) \/ DiscardThrows(t)
           \/ MoveThrows(t) \/ MoveTxt(t)
  <2>1. mp3' = mp3 /\ \E r : Return(t, r)
    BY <1>4 DEF RejectPath, SizeThrows, Skip, RejectName, DiscardThrows, MoveThrows, MoveTxt, Throw
  <2>2. Rest
    BY <1>0, <2>1 DEF Return, Goto
  <2> QED BY <1>1, <1>2, <1>3, <2>2
<1>5. CASE FirstSize(t) \/ SecondSize(t) \/ CheckLock(t) \/ Measure(t)
  <2>1. /\ mp3' = mp3 /\ pc'[t] \in {"sampled", "measuring", "locking", "measured"}
        /\ pc[t] \in {"entered", "sampled", "locking", "measuring"}
        /\ \A s \in Threads \ {t} : loc'[s] = loc[s]
    BY <1>0, <1>5 DEF FirstSize, SecondSize, CheckLock, Measure, Goto
  <2>2. Rest
    BY <2>1
  <2> QED BY <1>1, <1>2, <1>3, <2>2
<1>6. CASE Request(t)
  <2>1. Rest
    BY <1>0, <1>6 DEF Request, ToTranscribe, Goto
  <2> QED BY <1>1, <1>2, <1>3, <2>1
<1>7. CASE RequestMissing(t)
  <2>1. CASE Local
    <3>1. mp3' = mp3 /\ pc[t] = "measured" /\ loc' = [loc EXCEPT ![t].text = 0]
      BY <1>7, <2>1 DEF RequestMissing, ToTranscribe
    <3>2. loc'[t].text = 0 /\ \A s \in Threads \ {t} : loc'[s] = loc[s]
      BY <1>0, <3>1 DEF Locals
    <3> QED BY <1>0, <1>1, <1>2, <1>3, <3>1, <3>2
  <2>2. CASE ~Local
    <3>1. mp3' = mp3 /\ Return(t, Empty)
      BY <1>7, <2>2 DEF RequestMissing, Throw
    <3>2. Rest
      BY <1>0, <3>1 DEF Return, Goto
    <3> QED BY <1>1, <1>2, <1>3, <3>2
  <2> QED BY <2>1, <2>2
<1>8. CASE Answer(t) \/ LocalFails(t)
  <2>1. PICK x \in Texts : loc' = [loc EXCEPT ![t].text = x]
    BY <1>0, <1>1, <1>8 DEF Answer, LocalFails
  <2>2. loc'[t].text = x /\ \A s \in Threads \ {t} : loc'[s] = loc[s]
    BY <1>0, <2>1 DEF Locals
  <2>3. mp3' = mp3 /\ pc[t] = "asking"
    BY <1>8 DEF Answer, LocalFails
  <2> QED BY <1>1, <1>2, <1>3, <2>2, <2>3
<1>9. CASE Save(t) \/ SaveFails(t)
  <2>1. Rest
    BY <1>0, <1>9 DEF Save, SaveFails, Goto
  <2> QED BY <1>1, <1>2, <1>3, <2>1
<1>10. CASE MoveMp3(t)
  <2>1. Rest
    BY <1>0, <1>10 DEF MoveMp3, Goto
  <2> QED BY <1>1, <1>2, <1>3, <2>1
<1>11. CASE Discard(t)
  <2>1. Rest
    BY <1>0, <1>11 DEF Discard, Return, Goto
  <2> QED BY <1>1, <1>2, <1>3, <2>1
<1> QED
  BY <1>4, <1>5, <1>6, <1>7, <1>8, <1>9, <1>10, <1>11 DEF Process, ProcessFault

-----------------------------------------------------------------------------
(* The invariant of what is held *)

LEMMA RangeTypes ==
  ASSUME IInv
  PROVE  Range(queue) \subseteq Files /\ Range(pending) \subseteq Files
<1>1. /\ \A i \in DOMAIN queue : queue[i] \in Files
      /\ \A i \in DOMAIN pending : pending[i] \in Files
  BY DEF IInv, TypeOK
<1> QED BY <1>1 DEF Range

LEMMA InitHeldInv == Init => HeldInv
<1> SUFFICES ASSUME Init PROVE HeldInv
  OBVIOUS
<1>1. Range(queue) = {} /\ Range(pending) = {}
  BY DEF Init, Range
<1>2. /\ listed = {} /\ main = "check" /\ pending = <<>>
      /\ job = [t \in Threads |-> None] /\ pc = [t \in Threads |-> "idle"]
      /\ result = [f \in Files |-> None]
  BY DEF Init, FileInit
<1>3. \A f \in Files : ~Held(f)
  BY <1>1, <1>2, SentinelAssumption DEF Held, InCall
<1> QED
  BY <1>1, <1>2, <1>3 DEF HeldInv, HeldIsNew, HeldNotFiled, TakenIsPending, PendingPhases,
     ResultPhases, TextReady, InHand

\* A call gives its recording up when it returns, and files it only when it
\* is about to move the .txt.
LEMMA CallHeldInv ==
  ASSUME IInv, ThreadInv, HeldInv, NEW t \in Threads, Process(t) \/ ProcessFault(t),
         UNCHANGED <<memoryVars, row>>
  PROVE  HeldInv'
<1> USE DEF memoryVars
<1>0. /\ job \in [Threads -> Files \cup {None}] /\ pc \in [Threads -> PC]
      /\ mp3 \in [Files -> Places] /\ result \in [Files -> Texts \cup {None, Empty}]
      /\ \A s \in Threads : job[s] # None <=> pc[s] # "idle"
      /\ Range(queue) \subseteq Files /\ listed \subseteq Files
  BY RangeTypes DEF IInv, TypeOK, FileTypeOK, ThreadInv, JobWhileBusy
<1> DEFINE f == job[t]
<1>1. f \in Files /\ pc[t] # "idle" /\ f \notin listed \cup Range(queue)
      /\ \A s \in Threads \ {t} : job[s] # f
  BY <1>0, CallEffect, SentinelAssumption DEF ThreadInv, Exclusion, OneCallPerFile
<1>2. \A s \in Threads \ {t} : pc'[s] = pc[s] /\ job'[s] = job[s] /\ loc'[s].text = loc[s].text
  BY CallEffect
<1>3. \/ job' = job /\ result' = result
      \/ /\ job' = [job EXCEPT ![t] = None] /\ pc'[t] = "idle"
         /\ \A g \in Files \ {f} : result'[g] = result[g]
  BY <1>0, CallEffect
<1>4. \/ mp3' = mp3
      \/ mp3' = [mp3 EXCEPT ![f] = "removed"]
      \/ mp3' = [mp3 EXCEPT ![f] = "filed"] /\ pc'[t] = "movingTxt"
  BY CallEffect
<1>5. /\ pc'[t] \notin {"idle", "movingTxt"} => pc[t] \notin {"idle", "movingTxt"} /\ job'[t] = f
      /\ pc'[t] \in {"answered", "movingMp3", "movingTxt"} =>
              \/ loc'[t].text \in Texts
              \/ /\ pc[t] \in {"answered", "movingMp3", "movingTxt"}
                 /\ loc'[t].text = loc[t].text
  BY CallEffect
<1>6. HeldIsNew'
  <2> SUFFICES ASSUME NEW g \in Files, Held(g)' PROVE result'[g] = None /\ row'[g] = None
    BY DEF HeldIsNew
  <2>1. Held(g)
    BY <1>0, <1>3, SentinelAssumption DEF Held, InCall
  <2>2. result[g] = None /\ row[g] = None
    BY <2>1 DEF HeldInv, HeldIsNew
  <2>3. result'[g] = result[g]
    BY <1>0, <1>1, <1>2, <1>3, SentinelAssumption DEF Held, InCall
  <2> QED BY <2>2, <2>3
<1>7. HeldNotFiled'
  <2>1. \A g \in listed \cup Range(queue) : mp3'[g] # "filed"
    BY <1>0, <1>1, <1>4 DEF HeldInv, HeldNotFiled
  <2>2. \A s \in Threads \ {t} : pc'[s] \notin {"idle", "movingTxt"} => mp3'[job'[s]] # "filed"
    BY <1>0, <1>1, <1>2, <1>4, SentinelAssumption DEF HeldInv, HeldNotFiled
  <2>3. pc'[t] \notin {"idle", "movingTxt"} => mp3'[job'[t]] # "filed"
    BY <1>0, <1>1, <1>4, <1>5 DEF HeldInv, HeldNotFiled
  <2> QED BY <2>1, <2>2, <2>3 DEF HeldNotFiled
<1>8. TakenIsPending'
  BY <1>0, <1>3 DEF HeldInv, TakenIsPending, InHand
<1>9. PendingPhases'
  BY DEF HeldInv, PendingPhases
<1>10. ResultPhases'
  <2>1. InPool \/ main = "processing"
    BY <1>0, <1>1, ThreadAssumption DEF ThreadInv, Phases
  <2>2. InHand(f)
    BY <1>0, <1>1 DEF HeldInv, TakenIsPending
  <2> QED BY <1>3, <2>1, <2>2 DEF HeldInv, ResultPhases, InPool, InHand
<1>11. TextReady'
  BY <1>2, <1>5 DEF HeldInv, TextReady
<1> QED BY <1>6, <1>7, <1>8, <1>9, <1>10, <1>11 DEF HeldInv

\* The steps of the main thread that touch neither calls nor results.
LEMMA LoopHeldInv ==
  ASSUME HeldInv,
         \/ CheckShutdown \/ Sweep \/ RenameSwept \/ Sleep \/ LastFile
         \/ BeginCollect \/ EndCollect \/ Restart \/ Signal \/ UNCHANGED vars
  PROVE  HeldInv'
<1>1. UNCHANGED <<fileVars, listed, pending, queue, row>>
  BY DEF CheckShutdown, Sweep, RenameSwept, Sleep, LastFile, BeginCollect, EndCollect, Restart,
     Signal, memoryVars, vars
<1>2. HeldIsNew' /\ HeldNotFiled' /\ TakenIsPending' /\ TextReady'
  BY <1>1 DEF HeldInv, HeldIsNew, Held, InCall, HeldNotFiled, TakenIsPending, InHand, TextReady,
     fileVars, dirVars, callVars
<1>3. PendingPhases' /\ ResultPhases'
  <2>1. CASE CheckShutdown \/ Sweep \/ RenameSwept \/ Sleep \/ LastFile \/ Restart
    BY <1>1, <2>1 DEF HeldInv, PendingPhases, ResultPhases, InPool, InHand, CheckShutdown, Sweep,
       RenameSwept, Sleep, LastFile, Restart, fileVars, callVars
  <2>2. CASE BeginCollect \/ EndCollect
    BY <1>1, <2>2 DEF HeldInv, PendingPhases, ResultPhases, InPool, InHand, BeginCollect,
       EndCollect, fileVars, callVars
  <2>3. CASE Signal \/ UNCHANGED vars
    BY <1>1, <2>3 DEF HeldInv, PendingPhases, ResultPhases, InPool, InHand, Signal, vars, memoryVars,
       fileVars, callVars
  <2> QED BY <2>1, <2>2, <2>3
<1> QED BY <1>2, <1>3 DEF HeldInv

\* When a sweep begins every result has been consumed, and what is in the
\* directory has no row.
LEMMA ListHeldInv == IInv /\ ThreadInv /\ HeldInv /\ List => HeldInv'
<1> SUFFICES ASSUME IInv, ThreadInv, HeldInv, List PROVE HeldInv'
  OBVIOUS
<1>1. /\ UNCHANGED <<fileVars, pending, queue, row>> /\ main = "list"
      /\ listed' = {f \in Files : mp3[f] = "top"}
      /\ main' \in {"sleep", "submit", "sequence"}
  BY DEF List
<1>2. queue = <<>> /\ Range(queue) = {} /\ \A t \in Threads : job[t] = None
  <2>1. queue = <<>> /\ \A t \in Threads : job[t] = None
    BY <1>1, ThreadAssumption DEF ThreadInv, Phases, InPool
  <2> QED BY <2>1 DEF Range
<1>3. \A f \in Files : result[f] = None
  BY <1>1 DEF HeldInv, ResultPhases, InPool
<1>4. pending = <<>>
  BY <1>1 DEF HeldInv, PendingPhases
<1>5. HeldIsNew'
  BY <1>1, <1>2, <1>3, SentinelAssumption
  DEF HeldIsNew, Held, InCall, IInv, RecordedHasLeft, fileVars, callVars
<1>6. HeldNotFiled' /\ TakenIsPending' /\ TextReady'
  BY <1>1, <1>2 DEF HeldInv, HeldNotFiled, TakenIsPending, InHand, TextReady, fileVars, dirVars, callVars
<1>7. PendingPhases' /\ ResultPhases'
  BY <1>1, <1>3, <1>4 DEF PendingPhases, ResultPhases, fileVars, callVars
<1> QED BY <1>5, <1>6, <1>7 DEF HeldInv

\* A thread takes a recording that was listed, or waits in the pool.
LEMMA BeginHeldInv ==
  ASSUME IInv, ThreadInv, HeldInv, NextFile \/ \E w \in Workers : WorkerBegins(w)
  PROVE  HeldInv'
<1>0. /\ job \in [Threads -> Files \cup {None}] /\ pc \in [Threads -> PC]
      /\ queue \in Seq(Files) /\ listed \subseteq Files /\ Main \in Threads
      /\ Workers \subseteq Threads /\ Range(queue) \subseteq Files
  BY RangeTypes, ThreadAssumption DEF IInv, TypeOK, FileTypeOK
\* What both cases have in common.
<1>1. ASSUME NEW t \in Threads, NEW f \in listed \cup Range(queue), StartFile(t, f),
             listed' \subseteq listed, Range(queue') \subseteq Range(queue), row' = row
      PROVE  HeldIsNew' /\ HeldNotFiled' /\ TextReady'
  <2>1. /\ pc' = [pc EXCEPT ![t] = "entered"] /\ job' = [job EXCEPT ![t] = f]
        /\ UNCHANGED <<mp3, result, loc>> /\ f \in Files
    BY <1>0, <1>1 DEF StartFile, Goto, dirVars
  <2>2. HeldIsNew'
    BY <1>0, <1>1, <2>1 DEF HeldInv, HeldIsNew, Held, InCall
  <2>3. HeldNotFiled'
    BY <1>0, <1>1, <2>1 DEF HeldInv, HeldNotFiled
  <2>4. TextReady'
    BY <1>0, <2>1 DEF HeldInv, TextReady
  <2> QED BY <2>2, <2>3, <2>4
<1>2. CASE NextFile
  <2>1. PICK f \in listed : StartFile(Main, f) /\ listed' = listed \ {f} /\ pending' = <<f>>
    BY <1>2 DEF NextFile
  <2>2. queue' = queue /\ row' = row /\ main = "sequence" /\ main' = "processing"
    BY <1>2 DEF NextFile
  <2>3. HeldIsNew' /\ HeldNotFiled' /\ TextReady'
    BY <1>0, <1>1, <2>1, <2>2
  <2>4. /\ job' = [job EXCEPT ![Main] = f] /\ result' = result /\ queue = <<>>
        /\ \A t \in Threads \ {Main} : job[t] = None
    BY <1>2, <2>1, <2>2, ThreadAssumption DEF StartFile, ThreadInv, Phases, InPool
  <2>5. Range(pending') = {f} /\ Range(queue') = {}
    BY <2>1, <2>2, <2>4 DEF Range
  <2>6. TakenIsPending'
    BY <1>0, <2>4, <2>5 DEF TakenIsPending, InHand
  <2>7. PendingPhases'
    BY <2>1, <2>2 DEF PendingPhases
  <2>8. \A g \in Files : result'[g] = None
    BY <2>2, <2>4 DEF HeldInv, ResultPhases, InPool
  <2> QED BY <2>3, <2>6, <2>7, <2>8 DEF HeldInv, ResultPhases
<1>3. ASSUME NEW w \in Workers, WorkerBegins(w)
      PROVE  HeldInv'
  <2>1. /\ queue # <<>> /\ StartFile(w, Head(queue)) /\ queue' = Tail(queue)
        /\ UNCHANGED <<main, listed, pending, row>>
    BY <1>3 DEF WorkerBegins, Pool!Begin
  <2> DEFINE f == Head(queue)
  <2>2. f \in Files /\ Range(queue) = {f} \cup Range(queue')
    BY <1>0, <2>1, SeqRange
  <2>3. HeldIsNew' /\ HeldNotFiled' /\ TextReady'
    BY <1>0, <1>1, <2>1, <2>2
  <2>4. job' = [job EXCEPT ![w] = f] /\ result' = result
    BY <2>1 DEF StartFile
  <2>5. TakenIsPending'
    BY <1>0, <2>1, <2>2, <2>4 DEF HeldInv, TakenIsPending, InHand
  <2>6. PendingPhases' /\ ResultPhases'
    BY <2>1, <2>4 DEF HeldInv, PendingPhases, ResultPhases, InPool, InHand
  <2> QED BY <2>3, <2>5, <2>6 DEF HeldInv
<1> QED BY <1>2, <1>3

\* What is handed to the pool is waited for.
LEMMA SubmitHeldInv ==
  ASSUME IInv, HeldInv, NEW f \in Files, SubmitFile(f)
  PROVE  HeldInv'
<1>1. /\ f \in listed /\ listed' = listed \ {f} /\ queue' = Append(queue, f)
      /\ pending' = Append(pending, f) /\ UNCHANGED <<main, fileVars, row>>
      /\ main = "submit" /\ queue \in Seq(Files) /\ pending \in Seq(Files)
  BY DEF SubmitFile, Pool!Submit, IInv, TypeOK
<1>2. Range(queue') = Range(queue) \cup {f} /\ Range(pending') = Range(pending) \cup {f}
  BY <1>1, SeqRange
<1>3. HeldIsNew' /\ HeldNotFiled' /\ TextReady'
  BY <1>1, <1>2 DEF HeldInv, HeldIsNew, Held, InCall, HeldNotFiled, TextReady, fileVars, dirVars, callVars
<1>4. TakenIsPending'
  BY <1>1, <1>2 DEF HeldInv, TakenIsPending, InHand, fileVars, callVars
<1>5. PendingPhases' /\ ResultPhases'
  BY <1>1 DEF HeldInv, PendingPhases, ResultPhases, InPool, fileVars, callVars
<1> QED BY <1>3, <1>4, <1>5 DEF HeldInv

\* The recording whose result is consumed is not held by anybody.
LEMMA ConsumeHeldInv ==
  ASSUME IInv, ThreadInv, HeldInv, Record \/ Collect
  PROVE  HeldInv'
<1> DEFINE f == Head(pending)
<1>0. job \in [Threads -> Files \cup {None}] /\ pending \in Seq(Files)
  BY DEF IInv, TypeOK, FileTypeOK
<1>1. /\ Insert(f) /\ UNCHANGED <<mp3, job, pc, loc, listed, queue>>
      /\ \A g \in Files : result'[g] = result[g] \/ result'[g] = None
  BY DEF Record, Collect, Forget, dirVars, callVars
<1>2. pending # <<>> /\ f \in Files
  <2>1. pending # <<>>
    BY DEF Record, Collect, HeldInv, PendingPhases
  <2> QED BY <1>0, <2>1
<1> HIDE DEF f
<1>3. HeldIsNew'
  <2> SUFFICES ASSUME NEW g \in Files, Held(g)' PROVE result'[g] = None /\ row'[g] = None
    BY DEF HeldIsNew
  <2>1. Held(g)
    BY <1>1 DEF Held, InCall
  <2>2. result[g] = None /\ row[g] = None
    BY <2>1 DEF HeldInv, HeldIsNew
  <2>3. row'[g] = row[g]
    <3>1. row' = row \/ (result[f] \in Texts /\ row' = [row EXCEPT ![f] = result[f]])
      BY <1>1, InsertRow
    <3>2. None \notin Texts /\ row \in [Files -> Texts \cup {None}]
      BY SentinelAssumption DEF Texts, IInv, TypeOK
    <3> QED BY <2>2, <3>1, <3>2
  <2> QED BY <1>1, <2>2, <2>3
<1>4. HeldNotFiled' /\ TextReady'
  BY <1>1 DEF HeldInv, HeldNotFiled, TextReady
<1>5. CASE Record
  <2>1. /\ main = "processing" /\ main' = "sequence" /\ pending' = <<>> /\ job[Main] = None
        /\ result' = [g \in Files |-> IF g \in {f} THEN None ELSE result[g]]
    BY <1>5 DEF Record, Forget, f
  <2>2. Range(queue) = {} /\ \A t \in Threads : job[t] = None
    <3>1. queue = <<>> /\ \A t \in Threads : job[t] = None
      BY <2>1, ThreadAssumption DEF ThreadInv, Phases, InPool
    <3> QED BY <3>1 DEF Range
  <2>3. Range(pending) = {f}
    <3>1. pending = <<f>>
      BY <2>1 DEF HeldInv, PendingPhases, f
    <3> QED BY <3>1 DEF Range
  <2>4. TakenIsPending' /\ PendingPhases'
    BY <1>1, <2>1, <2>2 DEF TakenIsPending, PendingPhases
  <2>5. \A g \in Files : result'[g] = None
    BY <2>1, <2>3 DEF HeldInv, ResultPhases, InPool, InHand
  <2> QED BY <1>3, <1>4, <2>4, <2>5 DEF HeldInv, ResultPhases
<1>6. CASE Collect
  <2>1. /\ main = "collect" /\ main' = main /\ pending' = Tail(pending) /\ result[f] # None
        /\ result' = result
    BY <1>6 DEF Collect, callVars, f
  <2>2. Range(pending) = {f} \cup Range(pending')
    BY <1>0, <1>2, <2>1, SeqRange DEF f
  <2>3. ~Held(f)
    BY <1>2, <2>1 DEF HeldInv, HeldIsNew
  <2>4. TakenIsPending'
    BY <1>0, <1>1, <2>2, <2>3 DEF HeldInv, TakenIsPending, InHand, Held, InCall
  <2>5. PendingPhases' /\ ResultPhases'
    BY <2>1 DEF HeldInv, PendingPhases, ResultPhases, InPool
  <2> QED BY <1>3, <1>4, <2>4, <2>5 DEF HeldInv
<1> QED BY <1>5, <1>6

LEMMA CloseHeldInv == IInv /\ HeldInv /\ ClosePool => HeldInv'
<1> SUFFICES ASSUME IInv, HeldInv, ClosePool PROVE HeldInv'
  OBVIOUS
<1>1. /\ UNCHANGED <<mp3, job, pc, loc, listed, pending, queue, row>>
      /\ result' = [f \in Files |-> None] /\ main = "close" /\ main' = "sleep"
  BY DEF ClosePool, Forget, dirVars
<1>2. HeldIsNew' /\ HeldNotFiled' /\ TakenIsPending' /\ TextReady'
  BY <1>1 DEF HeldInv, HeldIsNew, Held, InCall, HeldNotFiled, TakenIsPending, InHand, TextReady
<1>3. PendingPhases' /\ ResultPhases'
  BY <1>1 DEF HeldInv, PendingPhases, ResultPhases
<1> QED BY <1>2, <1>3 DEF HeldInv

LEMMA DieHeldInv == Die => HeldInv'
<1> SUFFICES ASSUME Die PROVE HeldInv'
  OBVIOUS
<1>1. /\ main' = "down" /\ listed' = {} /\ queue' = <<>> /\ pending' = <<>>
      /\ job' = [t \in Threads |-> None] /\ pc' = [t \in Threads |-> "idle"]
      /\ result' = [f \in Files |-> None]
  BY DEF Die
<1>2. Range(queue') = {}
  BY <1>1 DEF Range
<1>3. \A f \in Files : ~Held(f)'
  BY <1>1, <1>2, SentinelAssumption DEF Held, InCall
<1> QED
  BY <1>1, <1>2, <1>3 DEF HeldInv, HeldIsNew, HeldNotFiled, TakenIsPending, PendingPhases,
     ResultPhases, TextReady

\* Nobody but the program files a recording.
LEMMA WorldHeldInv == IInv /\ HeldInv /\ World => HeldInv'
<1> SUFFICES ASSUME IInv, HeldInv, World PROVE HeldInv'
  OBVIOUS
<1>1. /\ UNCHANGED <<callVars, memoryVars, row>>
      /\ \E f \in Files : mp3' = mp3 \/ \E p \in {"top", "gone"} : mp3' = [mp3 EXCEPT ![f] = p]
  BY DEF World, Environment, Appear, Append1, Finalize, RemoveExternally
<1>2. \A f \in Files : mp3'[f] = "filed" => mp3[f] = "filed"
  BY <1>1 DEF IInv, TypeOK, FileTypeOK
<1>3. /\ listed \subseteq Files /\ Range(queue) \subseteq Files
      /\ \A t \in Threads : pc[t] # "idle" => job[t] \in Files
  BY RangeTypes DEF IInv, TypeOK, BusyHasJob
<1>4. HeldNotFiled'
  BY <1>1, <1>2, <1>3 DEF HeldInv, HeldNotFiled, callVars, memoryVars
<1>5. HeldIsNew' /\ TakenIsPending' /\ TextReady' /\ PendingPhases' /\ ResultPhases'
  BY <1>1 DEF HeldInv, HeldIsNew, Held, InCall, TakenIsPending, InHand, TextReady,
     PendingPhases, ResultPhases, InPool, callVars, memoryVars
<1> QED BY <1>4, <1>5 DEF HeldInv

LEMMA StepHeldInv == IInv /\ ThreadInv /\ HeldInv /\ [Next]_vars => HeldInv'
<1> SUFFICES ASSUME IInv, ThreadInv, HeldInv, [Next]_vars PROVE HeldInv'
  OBVIOUS
<1>1. CASE MainLoop
  BY <1>1, LoopHeldInv, ListHeldInv, BeginHeldInv, SubmitHeldInv, ConsumeHeldInv, CloseHeldInv,
     DieHeldInv DEF MainLoop, SweepThrows
<1>2. CASE (\E t \in Threads : Call(t)) \/ Fault
  BY <1>2, CallHeldInv, DieHeldInv DEF Call, Fault, ApiGivesUp, Crash
<1>3. CASE \E w \in Workers : WorkerBegins(w)
  BY <1>3, BeginHeldInv
<1>4. CASE World \/ Signal \/ UNCHANGED vars
  BY <1>4, WorldHeldInv, LoopHeldInv
<1> QED BY <1>1, <1>2, <1>3, <1>4 DEF Next

LEMMA HeldInvCorrect == Spec => []HeldInv
<1> QED BY InitHeldInv, StepHeldInv, IInvCorrect, ThreadInvCorrect, PTL DEF Spec

-----------------------------------------------------------------------------
(* The invariant of what is stored *)

BudgetKept == \A k \in FaultKinds : left[k] <= Budget[k]

\* A recording that is filed has a row, or its transcription is on the way.
OnTheWay ==
  \A f \in Files :
    mp3[f] = "filed" /\ row[f] = None =>
      \/ \E t \in Threads : job[t] = f /\ pc[t] = "movingTxt"
      \/ InHand(f) /\ result[f] \in Texts
      \/ Spent("crash") + Spent("fs") + Spent("db") > 0
      \/ ExitWithOthers

\* While no write fails, the .txt is the transcription that the call has, and
\* then the one that it returned.
SavedMatches ==
  Spent("fs") = 0 =>
    /\ \A t \in Threads : pc[t] \in {"movingMp3", "movingTxt"} => txtTop[job[t]] = loc[t].text
    /\ \A f \in Files : result[f] \in Texts /\ txtFiled[f] # None => result[f] = txtFiled[f]

\* Every request was in vain for a recording that is still to be transcribed,
\* and no call has an answer to the last one.
Failures == Spent("crash") + Spent("api") + Spent("fs")

ToBeAsked(f) ==
  /\ mp3[f] \in {"absent", "top"}
  /\ \A t \in Threads : job[t] = f => pc[t] \notin {"asking", "answered", "movingMp3"}

AskedInVain == \A f \in Files \ Misnamed : ToBeAsked(f) => asked[f] <= Failures

StoreInv == /\ BudgetKept /\ OnTheWay /\ SavedMatches /\ AskedInVain
            /\ TxtFollowsMp3 /\ TxtMatchesRow /\ ResentOnlyAfterFailure

-----------------------------------------------------------------------------
(* The fault budget *)

\* Every step strikes at most one fault, and none is taken back.
LEMMA LeftStep ==
  ASSUME [Next]_vars
  PROVE  left' = left \/ \E k \in FaultKinds : Spend(k)
<1> USE DEF FaultKinds
<1>1. CASE \/ CheckShutdown \/ Sweep \/ RenameSwept \/ List \/ Sleep \/ LastFile \/ NextFile
           \/ BeginCollect \/ EndCollect \/ ClosePool \/ Restart \/ Signal
           \/ (\E f \in Files : SubmitFile(f)) \/ (\E w \in Workers : WorkerBegins(w))
           \/ UNCHANGED vars
  BY <1>1 DEF CheckShutdown, Sweep, RenameSwept, List, Sleep, LastFile, NextFile, BeginCollect,
     EndCollect, ClosePool, Restart, Signal, SubmitFile, WorkerBegins, StartFile,
     fileVars, vars
<1>2. CASE Record \/ Collect
  BY <1>2 DEF Record, Collect, Insert
<1>3. CASE SweepThrows \/ Crash \/ \E t \in Threads : ApiGivesUp(t)
  BY <1>3 DEF SweepThrows, Crash, ApiGivesUp
<1>4. CASE World
  BY <1>4 DEF World, Environment, Appear, Append1, Finalize, RemoveExternally
<1>5. ASSUME NEW t \in Threads, Process(t) PROVE left' = left
  BY <1>5 DEF Process, RejectPath, FirstSize, SecondSize, SizeThrows, CheckLock, Measure, Discard,
     Skip, Request, RequestMissing, Answer, RejectName, Save, MoveMp3, MoveTxt
<1>6. ASSUME NEW t \in Threads, ProcessFault(t) PROVE left' = left \/ \E k \in FaultKinds : Spend(k)
  BY <1>6 DEF ProcessFault, DiscardThrows, LocalFails, SaveFails, MoveThrows
<1> QED BY <1>1, <1>2, <1>3, <1>4, <1>5, <1>6 DEF Next, MainLoop, Call, Fault

\* So the budget is kept, and what has been spent only grows.
LEMMA BudgetStep ==
  ASSUME IInv, BudgetKept, [Next]_vars
  PROVE  /\ BudgetKept'
         /\ \A k \in FaultKinds :
              /\ Budget[k] \in Nat /\ left[k] \in Nat /\ left'[k] \in Nat
              /\ left'[k] <= left[k] /\ left[k] <= Budget[k]
              /\ Spend(k) => left'[k] = left[k] - 1
<1>1. left \in [FaultKinds -> Nat] /\ Budget \in [FaultKinds -> Nat]
  BY BoundAssumption DEF IInv, TypeOK, FileTypeOK
<1>2. \A k \in FaultKinds : /\ left'[k] \in Nat /\ left'[k] <= left[k]
                            /\ Spend(k) => left'[k] = left[k] - 1
  <2>1. ASSUME NEW k \in FaultKinds, Spend(k), NEW j \in FaultKinds
        PROVE  /\ left'[j] \in Nat /\ left'[j] <= left[j]
               /\ j = k => left'[j] = left[j] - 1
    <3>1. left[k] \in Nat /\ left[k] > 0 /\ left' = [left EXCEPT ![k] = left[k] - 1]
      BY <1>1, <2>1 DEF Spend
    <3>2. left[k] - 1 \in Nat
      BY <3>1
    <3>3. CASE j = k
      BY <1>1, <3>1, <3>2, <3>3
    <3>4. CASE j # k
      <4>1. left'[j] = left[j] /\ left[j] \in Nat
        BY <1>1, <3>1, <3>4
      <4> QED BY <3>4, <4>1
    <3> QED BY <3>3, <3>4
  <2>2. CASE left' = left
    BY <1>1, <2>1, <2>2
  <2>3. CASE \E k \in FaultKinds : Spend(k)
    BY <2>1, <2>3
  <2> QED BY <2>2, <2>3, LeftStep
<1>3. \A k \in FaultKinds : Budget[k] \in Nat /\ left[k] \in Nat /\ left[k] <= Budget[k]
  BY <1>1 DEF BudgetKept
<1>4. \A k \in FaultKinds : left'[k] <= Budget[k]
  BY <1>2, <1>3
<1> QED BY <1>2, <1>3, <1>4 DEF BudgetKept

-----------------------------------------------------------------------------
(* Three kinds of steps *)

\* A step that is neither one of a call nor the end of the process: it leaves
\* the .txt files and the calls alone; it may begin a call, record a result,
\* forget it, or be the recorder's.
Keeps ==
  /\ UNCHANGED <<txtTop, txtFiled, asked>>
  /\ \A t \in Threads :
       \/ pc'[t] = pc[t] /\ job'[t] = job[t] /\ loc'[t] = loc[t]
       \/ pc[t] = "idle" /\ pc'[t] = "entered"
  /\ \A f \in Files : /\ result'[f] \in {result[f], None}
                      /\ mp3'[f] = mp3[f] \/ (mp3[f] = "absent" /\ mp3'[f] = "top")
                                          \/ (mp3[f] = "top" /\ mp3'[f] = "gone")
                      /\ \/ row'[f] = row[f]
                         \/ row[f] = None /\ result[f] \in Texts /\ row'[f] = result[f]

Ending == SweepThrows \/ Crash \/ \E t \in Threads : ApiGivesUp(t)

LEMMA StepKinds ==
  ASSUME IInv, [Next]_vars
  PROVE  \/ \E t \in Threads : /\ Process(t) \/ ProcessFault(t)
                               /\ UNCHANGED <<memoryVars, row>>
         \/ Ending
         \/ Keeps
<1> USE DEF fileVars, dirVars, callVars
<1>0. /\ job \in [Threads -> Files \cup {None}] /\ pc \in [Threads -> PC]
      /\ mp3 \in [Files -> Places] /\ row \in [Files -> Texts \cup {None}]
      /\ Main \in Threads /\ Workers \subseteq Threads
  BY ThreadAssumption DEF IInv, TypeOK, FileTypeOK
<1>1. CASE \/ CheckShutdown \/ Sweep \/ RenameSwept \/ List \/ Sleep \/ LastFile
           \/ BeginCollect \/ EndCollect \/ Restart \/ Signal
           \/ (\E f \in Files : SubmitFile(f)) \/ UNCHANGED vars
  <2>1. UNCHANGED <<mp3, txtTop, txtFiled, asked, job, pc, loc, result, row>>
    BY <1>1 DEF CheckShutdown, Sweep, RenameSwept, List, Sleep, LastFile, BeginCollect, EndCollect,
       Restart, Signal, SubmitFile, vars
  <2> QED BY <2>1 DEF Keeps
<1>2. CASE NextFile \/ \E w \in Workers : WorkerBegins(w)
  <2>1. PICK t \in Threads : (\E f : StartFile(t, f)) /\ row' = row
    BY <1>0, <1>2 DEF NextFile, WorkerBegins
  <2>2. /\ UNCHANGED <<mp3, txtTop, txtFiled, asked, loc, result, row>>
        /\ pc[t] = "idle" /\ pc' = [pc EXCEPT ![t] = "entered"]
        /\ \E f : job' = [job EXCEPT ![t] = f]
    BY <2>1 DEF StartFile, Goto
  <2>3. pc'[t] = "entered" /\ \A s \in Threads \ {t} : pc'[s] = pc[s] /\ job'[s] = job[s]
    BY <1>0, <2>2
  <2> QED BY <2>2, <2>3 DEF Keeps
<1>3. CASE Record \/ Collect
  <2>1. /\ UNCHANGED <<mp3, txtTop, txtFiled, asked, job, pc, loc>>
        /\ \A f \in Files : result'[f] \in {result[f], None}
        /\ Insert(Head(pending))
    BY <1>3 DEF Record, Collect, Forget
  <2>2. \A f \in Files : \/ row'[f] = row[f]
                         \/ row[f] = None /\ result[f] \in Texts /\ row'[f] = result[f]
    BY <1>0, <2>1, InsertRow
  <2> QED BY <2>1, <2>2 DEF Keeps
<1>4. CASE ClosePool
  BY <1>4 DEF ClosePool, Forget, Keeps
<1>5. CASE World
  <2>1. /\ UNCHANGED <<txtTop, txtFiled, asked, job, pc, loc, result, row>>
        /\ \E f \in Files : \/ mp3' = mp3
                            \/ mp3[f] = "absent" /\ mp3' = [mp3 EXCEPT ![f] = "top"]
                            \/ mp3[f] = "top" /\ mp3' = [mp3 EXCEPT ![f] = "gone"]
    BY <1>5 DEF World, Environment, Appear, Append1, Finalize, RemoveExternally
  <2>2. \A f \in Files : \/ mp3'[f] = mp3[f] \/ (mp3[f] = "absent" /\ mp3'[f] = "top")
                         \/ (mp3[f] = "top" /\ mp3'[f] = "gone")
    BY <1>0, <2>1
  <2> QED BY <2>1, <2>2 DEF Keeps
<1>6. CASE (\E t \in Threads : Call(t)) \/ Fault \/ SweepThrows
  BY <1>6 DEF Call, Fault, Ending
<1> QED BY <1>1, <1>2, <1>3, <1>4, <1>5, <1>6 DEF Next, MainLoop

\* What a call does to the .txt files and to the transcription it returns,
\* unless a write fails.
LEMMA CallFiling ==
  ASSUME IInv, NEW t \in Threads, Process(t) \/ ProcessFault(t), ~Spend("fs")
  PROVE  \/ Save(t)
         \/ MoveTxt(t)
         \/ /\ UNCHANGED <<txtTop, txtFiled>> /\ pc[t] # "movingTxt" /\ pc'[t] # "movingMp3"
            /\ pc'[t] = "movingTxt" =>
                 pc[t] = "movingMp3" /\ job'[t] = job[t] /\ loc'[t] = loc[t]
            /\ result' = result \/ result' = [result EXCEPT ![job[t]] = Empty]
<1> USE DEF dirVars, Goto
<1>0. pc \in [Threads -> PC]
  BY DEF IInv, TypeOK, FileTypeOK
<1>1. CASE RejectPath(t) \/ SizeThrows(t) \/ Skip(t) \/ RejectName(t) \/ Discard(t)
  BY <1>0, <1>1 DEF RejectPath, SizeThrows, Skip, RejectName, Discard, ToTranscribe, Throw, Return
<1>2. CASE FirstSize(t) \/ SecondSize(t) \/ CheckLock(t) \/ Measure(t)
  BY <1>0, <1>2 DEF FirstSize, SecondSize, CheckLock, Measure
<1>3. CASE Request(t) \/ RequestMissing(t) \/ Answer(t) \/ LocalFails(t)
  BY <1>0, <1>3 DEF Request, RequestMissing, Answer, LocalFails, ToTranscribe, Throw, Return
<1>4. CASE MoveMp3(t) \/ DiscardThrows(t) \/ MoveThrows(t)
  BY <1>0, <1>4 DEF MoveMp3, DiscardThrows, MoveThrows, Throw, Return
<1>5. CASE Save(t) \/ SaveFails(t) \/ MoveTxt(t)
  BY <1>5 DEF SaveFails
<1> QED BY <1>1, <1>2, <1>3, <1>4, <1>5 DEF Process, ProcessFault

\* A call asks once, for a recording that is there, and loses what it asked
\* for only to a name it cannot parse or to a write that fails.
LEMMA CallAsking ==
  ASSUME IInv, NEW t \in Threads, Process(t) \/ ProcessFault(t)
  PROVE  /\ \/ asked' = asked
            \/ /\ pc[t] = "measured" /\ mp3[job[t]] = "top" /\ mp3' = mp3
               /\ pc'[t] = "asking" /\ job' = job
               /\ asked' = [asked EXCEPT ![job[t]] = IF @ < MaxAsks THEN @ + 1 ELSE @]
         /\ pc[t] \in {"asking", "answered", "movingMp3"} =>
              \/ pc'[t] \in {"asking", "answered", "movingMp3"} /\ job' = job
              \/ job[t] \in Misnamed
              \/ mp3'[job[t]] \notin {"absent", "top"}
              \/ Spend("fs")
<1> USE DEF dirVars, Goto
<1>0. /\ pc \in [Threads -> PC] /\ mp3 \in [Files -> Places]
      /\ pc[t] # "idle" => job[t] \in Files /\ mp3[job[t]] # "absent"
  BY SentinelAssumption DEF IInv, TypeOK, FileTypeOK, BusyHasJob, HeldWasSeen
<1>1. CASE RejectPath(t) \/ SizeThrows(t) \/ Skip(t) \/ RejectName(t) \/ Discard(t)
  BY <1>0, <1>1 DEF RejectPath, SizeThrows, Skip, RejectName, Discard, ToTranscribe, Throw, Return
<1>2. CASE FirstSize(t) \/ SecondSize(t) \/ CheckLock(t) \/ Measure(t)
  BY <1>0, <1>2 DEF FirstSize, SecondSize, CheckLock, Measure
<1>3. CASE Request(t)
  BY <1>0, <1>3 DEF Request, ToTranscribe, CountAsk, Present
<1>4. CASE RequestMissing(t)
  BY <1>0, <1>4 DEF RequestMissing, ToTranscribe
<1>5. CASE Answer(t) \/ LocalFails(t) \/ Save(t) \/ SaveFails(t)
  BY <1>0, <1>5 DEF Answer, LocalFails, Save, SaveFails
<1>6. CASE MoveMp3(t) \/ DiscardThrows(t) \/ MoveThrows(t)
  BY <1>0, <1>6 DEF MoveMp3, DiscardThrows, MoveThrows, Throw, Present
<1>7. CASE MoveTxt(t)
  BY <1>0, <1>7 DEF MoveTxt
<1> QED BY <1>1, <1>2, <1>3, <1>4, <1>5, <1>6, <1>7 DEF Process, ProcessFault

\* Unless the process crashes or exits while others work, it ends where no
\* transcription is on its way.
LEMMA EndingLosesNothing ==
  ASSUME IInv, ThreadInv, HeldInv, Ending, ~Spend("crash"), ~(Parallel /\ Spend("api"))
  PROVE  /\ UNCHANGED <<dirVars, row>>
         /\ \A t \in Threads : pc[t] # "movingTxt"
         /\ \A f \in Files : InHand(f) => result[f] \notin Texts
<1>0. Main \in Threads /\ Threads = Workers \cup {Main} /\ None \notin Texts
      /\ job \in [Threads -> Files \cup {None}]
  BY ThreadAssumption, SentinelAssumption DEF Texts, IInv, TypeOK, FileTypeOK
<1>1. UNCHANGED <<dirVars, row>>
  BY DEF Ending, SweepThrows, Crash, ApiGivesUp, Die
<1>2. CASE SweepThrows
  <2>1. main \in {"sweep", "rename", "list"}
    BY <1>2 DEF SweepThrows
  <2>2. \A t \in Threads : pc[t] = "idle"
    BY <1>0, <2>1 DEF ThreadInv, Phases, InPool, JobWhileBusy
  <2>3. pending = <<>>
    BY <2>1 DEF HeldInv, PendingPhases
  <2> QED BY <1>1, <2>2, <2>3 DEF InHand, Range
<1>3. ASSUME NEW t \in Threads, ApiGivesUp(t)
      PROVE  /\ \A s \in Threads : pc[s] # "movingTxt"
             /\ \A f \in Files : InHand(f) => result[f] \notin Texts
  <2>1. pc[t] = "asking" /\ ~Parallel
    BY <1>3 DEF ApiGivesUp
  <2>2. ~InPool /\ \A w \in Workers : job[w] = None
    BY <2>1 DEF ThreadInv, Phases
  <2>3. t = Main /\ \A s \in Threads \ {Main} : pc[s] = "idle"
    BY <1>0, <2>1, <2>2 DEF ThreadInv, JobWhileBusy
  <2>4. main = "processing" /\ job[Main] \in Files
    BY <1>0, <2>1, <2>3 DEF ThreadInv, Phases, JobWhileBusy
  <2>5. InHand(job[Main]) /\ result[job[Main]] = None
    <3>1. Held(job[Main])
      BY <1>0 DEF Held, InCall
    <3> QED BY <1>0, <2>4, <3>1, SentinelAssumption DEF HeldInv, TakenIsPending, HeldIsNew
  <2>6. Range(pending) = {Head(pending)}
    <3>1. pending = <<Head(pending)>>
      BY <2>4 DEF HeldInv, PendingPhases
    <3> QED BY <3>1 DEF Range
  <2> QED BY <1>0, <2>1, <2>3, <2>5, <2>6 DEF InHand
<1>4. ~Crash
  BY DEF Crash
<1> QED BY <1>1, <1>2, <1>3, <1>4 DEF Ending

-----------------------------------------------------------------------------
(* The invariant of what is stored, conjunct by conjunct *)

LEMMA InitStoreInv == Init => StoreInv
<1> SUFFICES ASSUME Init PROVE StoreInv
  OBVIOUS
<1>1. \A k \in FaultKinds : Budget[k] \in Nat /\ left[k] = Budget[k]
  BY BoundAssumption DEF Init, FileInit
<1>2. Failures = 0 /\ 1 + Spent("crash") + Spent("api") + Spent("fs") = 1
  <2>1. Spent("crash") = 0 /\ Spent("api") = 0 /\ Spent("fs") = 0
    BY <1>1 DEF Spent, FaultKinds
  <2> QED BY <2>1 DEF Failures
<1>3. /\ \A f \in Files : /\ mp3[f] = "absent" /\ txtFiled[f] = None /\ row[f] = None
                          /\ asked[f] = 0
      /\ \A t \in Threads : pc[t] = "idle"
  BY DEF Init, FileInit
<1>4. BudgetKept /\ AskedInVain
  BY <1>1, <1>2, <1>3 DEF BudgetKept, AskedInVain
<1>5. ResentOnlyAfterFailure
  <2>1. 0 <= 1
    OBVIOUS
  <2>2. \A f \in Files \ Misnamed : asked[f] <= 1
    BY <1>3, <2>1, Zenon
  <2> QED BY <1>2, <2>2 DEF ResentOnlyAfterFailure
<1>6. OnTheWay /\ SavedMatches /\ TxtFollowsMp3 /\ TxtMatchesRow
  BY <1>3 DEF OnTheWay, SavedMatches, TxtFollowsMp3, TxtMatchesRow
<1> QED BY <1>4, <1>5, <1>6 DEF StoreInv

\* A .txt is in the directory beside a filed .mp3 only while its call is
\* between the two renames.
LEMMA StepTxtFollows ==
  ASSUME IInv, ThreadInv, HeldInv, StoreInv, [Next]_vars
  PROVE  TxtFollowsMp3'
<1> SUFFICES ASSUME NEW f \in Files, txtTop'[f] # None, mp3'[f] = "filed",
                    ~(Spent("crash") + Spent("fs") > 0)', ~ExitWithOthers'
             PROVE  \E t \in Threads : job'[t] = f /\ pc'[t] = "movingTxt"
  BY DEF TxtFollowsMp3
<1>1. /\ ~Spend("crash") /\ ~Spend("fs") /\ ~(Parallel /\ Spend("api"))
      /\ ~(Spent("crash") + Spent("fs") > 0) /\ ~ExitWithOthers
  BY BudgetStep DEF StoreInv, Spent, ExitWithOthers, FaultKinds
<1>2. txtTop[f] # None /\ mp3[f] = "filed" =>
        \E t \in Threads : job[t] = f /\ pc[t] = "movingTxt"
  BY <1>1 DEF StoreInv, TxtFollowsMp3
<1>0. /\ txtTop \in [Files -> Texts \cup {None}] /\ mp3 \in [Files -> Places]
      /\ pc \in [Threads -> PC]
  BY DEF IInv, TypeOK, FileTypeOK
<1>3. ASSUME NEW t \in Threads, Process(t) \/ ProcessFault(t)
      PROVE  \E s \in Threads : job'[s] = f /\ pc'[s] = "movingTxt"
  <2>1. /\ pc[t] # "idle" /\ job[t] \in Files
        /\ \A s \in Threads \ {t} : pc'[s] = pc[s] /\ job'[s] = job[s]
        /\ job' = job \/ pc'[t] = "idle"
    BY <1>3, CallEffect
  <2>2. CASE mp3[f] # "filed"
    BY <1>0, <1>3, <2>1, <2>2, CallEffect
  <2>3. CASE mp3[f] = "filed" /\ txtTop[f] = None
    <3>1. ~Save(t)
      BY <1>0, <2>1, <2>3, SentinelAssumption DEF Save, HeldInv, HeldNotFiled
    <3>2. ~MoveTxt(t)
      BY <1>0, <2>3 DEF MoveTxt
    <3> QED BY <1>1, <1>3, <2>3, <3>1, <3>2, CallFiling
  <2>4. CASE mp3[f] = "filed" /\ txtTop[f] # None
    <3>1. PICK s \in Threads : job[s] = f /\ pc[s] = "movingTxt"
      BY <1>2, <2>4
    <3>2. s # t
      <4>1. ~(Save(t) /\ s = t)
        BY <3>1 DEF Save
      <4>2. ~(MoveTxt(t) /\ s = t)
        BY <1>0, <3>1 DEF MoveTxt
      <4> QED BY <1>1, <1>3, <3>1, <4>1, <4>2, CallFiling
    <3> QED BY <2>1, <3>1, <3>2
  <2> QED BY <2>2, <2>3, <2>4
<1>4. CASE Ending
  BY <1>1, <1>2, <1>4, EndingLosesNothing DEF dirVars
<1>5. CASE Keeps
  BY <1>0, <1>2, <1>5 DEF Keeps
<1> QED BY <1>3, <1>4, <1>5, StepKinds

\* A filed recording has its row, or its transcription goes from the call to
\* the result, and from there, consumed once, to the row.
LEMMA StepOnTheWay ==
  ASSUME IInv, ThreadInv, HeldInv, StoreInv, [Next]_vars
  PROVE  OnTheWay'
<1> SUFFICES ASSUME NEW f \in Files, mp3'[f] = "filed", row'[f] = None,
                    ~(Spent("crash") + Spent("fs") + Spent("db") > 0)', ~ExitWithOthers'
             PROVE  \/ \E t \in Threads : job'[t] = f /\ pc'[t] = "movingTxt"
                    \/ f \in Range(pending') /\ result'[f] \in Texts
  BY DEF OnTheWay, InHand
<1>1. /\ ~Spend("crash") /\ ~Spend("fs") /\ ~Spend("db") /\ ~(Parallel /\ Spend("api"))
      /\ ~(Spent("crash") + Spent("fs") + Spent("db") > 0) /\ ~ExitWithOthers
  BY BudgetStep DEF StoreInv, Spent, ExitWithOthers, FaultKinds
<1>0. /\ mp3 \in [Files -> Places] /\ row \in [Files -> Texts \cup {None}]
      /\ job \in [Threads -> Files \cup {None}] /\ None \notin Texts
      /\ pc \in [Threads -> PC] /\ result \in [Files -> Texts \cup {None, Empty}]
  BY SentinelAssumption DEF IInv, TypeOK, FileTypeOK, Texts
<1>2. mp3[f] = "filed" /\ row[f] = None =>
        \/ \E t \in Threads : job[t] = f /\ pc[t] = "movingTxt"
        \/ InHand(f) /\ result[f] \in Texts
  BY <1>1 DEF StoreInv, OnTheWay
<1>3. ASSUME NEW t \in Threads, Process(t) \/ ProcessFault(t), UNCHANGED <<memoryVars, row>>
      PROVE  \/ \E s \in Threads : job'[s] = f /\ pc'[s] = "movingTxt"
             \/ f \in Range(pending') /\ result'[f] \in Texts
  <2>1. /\ pc[t] # "idle" /\ job[t] \in Files
        /\ \A s \in Threads \ {t} : pc'[s] = pc[s] /\ job'[s] = job[s]
        /\ job' = job \/ pc'[t] = "idle"
        /\ \A g \in Files \ {job[t]} : result'[g] = result[g]
        /\ row' = row /\ pending' = pending
    BY <1>0, <1>3, CallEffect DEF memoryVars
  <2>2. CASE mp3[f] # "filed"
    BY <1>0, <1>3, <2>1, <2>2, CallEffect
  <2>3. CASE \E s \in Threads : job[s] = f /\ pc[s] = "movingTxt"
    <3>1. PICK s \in Threads : job[s] = f /\ pc[s] = "movingTxt"
      BY <2>3
    <3>2. CASE s # t
      BY <2>1, <3>1, <3>2
    <3>3. CASE s = t
      <4>1. MoveTxt(t)
        <5>1. ~Save(t)
          BY <3>1, <3>3 DEF Save
        <5> QED BY <1>1, <1>3, <3>1, <3>3, <5>1, CallFiling
      <4>2. result'[f] \in Texts
        BY <1>0, <3>1, <3>3, <4>1 DEF MoveTxt, Return, HeldInv, TextReady
      <4>3. f \in Range(pending')
        BY <1>0, <2>1, <3>1, SentinelAssumption DEF HeldInv, TakenIsPending, InHand
      <4> QED BY <4>2, <4>3
    <3> QED BY <3>2, <3>3
  <2>4. CASE InHand(f) /\ result[f] \in Texts
    <3>1. job[t] # f
      BY <1>0, <2>4 DEF HeldInv, HeldIsNew, Held, InCall
    <3> QED BY <2>1, <2>4, <3>1 DEF InHand
  <2> QED BY <1>2, <2>1, <2>2, <2>3, <2>4
<1>4. CASE Ending
  BY <1>1, <1>2, <1>4, EndingLosesNothing DEF dirVars
<1> DEFINE Called == \E t \in Threads : (Process(t) \/ ProcessFault(t)) /\ UNCHANGED <<memoryVars, row>>
<1>5. CASE Keeps /\ \E t \in Threads : job[t] = f /\ pc[t] = "movingTxt"
  BY <1>0, <1>5 DEF Keeps
<1>6. Keeps => mp3[f] = "filed" /\ row[f] = None
  BY <1>0 DEF Keeps
<1>7. Called \/ Ending \/ (Keeps /\ ~Called /\ ~Ending)
  BY StepKinds
<1>8. ASSUME InHand(f), result[f] \in Texts, ~Called, ~Ending
      PROVE  f \in Range(pending') /\ result'[f] \in Texts
  <2>0. pending \in Seq(Files)
    BY DEF IInv, TypeOK
  <2>1. CASE Record \/ Collect
    <3> DEFINE h == Head(pending)
    <3>1. f # h
      <4>1. Insert(h)
        BY <2>1 DEF Record, Collect
      <4>2. result[h] \in Texts => row'[h] # None
        <5> SUFFICES ASSUME result[h] \in Texts PROVE row'[h] # None
          OBVIOUS
        <5>1. Recordable(h) /\ Empty \notin Texts
          BY <1>0, SentinelAssumption DEF Recordable, Texts
        <5>2. row' = [row EXCEPT ![h] = IF row[h] = None THEN result[h] ELSE row[h]]
          BY <1>1, <4>1, <5>1 DEF Insert
        <5>3. pending # <<>>
          BY <1>8 DEF InHand, Range
        <5>4. h \in Files
          BY <2>0, <5>3
        <5> HIDE DEF h
        <5> QED BY <1>0, <5>2, <5>4
      <4> QED BY <1>8, <4>2
    <3>2. pending # <<>>
      BY <1>8 DEF InHand, Range
    <3>3. ~Record
      <4>1. SUFFICES ASSUME Record PROVE FALSE
        OBVIOUS
      <4>2. pending = <<h>>
        BY <4>1 DEF Record, HeldInv, PendingPhases
      <4> QED BY <1>8, <3>1, <4>2 DEF InHand, Range
    <3>4. pending' = Tail(pending) /\ result' = result
      BY <2>1, <3>3 DEF Collect, callVars
    <3>5. Range(pending) = {h} \cup Range(Tail(pending))
      BY <2>0, <3>2, SeqRange
    <3> HIDE DEF h
    <3> QED BY <1>8, <3>1, <3>4, <3>5 DEF InHand
  <2>2. CASE NextFile \/ ClosePool
    <3>1. pending = <<>>
      BY <2>2 DEF NextFile, ClosePool, HeldInv, PendingPhases
    <3> QED BY <1>8, <3>1 DEF InHand, Range
  <2>3. ASSUME NEW g \in Files, SubmitFile(g)
        PROVE  f \in Range(pending') /\ result'[f] \in Texts
    <3>1. pending' = Append(pending, g) /\ result' = result
      BY <2>3 DEF SubmitFile, fileVars, callVars
    <3>2. Range(pending') = Range(pending) \cup {g}
      BY <2>0, <3>1, SeqRange
    <3> QED BY <1>8, <3>1, <3>2 DEF InHand
  <2>4. CASE \/ CheckShutdown \/ Sweep \/ RenameSwept \/ List \/ Sleep \/ LastFile
             \/ BeginCollect \/ EndCollect \/ Restart \/ Signal \/ World
             \/ (\E w \in Workers : WorkerBegins(w)) \/ UNCHANGED vars
    <3>1. pending' = pending /\ result' = result
      BY <2>4 DEF CheckShutdown, Sweep, RenameSwept, List, Sleep, LastFile, BeginCollect,
         EndCollect, Restart, Signal, World, Environment, Appear, Append1, Finalize,
         RemoveExternally, WorkerBegins, StartFile, vars, fileVars, callVars, memoryVars
    <3> QED BY <1>8, <3>1 DEF InHand
  <2> QED BY <1>8, <2>1, <2>2, <2>3, <2>4 DEF Next, MainLoop, Fault, Call, Ending
<1> QED BY <1>1, <1>2, <1>3, <1>4, <1>5, <1>8, <1>6, <1>7

\* While no write fails, the .txt, the result and the row of a recording are
\* the same transcription, wherever each of them has got to.
LEMMA StepMatches ==
  ASSUME IInv, ThreadInv, HeldInv, StoreInv, [Next]_vars
  PROVE  SavedMatches' /\ TxtMatchesRow'
<1> SUFFICES ASSUME left'["fs"] = Budget["fs"]
             PROVE  /\ \A t \in Threads :
                         pc'[t] \in {"movingMp3", "movingTxt"} => txtTop'[job'[t]] = loc'[t].text
                    /\ \A f \in Files :
                         /\ txtFiled'[f] # None /\ result'[f] \in Texts => result'[f] = txtFiled'[f]
                         /\ txtFiled'[f] # None /\ row'[f] # None => row'[f] = txtFiled'[f]
  <2>1. Spent("fs")' = 0 => left'["fs"] = Budget["fs"]
    BY BudgetStep DEF StoreInv, Spent, FaultKinds
  <2> QED BY <2>1 DEF SavedMatches, TxtMatchesRow
<1>0. /\ txtTop \in [Files -> Texts \cup {None}] /\ txtFiled \in [Files -> Texts \cup {None}]
      /\ row \in [Files -> Texts \cup {None}] /\ result \in [Files -> Texts \cup {None, Empty}]
      /\ job \in [Threads -> Files \cup {None}] /\ pc \in [Threads -> PC]
      /\ loc \in [Threads -> Locals] /\ None \notin Texts /\ Empty \notin Texts
      /\ \A t \in Threads : pc[t] # "idle" <=> job[t] \in Files
  BY SentinelAssumption
  DEF IInv, TypeOK, FileTypeOK, Texts, ThreadInv, JobWhileBusy, BusyHasJob
<1>1. ~Spend("fs") /\ Spent("fs") = 0
  BY BudgetStep DEF StoreInv, Spent, FaultKinds
<1>2. /\ \A t \in Threads :
           pc[t] \in {"movingMp3", "movingTxt"} => txtTop[job[t]] = loc[t].text
      /\ \A f \in Files :
           /\ txtFiled[f] # None /\ result[f] \in Texts => result[f] = txtFiled[f]
           /\ txtFiled[f] # None /\ row[f] # None => row[f] = txtFiled[f]
  BY <1>1 DEF StoreInv, SavedMatches, TxtMatchesRow
<1>3. ASSUME NEW t \in Threads, Process(t) \/ ProcessFault(t), row' = row
      PROVE  /\ \A s \in Threads :
                  pc'[s] \in {"movingMp3", "movingTxt"} => txtTop'[job'[s]] = loc'[s].text
             /\ \A f \in Files :
                  /\ txtFiled'[f] # None /\ result'[f] \in Texts => result'[f] = txtFiled'[f]
                  /\ txtFiled'[f] # None /\ row'[f] # None => row'[f] = txtFiled'[f]
  <2> DEFINE g == job[t]
  <2>1. /\ pc[t] # "idle" /\ g \in Files
        /\ \A s \in Threads \ {t} : /\ pc'[s] = pc[s] /\ job'[s] = job[s]
                                    /\ loc'[s].text = loc[s].text /\ job[s] # g
    BY <1>0, <1>3, CallEffect, SentinelAssumption DEF ThreadInv, Exclusion, OneCallPerFile
  <2>2. row[g] = None
    BY <2>1 DEF HeldInv, HeldIsNew, Held, InCall
  <2>3. CASE Save(t)
    <3>1. /\ txtTop' = [txtTop EXCEPT ![g] = loc[t].text] /\ UNCHANGED <<txtFiled, job, loc, result>>
          /\ pc' = [pc EXCEPT ![t] = "movingMp3"]
      BY <2>3 DEF Save, Goto
    <3>2. \A s \in Threads \ {t} :
            pc'[s] \in {"movingMp3", "movingTxt"} => txtTop'[job'[s]] = loc'[s].text
      BY <1>0, <1>2, <2>1, <3>1
    <3>3. txtTop'[job'[t]] = loc'[t].text
      BY <1>0, <2>1, <3>1
    <3> QED BY <1>2, <1>3, <3>1, <3>2, <3>3
  <2>4. CASE MoveTxt(t)
    <3>1. pc[t] = "movingTxt" /\ txtTop[g] = loc[t].text /\ loc[t].text \in Texts
      BY <1>2, <2>4 DEF MoveTxt, HeldInv, TextReady
    <3>2. /\ txtFiled' = [txtFiled EXCEPT ![g] = loc[t].text] /\ txtTop' = [txtTop EXCEPT ![g] = None]
          /\ result' = [result EXCEPT ![g] = loc[t].text] /\ pc' = [pc EXCEPT ![t] = "idle"]
      BY <1>0, <2>4, <3>1 DEF MoveTxt, Return, Goto
    <3>3. \A s \in Threads :
            pc'[s] \in {"movingMp3", "movingTxt"} => txtTop'[job'[s]] = loc'[s].text
      <4>1. pc'[t] = "idle"
        BY <1>0, <3>2
      <4>2. \A s \in Threads \ {t} :
              pc'[s] \in {"movingMp3", "movingTxt"} => txtTop'[job'[s]] = loc'[s].text
        BY <1>0, <1>2, <2>1, <3>2
      <4> QED BY <4>1, <4>2
    <3>4. \A f \in Files \ {g} : txtFiled'[f] = txtFiled[f] /\ result'[f] = result[f]
      BY <1>0, <3>2
    <3>5. txtFiled'[g] = loc[t].text /\ result'[g] = loc[t].text
      BY <1>0, <2>1, <3>2
    <3> HIDE DEF g
    <3> QED BY <1>2, <1>3, <2>2, <3>3, <3>4, <3>5
  <2>5. CASE ~Save(t) /\ ~MoveTxt(t)
    <3>1. /\ UNCHANGED <<txtTop, txtFiled>> /\ pc'[t] # "movingMp3"
          /\ pc'[t] = "movingTxt" => pc[t] = "movingMp3" /\ job'[t] = job[t] /\ loc'[t] = loc[t]
          /\ result' = result \/ result' = [result EXCEPT ![g] = Empty]
      BY <1>1, <1>3, <2>5, CallFiling
    <3>2. \A s \in Threads :
            pc'[s] \in {"movingMp3", "movingTxt"} => txtTop'[job'[s]] = loc'[s].text
      BY <1>2, <2>1, <3>1
    <3>3. \A f \in Files : result'[f] = result[f] \/ result'[f] \notin Texts
      BY <1>0, <3>1
    <3> QED BY <1>2, <1>3, <3>1, <3>2, <3>3
  <2> QED BY <2>3, <2>4, <2>5
<1>4. CASE Ending
  <2>1. /\ UNCHANGED <<txtFiled, row>> /\ pc' = [t \in Threads |-> "idle"]
        /\ result' = [f \in Files |-> None]
    BY <1>4 DEF Ending, SweepThrows, Crash, ApiGivesUp, Die, dirVars
  <2> QED BY <1>0, <1>2, <2>1
<1>5. CASE Keeps
  <2>1. \A t \in Threads :
          pc'[t] \in {"movingMp3", "movingTxt"} => txtTop'[job'[t]] = loc'[t].text
    BY <1>2, <1>5 DEF Keeps
  <2>2. \A f \in Files :
          /\ txtFiled'[f] # None /\ result'[f] \in Texts => result'[f] = txtFiled'[f]
          /\ txtFiled'[f] # None /\ row'[f] # None => row'[f] = txtFiled'[f]
    BY <1>0, <1>2, <1>5 DEF Keeps
  <2> QED BY <2>1, <2>2
<1> QED BY <1>3, <1>4, <1>5, StepKinds

\* A request is made only for a recording whose earlier requests were all in
\* vain, and while its answer is on its way no other is made.
LEMMA StepAsked ==
  ASSUME IInv, ThreadInv, HeldInv, StoreInv, [Next]_vars
  PROVE  AskedInVain' /\ ResentOnlyAfterFailure'
<1>0. /\ asked \in [Files -> 0 .. MaxAsks] /\ MaxAsks \in Nat /\ mp3 \in [Files -> Places]
      /\ job \in [Threads -> Files \cup {None}] /\ pc \in [Threads -> PC]
      /\ \A t \in Threads : pc[t] # "idle" => job[t] \in Files /\ mp3[job[t]] # "absent"
      /\ \A s, t \in Threads : job[s] = job[t] /\ job[s] # None => s = t
  BY BoundAssumption, SentinelAssumption
  DEF IInv, TypeOK, FileTypeOK, BusyHasJob, HeldWasSeen, ThreadInv, Exclusion, OneCallPerFile
<1>1. /\ Failures \in Nat /\ Failures' \in Nat /\ Failures' >= Failures
      /\ Spend("fs") \/ Spend("crash") \/ Spend("api") => Failures' >= Failures + 1
      /\ 1 + Spent("crash") + Spent("api") + Spent("fs") = 1 + Failures
      /\ (1 + Spent("crash") + Spent("api") + Spent("fs"))' = 1 + Failures'
  <2>1. /\ Failures = (Budget["crash"] - left["crash"]) + (Budget["api"] - left["api"])
                      + (Budget["fs"] - left["fs"])
        /\ Failures' = (Budget["crash"] - left'["crash"]) + (Budget["api"] - left'["api"])
                       + (Budget["fs"] - left'["fs"])
    BY DEF Failures, Spent
  <2>2. \A k \in {"crash", "api", "fs"} :
          /\ Budget[k] \in Nat /\ left[k] \in Nat /\ left'[k] \in Nat
          /\ left'[k] <= left[k] /\ left[k] <= Budget[k]
          /\ Spend(k) => left'[k] = left[k] - 1
    BY BudgetStep DEF StoreInv, FaultKinds
  <2>3. /\ 1 + Spent("crash") + Spent("api") + Spent("fs") = 1 + Failures
        /\ (1 + Spent("crash") + Spent("api") + Spent("fs"))' = 1 + Failures'
    BY <2>2 DEF Failures, Spent
  <2>4. /\ Failures \in Nat /\ Failures' \in Nat /\ Failures' >= Failures
        /\ Spend("fs") \/ Spend("crash") \/ Spend("api") => Failures' >= Failures + 1
    BY <2>1, <2>2
  <2> QED BY <2>3, <2>4
<1> SUFFICES ASSUME NEW f \in Files \ Misnamed
             PROVE  (ToBeAsked(f)' => asked'[f] <= Failures') /\ asked'[f] <= 1 + Failures'
  <2>1. AskedInVain' = \A f \in Files \ Misnamed : ToBeAsked(f)' => asked'[f] <= Failures'
    BY DEF AskedInVain
  <2>2. ResentOnlyAfterFailure' = \A f \in Files \ Misnamed : asked'[f] <= 1 + Failures'
    BY <1>1 DEF ResentOnlyAfterFailure
  <2> QED BY <2>1, <2>2
<1>2. (ToBeAsked(f) => asked[f] <= Failures) /\ asked[f] <= 1 + Failures /\ asked[f] \in Nat
  BY <1>0, <1>1 DEF StoreInv, AskedInVain, ResentOnlyAfterFailure
\* It is enough that nothing was asked, and that f is not to be asked for
\* now unless it was, or a failure was spent.
<1>3. ASSUME asked'[f] = asked[f],
             ToBeAsked(f)' => \/ ToBeAsked(f)
                              \/ Spend("fs") \/ Spend("crash") \/ Spend("api")
      PROVE  (ToBeAsked(f)' => asked'[f] <= Failures') /\ asked'[f] <= 1 + Failures'
  <2> HIDE DEF Failures, ToBeAsked
  <2> QED BY <1>1, <1>2, <1>3
<1>4. ASSUME NEW t \in Threads, Process(t) \/ ProcessFault(t)
      PROVE  (ToBeAsked(f)' => asked'[f] <= Failures') /\ asked'[f] <= 1 + Failures'
  <2>1. /\ pc[t] # "idle" /\ job[t] \in Files
        /\ \A s \in Threads \ {t} : pc'[s] = pc[s] /\ job'[s] = job[s]
        /\ \A g \in Files : mp3'[g] = mp3[g] \/ mp3'[g] \notin {"absent", "top"}
    BY <1>0, <1>4, CallEffect
  <2>2. CASE asked' = asked
    <3>1. ASSUME ToBeAsked(f)', ~ToBeAsked(f) PROVE Spend("fs")
      <4>1. mp3[f] \in {"absent", "top"} /\ mp3'[f] \in {"absent", "top"}
        BY <2>1, <3>1 DEF ToBeAsked
      <4>2. job[t] = f /\ pc[t] \in {"asking", "answered", "movingMp3"}
        BY <2>1, <3>1, <4>1 DEF ToBeAsked
      <4>3. ~(pc'[t] \in {"asking", "answered", "movingMp3"} /\ job' = job)
        BY <3>1, <4>2 DEF ToBeAsked
      <4> QED BY <1>4, <4>1, <4>2, <4>3, CallAsking
    <3> QED BY <1>3, <2>2, <3>1
  <2>3. CASE asked' # asked
    <3>1. /\ pc[t] = "measured" /\ mp3[job[t]] = "top" /\ pc'[t] = "asking" /\ job' = job
          /\ asked' = [asked EXCEPT ![job[t]] = IF asked[job[t]] < MaxAsks
                                                THEN asked[job[t]] + 1 ELSE asked[job[t]]]
          /\ mp3' = mp3
      BY <1>4, <2>3, CallAsking
    <3>2. CASE job[t] # f
      <4>1. asked'[f] = asked[f]
        BY <1>0, <3>1, <3>2
      <4>2. ToBeAsked(f)' => ToBeAsked(f)
        BY <2>1, <3>1, <3>2 DEF ToBeAsked
      <4> QED BY <1>3, <4>1, <4>2
    <3>3. CASE job[t] = f
      <4>1. ToBeAsked(f)
        BY <1>0, <2>1, <3>1, <3>3, SentinelAssumption DEF ToBeAsked
      <4>2. ~ToBeAsked(f)'
        BY <3>1, <3>3 DEF ToBeAsked
      <4>3. asked'[f] <= asked[f] + 1 /\ asked'[f] \in Nat
        BY <1>0, <1>2, <3>1, <3>3
      <4> HIDE DEF ToBeAsked, Failures
      <4> QED BY <1>1, <1>2, <4>1, <4>2, <4>3
    <3> QED BY <3>2, <3>3
  <2> QED BY <2>2, <2>3
<1>5. CASE Ending
  <2>1. UNCHANGED <<mp3, asked>>
    BY <1>5 DEF Ending, SweepThrows, Crash, ApiGivesUp, Die, dirVars
  <2>2. SweepThrows => \A t \in Threads : pc[t] = "idle"
    BY ThreadAssumption DEF SweepThrows, ThreadInv, Phases, InPool, JobWhileBusy
  <2>3. SweepThrows \/ Spend("crash") \/ Spend("api")
    BY <1>5 DEF Ending, Crash, ApiGivesUp
  <2>4. SweepThrows /\ ToBeAsked(f)' => ToBeAsked(f)
    BY <2>1, <2>2 DEF ToBeAsked
  <2> QED BY <1>3, <2>1, <2>3, <2>4
<1>6. CASE Keeps
  <2>1. ToBeAsked(f)' => ToBeAsked(f)
    BY <1>6 DEF Keeps, ToBeAsked
  <2> QED BY <1>3, <1>6, <2>1 DEF Keeps
<1> QED BY <1>4, <1>5, <1>6, StepKinds

LEMMA StepStoreInv == IInv /\ ThreadInv /\ HeldInv /\ StoreInv /\ [Next]_vars => StoreInv'
<1> SUFFICES ASSUME IInv, ThreadInv, HeldInv, StoreInv, [Next]_vars PROVE StoreInv'
  OBVIOUS
<1>1. BudgetKept'
  BY BudgetStep DEF StoreInv
<1> QED
  BY <1>1, StepOnTheWay, StepMatches, StepAsked, StepTxtFollows DEF StoreInv

LEMMA StoreInvCorrect == Spec => []StoreInv
<1> QED BY InitStoreInv, StepStoreInv, IInvCorrect, ThreadInvCorrect, HeldInvCorrect, PTL DEF Spec

-----------------------------------------------------------------------------
(* The theorems *)

\* A recording that is filed has a row, or will get one, unless the process
\* died or a write failed: for every number of threads and recordings, and
\* whatever is refused, misnamed or deleted meanwhile.
THEOREM FiledIsRecordedCorrect == Spec => []FiledIsRecorded
<1>1. StoreInv => FiledIsRecorded
  BY DEF StoreInv, OnTheWay, FiledIsRecorded, InCall
<1> QED BY <1>1, StoreInvCorrect, PTL

\* The .txt beside a recording and its row tell the same transcription,
\* whatever was interrupted and transcribed again, unless a write failed.
THEOREM TxtMatchesRowCorrect == Spec => []TxtMatchesRow
<1>1. StoreInv => TxtMatchesRow
  BY DEF StoreInv
<1> QED BY <1>1, StoreInvCorrect, PTL

\* A .txt stays behind when its recording is filed only if the process died
\* or a write failed between the two renames.
THEOREM TxtFollowsMp3Correct == Spec => []TxtFollowsMp3
<1>1. StoreInv => TxtFollowsMp3
  BY DEF StoreInv
<1> QED BY <1>1, StoreInvCorrect, PTL

\* A recording is sent to the service once, and once more for each failure
\* that lost the answer: a crash, an exit, or a write that failed.
THEOREM ResentOnlyAfterFailureCorrect == Spec => []ResentOnlyAfterFailure
<1>1. StoreInv => ResentOnlyAfterFailure
  BY DEF StoreInv
<1> QED BY <1>1, StoreInvCorrect, PTL
=============================================================================
