---------------------------- MODULE Transcriber ----------------------------
(***************************************************************************)
(* src/main.cpp: the polling loop, processDirectory with its sequential    *)
(* and its parallel branch, the insertion of the results into the          *)
(* database, the shutdown flag, and what ends the process before its time: *)
(* an exception nobody catches, exit() in curl_transcribe_audio, a crash.  *)
(*                                                                         *)
(* processFile is FileProcessor's; the thread pool is TaskExecutor, which  *)
(* ThreadPool.tla implements; the recordings table is the function row,    *)
(* whose operations DatabaseManager.tla has in detail.  The files and the  *)
(* rows survive a crash, everything else is the memory of the process.     *)
(***************************************************************************)
EXTENDS FileProcessor, Sequences, FiniteSets, Functions

CONSTANTS
  Main,     \* the main thread, which runs processFile in the default mode
  Workers,  \* the threads of a pool
  Parallel  \* maxThreads > 1: -p was given and MAX_THREADS is above 1

ASSUME ThreadAssumption == Main \notin Workers /\ Threads = Workers \cup {Main}
ASSUME ParallelAssumption == Parallel \in BOOLEAN

VARIABLES
  main,      \* where the main thread is
  listed,    \* files it has listed and still has to hand to processFile
  pending,   \* files handed over whose result it still has to record, in order
  swept,     \* files find_and_move_mp3_without_txt listed
  queue,     \* files that wait in the pool
  row,       \* the transcription in a file's row of recordings, or None
  shutdown   \* g_shutdown_requested

memoryVars == <<main, listed, pending, swept, queue>>
vars == <<fileVars, memoryVars, row, shutdown>>

MainPC == {"check", "sweep", "rename", "list", "sequence", "processing",
           "submit", "collect", "close", "sleep",
           "exited",  \* main returned
           "down"}    \* the process died

\* Each variable has its type: only transcriptions enter the table.
TypeOK ==
  /\ FileTypeOK
  /\ main \in MainPC
  /\ listed \subseteq Files
  /\ pending \in Seq(Files)
  /\ swept \subseteq Files
  /\ queue \in Seq(Files)
  /\ row \in [Files -> Texts \cup {None}]
  /\ shutdown \in BOOLEAN

Init ==
  /\ FileInit
  /\ main = "check"
  /\ listed = {}
  /\ pending = <<>>
  /\ swept = {}
  /\ queue = <<>>
  /\ row = [f \in Files |-> None]
  /\ shutdown = FALSE

\* The pool of the current sweep.
Pool == INSTANCE TaskExecutor WITH
          Slots <- Workers, Tasks <- Files, Idle <- None,
          slot <- job, completed <- {f \in Files : result[f] # None},
          closed <- (main \notin {"submit", "collect", "close"})

-----------------------------------------------------------------------------
(* The polling loop *)

\* The flag is not looked at again once the loop has begun.
CheckShutdown_Ignored ==
  /\ main = "check"
  /\ main' = "sweep"
  /\ UNCHANGED <<fileVars, listed, pending, swept, queue, row, shutdown>>

\* while (!g_shutdown_requested)
CheckShutdown ==
  /\ main = "check"
  /\ main' = IF shutdown THEN "exited" ELSE "sweep"
  /\ UNCHANGED <<fileVars, listed, pending, swept, queue, row, shutdown>>

\* find_and_move_mp3_without_txt lists the directory ...
Sweep ==
  /\ main = "sweep"
  /\ swept' = {f \in Files : mp3[f] = "top" /\ txtTop[f] = None}
  /\ main' = "rename"
  /\ UNCHANGED <<fileVars, listed, pending, queue, row, shutdown>>

\* ... and renames each .mp3 without a .txt onto itself: nothing happens.
RenameSwept ==
  /\ main = "rename"
  /\ \A f \in swept : mp3[f] = "top"
  /\ swept' = {}
  /\ main' = "list"
  /\ UNCHANGED <<fileVars, listed, pending, queue, row, shutdown>>

\* processDirectory lists the .mp3 files and chooses its branch.
List ==
  /\ main = "list"
  /\ listed' = {f \in Files : mp3[f] = "top"}
  /\ main' = IF listed' = {} THEN "sleep"
             ELSE IF Parallel /\ Cardinality(listed') > 1 THEN "submit"
             ELSE "sequence"
  /\ UNCHANGED <<fileVars, pending, swept, queue, row, shutdown>>

Sleep ==
  /\ main = "sleep"
  /\ main' = "check"
  /\ UNCHANGED <<fileVars, listed, pending, swept, queue, row, shutdown>>

-----------------------------------------------------------------------------
(* insertFileData *)

\* The empty FileData of a skipped file is recorded too.
Recordable_NoCheck(f) == result[f] # None

\* An empty FileData is not recorded.
Recordable(f) == result[f] \notin {None, Empty}

\* After the signal nothing is recorded any more.
Insert_NotAfterSignal(f) ==
  /\ row' = IF Recordable(f) /\ ~shutdown THEN [row EXCEPT ![f] = result[f]] ELSE row
  /\ UNCHANGED left

\* INSERT OR IGNORE: the row that is there stays.  An insertion that fails
\* is logged and forgotten.
Insert(f) ==
  \/ /\ ~Recordable(f)
     /\ UNCHANGED <<row, left>>
  \/ /\ Recordable(f)
     /\ row' = [row EXCEPT ![f] = IF @ = None THEN result[f] ELSE @]
     /\ UNCHANGED left
  \/ /\ Recordable(f)
     /\ Spend("db")
     /\ UNCHANGED row

\* The results of the files in S have been consumed.
Forget(S) == result' = [f \in Files |-> IF f \in S THEN None ELSE result[f]]

-----------------------------------------------------------------------------
(* The sequential branch: processFile and insertFileData on the main thread *)

NextFile ==
  /\ main = "sequence"
  /\ \E f \in listed :
       /\ StartFile(Main, f)
       /\ listed' = listed \ {f}
       /\ pending' = <<f>>
  /\ main' = "processing"
  /\ UNCHANGED <<swept, queue, row, shutdown>>

Record ==
  /\ main = "processing"
  /\ job[Main] = None
  /\ Insert(Head(pending))
  /\ Forget({Head(pending)})
  /\ pending' = <<>>
  /\ main' = "sequence"
  /\ UNCHANGED <<dirVars, asked, job, pc, loc, listed, swept, queue, shutdown>>

LastFile ==
  /\ main = "sequence"
  /\ listed = {}
  /\ main' = "sleep"
  /\ UNCHANGED <<fileVars, listed, pending, swept, queue, row, shutdown>>

-----------------------------------------------------------------------------
(* The parallel branch: a pool of min(MAX_THREADS, number of files) threads; *)
(* the threads it would have beyond the number of files would never run.     *)

\* pool.enqueue for the next path.
SubmitFile(f) ==
  /\ main = "submit"
  /\ f \in listed
  /\ listed' = listed \ {f}
  /\ pending' = Append(pending, f)
  /\ UNCHANGED <<main, fileVars, swept, row, shutdown>>
  /\ Pool!Submit(f)

BeginCollect ==
  /\ main = "submit"
  /\ listed = {}
  /\ main' = "collect"
  /\ UNCHANGED <<fileVars, listed, pending, swept, queue, row, shutdown>>

\* A worker takes the oldest path and calls processFile.
WorkerBegins(w) ==
  /\ queue # <<>>
  /\ StartFile(w, Head(queue))
  /\ UNCHANGED <<main, listed, pending, swept, row, shutdown>>
  /\ Pool!Begin(w)

\* future.get() of the next file in submission order, and insertFileData.
Collect ==
  /\ main = "collect"
  /\ pending # <<>>
  /\ result[Head(pending)] # None
  /\ Insert(Head(pending))
  /\ pending' = Tail(pending)
  /\ UNCHANGED <<dirVars, asked, callVars, main, listed, swept, queue, shutdown>>

\* The loop stops one future short.
EndCollect_OneShort ==
  /\ main = "collect"
  /\ Len(pending) <= 1
  /\ main' = "close"
  /\ pending' = <<>>
  /\ UNCHANGED <<fileVars, listed, swept, queue, row, shutdown>>

\* The threads are detached instead of joined, and nobody waits for them.
EndCollect_Detaches ==
  /\ main = "collect"
  /\ main' = "sleep"
  /\ pending' = <<>>
  /\ UNCHANGED <<fileVars, listed, swept, queue, row, shutdown>>

EndCollect ==
  /\ main = "collect"
  /\ pending = <<>>
  /\ main' = "close"
  /\ UNCHANGED <<fileVars, listed, pending, swept, queue, row, shutdown>>

\* The pool leaves its scope.
ClosePool ==
  /\ main = "close"
  /\ queue = <<>>
  /\ \A w \in Workers : job[w] = None
  /\ Forget(Files)
  /\ main' = "sleep"
  /\ UNCHANGED <<dirVars, asked, left, job, pc, loc,
                 listed, pending, swept, queue, row, shutdown>>

-----------------------------------------------------------------------------
(* How the process ends, and starts again *)

\* The memory is lost; the directory, the rows and the fault budget are not.
Die ==
  /\ main' = "down"
  /\ listed' = {}
  /\ pending' = <<>>
  /\ swept' = {}
  /\ queue' = <<>>
  /\ job' = [t \in Threads |-> None]
  /\ pc' = [t \in Threads |-> "idle"]
  /\ loc' = [t \in Threads |-> Fresh]
  /\ result' = [f \in Files |-> None]
  /\ UNCHANGED <<dirVars, asked, row, shutdown>>

Running == main \notin {"exited", "down"}

\* The loop of curl_transcribe_audio ends without a transcription: whatever
\* the error count is, it calls exit(EXIT_FAILURE), in the thread it runs in.
ApiGivesUp(t) ==
  /\ pc[t] = "asking" /\ ~Local
  /\ Spend("api")
  /\ Die

\* A swept file has vanished and rename throws, or the file system fails
\* while the directory is listed or a file renamed: main does not catch it, and
\* std::terminate ends the process.
SweepThrows ==
  /\ \/ main = "rename" /\ (\E f \in swept : mp3[f] # "top") /\ UNCHANGED left
     \/ main \in {"sweep", "rename", "list"} /\ Spend("fs")
  /\ Die

Crash ==
  /\ Running
  /\ Spend("crash")
  /\ Die

\* The service manager (Restart=always) starts the program again.
Restart ==
  /\ main = "down" /\ ~shutdown
  /\ main' = "check"
  /\ UNCHANGED <<fileVars, listed, pending, swept, queue, row, shutdown>>

\* SIGINT or SIGTERM.
Signal ==
  /\ ~shutdown
  /\ shutdown' = TRUE
  /\ UNCHANGED <<fileVars, memoryVars, row>>

-----------------------------------------------------------------------------

MainLoop == \/ CheckShutdown \/ Sweep \/ RenameSwept \/ List \/ Sleep
            \/ NextFile \/ Record \/ LastFile
            \/ \E f \in Files : SubmitFile(f)
            \/ BeginCollect \/ Collect \/ EndCollect \/ ClosePool
            \/ SweepThrows \/ Restart

Call(t) == Process(t) /\ UNCHANGED <<memoryVars, row, shutdown>>

Fault == \/ \E t \in Threads :
              \/ ProcessFault(t) /\ UNCHANGED <<memoryVars, row, shutdown>>
              \/ ApiGivesUp(t)
         \/ Crash

World == \E f \in Files : Environment(f) /\ UNCHANGED <<memoryVars, row, shutdown>>

Next == \/ MainLoop
        \/ \E t \in Threads : Call(t)
        \/ \E w \in Workers : WorkerBegins(w)
        \/ Fault
        \/ World
        \/ Signal

Spec == Init /\ [][Next]_vars

\* The threads of the process run, the transcription service answers, and a
\* process that died is started again.  Nothing is assumed of the recorder,
\* the operator or the faults, nor that a pool closes (ThreadPool.tla shows
\* that its destructor may hang).
Fairness == /\ WF_vars(MainLoop /\ main # "close")
            /\ \A t \in Threads : WF_vars(Call(t))
            /\ \A w \in Workers : WF_vars(WorkerBegins(w))

FairSpec == Spec /\ Fairness

-----------------------------------------------------------------------------
(* Properties *)

Spent(k) == Budget[k] - left[k]

\* A call of processFile is at work on f.
InCall(f) == \E t \in Threads : job[t] = f

\* A result for f is on its way to the database.
InHand(f) == f \in Range(pending)

\* exit() in one worker may have ended the calls of others.
ExitWithOthers == Parallel /\ Spent("api") > 0

\* Filing a recording and recording it are two stores written one after the
\* other, the second by another thread and, in the parallel branch, only
\* after the futures of all earlier files.  A recording that is filed has a
\* row, or is about to get one - unless the process died (a crash; exit() in
\* another worker), or a write failed.  Files that are misnamed or rejected, or
\* that vanish, never cost another recording its row, unless they vanish during
\* the upload: then the call of the API fails, which is an exit().
FiledIsRecorded ==
  \A f \in Files :
    mp3[f] = "filed" /\ row[f] = None =>
      \/ InCall(f) \/ InHand(f)
      \/ Spent("crash") + Spent("fs") + Spent("db") > 0
      \/ ExitWithOthers

\* A recording that has a row has left the directory the program lists: it
\* is never transcribed, charged or recorded again, whatever fails.
RecordedHasLeft ==
  \A f \in Files : row[f] # None => mp3[f] \notin {"absent", "top"}

\* The .txt beside a recording and its row tell the same transcription,
\* though they are written by different steps, and a crash between them
\* makes the program transcribe again.  Only a failing write can part them, or
\* a second recording of the same name, which Appear leaves out: its .txt
\* replaces the one that is filed, and INSERT OR IGNORE keeps the old row.
TxtMatchesRow ==
  \A f \in Files :
    row[f] # None /\ txtFiled[f] # None /\ Spent("fs") = 0 => row[f] = txtFiled[f]

\* A .txt stays behind in the monitored directory, its recording filed, only
\* when the process died or a write failed between the two renames.
TxtFollowsMp3 ==
  \A f \in Files :
    txtTop[f] # None /\ mp3[f] = "filed" =>
      \/ \E t \in Threads : job[t] = f /\ pc[t] = "movingTxt"
      \/ Spent("crash") + Spent("fs") > 0
      \/ ExitWithOthers

\* No two threads process the same recording, in one sweep or across two.
OneCallPerFile ==
  \A s, t \in Threads : job[s] = job[t] /\ job[s] # None => s = t

\* A recording is sent to the service again only when a failure lost the
\* answer to the last request: a crash, an exit, or a failing write.
ResentOnlyAfterFailure ==
  \A f \in Files \ Misnamed :
    asked[f] <= 1 + Spent("crash") + Spent("api") + Spent("fs")

\* A recording that appeared complete and is long enough is never deleted.
LongRecordingKept ==
  \A f \in Files \ InPlace : audio[f] >= MinDuration => mp3[f] # "removed"

\* The program never files a recording that is still written, if the
\* recorder keeps a .lock beside it: the lock is asked for after the sizes.
FiledIsComplete == \A f \in Locking : mp3[f] = "filed" => ~open[f]

\* What the directory and the table promise together.
Archive == INSTANCE RecordingArchive WITH
             Recordings <- Files, NoEntry <- None, Entries <- Texts,
             place <- mp3, entry <- row

\* A recording moves forward only - seen, then filed, deleted or gone - and
\* gets one row, which never changes, after it has left the directory.
ImplementsArchive == Archive!Spec

\* A recording the program can handle: it appeared complete, is long enough,
\* and its name can be parsed.
Good(f) == /\ f \notin InPlace \cup Outside \cup Misnamed
           /\ audio[f] >= MinDuration /\ audio[f] # 0

Recorded(f) == row[f] # None

\* Every good recording gets its row: polling again, and starting again
\* after exit(), recover whatever was interrupted before the file was moved.
\* Excepted: a shutdown, a deletion by somebody else, a crash, a failing
\* write.
GoodIsRecorded ==
  \A f \in Files :
    mp3[f] = "top" /\ Good(f) ~>
      \/ Recorded(f) \/ shutdown \/ mp3[f] = "gone"
      \/ Spent("crash") + Spent("fs") + Spent("db") > 0
      \/ ExitWithOthers

\* Every file handed to the pool is accounted for: its future becomes ready,
\* whatever exception its call met, and the main thread consumes it.
HandedOverIsConsumed ==
  \A f \in Files : InHand(f) ~> ~InHand(f)

\* A signal ends the program, after the sweep it interrupts.
ShutdownStops == shutdown ~> ~Running

-----------------------------------------------------------------------------
(* What the repository says and the code does not do *)

\* README.md:92 promises "automatic failure recovery": what was filed when
\* the program ended gets its row later.
FiledGetsRow ==
  \A f \in Files : mp3[f] = "filed" ~> Recorded(f) \/ shutdown
=============================================================================
