--------------------------- MODULE FileProcessor ---------------------------
(***************************************************************************)
(* src/fileProcessor.cpp: processFile, one call per thread at a time, on   *)
(* the files of the monitored directory.  A step is what no other thread,  *)
(* recorder or operator can interrupt: one access to the file system, one  *)
(* request.  Everything between two of them that only computes (regular    *)
(* expressions, the glossary, logging) belongs to the step before it.      *)
(*                                                                         *)
(* The module has the state of the directory and of the calls, the actions *)
(* of processFile and, at the end, the environment: the recorder           *)
(* (SDRTrunk) that writes the files and the operator who may delete one.   *)
(* Transcriber.tla composes it with the main loop, the pool and the        *)
(* database.                                                               *)
(***************************************************************************)
EXTENDS Naturals

CONSTANTS
  Files,        \* names of recordings (the stem of the .mp3 and the .txt)
  Threads,      \* the threads that may run processFile
  None,         \* no file, no text, no result, no row
  Empty,        \* the empty FileData() that means "nothing to record"
  MaxAudio,     \* BOUND: a recording is 0 .. MaxAudio units long
  MinDuration,  \* MIN_DURATION_SECONDS, in the same unit
  InPlace,      \* files the recorder writes in the directory itself; the
                \* others appear there complete (written elsewhere, renamed)
  Locking,      \* files that have a .lock companion while they are written
  Outside,      \* entries isPathSafe rejects (links out of the directory)
  Misnamed,     \* files whose name (or text) makes extractFileInfo throw
  Local,        \* gLocalFlag: faster-whisper instead of the API
  MaxAsks,      \* BOUND: requests per file are counted up to this number
  Budget        \* BOUND: how often each kind of fault may strike

FaultKinds == {"fs", "db", "api", "removal", "crash"}

ASSUME SentinelAssumption == /\ None \notin Files /\ None \notin Nat
                             /\ Empty \notin Nat /\ Empty # None
ASSUME DurationAssumption == MaxAudio \in Nat /\ MinDuration \in Nat
ASSUME FileKindAssumption ==
  InPlace \subseteq Files /\ Locking \subseteq Files /\
  Outside \subseteq Files /\ Misnamed \subseteq Files
ASSUME BoundAssumption == /\ MaxAsks \in Nat \ {0}
                          /\ Budget \in [FaultKinds -> Nat]
                          /\ Local \in BOOLEAN

VARIABLES
  mp3,       \* where each .mp3 is
  audio,     \* how much of it has been written
  open,      \* the recorder still has it open
  txtTop,    \* the .txt in the monitored directory: a transcription or None
  txtFiled,  \* the .txt in the talkgroup's subdirectory, likewise
  asked,     \* transcriptions requested for the file so far (saturates)
  left,      \* faults of each kind that may still strike
  job,       \* the file each thread is processing, or None
  pc,        \* where each thread is in processFile
  loc,       \* its local variables
  result     \* the FileData processFile returned for a file, until consumed

dirVars == <<mp3, audio, open, txtTop, txtFiled>>
callVars == <<job, pc, loc, result>>
fileVars == <<dirVars, asked, left, callVars>>

\* A fault of the kind "api" is a call of the API that ends without a
\* transcription: it gives up, the network fails, or the file vanishes while it
\* is uploaded.

\* A transcription is named by the request that produced it; 0 is the empty
\* string, which transcribeAudioLocal returns when it fails.
Texts == 0 .. MaxAsks

Places == {"absent",   \* not recorded yet
           "top",      \* in the monitored directory
           "filed",    \* in the talkgroup's subdirectory
           "removed",  \* deleted by validateDuration
           "gone"}     \* deleted by somebody else

PC == {"idle", "entered", "sampled", "locking", "measuring", "measured",
       "asking", "answered", "movingMp3", "movingTxt"}

Locals == [sample : 0 .. MaxAudio, skip : BOOLEAN, duration : 0 .. MaxAudio,
           text : Texts \cup {None}]

Fresh == [sample |-> 0, skip |-> FALSE, duration |-> 0, text |-> None]

\* The types of the variables of this module.
FileTypeOK ==
  /\ mp3 \in [Files -> Places]
  /\ audio \in [Files -> 0 .. MaxAudio]
  /\ open \in [Files -> BOOLEAN]
  /\ txtTop \in [Files -> Texts \cup {None}]
  /\ txtFiled \in [Files -> Texts \cup {None}]
  /\ asked \in [Files -> 0 .. MaxAsks]
  /\ left \in [FaultKinds -> Nat]
  /\ job \in [Threads -> Files \cup {None}]
  /\ pc \in [Threads -> PC]
  /\ loc \in [Threads -> Locals]
  /\ result \in [Files -> Texts \cup {None, Empty}]

FileInit ==
  /\ mp3 = [f \in Files |-> "absent"]
  /\ audio = [f \in Files |-> 0]
  /\ open = [f \in Files |-> FALSE]
  /\ txtTop = [f \in Files |-> None]
  /\ txtFiled = [f \in Files |-> None]
  /\ asked = [f \in Files |-> 0]
  /\ left = Budget
  /\ job = [t \in Threads |-> None]
  /\ pc = [t \in Threads |-> "idle"]
  /\ loc = [t \in Threads |-> Fresh]
  /\ result = [f \in Files |-> None]

\* A fault of kind k strikes.
Spend(k) == left[k] > 0 /\ left' = [left EXCEPT ![k] = @ - 1]

-----------------------------------------------------------------------------
(* What processFile finds, and how it leaves *)

\* The path the call was given still names a file.
Present(t) == mp3[job[t]] = "top"

\* isFileLocked
Locked(f) == f \in Locking /\ open[f]

Goto(t, label) == pc' = [pc EXCEPT ![t] = label]

\* processFile returns r to its caller.
Return(t, r) ==
  /\ result' = [result EXCEPT ![job[t]] = r]
  /\ job' = [job EXCEPT ![t] = None]
  /\ loc' = [loc EXCEPT ![t] = Fresh]
  /\ Goto(t, "idle")

\* The exception leaves the call, and its future is never made ready.
Throw_Uncaught(t) ==
  /\ job' = [job EXCEPT ![t] = None]
  /\ loc' = [loc EXCEPT ![t] = Fresh]
  /\ Goto(t, "idle")
  /\ UNCHANGED result

\* An exception inside the try block: logged, and the file stays where it is.
Throw(t) == Return(t, Empty)

\* processFile(path) is called.
StartFile(t, f) ==
  /\ pc[t] = "idle"
  /\ job' = [job EXCEPT ![t] = f]
  /\ Goto(t, "entered")
  /\ UNCHANGED <<dirVars, asked, left, loc, result>>

-----------------------------------------------------------------------------
(* What processFile decides.  An operator with a suffix _X is the operator  *)
(* before the underscore as a plausible bug X would leave it; no action     *)
(* uses it.                                                                 *)

\* The two sizes isFileBeingWrittenTo compares.
SizeChanged(t) == loc[t].sample # audio[job[t]]

TooShort_OrEqual(t) == loc[t].duration # 0 /\ loc[t].duration <= MinDuration

\* validateDuration's verdict; an unreadable file (duration 0) is not short.
TooShort(t) == /\ loc[t].duration # 0
               /\ loc[t].duration < MinDuration

ShouldSkip_DurationOnly(t) == loc[t].duration = 0

\* shouldSkip in processFile.
ShouldSkip(t) == loc[t].skip \/ loc[t].duration = 0

\* isPathSafe rejects the path.
RejectPath(t) ==
  /\ pc[t] = "entered" /\ job[t] \in Outside
  /\ Return(t, Empty)
  /\ UNCHANGED <<dirVars, asked, left>>

\* isFileBeingWrittenTo, the first file_size.
FirstSize(t) ==
  /\ pc[t] = "entered" /\ job[t] \notin Outside
  /\ Present(t)
  /\ loc' = [loc EXCEPT ![t].sample = audio[job[t]]]
  /\ Goto(t, "sampled")
  /\ UNCHANGED <<dirVars, asked, left, job, result>>

\* ... and the second, 500 ms later; if they differ the lock is not asked for.
SecondSize(t) ==
  /\ pc[t] = "sampled"
  /\ Present(t)
  /\ loc' = [loc EXCEPT ![t].skip = SizeChanged(t)]
  /\ Goto(t, IF SizeChanged(t) THEN "measuring" ELSE "locking")
  /\ UNCHANGED <<dirVars, asked, left, job, result>>

\* file_size throws when the file has vanished.
SizeThrows(t) ==
  /\ \/ pc[t] = "entered" /\ job[t] \notin Outside
     \/ pc[t] = "sampled"
  /\ ~Present(t)
  /\ Throw(t)
  /\ UNCHANGED <<dirVars, asked, left>>

\* isFileLocked.
CheckLock(t) ==
  /\ pc[t] = "locking"
  /\ loc' = [loc EXCEPT ![t].skip = Locked(job[t])]
  /\ Goto(t, "measuring")
  /\ UNCHANGED <<dirVars, asked, left, job, result>>

\* getMP3Duration: a file that cannot be opened or decoded has no duration.
MP3Duration(t) == IF Present(t) THEN audio[job[t]] ELSE 0

\* validateDuration, called whatever skipFile said.
Measure(t) ==
  /\ pc[t] = "measuring"
  /\ loc' = [loc EXCEPT ![t].duration = MP3Duration(t)]
  /\ Goto(t, "measured")
  /\ UNCHANGED <<dirVars, asked, left, job, result>>

\* It deletes a short file itself and returns 0.0, and the call returns.
Discard(t) ==
  /\ pc[t] = "measured"
  /\ TooShort(t)
  /\ mp3' = IF Present(t) THEN [mp3 EXCEPT ![job[t]] = "removed"] ELSE mp3
  /\ Return(t, Empty)
  /\ UNCHANGED <<audio, open, txtTop, txtFiled, asked, left>>

\* remove throws, and the file stays.
DiscardThrows(t) ==
  /\ pc[t] = "measured"
  /\ TooShort(t)
  /\ Spend("fs")
  /\ Throw(t)
  /\ UNCHANGED <<dirVars, asked>>

Skip(t) ==
  /\ pc[t] = "measured"
  /\ ~TooShort(t)
  /\ ShouldSkip(t)
  /\ Return(t, Empty)
  /\ UNCHANGED <<dirVars, asked, left>>

-----------------------------------------------------------------------------
(* Transcription *)

ToTranscribe(t) == pc[t] = "measured" /\ ~TooShort(t) /\ ~ShouldSkip(t)

CountAsk(f) == asked' = [asked EXCEPT ![f] = IF @ < MaxAsks THEN @ + 1 ELSE @]

\* curl_transcribe_audio or local_transcribe_audio is called.
Request(t) ==
  /\ ToTranscribe(t)
  /\ Present(t)
  /\ CountAsk(job[t])
  /\ Goto(t, "asking")
  /\ UNCHANGED <<dirVars, left, job, loc, result>>

\* The file has vanished: checkFileValidity throws; faster-whisper fails and
\* transcribeAudioLocal returns "".
RequestMissing(t) ==
  /\ ToTranscribe(t)
  /\ ~Present(t)
  /\ IF Local
     THEN /\ loc' = [loc EXCEPT ![t].text = 0]
          /\ Goto(t, "answered")
          /\ UNCHANGED <<job, result>>
     ELSE Throw(t)
  /\ UNCHANGED <<dirVars, asked, left>>

Answer(t) ==
  /\ pc[t] = "asking"
  /\ loc' = [loc EXCEPT ![t].text = asked[job[t]]]
  /\ Goto(t, "answered")
  /\ UNCHANGED <<dirVars, asked, left, job, result>>

\* A local failure becomes an empty transcription.  (When the API gives up
\* the process exits: Transcriber!ApiGivesUp.)
LocalFails(t) ==
  /\ pc[t] = "asking" /\ Local
  /\ Spend("api")
  /\ loc' = [loc EXCEPT ![t].text = 0]
  /\ Goto(t, "answered")
  /\ UNCHANGED <<dirVars, asked, job, result>>

-----------------------------------------------------------------------------
(* Filing *)

\* extractFileInfo throws: name too short for substr, number too large for
\* stoi, glossary key that is not a regular expression.  (A talkgroup too large
\* for stoi throws before the request, when the prompt is looked up.)
RejectName(t) ==
  /\ job[t] \in Misnamed
  /\ pc[t] = "answered" \/ ToTranscribe(t)
  /\ Throw(t)
  /\ UNCHANGED <<dirVars, asked, left>>

\* An existing .txt is kept.
Save_KeepsOld(t) ==
  /\ pc[t] = "answered" /\ job[t] \notin Misnamed
  /\ txtTop' = [txtTop EXCEPT ![job[t]] = IF @ = None THEN loc[t].text ELSE @]
  /\ Goto(t, "movingMp3")
  /\ UNCHANGED <<mp3, audio, open, txtFiled, asked, left, job, loc, result>>

\* saveTranscription: the .txt next to the .mp3.
Save(t) ==
  /\ pc[t] = "answered" /\ job[t] \notin Misnamed
  /\ txtTop' = [txtTop EXCEPT ![job[t]] = loc[t].text]
  /\ Goto(t, "movingMp3")
  /\ UNCHANGED <<mp3, audio, open, txtFiled, asked, left, job, loc, result>>

\* The ofstream fails silently: nothing is written, or an empty file.
SaveFails(t) ==
  /\ pc[t] = "answered" /\ job[t] \notin Misnamed
  /\ Spend("fs")
  /\ \/ UNCHANGED txtTop
     \/ txtTop' = [txtTop EXCEPT ![job[t]] = 0]
  /\ Goto(t, "movingMp3")
  /\ UNCHANGED <<mp3, audio, open, txtFiled, asked, job, loc, result>>

\* Only the .txt is moved.
MoveMp3_Stays(t) ==
  /\ pc[t] = "movingMp3"
  /\ Goto(t, "movingTxt")
  /\ UNCHANGED <<dirVars, asked, left, job, loc, result>>

\* moveFiles: create_directory and the rename of the .mp3, if it exists.
MoveMp3(t) ==
  /\ pc[t] = "movingMp3"
  /\ mp3' = IF Present(t) THEN [mp3 EXCEPT ![job[t]] = "filed"] ELSE mp3
  /\ Goto(t, "movingTxt")
  /\ UNCHANGED <<audio, open, txtTop, txtFiled, asked, left, job, loc, result>>

\* The .txt is copied instead of moved.
MoveTxt_Copies(t) ==
  /\ pc[t] = "movingTxt"
  /\ txtFiled' = [txtFiled EXCEPT ![job[t]] = txtTop[job[t]]]
  /\ Return(t, loc[t].text)
  /\ UNCHANGED <<mp3, audio, open, txtTop, asked, left>>

\* The .txt follows, if it exists, and processFile returns its FileData.
MoveTxt(t) ==
  /\ pc[t] = "movingTxt"
  /\ IF txtTop[job[t]] # None
     THEN /\ txtFiled' = [txtFiled EXCEPT ![job[t]] = txtTop[job[t]]]
          /\ txtTop' = [txtTop EXCEPT ![job[t]] = None]
     ELSE UNCHANGED <<txtFiled, txtTop>>
  /\ Return(t, loc[t].text)
  /\ UNCHANGED <<mp3, audio, open, asked, left>>

\* One of the file system calls of moveFiles throws: an error of the file
\* system, or the .mp3 vanished between exists and rename.
MoveThrows(t) ==
  /\ \/ pc[t] \in {"movingMp3", "movingTxt"} /\ Spend("fs")
     \/ pc[t] = "movingMp3" /\ ~Present(t) /\ UNCHANGED left
  /\ Throw(t)
  /\ UNCHANGED <<dirVars, asked>>

-----------------------------------------------------------------------------

\* A call makes progress ...
Process(t) ==
  \/ RejectPath(t) \/ FirstSize(t) \/ SecondSize(t) \/ SizeThrows(t)
  \/ CheckLock(t) \/ Measure(t) \/ Discard(t) \/ Skip(t)
  \/ Request(t) \/ RequestMissing(t) \/ Answer(t)
  \/ RejectName(t) \/ Save(t) \/ MoveMp3(t) \/ MoveTxt(t)

\* ... or suffers a fault that processFile handles.
ProcessFault(t) == DiscardThrows(t) \/ LocalFails(t) \/ SaveFails(t) \/ MoveThrows(t)

-----------------------------------------------------------------------------
(* The environment: SDRTrunk and the operator (external) *)

\* A recording appears: begun in place, or complete.  Its name is used once
\* (SDRTrunk's names begin with the time, to the second): that a recording
\* comes under the name of one that was there before is left out.
Appear(f) ==
  /\ mp3[f] = "absent"
  /\ mp3' = [mp3 EXCEPT ![f] = "top"]
  /\ \/ /\ f \in InPlace
        /\ open' = [open EXCEPT ![f] = TRUE]
        /\ UNCHANGED audio
     \/ /\ f \notin InPlace
        /\ \E n \in 0 .. MaxAudio : audio' = [audio EXCEPT ![f] = n]
        /\ UNCHANGED open
  /\ UNCHANGED <<txtTop, txtFiled, asked, left, callVars>>

\* The recorder appends; its descriptor follows the file wherever it goes.
Append1(f) ==
  /\ open[f]
  /\ audio[f] < MaxAudio
  /\ audio' = [audio EXCEPT ![f] = @ + 1]
  /\ UNCHANGED <<mp3, open, txtTop, txtFiled, asked, left, callVars>>

\* The recorder closes the file (and drops its lock).
Finalize(f) ==
  /\ open[f]
  /\ open' = [open EXCEPT ![f] = FALSE]
  /\ UNCHANGED <<mp3, audio, txtTop, txtFiled, asked, left, callVars>>

\* Somebody else removes a recording from the directory.
RemoveExternally(f) ==
  /\ mp3[f] = "top"
  /\ Spend("removal")
  /\ mp3' = [mp3 EXCEPT ![f] = "gone"]
  /\ UNCHANGED <<audio, open, txtTop, txtFiled, asked, callVars>>

Environment(f) ==
  Appear(f) \/ Append1(f) \/ Finalize(f) \/ RemoveExternally(f)
=============================================================================
