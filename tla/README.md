# TLA+ models of the SDRTrunk transcriber

The program watches a directory into which SDRTrunk writes radio recordings
(`.mp3`). On every poll it transcribes the recordings it finds, by an HTTP API
or by faster-whisper in an embedded Python, files each `.mp3` with a `.txt` in
a subdirectory per talkgroup, and writes a row into an SQLite table. With `-p`
it does so on a pool of threads. These modules model the parts of it in which
order, concurrency and failure matter; TLC checks them on small instances, and
TLAPS proves the central results for all instances.

## The system

| Component | State it keeps | Operations | What makes it correct |
|---|---|---|---|
| Thread pool (`include/ThreadPool.h`) | queue, `stop_`, mutex, condition variable, threads | worker loop, `enqueue`, destructor | no task lost, run twice or left while a worker sleeps; the destructor drains and returns |
| Polling loop (`src/main.cpp`) | files of this sweep, futures, shutdown flag | sweep, list, sequential and parallel branch, `insertFileData`, signal handler | what is filed gets a row, what has a row is never done again, a signal stops it |
| File processing (`src/fileProcessor.cpp`, with `MP3Duration.cpp` and `security.cpp`) | the directory; local variables of each call | `processFile`: path check, two sizes, lock, duration, request, `.txt`, two renames | complete recordings only, none deleted wrongly, `.txt` and row agree |
| API client (`src/curlHelper.cpp`) | `requestTimestamps`, `errorTimestamps`, `apiErrorCount`, all unprotected | retry loop, rate limiter, exit | bounded requests per call, errors counted, calls end |
| Local transcription (`src/fasterWhisper.cpp`, pybind11 build) | interpreter, GIL, `python_init_flag`, `transcribe_mutex` | one-time start, transcription | one transcription at a time, no deadlock, failures do not stick |
| Database (`src/DatabaseManager.cpp`) | `recordings`, `recordings_old`, transaction, indexes | `createTable`, `migrateSchema`, `insertRecording` | a file keeps its first transcription through migrations and crashes |
| Glossary reader (`src/jsonParser.cpp`, `readMappingFile`) | position in the text, entries read so far | two formats tried in turn, variants without hyphens | ends on every text, reads well-formed ones as meant |
| Transcription processing (`src/transcriptionProcessor.cpp`) | mappings collected so far | one glossary file after the other, look-up of the words heard | what is heard is explained by the first file that knows it; an unusable file takes no other with it |
| YAML reader (`src/yamlParser.cpp`) | lines, stack of open nodes, tree | one line after the other; accessors | the tree is the one the indentation stands for |
| Configuration (`src/ConfigSingleton.cpp`) | `talkgroupFiles` and the settings, filled once before any thread exists | `initialize`; look-up by talkgroup | a well-formed file is read as meant; start-up ends |
| Command line (`src/commandLineParser.cpp`) | two flags, set once | read only afterwards | - |
| Service unit (`install-systemd-service.sh`) | - | starts the program again when it ends | - |

How they interact: `main` reads `config.yaml` into a tree, `initialize` copies
the tree into the singleton, and everything later reads the singleton. `main`
then calls `find_and_move_mp3_without_txt` and
`processDirectory` in a loop. `processDirectory` calls `processFile` itself, or
submits it to a pool it constructs for this one sweep and takes the results
from the futures in the order of submission. `processFile` calls one of the two
transcribers, cuts the talkgroup out of the name - once before the request for
its prompt, once after it for its glossaries -, looks up the words it heard, and
moves the files; only after it has returned, and on the main
thread, does `insertFileData` write the row. The hard behaviours follow from
that: two stores (directory and table) written at different times by different
threads; a recorder that still writes a file, or an operator who deletes it,
between any two looks at it; `exit()` in a pool thread while others are at
work; crashes and restarts; a destructor that notifies without the mutex;
globals without a mutex; an interpreter that must start only once; two
hand-written parsers, of which one runs on the threads that transcribe, and one
before anything that could catch what it leads to. They are
listed one by one, at their lines, under `hazards` in `PROJECT.json`.

## The modules

| Module | Models | Notes |
|---|---|---|
| `TaskExecutor` | what callers may rely on of a pool | abstract |
| `ThreadPool` | `ThreadPool.h`, step by step | implements `TaskExecutor` |
| `FileProcessor` | `processFile`, the recorder and the operator | variables and actions, no specification of its own |
| `Transcriber` | `main.cpp` with `FileProcessor` and a `TaskExecutor` | the composition; crashes and restarts |
| `RecordingArchive` | what the whole promises about a recording | abstract; `Transcriber` implements it |
| `CurlHelper` | `curl_transcribe_audio` on several threads | |
| `DatabaseManager` | the table across starts, SQL errors and crashes | |
| `FasterWhisper` | `local_transcribe_audio` on several threads | |
| `GlossaryFile` | what a glossary file is and what it says, by its outline | no code: what the parser is measured by; `JsonParser` extends it |
| `JsonParser` | `parseGlossaryFile`, `parse`, `readMappingFile` on tokens | no specification of its own |
| `TranscriptionProcessor` | `generateV2Transcription` with `JsonParser` for each of its files | |
| `YamlParser` | `yamlParser.cpp`, line by line | no specification of its own |
| `ConfigSingleton` | `loadConfig`, `initialize`, `parseTalkgroupIDs` on the tree of `YamlParser` | no specification of its own |
| `TalkgroupLookup` | `ConfigSingleton`, and then what `processFile` looks up for a recording | the composition |
| `MCTranscriber`, `MCDatabaseManager`, `MCTranscription`, `MCConfig` | budgets of faults, symmetry, texts | for TLC; the other modules need only a `.cfg` |
| `ThreadPoolProofs`, `CurlHelperProofs`, `FasterWhisperProofs`, `DatabaseManagerProofs`, `TalkgroupLookupProofs` | theorems | each extends the module it is named after |
| `TranscriptionProofs` | theorems | extends `TranscriptionProcessor` |
| `TranscriberProofs` | theorems | extends `Transcriber` |
| `YamlParserProofs` | lemmas about the steps of `YamlParser` | `TalkgroupLookupProofs` extends it |

An operator `Name_Suffix` is `Name` as a plausible bug would leave it
(`Undo_Autocommit`, `LockOrder_GilFirst`). No action uses one; put in the place
of the original, it must make TLC find the property it belongs to violated, as
listed under `mutants`.

**ThreadPool.** `wpc` is where a worker is in its lambda, `opc` where the owner
is; `tasks`, `stop`, `mutex` are the members; `ready` are the shared states that
have been set. What the owner does under the mutex is one step (`Enqueue`);
`notify_one` is a second step, since it comes after the unlock. A worker's
wait is `Park` (predicate found false) and `Block` (registered, mutex
released), because the destructor stores `stop_` without the mutex and can come
between them. Waits may end spuriously.

**FileProcessor and Transcriber.** One step is one access to the file system or
one request; what only computes belongs to the step before it. A recording has
a place (`mp3`: absent, top, filed, removed, gone), a length (`audio`), may
still be written (`open`), and has a `.txt` at the top or filed. A transcription
is the number of the request that produced it, so that two requests for one
file are told apart; 0 is the empty text. `Misnamed` are the files for which
`extractFileInfo` throws (name too short or number too large, a glossary key
that is no regular expression). Faults (failing file system call, failing SQL,
an API that gives up, a deletion, a crash) are drawn from `Budget`; `left` says
what remains, and properties may refer to what was spent. A fault of the API is any
call of it that ends without a transcription: it gives up, the network fails, or
the file vanishes during the upload; each ends the process. The sweep at the
beginning of a poll has no handler: a file that vanished, or a failing file
system call, ends the process too (`SweepThrows`). `Die` is the end of
the process: the memory is gone, directory and rows stay; `Restart` is
`Restart=always`. The pool is `Pool == INSTANCE TaskExecutor`; `ClosePool`
requires it drained, which `ThreadPool` shows. The row of a file is the function
`row`; that one `INSERT OR IGNORE` keeps the first is shown in `DatabaseManager`.

**CurlHelper.** `apiErrorCount++` is a load and a store, two `push_back`s at a
time may lose an element or kill the process. A server may accept the connection
and never answer (`Silent`): its thread stays in `curl_easy_perform`. Time is
left out: how many requests leave the window is a choice, and sleeping changes
no state.

**DatabaseManager.** A step is a statement; `saved` is what ROLLBACK, or the
recovery after a crash, restores. Initial states are all the tables earlier
versions may have left: with or without `id` and `duration REAL`, with or
without UNIQUE.

**FasterWhisper.** `once` is the `call_once` flag, `guard` the interpreter,
`owner` the owner of each lock. Constructing a second interpreter throws; an
exception inside `call_once` leaves the flag open. A thread whose import fails
keeps the GIL, as the code does not give it up there; nobody can wait for it
afterwards, because nobody gets past the flag.

**JsonParser.** A text is a sequence of tokens; a step is one round of one of the
parser's loops, `at` says which. White space is kept only at the end of a text,
where reading past it matters; strings contain no brackets (the code counts them
when it skips a nested value, quoted or not). A well-formed file comes with an
outline, in `GlossaryFile`: where its brackets and the commas between members,
elements and fields are, and which bracket is the partner of which. What it is to
be well-formed, and what the file then says, is stated by the outline, without
the parser and its way of counting brackets. An exception ends in an empty
mapping (`Throw`). A loop that does not advance is a step that changes nothing,
and a liveness property sees it. `WithVariants` leaves open which of two
hyphenated keys wins, since the order is that of a hash table.

**TranscriptionProcessor.** A reply is the sequence of the words of its text,
`Quote` an escaped quotation mark at which `extractActualTranscription` stops.
`Read` is one step of `JsonParser` on the file at hand; `NextFile` merges its
mapping and begins the next file. `Irregular` are the keys that are no regular
expression. What a word is, and that a key matches without regard to case, is
left out: a key is heard or it is not.

**YamlParser and ConfigSingleton.** A line is its indentation, what stands before
its first colon, and a scalar, a list or nothing behind it; a quoted value and
the same value without quotes are one. The tree is a function on paths of keys.
`Number`, `Whole` and `Ranges` say what `std::stoi` and `parseTalkgroupIDs` make
of a word; `IntMax` is the largest int, where a range never ends. The keys of
`TALKGROUP_FILES` are taken in any order, since it is that of a hash table.
What the tree should be is said without a stack: `PathsOf` gives each line the
nearest line above that opens a node, is indented less and has not been closed
since; `Said` is what all lines say, `Left` what is not taken back by a later value;
and `StandsFor` compares a tree with it. `Means` says what a whole file means, by its
lines, without tree and stack; the files marked "meant" mean what they are told
to (`MeantAssumption`, which TLC evaluates for each of them).

**TalkgroupLookup.** A file name is a sequence of tokens: runs of digits, the
marks the regular expressions look for, and other text. `SendRequest` is
`extractTalkgroupIdFromFilename` and the look-up of the prompt,
`extractFileInfo` the function of that name. One recording is enough: nothing of
it outlives the call, and nothing changes the configuration.

## The runs

| Run | Instance | Shows |
|---|---|---|
| `ThreadPool_protocol` | 3 workers, 2 tasks; 20,738 states | conservation, draining, a taker for every queued task, no needless sleeper, every task runs, refinement of `TaskExecutor` |
| `ThreadPool_destructor` | 1 worker, 1 task | *violated:* the destructor may never return |
| `Transcriber_parallel` | 2 files, 2 workers, API, one fault of each kind; 1,135,173 states | directory, table, `.txt` and requests fit together; refinement of `RecordingArchive` |
| `Transcriber_recorder` | a file written in place under a lock, a file whose name cannot be parsed, 2 workers, local, one deletion; 225,486 states | only complete recordings are filed, long ones are never deleted, one call per file, every future is consumed |
| `Transcriber_sequential` | 3 files (one misnamed, one outside), API with one exit, one deletion; 110,506 states | every good recording is recorded in the end; a signal ends the program |
| `Transcriber_exit` | 2 files, 2 workers, one exit | *violated:* filed recordings never get their row |
| `CurlHelper_calls` | 2 threads, 2 calls, 2 retries; 31,882 states | no overcounting; every call ends unless its own server stays silent |
| `DatabaseManager_migration` | 2 files, 2 transcriptions, 3 rows (old tables 2), 2 SQL errors, any number of crashes; 78,934 states | the first transcription is kept, no migration is blocked, ready means migrated, indexes return |
| `FasterWhisper_calls` | 4 threads, any number of calls; 4,929 states | one transcription at a time, imported before use, no circular wait, every call ends |
| `Transcription_glossary` | glossaries of one or two entries in every arrangement; flat files with values of every kind, keys given again and white space at the end; two glossaries and two flat files cut off at every token; eight beginnings followed by any three tokens; pairs of small, missing or broken files, also with keys that are no regular expression or become none without hyphens, with five replies; 267,913 states | a well-formed glossary is read as meant, what is heard is explained by the first file that knows it, a file that is cut off never hangs the thread, and there is one loop in which any other can |
| `Config_read` | well-formed files of up to two entries with overlapping talkgroups, in several layouts; all files of up to four lines out of twelve; a file with any line lost or replaced; a recording with any of 43 names; 221,373 states | the tree follows the indentation, a well-formed file is read as meant, start-up ends, and prompt, glossaries and filing are of one talkgroup |
| `Config_documented` | the examples of `README.md:204` and `sample-config.yaml:27` | *violated*, by either alone: with the first the program ends at start-up, with the second it runs without glossaries |

Bounds, and why they are enough:

- *Threads.* Two workers are what every race here is between; the pool has a
  third, because a notification may choose between two sleepers while a third is
  on its way.
- *Files.* Two, so that one is ahead of the other in pending, queue and table; a
  third only for the kind of file that never enters a call.
- *Audio.* `MaxAudio` = `MinDuration` = 2: unreadable (0), too short (1), long
  enough (2, the boundary).
- *Requests.* `MaxAsks` is above what the faults of the parallel run can cause,
  so that nothing saturates there. In the runs with a misnamed file the count
  saturates, and no property of those runs reads it.
- *Faults.* One of each kind, at any point: each property names the faults that
  excuse it, and a second fault of a kind does nothing a first cannot do to
  another file. SQL errors are two, so that an error can follow a failed
  migration.
- *Texts.* Two entries are what it takes for one to replace the other or to follow
  a broken one; three arbitrary tokens behind a beginning get every loop into
  and out of every branch. The keys include two that lose their hyphens to the
  same word. Two files are what it takes for one to come before another.
- *Configuration.* Four lines go in three levels and come out at once, repeat a key,
  or put a scalar where a node was open. `IntMax` is 7, so that numbers that do
  not fit, and a range up to the largest, are among the words; talkgroups 1, 2, 4
  are in two keys or in one.
- *Symmetry* is used only in runs without liveness, over workers, files and
  transcriptions nothing distinguishes.
- Deadlock is checked in `DatabaseManager` and `FasterWhisper`; the others
  really stop (the pool is destroyed, the program exits, calls are used up).

### Fairness

- Threads that can run do run: weak fairness of the main loop, of each call, of
  each worker. The operating system provides it.
- Whoever waits for a mutex, the GIL or `call_once` while it becomes free again
  and again gets it (strong fairness of those steps): true of the locks in use,
  though no standard promises it.
- In `Transcriber` the transcription service answers, or fails. `curlHelper.cpp`
  sets no timeout: in `CurlHelper` a server may stay silent, which is no fair
  step, and `EveryCallEnds` excuses that call and no other.
- The parsers and the look-ups run (`TranscriptionProcessor`, `TalkgroupLookup`),
  with nobody to wait for.
- A process that died is started again (`Restart=always`).
- Nothing is assumed of the recorder, the operator, faults, signals, spurious
  wake-ups, or an owner that submits or leaves. `ClosePool` is not fair: the
  destructor may hang. `ShutdownStops` is therefore checked in the sequential mode.

## Disagreements with the documentation

Shown by a run, each with its counterexample:

1. `~ThreadPool` stores `stop_` and notifies without `queueMutex_`. A worker that
   has found its predicate false and is not registered yet misses the
   notification, and `join` waits for ever. `request_stop` does not wake a
   `std::condition_variable`. (`ThreadPool.h:37`)
2. `exit()` in one pool thread loses the rows of recordings others have already
   moved; no later poll sees them. (`curlHelper.cpp:291`)
3. Nothing removes a comment behind a value. In the example of `README.md:204` the
   comment behind `52197-52201:` is the value of that key, `GLOSSARY` and `PROMPT`
   become talkgroup keys, `std::stoi` throws, and the program terminates at
   start-up. (`yamlParser.cpp:313`, `ConfigSingleton.cpp:23`)

   A list that begins on the line below `GLOSSARY:`, as in `sample-config.yaml:28-32`,
   is stored as `GLOSSARY.GLOSSARY`: `initialize` finds no list, and the talkgroup
   silently has no glossaries. The same run holds this example. The properties
   of `Config_read` cannot see it: they take over the parser's rule for where such
   a list goes. (`yamlParser.cpp:298`)

Plain from the code, without a run:

- `validateDuration` deletes a short file even if `skipFile` has just said it is
  being written: a recording that has only begun is removed. (`fileProcessor.cpp:324`)
- A recorder that keeps no `.lock` and writes nothing for 500 ms is filed in the
  middle: `FiledIsComplete` holds for those that keep one. (`fileProcessor.cpp:46`)
- A second recording of the same name overwrites the `.txt` that is filed, while
  `INSERT OR IGNORE` keeps the old row: the two then differ. In `FileProcessor` a
  name is used once, so `TxtMatchesRow` does not speak of
  it. (`DatabaseManager.cpp:131`, `fileProcessor.cpp:531`)
- With `MAX_REQUESTS_PER_MINUTE: 0` the rate limiter reads the front of an empty
  deque before every request. (`curlHelper.cpp:172`)
- After one failed import every local transcription fails, since the next
  attempt constructs a second interpreter, which throws. (`fasterWhisper.cpp:58`)
- Lists in dashes (`docs/CONFIGURATION.md:212-216`) are skipped as lines without a
  key. (`yamlParser.cpp:298`)
- A talkgroup key in quotes (`docs/CONFIGURATION.md:235`) keeps them, and
  `std::stoi` throws at start-up. (`yamlParser.cpp:182`)
- `true  # Only glossary debugging` (`docs/CONFIGURATION.md:647`) is read as
  false. (`yamlParser.cpp:325`, `:40`)
- `ERROR_WINDOW_SECONDS` and `RATE_LIMIT_WINDOW_SECONDS`, optional in
  `docs/API.md:461-466`, end the program when they are missing: `as<int>` of an
  empty node throws. (`ConfigSingleton.cpp:53`)
- A transcription is cut at its first escaped quotation mark, and what follows it
  is never looked up. (`transcriptionProcessor.cpp:217`)
- A name without a talkgroup is filed under 1234567, and talkgroup 0 under 0; both
  get the glossaries configured for that number, neither its
  prompt. (`fileProcessor.cpp:579`)
- A network error leaves the retry loop as an exception and ends the process
  after one request, though `docs/API.md:528` says it is
  retried. (`curlHelper.cpp:280`)
- A glossary array with an element that is no object, `"GLOSSARY": ["a"]`, or
  with an object that breaks off, makes the parser loop for ever: the run
  `Transcription_glossary` shows that this happens in no other loop, and never to
  a file that was merely cut off. (`jsonParser.cpp:277`)
- A glossary without complete entries is read a second time as a flat file, in
  which `GLOSSARY` becomes a key and the text of the array its
  meaning. (`transcriptionProcessor.cpp:157`)
- `requestTimestamps` is never appended to: the rate limit of
  `sample-config.yaml:51` limits nothing. (`curlHelper.cpp:172`)
- Both ways out of the retry loop call `exit(EXIT_FAILURE)`: the threshold of
  `sample-config.yaml:57` decides only a message, and one recording the API keeps
  refusing stops the program on every start. (`curlHelper.cpp:284`)
- The refused phrase is compared with the whole body, which is JSON around
  it. (`curlHelper.cpp:93`)
- `filepath` in the row is the path before the move; `docs/API.md:198` calls it
  "Full path to file". (`fileProcessor.cpp:574`)
- A recording whose name cannot be parsed is transcribed again on every
  poll. (`fileProcessor.cpp:599`)
- The indexes are created before the migration, which drops them with the old
  table; they return at the next start. (`DatabaseManager.cpp:124`)

## The proofs

All hold for every value of the constants under the named assumptions of the
modules (sentinels distinct from data; a finite, non-empty set of workers;
bounds that are natural numbers; the form of SDRTrunk's file names). Each
inductive invariant was an invariant of a TLC run before it was proved.

**ThreadPoolProofs.** The inductive invariant `IInv` is `TypeOK`,
`TaskConservation`, `QueuedTaskHasTaker` and `Control`, which says how the
control states go together: who holds the mutex, that a running worker and only
a running worker has a task, that a worker has exited only after the stop and
with an empty queue, who has been joined. Without it neither conservation nor
draining is inductive. From it: `TypeCorrect`, `ConservationCorrect`,
`TakerCorrect`; `DrainCorrect` (all joined, hence all exited, hence the queue
empty and nothing held, hence by conservation all tasks ready); and
`Refinement`, step by step: `Enqueue` is `Submit`, `Take` is `Begin`, `Finish` is
`Complete`, `Return` is `Close`, all others stutter. Lemmas say what `Append`
and `Tail` do to the elements of a sequence and to their being distinct.
`SleeperCorrect` counts: `NoSleeperNeeded` is not inductive, because `Enqueue`
adds a task before it wakes a worker. `SleeperInv` says by how much it may be
missed, one notification, and only between the unlock and `notify_one`; the
lemma `HeadingCount` says how one worker that joins or leaves those on their way
changes their number.

**TranscriberProofs.** `IInv` adds to `TypeOK` and `RecordedHasLeft` the way a
transcription takes from the call (`MovingHasLeft`) to the result
(`ResultHasLeft`), that a busy thread has a file (`BusyHasJob`), and that
whatever is listed, queued or processed has been in the directory
(`HeldWasSeen`). Most steps only have to respect a handful of facts (`Respects`),
which imply that the invariant is kept; the few others have a lemma each. From
it: `TypeCorrect`, `RecordedHasLeftCorrect`, and `Refinement`, that directory and
table implement `RecordingArchive` through every fault, crash and restart.

In its second part, that no two threads have one recording (`OneCallPerFile`)
depends on where the main thread is: `Exclusion` says that a recording is listed,
queued once, or in one call; `Phases`, that queue and workers are empty outside
the pool's lifetime, and the list outside the sweep, so that a new sweep cannot
meet the calls of the last. What a call may do to a recording rests on what it saw several
steps ago: `MeasuredInFull`, that what was measured of a complete recording is its
length; `LockSeenFree`, that who is about to file a locked recording has seen it
without the lock after the recorder closed it. From them: `OneCallPerFileCorrect`,
`LongRecordingKeptCorrect`, `FiledIsCompleteCorrect`.

In its third part, the stores of a recording are written by different steps
of different threads. `HeldInv` says that what is listed, queued or in a call has
no result and no row yet, has not been filed unless by the call itself, and that
somebody waits for its result; so a result is consumed once and belongs to the
call that was made. `StoreInv` adds what is on the way: the transcription of a
filed recording (`OnTheWay`), the `.txt` that agrees with what the call has and
then returns (`SavedMatches`), and that all requests for a recording that is still
to be transcribed were in vain, each for a fault that was spent (`AskedInVain`).
Faults are never given back (`BudgetKept`). Steps are of three kinds: those of a call,
those that end the process (`Ending`), and the rest, which write no `.txt` and
send no request (`Keeps`). From it: `FiledIsRecordedCorrect`,
`TxtMatchesRowCorrect`, `TxtFollowsMp3Correct`, `ResentOnlyAfterFailureCorrect`.

**DatabaseManagerProofs.** `IInv` adds to `TypeOK` and `NothingStranded` that a table
with the new schema has the constraint and keeps it (`Constrained`); what the
statements of the migration have done so far, what `ROLLBACK` goes back to, and
that the copy has every file of the old table with the same transcription
(`MidMigration`); and what holds as long as no statement has failed (`Faultless`). The
copy is a recursive function over the rows; that it keeps the first row of each
file is proved by induction with the predicate as a set (`LeastNat`,
`NatSetInduction`). From it: `TypesHold`, `NothingIsStranded`, `ReadyIsMigrated`,
and the action properties `FirstTranscriptionIsKept` and `IndexedUnlessJustMigrated`.
They hold for old tables of any number of rows (`MaxOldRows`).

**TalkgroupLookupProofs.** Lemmas say what the regular expressions find in a sequence
of tokens: behind a mark, the first hit. For a name of the form `SDRTrunkName`,
which is the list in the comment above `extractTalkgroupIdFromFilename`,
`MeantDigits` shows that both functions read the talkgroup that is meant, whatever
else the name contains. `Asking` says that nobody asks before the configuration is
complete, and that the prompt that was sent is what the second reading would look
up; from it, `OneTalkgroupCorrect`. `Adding` follows the loop of `initialize` over
the keys; from it `ConfiguredCorrect`, which no run checks by itself: in whatever order the
hash table has the keys, every talkgroup has the glossaries and the prompt of one
key that lists it, none is missing or made up, and all are ints. `Reading` says
that the tree is of the file, and start-up on its way; with `Adding` and the lemmas
below, `ReadsAsMeantCorrect`.

**YamlParserProofs.** The tree is built and torn down by `operator[]` and `setValue`
along paths, so the first lemmas are about prefixes of sequences; `EnterStands` and
`AssignStands` say what one more thing that is said does to a tree that stands for
the rest. The invariant is `Nesting`: the stack is the lines that are open, one
deeper and indented more than the other (`StackFollows`); the nodes it points to
exist (`OpenNodesExist`); and the tree stands for what the lines before say. Without
the second, the third is not inductive: a line that is assigned destroys nodes,
and the open ones must not be among them. That the recursive functions `Lines` and
`PathsOf` obey their equations, and that the open lines are the owners of the next, is
proved by induction with the predicate as a set. From it, in `TalkgroupLookupProofs`:
`TreeCorrect`, and `ParentCorrect`, which no run checks: nothing on `nodeStack` is ever
destroyed, and the root is never popped, so that `Invalid YAML structure` is never
thrown. `AtIs` and `KeysAre` read the tree: what is found at a path is what the
lines say of it.

**TranscriptionProofs.** `Literal` says that what the parser has read is in the text:
keys of entries, pairs and variants are strings of the text, or such strings
without hyphens, in whichever loop of whichever format the parser is and however
the text is damaged. `Bookkeeping` carries this over the files: each key of the
mappings comes from a file that was read. So `LostToIrregularCorrect`: nothing but
a key that is no regular expression, or becomes none when its hyphens are erased,
loses the transcription. `Merged` says what the files say together, and that nobody
but the first who knows a key gives its meaning.

That each file by itself is read as it was meant needs to know where the parser is.
`Following` says it by the outline: at which cut of which list the parser stands
in each of its loops (`AlongEntries`, `AlongPairs`), and that it has read what lies
before, of an entry the fields it has passed, of the flat format each key
with the last value it was given. The format itself is found out, not known: a flat
file is first read as a list of entries, must come out without any, and is
read again. `ReadsWellFormed` says nothing until the end of the file, and is not
inductive without `Following`. The step that is no bookkeeping is `NestedEnds`: the
parser skips a nested value by counting brackets of one kind only, and where
all brackets have partners, this count is first zero at the partner. It is proved
by pairing the brackets in between, opened with closed, by the partner function,
which is a bijection, so that their numbers agree. From these, for files of any
length, `ReadsWellFormedCorrect`; and with `Merged`, `SpeechExplainedCorrect`: what is
heard and known to an intact file is explained, whatever the other files are.

**CurlHelperProofs.** `NeverOvercounts` alone is not inductive: a store writes what
was loaded long before. `Counted` adds that whatever a thread is about to store,
with the errors that are reported and not counted yet, stays within the errors
reported; so a store of an old value can only lose counts. `Attempts` ties the
requests of a call to its rounds, and `NothingRecorded` says that the limiter's
queue is empty, from which the limiter forgets no error. From them: `TypeCorrect`,
`NeverOvercountsCorrect`, and `RequestsPerCallCorrect`, which no run checks: a
call costs at most `MAX_RETRIES` requests.

**FasterWhisperProofs.** `IInv` says who is inside `call_once`, and that the flag says
so (`OnceControl`); what everybody past it may rely on, the interpreter and the
module (`PastControl`); and who has which lock (`LockControl`), in particular that
nobody outside Python keeps the GIL once Python is ready, although a thread whose
import fails keeps it. From it: `TypeCorrect`, `OneTranscriptionCorrect`,
`ImportedBeforeUseCorrect`, and `NoCircularWaitCorrect`: who waits for the mutex
has no lock, so a circle would have to consist of the GIL alone, which nobody
who waits for it has.

**Only model-checked.** All liveness, which rests on fairness and ENABLED. Every
invariant that a passing run checks is also a theorem.

## Not modelled

- The command line: it sets two flags, which are the constants `Local` and
  `Parallel`.
- What texts contain: characters of strings and numbers, how a regular expression
  matches a word, date, time and unit name of a recording, the computation of
  durations. They enter as throwing or not, as members of small sets, or as a
  length.
- `YamlNode::toString`, which only prints, and functions without a caller
  (`YamlNode::push_back`, `JsonParser::parseObject`, `readTalkgroupFileMappings`).
- The fallback that calls Python through `popen`, and shell escaping.
- A recording that comes under a name that was used before; `MAX_REQUESTS_PER_MINUTE`
  of 0; in the migration a `ROLLBACK` that fails, and old rows with a NULL where
  the new table forbids it.
- Logging, debug output, the value types of `DomainTypes.h` and `Result.h`; the
  stand-alone scripts; tests, build and packaging.

## Plan

1. *Done:* the core (`ThreadPool`, `FileProcessor`, `Transcriber`, `CurlHelper`,
   `DatabaseManager`, `FasterWhisper`, `JsonParser`); start-up and configuration
   (`YamlParser`, `ConfigSingleton`), and what they are read for (`TalkgroupLookup`,
   `TranscriptionProcessor`). Theorems for every safety
   property a passing run checks, the parsers included (`GlossaryFile`).
2. *More of the system:* the start of the pool when creating a thread fails
   (`ThreadPool.h:17`); `Transcriber` with the table of `DatabaseManager` in the
   place of `row`, so that a migration that fails meets the sweeps that follow it.
3. *More proofs:* that the parser advances in every loop but the one of
   `HangsOnlyAtStray`, as a bound on the steps a text can take, which is the part of
   `CutOffEnds` that needs no fairness.
