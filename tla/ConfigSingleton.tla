-------------------------- MODULE ConfigSingleton --------------------------
(***************************************************************************)
(* How the program starts: loadConfig of src/main.cpp, the YAML reader,    *)
(* ConfigSingleton::initialize of src/ConfigSingleton.cpp, and             *)
(* parseTalkgroupIDs of src/transcriptionProcessor.cpp.  Nothing catches   *)
(* what initialize throws: the process terminates.                         *)
(*                                                                         *)
(* Words are strings.  What the program makes of a word is given by        *)
(* constants: the number it begins with, and the ranges of a talkgroup key.*)
(* Numbers are written without leading zeros, so that converting one to    *)
(* int and back returns the same word.                                     *)
(***************************************************************************)
EXTENDS YamlParser

CONSTANTS
  Inputs,  \* configuration files: lines, whether readable, and what is meant
  Number,  \* the number a word begins with, if it does
  Whole,   \* the words that are a number and nothing else
  Ranges,  \* a talkgroup key: <<n>> for a number, <<n, m>> for n-m, <<>> for
           \* anything std::stoi refuses
  IntMax   \* the largest int

ASSUME NumberAssumption == /\ IntMax \in Nat
                           /\ \A w \in DOMAIN Number : Number[w] \in Nat
                           /\ Whole \subseteq DOMAIN Number
ASSUME InputAssumption ==
  \A c \in Inputs : /\ c.text \in Seq(FileLines)
                    /\ \A i \in DOMAIN c.text : c.text[i].kind = "comment" => c.text[i].key = ""
ASSUME RangeAssumption ==
  \A k \in DOMAIN Ranges : /\ Ranges[k] \in Seq(Seq(Nat))
                           /\ \A i \in DOMAIN Ranges[k] : Len(Ranges[k][i]) <= 2

VARIABLES
  input,           \* the configuration file
  phase,           \* where start-up is
  keysLeft,        \* tgKeys that initialize has not come to
  talkgroupFiles,  \* talkgroupFiles: glossaryFiles and prompt of a talkgroup
  settings         \* the other members: strings, ints and flags

configVars == <<input, phase, keysLeft, talkgroupFiles, settings>>

Texts == {"DATABASE_PATH", "DirectoryToMonitor", "OPENAI_API_KEY"}
Ints == {"LoopWaitSeconds", "MAX_RETRIES", "MAX_REQUESTS_PER_MINUTE", "ERROR_WINDOW_SECONDS",
         "RATE_LIMIT_WINDOW_SECONDS", "MIN_DURATION_SECONDS"}
Flags == {"DEBUG_CURL_HELPER", "DEBUG_DATABASE_MANAGER", "DEBUG_FILE_PROCESSOR", "DEBUG_MAIN",
          "DEBUG_TRANSCRIPTION_PROCESSOR"}

NoSettings == [texts |-> [s \in {} |-> ""], ints |-> [s \in {} |-> 0],
               flags |-> [s \in {} |-> FALSE]]

ConfigInit ==
  /\ input \in Inputs
  /\ YamlInit(input.text)
  /\ phase = "loading"
  /\ keysLeft = {}
  /\ talkgroupFiles = [id \in {} |-> [files |-> <<>>, prompt |-> ""]]
  /\ settings = NoSettings

-----------------------------------------------------------------------------
(* What a node is taken for *)

\* std::stoi of a word
IsInt(w) == w \in DOMAIN Number /\ Number[w] <= IntMax

\* as<std::string>, as<int> and as<bool>: whether they return, and what.
IsText(p) == At(p).kind = "scalar"
AsText(p) == At(p).is[1]
HoldsInt(p) == IsText(p) /\ IsInt(AsText(p))
AsInt(p) == Number[AsText(p)]
IsTrue(p) == /\ IsText(p)
             /\ \/ AsText(p) \in {"true", "yes"}
                \/ AsText(p) \in Whole /\ AsInt(p) \in 1 .. IntMax

-----------------------------------------------------------------------------
(* parseTalkgroupIDs.  An operator with a suffix _X is the operator before *)
(* the underscore as a plausible bug X would leave it; no action uses it.  *)

RangesOf(k) == IF k \in DOMAIN Ranges THEN Ranges[k] ELSE <<<<>>>>

Throws(r) == r = <<>> \/ \E i \in DOMAIN r : r[i] > IntMax

NeverEnds_NotEqual(r) == Len(r) = 2 /\ (r[1] > r[2] \/ r[2] = IntMax)

\* "i <= end" with an int i is true for ever.
NeverEnds(r) == Len(r) = 2 /\ r[1] <= r[2] /\ r[2] = IntMax

\* The parts of a key that stop the function, of which it meets the first.
Stops(k) == {i \in DOMAIN RangesOf(k) : Throws(RangesOf(k)[i]) \/ NeverEnds(RangesOf(k)[i])}

parseTalkgroupIDs(k) ==
  UNION {LET r == RangesOf(k)[i] IN r[1] .. r[Len(r)] : i \in DOMAIN RangesOf(k)}

-----------------------------------------------------------------------------
(* What a file means, by what is left of what its lines say: the entries   *)
(* of its talkgroups, and its settings, of which the last group may be     *)
(* missing.                                                                *)

MeansIds(k, ids) ==
  /\ k \in DOMAIN Ranges
  /\ \A i \in DOMAIN Ranges[k] : LET r == Ranges[k][i]
                                IN  r # <<>> /\ r[1] <= IntMax /\ (Len(r) = 2 => r[2] < IntMax)
  /\ ids = {n \in 0 .. IntMax : \E i \in DOMAIN Ranges[k] :
                                   LET r == Ranges[k][i] IN n >= r[1] /\ n <= r[Len(r)]}

MeansEntry(left, k, e) ==
  LET node == <<"TALKGROUP_FILES", k>>
      glossary == Append(node, "GLOSSARY")
  IN  /\ MeansIds(k, e.ids)
      /\ \/ Holds(left, glossary, List(e.files))
         \/ Holds(left, glossary, Blank) /\ e.files = <<>>
      /\ Holds(left, Append(node, "PROMPT"), Scalar(e.prompt))

MeansEntries(left, entries) ==
  LET keys == {d.path[2] : d \in {e \in left : /\ Len(e.path) > 1
                                               /\ e.path[1] = "TALKGROUP_FILES"}}
  IN  /\ \A k \in keys : \E i \in DOMAIN entries : MeansEntry(left, k, entries[i])
      /\ \A i \in DOMAIN entries : \E k \in keys : MeansEntry(left, k, entries[i])

MeansInt(left, s, n) ==
  \E w \in DOMAIN Number : IsInt(w) /\ n = Number[w] /\ Holds(left, <<s>>, Scalar(w))

MeansFlag(left, s, b) ==
  \E w \in {"", "true", "yes", "false", "no"} \cup Whole :
    /\ Holds(left, <<s>>, Scalar(w))
    /\ b <=> \/ w \in {"true", "yes"}
             \/ w \in Whole /\ Number[w] \in 1 .. IntMax

Means(text, told) ==
  LET left == Left(Said(Lines(text)))
  IN  /\ MeansEntries(left, told.entries)
      /\ told.settings \in [texts : [Texts -> STRING], ints : [Ints \cup {"MAX_THREADS"} -> Nat],
                            flags : [Flags -> BOOLEAN]]
      /\ \A s \in Texts : Holds(left, <<s>>, Scalar(told.settings.texts[s]))
      /\ \A s \in Ints : MeansInt(left, s, told.settings.ints[s])
      /\ \/ MeansInt(left, "MAX_THREADS", told.settings.ints["MAX_THREADS"])
         \/ Holds(left, <<"MAX_THREADS">>, Blank) /\ told.settings.ints["MAX_THREADS"] = 1
      /\ \A s \in Flags : MeansFlag(left, s, told.settings.flags[s])

ASSUME MeantAssumption ==
  /\ "" \notin DOMAIN Number
  /\ \A c \in Inputs : c.kind = "meant" => c.readable /\ Means(c.text, c.told)

-----------------------------------------------------------------------------
(* main, loadConfig *)

\* No such file, or it cannot be opened: main returns 1.
Refuse ==
  /\ phase = "loading" /\ ~input.readable
  /\ phase' = "refused"
  /\ UNCHANGED <<yamlVars, input, keysLeft, talkgroupFiles, settings>>

\* The parser takes the next line.
ParseLine ==
  /\ phase = "loading" /\ input.readable
  /\ Parse
  /\ UNCHANGED configVars

\* The tree is complete, and initialize begins.
Initialize ==
  /\ phase = "loading" /\ input.readable /\ Parsed
  /\ phase' = "talkgroups"
  /\ keysLeft' = KeysAt(<<"TALKGROUP_FILES">>)
  /\ UNCHANGED <<yamlVars, input, talkgroupFiles, settings>>

-----------------------------------------------------------------------------
(* initialize *)

\* The entry for a key: a GLOSSARY that is no list counts as none, and so
\* does a PROMPT that is no string.
FilesOf(k) ==
  LET node == <<"TALKGROUP_FILES", k>>
      glossary == At(Append(node, "GLOSSARY"))
      prompt == Append(node, "PROMPT")
  IN  [files |-> IF glossary.kind = "list" THEN glossary.is ELSE <<>>,
       prompt |-> IF IsText(prompt) THEN AsText(prompt) ELSE ""]

AddTalkgroups_KeepsFirst(k) ==
  /\ phase = "talkgroups" /\ k \in keysLeft /\ Stops(k) = {}
  /\ talkgroupFiles' = [id \in DOMAIN talkgroupFiles \cup parseTalkgroupIDs(k) |->
        IF id \in DOMAIN talkgroupFiles
        THEN [talkgroupFiles[id] EXCEPT !.files = FilesOf(k).files] ELSE FilesOf(k)]
  /\ keysLeft' = keysLeft \ {k}
  /\ UNCHANGED <<yamlVars, input, phase, settings>>

\* One key of TALKGROUP_FILES, in whatever order the hash table has them.
AddTalkgroups(k) ==
  /\ phase = "talkgroups" /\ k \in keysLeft /\ Stops(k) = {}
  /\ talkgroupFiles' = [id \in DOMAIN talkgroupFiles \cup parseTalkgroupIDs(k) |->
        IF id \in parseTalkgroupIDs(k) THEN FilesOf(k) ELSE talkgroupFiles[id]]
  /\ keysLeft' = keysLeft \ {k}
  /\ UNCHANGED <<yamlVars, input, phase, settings>>

\* A key that is no number, or one too large: std::stoi throws.  A range up
\* to the largest int: the loop runs for ever, or until memory is used up.
FailTalkgroups(k) ==
  /\ phase = "talkgroups" /\ k \in keysLeft /\ Stops(k) # {}
  /\ \/ phase' = "terminated"
     \/ NeverEnds(RangesOf(k)[Min(Stops(k))]) /\ phase' = "endless"
  /\ UNCHANGED <<yamlVars, input, keysLeft, talkgroupFiles, settings>>

\* The other settings.  Only those caught by a try of their own are optional.
Settle ==
  /\ phase = "talkgroups" /\ keysLeft = {}
  /\ \/ /\ \A s \in Texts : IsText(<<s>>)
        /\ \A s \in Ints : HoldsInt(<<s>>)
        /\ phase' = "running"
        /\ settings' =
             [texts |-> [s \in Texts |-> AsText(<<s>>)],
              ints |-> [s \in Ints \cup {"MAX_THREADS"} |->
                          IF HoldsInt(<<s>>) THEN AsInt(<<s>>) ELSE 1],
              flags |-> [s \in Flags |-> IsTrue(<<s>>)]]
     \/ /\ (\E s \in Texts : ~IsText(<<s>>)) \/ (\E s \in Ints : ~HoldsInt(<<s>>))
        /\ phase' = "terminated"
        /\ UNCHANGED settings
  /\ UNCHANGED <<yamlVars, input, keysLeft, talkgroupFiles>>

StartUp == \/ Refuse \/ ParseLine \/ Initialize \/ Settle
           \/ \E k \in keysLeft : AddTalkgroups(k) \/ FailTalkgroups(k)

-----------------------------------------------------------------------------
(* Properties *)

\* When parse has read all lines it has built the tree their indentation
\* stands for, however deep the text goes in, however far it comes out at
\* once, and whatever keys it repeats.  (Nothing writes the tree afterwards.)
TreeFollowsIndentation == phase = "loading" /\ Parsed => StandsFor(Said(lines), tree)

\* A file that means something is read as it was meant, in whatever order
\* the hash table has its keys: the program runs, each talkgroup has the
\* glossaries and the prompt of one entry that lists it, never the ones of
\* one entry and the prompt of another, and every setting has its value, or
\* its default.
AsMeant(told) ==
  /\ phase \notin {"refused", "terminated", "endless"}
  /\ phase = "running" =>
       /\ DOMAIN talkgroupFiles = UNION {told.entries[i].ids : i \in DOMAIN told.entries}
       /\ \A id \in DOMAIN talkgroupFiles :
            \E i \in DOMAIN told.entries :
              /\ id \in told.entries[i].ids
              /\ talkgroupFiles[id] = [files |-> told.entries[i].files,
                                      prompt |-> told.entries[i].prompt]
       /\ settings = told.settings

ReadsAsMeant == input.kind = "meant" => AsMeant(input.told)

\* A file as the documentation has it - the README's example, or that of
\* sample-config.yaml - is read as it says.
DocumentedIsRead == input.kind = "documented" => AsMeant(input.told)

\* Whatever the file says, start-up comes to an end, unless a range goes up
\* to the largest int.
StartUpEnds ==
  <>(\/ phase \in {"running", "refused", "terminated"}
     \/ \E k \in keysLeft \cap DOMAIN Ranges : \E i \in DOMAIN Ranges[k] :
          Len(Ranges[k][i]) = 2 /\ Ranges[k][i][1] <= IntMax /\ Ranges[k][i][2] = IntMax)
=============================================================================
