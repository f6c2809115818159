----------------------- MODULE TranscriptionProcessor -----------------------
(***************************************************************************)
(* src/transcriptionProcessor.cpp: generateV2Transcription, which reads the*)
(* glossary files of a talkgroup one after the other (JsonParser) and adds *)
(* to a transcription what they say about the words in it.                 *)
(*                                                                         *)
(* A reply is the sequence of words of its "text"; Quote is an escaped     *)
(* quotation mark among them.  That a key occurs in the text is said by its*)
(* being one of the words: case and word boundaries are left out.          *)
(***************************************************************************)
EXTENDS JsonParser

CONSTANTS
  Quote,      \* the escaped quotation mark
  Irregular,  \* strings that are no regular expression
  Cases       \* a reply, and the glossary files of its talkgroup

ASSUME CaseAssumption ==
  /\ Quote \notin Strings /\ Irregular \subseteq Strings
  /\ \A c \in Cases : /\ Range(c.reply) \subseteq Strings \cup {Quote}
                      /\ Len(c.files) \in Nat /\ DOMAIN c.files = 1 .. Len(c.files)
                      /\ \A i \in DOMAIN c.files : IsFile(c.files[i])

VARIABLES
  case,       \* the reply and the files
  file,       \* the number of files that have been read
  mappings,   \* what they say together
  explained,  \* the keys in the result, with what they mean
  outcome     \* where the function is

vars == <<parserVars, case, file, mappings, explained, outcome>>

NoFile == [text |-> <<>>, kind |-> "missing", told |-> <<>>]

\* The file after the first n, if there is one.
FileAfter(n) == IF n < Len(case.files) THEN case.files[n + 1] ELSE NoFile

Init ==
  /\ case \in Cases
  /\ file = 0 /\ input = FileAfter(0) /\ Starts
  /\ mappings = Nothing /\ explained = Nothing
  /\ outcome = "called"

-----------------------------------------------------------------------------
(* An operator with a suffix _X is the operator before the underscore as a *)
(* plausible bug X would leave it; no action uses it.                      *)

\* extractActualTranscription: [^"]+ ends at the first quotation mark,
\* escaped or not.
Heard(reply) ==
  LET quotes == {i \in DOMAIN reply : reply[i] = Quote}
  IN  Range(IF quotes = {} THEN reply ELSE SubSeq(reply, 1, Min(quotes) - 1))

Merge_Replaces(m, n) == Insert(n, m)

\* mappings.insert: what an earlier file said of a key stays.
Merge(m, n) == Insert(m, n)

\* Without a text nothing is looked up.  (Of a text that begins with an escaped
\* quotation mark the backslash is left, which is a text without words.)
Extract ==
  /\ outcome = "called"
  /\ outcome' = IF case.reply = <<>> THEN "returned" ELSE "reading"
  /\ UNCHANGED <<parserVars, case, file, mappings, explained>>

\* readMappingFile at work.
Read ==
  /\ outcome = "reading" /\ file < Len(case.files)
  /\ ReadMapping
  /\ UNCHANGED <<case, file, mappings, explained, outcome>>

\* It has returned; the next file, with the parser's locals new.
NextFile ==
  /\ outcome = "reading" /\ file < Len(case.files)
  /\ at = "done"
  /\ mappings' = Merge(mappings, mapping)
  /\ file' = file + 1
  /\ input' = FileAfter(file + 1)
  /\ pos' = 1 /\ at' = "begin" /\ entries' = <<>> /\ entry' = NoEntry
  /\ flat' = Nothing /\ mapping' = Nothing
  /\ UNCHANGED <<case, explained, outcome>>

\* insertMappings: every key becomes a regular expression, whether it occurs
\* or not; the first that is none throws, and with it the transcription.
insertMappings ==
  /\ outcome = "reading" /\ file = Len(case.files)
  /\ \/ /\ DOMAIN mappings \cap Irregular = {}
        /\ explained' = Restrict(mappings, DOMAIN mappings \cap Heard(case.reply))
        /\ outcome' = "returned"
     \/ /\ DOMAIN mappings \cap Irregular # {}
        /\ outcome' = "thrown"
        /\ UNCHANGED explained
  /\ UNCHANGED <<parserVars, case, file, mappings>>

Next == Extract \/ Read \/ NextFile \/ insertMappings

Spec == Init /\ [][Next]_vars

\* The function runs, with nobody to wait for.
FairSpec == Spec /\ WF_vars(Next)

-----------------------------------------------------------------------------
(* Properties *)

Ended == outcome \in {"returned", "thrown"}
IsIntact(i) == case.files[i].kind = "intact"
IsMissing(i) == case.files[i].kind = "missing"
Knows(i, k) == IsIntact(i) /\ k \in Known(case.files[i].told)

\* Of the files that know k, i is the first, and those before can be read.
FirstToKnow(i, k) == /\ Knows(i, k)
                     /\ \A j \in 1 .. i - 1 : ~Knows(j, k) /\ (IsIntact(j) \/ IsMissing(j))

\* The strings of a text, and what they become without their hyphens.
Spelled(t) == Range(t) \cup {Stripped[s] : s \in Range(t) \cap DOMAIN Stripped}

\* Nothing but a key that is no regular expression, or becomes none when its
\* hyphens are erased, loses the transcription.
LostToIrregular ==
  outcome = "thrown" =>
    \E i \in DOMAIN case.files : Spelled(case.files[i].text) \cap Irregular # {}

\* What is heard is explained: a word that any intact file knows is in the
\* result, whatever the other files are - missing, cut off, in the other
\* format - and if those before are intact it means what the first file that
\* knows it says.  Only words that were heard are explained.
SpeechExplained ==
  /\ outcome = "returned" =>
       /\ DOMAIN explained \subseteq Heard(case.reply)
       /\ \A k \in Heard(case.reply), i \in DOMAIN case.files :
            /\ Knows(i, k) => k \in DOMAIN explained
            /\ FirstToKnow(i, k) => explained[k] \in SaidOf(case.files[i].told, k)
  /\ LostToIrregular

\* Files that are intact, missing, or were cut off anywhere never make the
\* function hang, and with it the thread that transcribes.
CutOffEnds == (\A i \in DOMAIN case.files : case.files[i].kind # "damaged") ~> Ended

\* Only an element of the glossary that is no object can.
HangsOnlyAtStray == <>(Ended \/ Stray)
=============================================================================
