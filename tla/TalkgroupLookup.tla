-------------------------- MODULE TalkgroupLookup --------------------------
(***************************************************************************)
(* How a recording gets its talkgroup, its prompt and its glossaries from  *)
(* its name and the configuration.  src/fileProcessor.cpp reads the name   *)
(* twice: extractTalkgroupIdFromFilename before the request, for the       *)
(* prompt, and extractFileInfo after it, for the directory, the row and    *)
(* the glossaries.  The two must agree.                                    *)
(*                                                                         *)
(* A name is a sequence of tokens; a token that is a number is a run of    *)
(* digits, and no two of them stand side by side.                          *)
(***************************************************************************)
EXTENDS ConfigSingleton

CONSTANTS
  Names,     \* names of recordings: their tokens, whether the name has fewer
             \* than 9 characters, and the talkgroup SDRTrunk means by it
  DefaultID  \* extractFileInfo's defaultID, "for NBFM usage"

VARIABLES
  name,        \* the recording that is being processed
  step,        \* where processFile is with it
  prompt,      \* the prompt the request is sent with
  talkgroup,   \* fileData.talkgroupID
  glossaries   \* the glossary files generateV2Transcription reads

lookupVars == <<name, step, prompt, talkgroup, glossaries>>
vars == <<yamlVars, configVars, lookupVars>>

Init ==
  /\ ConfigInit
  /\ name = [tokens |-> <<>>, short |-> FALSE, means |-> "none"]
  /\ step = "none"
  /\ prompt = "" /\ talkgroup = 0 /\ glossaries = <<>>

-----------------------------------------------------------------------------
(* Reading a name.  An operator with a suffix _X is the operator before    *)
(* the underscore as a plausible bug X would leave it; no action uses it.  *)

\* regex_search: the digits that first stand behind one of the prefixes, or "".
DigitsAfter(tokens, prefixes) ==
  LET hits == {i \in DOMAIN tokens : /\ tokens[i] \in DOMAIN Number
                                     /\ \E p \in prefixes : IsSuffix(p, SubSeq(tokens, 1, i - 1))}
  IN  IF hits = {} THEN "" ELSE tokens[Min(hits)]

IsPGroup(tokens) == \E i \in 2 .. Len(tokens) : tokens[i - 1] = "TO_" /\ tokens[i] = "P"

InBracket(tokens) == DigitsAfter(tokens, {<<"[">>})
OfPGroup(tokens) == DigitsAfter(tokens, {<<"TO_", "P">>, <<"TO_", "P", "_">>})
Standard(tokens) == DigitsAfter(tokens, {<<"TO_">>})

\* extractTalkgroupIdFromFilename; "" where it returns 0.
EarlyDigits(tokens) ==
  CASE IsPGroup(tokens) /\ InBracket(tokens) # "" -> InBracket(tokens)
    [] IsPGroup(tokens) /\ InBracket(tokens) = "" /\ OfPGroup(tokens) # "" -> OfPGroup(tokens)
    [] OTHER -> Standard(tokens)

LateDigits_BracketLast(tokens) ==
  CASE IsPGroup(tokens) /\ OfPGroup(tokens) # "" -> OfPGroup(tokens)
    [] IsPGroup(tokens) /\ OfPGroup(tokens) = "" /\ InBracket(tokens) # "" -> InBracket(tokens)
    [] OTHER -> Standard(tokens)

\* extractFileInfo; "" where it takes defaultID.
LateDigits(tokens) ==
  CASE IsPGroup(tokens) /\ InBracket(tokens) # "" -> InBracket(tokens)
    [] IsPGroup(tokens) /\ InBracket(tokens) = "" /\ OfPGroup(tokens) # "" -> OfPGroup(tokens)
    [] OTHER -> Standard(tokens)

RadioDigits(tokens) == DigitsAfter(tokens, {<<"_FROM_">>})

\* std::stoi of the digits, or the default.
Fits(digits) == digits = "" \/ IsInt(digits)
IdOf(digits, default) == IF digits = "" THEN default ELSE Number[digits]

Follows(t, i, part) == \A k \in DOMAIN part : i + k \in DOMAIN t /\ t[i + k] = part[k]

\* The names SDRTrunk makes, by the list above extractTalkgroupIdFromFilename:
\* the number behind TO_, the one in the first bracket if the number is a
\* P-group's, or a P-group alone.
SDRTrunkName(n) ==
  LET t == n.tokens
  IN  \E i \in DOMAIN t :
        /\ t[i] = "TO_" /\ \A j \in DOMAIN t : t[j] = "TO_" => j = i
        /\ \/ Follows(t, i, <<n.means>>)
           \/ /\ Follows(t, i, <<"P">>)
              /\ \E b \in DOMAIN t : /\ t[b] = "[" /\ \A j \in 1 .. b - 1 : t[j] # "["
                                     /\ Follows(t, b, <<n.means>>)
           \/ /\ Follows(t, i, <<"P", n.means>>) \/ Follows(t, i, <<"P", "_", n.means>>)
              /\ \A j \in DOMAIN t : t[j] # "["

ASSUME MarkAssumption == {"", "TO_", "P", "_", "["} \cap DOMAIN Number = {}
ASSUME NameAssumption ==
  \A n \in Names : /\ n.tokens \in Seq(STRING)
                   /\ n.means # "none" => n.means \in DOMAIN Number /\ SDRTrunkName(n)

-----------------------------------------------------------------------------
(* processFile *)

\* The prompt of the talkgroup, if it is configured, goes with the request.
\* A number too large throws before it.  (With -l there is no prompt.)
SendRequest ==
  /\ phase = "running" /\ step = "none"
  /\ \E n \in Names :
       LET digits == EarlyDigits(n.tokens)
           id == IdOf(digits, 0)
       IN  /\ name' = n
           /\ \/ Fits(digits) /\ step' = "sent"
              \/ ~Fits(digits) /\ step' = "rejected"
           /\ prompt' = IF Fits(digits) /\ id > 0 /\ id \in DOMAIN talkgroupFiles
                        THEN talkgroupFiles[id].prompt ELSE ""
  /\ UNCHANGED <<yamlVars, configVars, talkgroup, glossaries>>

\* extractFileInfo: the name is cut up, the numbers are converted, and the
\* talkgroup's glossaries are looked up.
extractFileInfo ==
  /\ step = "sent"
  /\ LET digits == LateDigits(name.tokens)
         id == IdOf(digits, DefaultID)
     IN  \/ /\ ~name.short /\ Fits(RadioDigits(name.tokens)) /\ Fits(digits)
            /\ step' = "filed"
            /\ talkgroup' = id
            /\ glossaries' = IF id \in DOMAIN talkgroupFiles THEN talkgroupFiles[id].files ELSE <<>>
         \/ /\ name.short \/ ~Fits(RadioDigits(name.tokens)) \/ ~Fits(digits)
            /\ step' = "thrown"
            /\ UNCHANGED <<talkgroup, glossaries>>
  /\ UNCHANGED <<yamlVars, configVars, name, prompt>>

Next == \/ StartUp /\ UNCHANGED lookupVars
        \/ SendRequest \/ extractFileInfo

Spec == Init /\ [][Next]_vars

\* The program runs: nothing here waits for anybody.
FairSpec == Spec /\ WF_vars(Next)

-----------------------------------------------------------------------------
(* Properties *)

\* A recording belongs to one talkgroup: the prompt that was sent with the
\* request and the glossaries that explain the answer are those of the
\* talkgroup it is filed under, and in a name SDRTrunk makes that is the one
\* SDRTrunk means.  A talkgroup that is no int is found out before the
\* request, not after it.  (Talkgroup 0, and defaultID for a name without a
\* talkgroup, are never asked for a prompt.)
OneTalkgroupPerRecording ==
  /\ step = "filed" =>
       /\ LET configured == talkgroup \in DOMAIN talkgroupFiles
              named == LateDigits(name.tokens) # "" /\ talkgroup # 0
          IN  /\ prompt = IF configured /\ named THEN talkgroupFiles[talkgroup].prompt ELSE ""
              /\ glossaries = IF configured THEN talkgroupFiles[talkgroup].files ELSE <<>>
       /\ name.means # "none" => talkgroup = Number[name.means]
  /\ step = "thrown" => name.short \/ ~Fits(RadioDigits(name.tokens))
=============================================================================
