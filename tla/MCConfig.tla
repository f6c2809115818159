------------------------------ MODULE MCConfig ------------------------------
(* TalkgroupLookup.tla on configuration files that mean something, in many  *)
(* layouts, on arbitrary short ones, on damaged ones, and on the README's.  *)
EXTENDS TalkgroupLookup

MaxInt == 7
Default == 6

Numbers == "0" :> 0 @@ "1" :> 1 @@ "2" :> 2 @@ "3" :> 3 @@ "4" :> 4 @@ "5" :> 5 @@ "6" :> 6
             @@ "9" :> 9 @@ "4 # four" :> 4
Wholes == DOMAIN Numbers \ {"4 # four"}

Keys == "1-2" :> <<<<1, 2>>>> @@ "2,4" :> <<<<2>>, <<4>>>> @@ "3-1,6" :> <<<<3, 1>>, <<6>>>>
          @@ "4-7" :> <<<<4, 7>>>> @@ "7" :> <<<<7>>>> @@ "9,4-7" :> <<<<9>>, <<4, 7>>>>
          @@ "52197-52201" :> <<<<1, 2>>>> @@ "28513,41003,41004" :> <<<<4>>, <<5>>>>
Ids(k) == UNION {LET r == Keys[k][i] IN r[1] .. r[Len(r)] : i \in DOMAIN Keys[k]}

(* Files that mean something *)

Setting(k, w) == Under(0, k, Scalar(w))
Required == <<Setting("DATABASE_PATH", "db"), Setting("DirectoryToMonitor", "dir"),
              Setting("OPENAI_API_KEY", "key"), Setting("LoopWaitSeconds", "5"),
              Setting("MAX_RETRIES", "3"), Setting("MAX_REQUESTS_PER_MINUTE", "5"),
              Setting("ERROR_WINDOW_SECONDS", "4 # four"),
              Setting("RATE_LIMIT_WINDOW_SECONDS", "1"), Setting("MIN_DURATION_SECONDS", "0")>>
Optional == <<Setting("MAX_THREADS", "4"), Setting("DEBUG_MAIN", "true"),
              Setting("DEBUG_CURL_HELPER", "1"), Setting("DEBUG_FILE_PROCESSOR", "false")>>

Settings(optional) ==
  [texts |-> "DATABASE_PATH" :> "db" @@ "DirectoryToMonitor" :> "dir" @@ "OPENAI_API_KEY" :> "key",
   ints |-> "LoopWaitSeconds" :> 5 @@ "MAX_RETRIES" :> 3 @@ "MAX_REQUESTS_PER_MINUTE" :> 5
              @@ "ERROR_WINDOW_SECONDS" :> 4 @@ "RATE_LIMIT_WINDOW_SECONDS" :> 1
              @@ "MIN_DURATION_SECONDS" :> 0 @@ "MAX_THREADS" :> IF optional THEN 4 ELSE 1,
   flags |-> [f \in Flags |-> optional /\ f \in {"DEBUG_MAIN", "DEBUG_CURL_HELPER"}]]

\* The lines of an entry: its list in its own line, with the prompt before or
\* behind it, or alone below the key.
Glossary(e, n) == IF e.files = <<>> THEN <<>> ELSE <<Under(2 * n, "GLOSSARY", List(e.files))>>
Prompt(e, n) == IF e.prompt = "" THEN <<>> ELSE <<Under(2 * n, "PROMPT", Scalar(e.prompt))>>
EntryLines(e, n) ==
  <<Open(n, e.key)>> \o
    (CASE e.layout = "list first" -> Glossary(e, n) \o <<Comment>> \o Prompt(e, n)
       [] e.layout = "prompt first" -> Prompt(e, n) \o Glossary(e, n)
       [] e.layout = "list below" -> <<Under(2 * n, "", List(e.files))>>)

Entry(k, f, p, l) == [key |-> k, files |-> f, prompt |-> p, layout |-> l]
Entries == {Entry(k, f, p, l) : k \in {"1-2", "2,4", "3-1,6"}, f \in {<<>>, <<"x", "y">>},
                                p \in {"", "speak"}, l \in {"list first", "prompt first"}}
             \cup {Entry(k, <<"z">>, "", "list below") : k \in {"1-2", "2,4"}}
EntryLists == {<<>>} \cup {<<e>> : e \in Entries}
                \cup {<<d, e>> : d \in {f \in Entries : f.key = "1-2"},
                                e \in {f \in Entries : f.key = "2,4" /\ f.files # <<>>}}

File(es, n, place, optional) ==
  LET talkgroups == <<Open(0, "TALKGROUP_FILES")>>
                      \o FlattenSeq([i \in DOMAIN es |-> EntryLines(es[i], n)])
      others == IF optional THEN Required \o Optional ELSE Required
  IN  IF place = "first" THEN talkgroups \o others ELSE others \o talkgroups

Told(es, optional) ==
  [entries |-> [i \in DOMAIN es |-> [ids |-> Ids(es[i].key), files |-> es[i].files,
                                     prompt |-> es[i].prompt]],
   settings |-> Settings(optional)]

NotTold == Told(<<>>, FALSE)
Readable(t, k, m) == [text |-> t, readable |-> TRUE, kind |-> k, told |-> m]

Meant == {Readable(File(es, n, place, optional), "meant", Told(es, optional)) :
            es \in EntryLists,
            <<n, place, optional>> \in {<<1, "first", TRUE>>, <<2, "last", FALSE>>}}

(* Arbitrary ones: up to four lines of any kind and depth *)

Shapes == {Open(n, k) : n \in 0 .. 2, k \in {"TALKGROUP_FILES", "1-2"}}
            \cup {Under(0, "TALKGROUP_FILES", Scalar("4")), Under(1, "1-2", Scalar("4")),
                  Under(2, "GLOSSARY", Scalar("4")), Under(2, "GLOSSARY", List(<<"x">>)),
                  Under(2, "", List(<<"y">>)), Bare(2)}
Short == {Readable(t, "any", NotTold) : t \in BoundedSeq(Shapes, 4)}

(* Damaged ones: one line lost, or another in its place *)

Whole2 == File(<<Entry("1-2", <<"x">>, "speak", "list first"), Entry("2,4", <<"y">>, "", "list first")>>,
               1, "first", TRUE)
Replacing == {Open(1, k) : k \in {"3-1,6", "4-7", "7", "9,4-7", "GLOSSARY"}}
               \cup {Under(n, k, Scalar(w)) : n \in {0, 2}, k \in {"1-2", "LoopWaitSeconds"},
                                              w \in {"9", "true"}}
               \cup {Under(0, "LoopWaitSeconds", List(<<>>)), Under(2, "PROMPT", List(<<"x">>)),
                     Under(0, "DATABASE_PATH", List(<<>>)), Open(0, "DirectoryToMonitor"), Bare(1)}
Damaged == {Readable(RemoveAt(Whole2, i), "any", NotTold) : i \in DOMAIN Whole2}
             \cup {Readable(ReplaceAt(Whole2, i, l), "any", NotTold) :
                     i \in DOMAIN Whole2, l \in Replacing}
             \cup {[Readable(<<>>, "any", NotTold) EXCEPT !.readable = FALSE]}

(* The two examples for talkgroups.  README.md:204-215: a comment behind a   *)
(* key is a value for the reader, and a line of a list in dashes is no key. *)
(* sample-config.yaml:27-35: a list on the lines below GLOSSARY, of which   *)
(* the reader takes the first, a bracket, for the list.                     *)

Example ==
  <<Open(0, "TALKGROUP_FILES"),
      Under(2, "52197-52201", Scalar("# Range of talkgroup IDs")),
        Open(4, "GLOSSARY"),
          Bare(6), Bare(6),
        Under(4, "PROMPT", Scalar("Police radio dispatch")),
      Under(2, "28513,41003,41004", Scalar("# Specific talkgroup IDs")),
        Under(4, "GLOSSARY", List(<<"tencode">>))>>
Sample ==
  <<Open(0, "TALKGROUP_FILES"),
      Open(2, "52197-52201"),
        Open(4, "GLOSSARY"),
          Under(6, "", List(<<"[">>)), Bare(8), Bare(8), Bare(6),
        Under(4, "PROMPT", Scalar("Police radio dispatch")),
      Open(2, "28513,41003,41004"),
        Under(4, "GLOSSARY", List(<<"tencode">>))>>
Documented ==
  {Readable(Required \o example, "documented",
     [entries |-> <<[ids |-> Ids("52197-52201"), files |-> <<"tencode", "signals">>,
                     prompt |-> "Police radio dispatch"],
                    [ids |-> Ids("28513,41003,41004"), files |-> <<"tencode">>, prompt |-> ""]>>,
      settings |-> Settings(FALSE)]) : example \in {Example, Sample}}

Files == Meant \cup Short \cup Damaged

(* Names of recordings *)

SdrTrunkNames ==
  {[tokens |-> <<"x", "_", "_">> \o t[1] \o from, short |-> FALSE, means |-> t[2]] :
     t \in {<<<<"TO_", "2">>, "2">>, <<<<"TO_", "4", "_", "V", "2">>, "4">>,
            <<<<"TO_", "P", "1">>, "1">>, <<<<"TO_", "P", "_", "2">>, "2">>,
            <<<<"TO_", "P", "1", "-", "[", "2", "]">>, "2">>,
            <<<<"TO_", "P", "1", "_", "[", "4", "]">>, "4">>,
            <<<<"TO_", "P", "3", "-", "[", "2", "--", "1", "--", "4", "]">>, "2">>,
            <<<<"TO_", "P", "3", "_", "[", "4", "__", "2", "]">>, "4">>},
     from \in {<<>>, <<"_FROM_", "5">>, <<"_FROM_", "9">>}}

OtherNames == {[tokens |-> <<"TO_">> \o t, short |-> FALSE, means |-> "none"] :
                 t \in {<<>>, <<"2">>, <<"9">>, <<"P">>} \cup
                      {<<"P", u, v>> : u \in {"_", "[", "_FROM_"}, v \in {"2", "9", "["}}}
                \cup {[tokens |-> t, short |-> FALSE, means |-> "none"] :
                        t \in {<<>>, <<"[", "2", "TO_", "P", "4">>, <<"TO_", "0">>,
                              <<"2", "_FROM_", "1">>, <<"TO_", "6", "_FROM_", "1">>}}
                \cup {[tokens |-> <<"TO_", "1">>, short |-> TRUE, means |-> "none"]}
Recordings == SdrTrunkNames \cup OtherNames
=============================================================================
