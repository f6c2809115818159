-------------------------- MODULE MCTranscription --------------------------
(* TranscriptionProcessor.tla on glossaries with one or two entries, well-  *)
(* formed in every arrangement, cut off anywhere, and damaged; and on pairs *)
(* of glossaries for one talkgroup.                                         *)
EXTENDS TranscriptionProcessor, SequencesExt

Words == {"GLOSSARY", "keys", "value", "", "10-4", "1-04", "104", "(104", "-*", "*"}
NoRegex == {"(104", "*"}
EscapedQuote == "quote"
Unhyphened == "10-4" :> "104" @@ "1-04" :> "104" @@ "-*" :> "*"

(* Texts of glossaries *)

KeyLists == {<<"10-4">>, <<"104">>, <<"10-4", "104">>, <<"1-04", "10-4">>}
Lists == BoundedSeq([keys : KeyLists, value : {"value", "keys"}], 2) \ {<<>>}

Array(ks) == IF Len(ks) = 1 THEN <<"[", ks[1], "]">> ELSE <<"[", ks[1], ",", ks[2], "]">>
KeysField(e) == <<"keys", ":">> \o Array(e.keys)
ValueField(e) == <<"value", ":", e.value>>

\* Values a member or a field to be skipped may have.
Others == {<<"bool">>, <<"104">>, <<"[", "[", "number", "]", "]">>,
           <<"{", "keys", ":", "[", "]", "}">>}

\* An entry: keys first or value first, and a third field in between or none.
Arranged(e, first, extra) ==
  LET middle == IF extra = <<>> THEN <<",">> ELSE <<",", "104", ":">> \o extra \o <<",">>
  IN  <<"{">> \o (IF first = "keys" THEN KeysField(e) \o middle \o ValueField(e)
                  ELSE ValueField(e) \o middle \o KeysField(e)) \o <<"}">>

Glossary(es, first, extra) ==
  <<"[">> \o Arranged(es[1], first, extra)
          \o (IF Len(es) = 1 THEN <<>> ELSE <<",">> \o Arranged(es[2], first, <<>>)) \o <<"]">>

\* The file: the glossary alone, after, or before another member.
File(es, first, extra, place, other) ==
  LET g == <<"GLOSSARY", ":">> \o Glossary(es, first, extra)
      o == <<"value", ":">> \o other
  IN  <<"{">> \o (CASE place = "alone" -> g
                    [] place = "after" -> o \o <<",">> \o g
                    [] place = "before" -> g \o <<",">> \o o) \o <<"}">>

\* Where the lists of a text are cut, by the depth of its brackets.
Depth(t, p, i) == Cardinality({j \in p .. i : t[j] \in {"[", "{"}})
                    - Cardinality({j \in p .. i : t[j] \in {"]", "}"}})
CutsOf(t, p) ==
  LET last == Min({i \in p .. Len(t) : Depth(t, p, i) = 0})
      commas == {i \in p .. last : t[i] = "," /\ Depth(t, p, i) = 1}
  IN  SetToSortSeq({p, last} \cup commas, <)

WithEntries(t, es) ==
  LET m == CutsOf(t, 1)
      g == CHOOSE i \in DOMAIN m : IsGlossary(t, m[i])
      el == CutsOf(t, m[g] + 3)
  IN  [text |-> t, kind |-> "intact", told |-> es,
       outline |-> [format |-> "entries", members |-> m, glossary |-> g, elements |-> el,
                    fields |-> [i \in DOMAIN es |-> CutsOf(t, el[i] + 1)]]]
WithPairs(t) ==
  LET m == CutsOf(t, 1)
      order == SetToSortSeq({i \in Members(m) : t[m[i] + 3] # "bool"}, <)
  IN  [text |-> t, kind |-> "intact", told |-> [i \in DOMAIN order |-> Told(t, m[order[i]])],
       outline |-> [format |-> "pairs", members |-> m, order |-> order]]

Intact == {WithEntries(File(es, first, extra, place, other), es) :
             es \in Lists, first \in {"keys", "value"}, extra \in {<<>>, <<"[", "]">>},
             place \in {"alone", "after", "before"}, other \in Others}

Sample == {File(es, first, <<"[", "]">>, "after", <<"bool">>) :
             es \in {<<[keys |-> <<"10-4", "104">>, value |-> "value"],
                       [keys |-> <<"104">>, value |-> "keys"]>>},
             first \in {"keys", "value"}}
Flat == {<<"{", "10-4", ":", "number", ",", "keys", ":", "bool", ",", "104", ":", "104", "}">>,
         <<"{", "}">>}

CutOff == UNION {{[text |-> SubSeq(t, 1, n) \o w, kind |-> "truncated", told |-> <<>>] :
                    n \in 0 .. Len(t), w \in {<<>>, <<"ws">>}} : t \in Sample \cup Flat}

(* Up to three tokens of any kind behind a beginning that is in order *)

Beginnings == {<<>>, <<"{">>, <<"{", "GLOSSARY", ":">>, <<"{", "GLOSSARY", ":", "[">>,
               <<"{", "GLOSSARY", ":", "[", "{">>,
               <<"{", "GLOSSARY", ":", "[", "{", "keys", ":", "[">>,
               <<"{", "GLOSSARY", ":", "[", "{", "value", ":", "104", ",">>,
               <<"{", "10-4", ":">>}

Damaged == {[text |-> b \o t, kind |-> "damaged", told |-> <<>>] :
              b \in Beginnings, t \in BoundedSeq(Tokens \ {"ws", "1-04", "value", "(104", "-*", "*"}, 3)}

(* Small glossaries in either format, for pairs of files *)

Says(k, v) == [keys |-> k, value |-> v]
InFlat(k, v) == WithPairs(<<"{", k, ":", v, "}">>)
InEntries(es) == WithEntries(File(es, "keys", <<>>, "alone", <<>>), es)
MissingFile == NoFile

Small == {InFlat(k, v) : k \in {"10-4", "104"}, v \in {"keys", "value"}}
           \cup {InEntries(<<Says(ks, "value")>>) : ks \in {<<"10-4">>, <<"104">>, <<"1-04", "10-4">>}}
           \cup {InEntries(<<Says(<<"104">>, "keys"), Says(<<"10-4">>, "value")>>),
                 InEntries(<<Says(<<"(104">>, "keys")>>),
                 InEntries(<<Says(<<"-*">>, "keys")>>), MissingFile}
Broken == {i \in CutOff : Len(i.text) \in {0, 12, 20, 30} /\ i.text # <<"ws">>}
Replies == {<<"104", "10-4">>, <<"104">>, <<"10-4", EscapedQuote, "104">>, <<EscapedQuote, "104">>, <<>>}

\* Flat ones with values of every kind, repeated keys and white space at the end
APair(k, v) == <<k, ":">> \o v
FlatIntact ==
  {WithPairs(<<"{">> \o APair("10-4", v) \o <<",">> \o APair(k, w) \o <<"}">> \o s) :
     v \in {<<"number">>, <<"value">>, <<"[", "[", "]", "]">>}, k \in {"10-4", "104", "GLOSSARY"},
     w \in {<<"number">>, <<"keys">>, <<"{", "keys", ":", "[", "]", "}">>}, s \in {<<>>, <<"ws">>}}
  \cup {WithPairs(t) : t \in Flat}

Files == {[reply |-> <<"104", "10-4">>, files |-> <<t>>] : t \in Intact \cup FlatIntact \cup CutOff \cup Damaged}
           \cup {[reply |-> r, files |-> <<s, t>>] : r \in Replies, s \in Small \cup Broken, t \in Small}
           \cup {[reply |-> <<"104">>, files |-> <<>>]}
=============================================================================
