---------------------------- MODULE GlossaryFile ----------------------------
(***************************************************************************)
(* The glossary files that src/jsonParser.cpp reads: what a text is, when  *)
(* it is a glossary in one of the two formats, and what it then says.  A   *)
(* glossary is described by its outline, without the parser: where its     *)
(* brackets and commas are, and where the entries it says are found.       *)
(*                                                                         *)
(* A text is a sequence of tokens.  White space is left out, except at the *)
(* end ("ws"), the only place where it matters.  Strings contain no        *)
(* brackets, which the code would count when it skips a nested value.      *)
(***************************************************************************)
EXTENDS Naturals, Sequences, FiniteSets, FiniteSetsExt, Functions

CONSTANTS
  Strings,   \* string tokens
  Stripped   \* what becomes of a string with hyphens when they are erased

\* "bool" is true, false or null; "junk" starts no value.
Tokens == Strings \cup {"{", "}", "[", "]", ":", ",", "number", "bool", "junk", "ws"}

\* Strings are told from all other tokens.
ASSUME StringAssumption ==
  /\ {"GLOSSARY", "keys", "value", ""} \subseteq Strings
  /\ Strings \cap {"{", "}", "[", "]", ":", ",", "number", "bool", "junk", "ws", "end"} = {}
ASSUME StrippedAssumption == DOMAIN Stripped \subseteq Strings /\ Range(Stripped) \subseteq Strings

-----------------------------------------------------------------------------
(* What an intact file says, by its outline: where the lists in it are cut,*)
(* that is, their brackets and the commas between their members.           *)

Ending(bracket) == IF bracket = "[" THEN "]" ELSE "}"

IsList(t, cuts, bracket) ==
  /\ cuts \in Seq(DOMAIN t) /\ Len(cuts) > 1
  /\ \A i \in 1 .. Len(cuts) - 1 : cuts[i] < cuts[i + 1]
  /\ t[cuts[1]] = bracket /\ t[cuts[Len(cuts)]] = Ending(bracket)
  /\ \A i \in 2 .. Len(cuts) - 1 : t[cuts[i]] = ","

\* A member or an element is what is behind a cut, up to the next.
Members(cuts) ==
  IF Len(cuts) = 2 /\ cuts[2] = cuts[1] + 1 THEN {} ELSE 1 .. Len(cuts) - 1

\* An array or object: every bracket in it has its partner behind it.
IsNested(t, first, last) ==
  LET opened == {i \in first .. last : t[i] \in {"[", "{"}}
      closed == {i \in first .. last : t[i] \in {"]", "}"}}
  IN  \E partner \in [opened -> closed] :
        /\ first \in opened /\ partner[first] = last
        /\ \A i \in opened : i < partner[i] /\ t[partner[i]] = Ending(t[i])
        /\ \A c \in closed : \E i \in opened : partner[i] = c
        /\ \A i, j \in opened : i < j => partner[i] < j \/ partner[j] < partner[i]

\* A key between the cuts p and q, and a value that is a string, a number ...
\* or nested.
HasKey(t, p, q, k) == p + 3 < q /\ t[p + 1] = k /\ t[p + 2] = ":"
IsMember(t, p, q) ==
  /\ \E k \in Strings : HasKey(t, p, q, k)
  /\ \/ t[p + 3] \in Strings \cup {"number", "bool"} /\ q = p + 4
     \/ IsNested(t, p + 3, q - 1)

\* The fields keys and value of an entry e.
IsKeys(t, p, q, e) ==
  /\ HasKey(t, p, q, "keys") /\ t[p + 3] = "[" /\ q = p + 4 + 2 * Len(e.keys)
  /\ \A i \in DOMAIN e.keys : /\ t[p + 2 + 2 * i] = e.keys[i]
                              /\ t[p + 3 + 2 * i] = IF i = Len(e.keys) THEN "]" ELSE ","
IsMeaning(t, p, q, e) == HasKey(t, p, q, "value") /\ q = p + 4 /\ t[p + 3] = e.value

\* It has both, and may have others.
IsEntry(t, cuts, e) ==
  LET fields == 1 .. Len(cuts) - 1
  IN  /\ e \in [keys : Seq(Strings) \ {<<>>}, value : Strings \ {""}]
      /\ IsList(t, cuts, "{")
      /\ \E i \in fields : IsKeys(t, cuts[i], cuts[i + 1], e)
      /\ \E i \in fields : IsMeaning(t, cuts[i], cuts[i + 1], e)
      /\ \A i \in fields : \/ IsKeys(t, cuts[i], cuts[i + 1], e)
                           \/ IsMeaning(t, cuts[i], cuts[i + 1], e)
                           \/ /\ IsMember(t, cuts[i], cuts[i + 1])
                              /\ t[cuts[i] + 1] \notin {"keys", "value"}

\* A member the parser takes for the glossary.
IsGlossary(t, p) == t[p + 1] = "GLOSSARY" /\ t[p + 3] = "["

\* The multi-key format: one member is the glossary, with the entries es.
SaysEntries(t, es, o) ==
  LET m == o.members
      g == o.glossary
      el == o.elements
  IN  /\ IsList(t, m, "{") /\ m[1] = 1
      /\ g \in 1 .. Len(m) - 1 /\ HasKey(t, m[g], m[g + 1], "GLOSSARY")
      /\ IsList(t, el, "[") /\ el[1] = m[g] + 3 /\ el[Len(el)] = m[g + 1] - 1
      /\ \A i \in (1 .. Len(m) - 1) \ {g} : IsMember(t, m[i], m[i + 1]) /\ ~IsGlossary(t, m[i])
      /\ es \in Seq([keys : Seq(Strings), value : Strings]) /\ Len(el) = Len(es) + 1 /\ es # <<>>
      /\ \A i \in DOMAIN es : LET f == o.fields[i]
                             IN  /\ IsEntry(t, f, es[i])
                                 /\ f[1] = el[i] + 1 /\ f[Len(f)] = el[i + 1] - 1

\* The flat format: a member is an entry with one key, unless it is true, false
\* or null.
Told(t, p) == [keys |-> <<t[p + 1]>>,
               value |-> IF t[p + 3] \in {"[", "{"} THEN "nested" ELSE t[p + 3]]
SaysPairs(t, es, o) ==
  LET m == o.members
      told == {i \in Members(m) : t[m[i] + 3] # "bool"}
  IN  /\ IsList(t, m, "{") /\ m[1] = 1
      /\ \A i \in Members(m) : IsMember(t, m[i], m[i + 1]) /\ ~IsGlossary(t, m[i])
      /\ \A i \in Members(m) \ told, j \in told : t[m[i] + 1] # t[m[j] + 1]
      /\ es \in Seq([keys : Seq(Strings), value : Strings \cup {"number", "nested"}])
      /\ o.order \in [DOMAIN es -> told] /\ Range(o.order) = told
      /\ \A i, j \in DOMAIN es : i < j => o.order[i] < o.order[j]
      /\ \A i \in DOMAIN es : es[i] = Told(t, m[o.order[i]])

\* A file: its text, what became of it, and, of an intact one, the entries it
\* was made from, and its outline.
IsFile(f) ==
  /\ f.text \in Seq(Tokens)
  /\ f.kind \in {"intact", "truncated", "damaged", "missing"}
  /\ f.kind = "intact" =>
       /\ \/ f.outline.format = "entries" /\ SaysEntries(f.text, f.told, f.outline)
          \/ f.outline.format = "pairs" /\ SaysPairs(f.text, f.told, f.outline)
       /\ \A i \in f.outline.members[Len(f.outline.members)] + 1 .. Len(f.text) : f.text[i] = "ws"

-----------------------------------------------------------------------------
(* What an entry list says, without the parser: every key has the value of *)
(* the last entry that lists it, and a key with hyphens is also known      *)
(* without them, unless the file explains that key itself.                 *)

Listed(es) == UNION {Range(es[i].keys) : i \in DOMAIN es}
Known(es) == Listed(es) \cup {Stripped[k] : k \in Listed(es) \cap DOMAIN Stripped}

LastSaid(es, k) == CHOOSE v \in {es[i].value : i \in DOMAIN es} :
                     \E i \in DOMAIN es : /\ k \in Range(es[i].keys) /\ es[i].value = v
                                          /\ \A j \in i + 1 .. Len(es) : k \notin Range(es[j].keys)

\* What a key that is known may mean.
SaidOf(es, k) ==
  IF k \in Listed(es) THEN {LastSaid(es, k)}
  ELSE {LastSaid(es, h) : h \in {g \in Listed(es) \cap DOMAIN Stripped : Stripped[g] = k}}
=============================================================================
