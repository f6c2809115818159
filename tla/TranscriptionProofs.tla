------------------------ MODULE TranscriptionProofs ------------------------
(***************************************************************************)
(* What TranscriptionProcessor.tla promises for every reply and all texts  *)
(* of glossary files: that a file which is no glossary at all cannot make  *)
(* a transcription disappear, that every well-formed glossary is read as   *)
(* it was meant, and that the files together explain what was heard.       *)
(***************************************************************************)
EXTENDS TranscriptionProcessor, FiniteSetTheorems, SequenceTheorems,
        WellFoundedInduction, TLAPS

\* The entries that a text can give: their keys are strings of the text.
EntriesOf(t) == [keys : Seq(Strings \cap Range(t)), value : Strings]

\* What the parser has read is in the text.
Literal ==
  /\ pos \in Nat
  /\ entries \in Seq(EntriesOf(text)) /\ entry \in EntriesOf(text)
  /\ DOMAIN flat \subseteq Range(text)
  /\ DOMAIN mapping \subseteq Spelled(text)
  /\ input.kind = "missing" => at \in {"begin", "done"} /\ DOMAIN mapping = {}

\* The files that have been read, and what is in the mappings.
Bookkeeping ==
  /\ case \in Cases
  /\ file \in 0 .. Len(case.files)
  /\ input = FileAfter(file)
  /\ \A k \in DOMAIN mappings : \E i \in 1 .. file : k \in Spelled(case.files[i].text)
  /\ outcome = "thrown" => DOMAIN mappings \cap Irregular # {}

\* Of the files that have been read, each intact one has added what it knows,
\* unless one before it knew that as well.
Merged ==
  /\ \A i \in 1 .. file : IsIntact(i) => Known(case.files[i].told) \subseteq DOMAIN mappings
  /\ \A k \in DOMAIN mappings :
       \E i \in 1 .. file : Knows(i, k) \/ ~(IsIntact(i) \/ IsMissing(i))
  /\ \A k \in DOMAIN mappings, i \in 1 .. file :
       FirstToKnow(i, k) => mappings[k] \in SaidOf(case.files[i].told, k)
  /\ outcome = "called" => DOMAIN explained = {}
  /\ outcome = "returned" =>
       \/ Heard(case.reply) = {} /\ DOMAIN explained = {}
       \/ /\ file = Len(case.files)
          /\ explained = Restrict(mappings, DOMAIN mappings \cap Heard(case.reply))

-----------------------------------------------------------------------------
(* Positions and tokens *)

\* A set of naturals has a least element: the ranges 0 .. x are well-founded.
LEMMA LeastNat ==
  ASSUME NEW T \in SUBSET Nat, T # {}
  PROVE  \E x \in T : \A y \in T : x <= y
<1> DEFINE I == {0 .. x : x \in T}
           R == StrictSubsetOrdering(Nat)
<1>1. IsWellFoundedOn(R, FiniteSubsetsOf(Nat))
  BY FS_StrictSubsetOrderingWellFounded
<1>2. I \subseteq FiniteSubsetsOf(Nat)
  <2> SUFFICES ASSUME NEW x \in T PROVE 0 .. x \in FiniteSubsetsOf(Nat)
    OBVIOUS
  <2>1. 0 \in Int /\ x \in Int
    OBVIOUS
  <2>2. IsFiniteSet(0 .. x)
    BY <2>1, FS_Interval
  <2> QED
    BY <2>2 DEF FiniteSubsetsOf
<1>3. I # {}
  OBVIOUS
<1>4. \A x, y \in T : x < y => <<0 .. x, 0 .. y>> \in R
  <2> SUFFICES ASSUME NEW x \in T, NEW y \in T, x < y PROVE <<0 .. x, 0 .. y>> \in R
    OBVIOUS
  <2>1. 0..x \in SUBSET Nat /\ 0..y \in SUBSET Nat /\ 0..x \subseteq 0..y /\ y \in 0..y /\ y \notin 0..x
    OBVIOUS
  <2> QED
    BY <2>1 DEF StrictSubsetOrdering
<1> HIDE DEF R
<1>5. PICK i \in I : \A j \in I : <<j, i>> \notin R
  <2> HIDE DEF I
  <2> QED BY <1>1, <1>2, <1>3, WFMin
<1>6. PICK x \in T : i = 0 .. x
  OBVIOUS
<1>7. \A y \in T : ~(y < x)
  BY <1>4, <1>5, <1>6
<1> QED
  BY <1>7

LEMMA MinNat == ASSUME NEW T \in SUBSET Nat, T # {} PROVE Min(T) \in T
<1>1. \E x \in T : \A y \in T : x <= y
  BY LeastNat
<1> QED
  BY <1>1 DEF Min

\* A string token at a position is one of the text.
LEMMA TokenInText ==
  ASSUME NEW p \in Nat, Tok[p] \in Strings
  PROVE  Tok[p] \in Strings \cap Range(text)
<1>1. Tok[p] = IF p \in DOMAIN text THEN text[p] ELSE "end"
  BY DEF Tok
<1> QED
  BY <1>1, StringAssumption DEF Range

\* The parser only moves to positions.
LEMMA Moves ==
  ASSUME text \in Seq(Tokens), NEW p \in Nat
  PROVE  /\ Skip[p] \in Nat /\ AfterComma[p] \in Nat /\ Closing[p] \in Nat
         /\ ValueEnd[p] \in Nat /\ ValueOf[p] \in Nat
         /\ \A t : Past(p, t) \in Nat
<1>1. \A q \in Nat : Skip[q] \in Nat
  BY DEF Skip
<1>2. \A q \in Nat : AfterComma[q] \in Nat
  <2> SUFFICES ASSUME NEW q \in Nat PROVE AfterComma[q] \in Nat
    OBVIOUS
  <2>1. AfterComma[q] = IF Tok[Skip[q]] = "," THEN Skip[q] + 1 ELSE Skip[q]
    BY DEF AfterComma
  <2>2. AfterComma[q] = Skip[q] + 1 \/ AfterComma[q] = Skip[q]
    BY <2>1, Zenon
  <2>3. Skip[q] \in Nat
    BY <1>1
  <2> QED
    BY <2>2, <2>3
<1>3. Closing[p] \in Nat
  <2> DEFINE Count(t, q) == Cardinality({i \in p .. q : text[i] = t})
             close == IF Tok[p] = "[" THEN "]" ELSE "}"
             balanced == {q \in {c \in p .. Len(text) : text[c] = close} :
                            Count(Tok[p], q) = Count(close, q)}
  <2>1. Closing[p] = IF balanced = {} THEN Len(text) + 1 ELSE Min(balanced) + 1
    BY DEF Closing
  <2>2. Len(text) \in Nat
    BY LenProperties
  <2>3. balanced \subseteq p .. Len(text)
    <3> HIDE DEF Count, close
    <3> QED OBVIOUS
  <2> HIDE DEF balanced
  <2>4. p .. Len(text) \subseteq Nat
    BY <2>2
  <2>5. balanced # {} => Min(balanced) \in Nat
    BY <2>3, <2>4, MinNat
  <2> QED
    BY <2>1, <2>2, <2>5
<1>4. ValueEnd[p] \in Nat
  <2>1. ValueEnd[p] = IF Tok[p] \in {"[", "{"} THEN Closing[p] ELSE p + 1
    BY DEF ValueEnd
  <2>2. ValueEnd[p] = Closing[p] \/ ValueEnd[p] = p + 1
    BY <2>1, Zenon
  <2> QED
    BY <1>3, <2>2
<1>5. ValueOf[p] \in Nat
  <2>1. Skip[p + 1] \in Nat
    BY <1>1
  <2>2. Skip[Skip[p + 1] + 1] \in Nat
    BY <1>1, <2>1
  <2>3. ValueOf[p] = Skip[Skip[p + 1] + 1]
    BY DEF ValueOf
  <2> QED
    BY <2>2, <2>3
<1>6. \A t : Past(p, t) \in Nat
  BY DEF Past
<1> QED
  BY <1>1, <1>2, <1>3, <1>4, <1>5, <1>6

-----------------------------------------------------------------------------
(* Maps *)

\* A map keeps to the strings of a text when the variants are added.
LEMMA VariantsSpelled ==
  ASSUME NEW t, NEW m, DOMAIN m \subseteq Range(t), NEW w \in WithVariants(m)
  PROVE  DOMAIN w \subseteq Spelled(t)
<1> DEFINE hyphened == DOMAIN m \cap DOMAIN Stripped
           new == {Stripped[k] : k \in hyphened} \ DOMAIN m
<1>1. PICK h \in [new -> Range(m)] : w = Insert(m, h)
  BY Zenon DEF WithVariants
<1>2. DOMAIN w = DOMAIN m \cup new
  BY <1>1 DEF Insert
<1>3. new \subseteq {Stripped[s] : s \in Range(t) \cap DOMAIN Stripped}
  OBVIOUS
<1> QED
  BY <1>2, <1>3 DEF Spelled

LEMMA EntriesSpelled ==
  ASSUME NEW t, NEW es \in Seq(EntriesOf(t))
  PROVE  DOMAIN FromEntries(es) \subseteq Range(t)
<1> SUFFICES ASSUME NEW k \in DOMAIN FromEntries(es) PROVE k \in Range(t)
  OBVIOUS
<1>1. PICK i \in DOMAIN es : k \in Range(es[i].keys)
  BY DEF FromEntries
<1>2. es[i] \in EntriesOf(t)
  BY ElementOfSeq
<1>3. es[i].keys \in Seq(Strings \cap Range(t))
  BY <1>2 DEF EntriesOf
<1> QED
  BY <1>1, <1>3 DEF Range

-----------------------------------------------------------------------------
(* What is read is in the text *)

\* Where only the position changes.
LEMMA OnlyMoves ==
  ASSUME Literal, input.kind # "missing", pos' \in Nat,
         UNCHANGED <<input, entries, entry, flat, mapping>>
  PROVE  Literal'
<1>1. text' = text
  BY DEF text
<1>2. EntriesOf(text)' = EntriesOf(text)
  BY <1>1 DEF EntriesOf
<1>3. Spelled(text)' = Spelled(text)
  BY <1>1 DEF Spelled
<1> QED
  BY <1>1, <1>2, <1>3 DEF Literal

\* The members of the outermost object.
LEMMA MembersLiteral ==
  ASSUME text \in Seq(Tokens), Literal, input' = input,
         Begin \/ LeaveMembers \/ Member \/ LeaveElements \/ StrayElement
  PROVE  Literal'
<1> USE Moves
<1>0. 1 \in Nat /\ pos \in Nat
  BY DEF Literal
<1>1. input.kind # "missing" \/ Begin
  BY DEF Literal, LeaveMembers, Member, LeaveElements, StrayElement
<1>2. input.kind # "missing"
  BY <1>1 DEF Begin
<1>3. CASE Begin
  <2>1. Skip[Skip[1] + 1] \in Nat
    <3>1. Skip[1] + 1 \in Nat
      BY <1>0
    <3> QED BY <3>1
  <2>2. pos' \in Nat
    BY <1>0, <1>3, <2>1 DEF Begin, Go
  <2> QED
    BY <1>2, <1>3, <2>2, OnlyMoves DEF Begin, Go
<1>4. CASE LeaveMembers
  BY <1>0, <1>2, <1>4, OnlyMoves DEF LeaveMembers, Go
<1>5. CASE Member
  <2> DEFINE v == ValueOf[Skip[pos]]
  <2>1. v \in Nat
    BY <1>0
  <2>2. Skip[v + 1] \in Nat
    <3>1. v + 1 \in Nat
      BY <2>1
    <3> QED BY <3>1
  <2>3. AfterComma[ValueEnd[v]] \in Nat
    BY <2>1
  <2>4. /\ pos' \in {Skip[v + 1], AfterComma[ValueEnd[v]], pos}
        /\ UNCHANGED <<entries, entry, flat, mapping>>
    BY <1>5 DEF Member, Go, Throw
  <2>5. pos' \in Nat
    BY <1>0, <2>2, <2>3, <2>4
  <2> QED
    BY <1>2, <2>4, <2>5, OnlyMoves
<1>6. CASE LeaveElements
  <2>1. pos' = AfterComma[Past(pos, "]")] /\ UNCHANGED <<entries, entry, flat, mapping>>
    BY <1>6 DEF LeaveElements, Go
  <2>2. pos' \in Nat
    BY <1>0, <2>1
  <2> QED
    BY <1>2, <2>1, <2>2, OnlyMoves
<1>7. CASE StrayElement
  <2>1. pos' = AfterComma[pos] /\ UNCHANGED <<entries, entry, flat, mapping>>
    BY <1>7 DEF StrayElement, Go
  <2>2. pos' \in Nat
    BY <1>0, <2>1
  <2> QED
    BY <1>2, <2>1, <2>2, OnlyMoves
<1> QED
  BY <1>3, <1>4, <1>5, <1>6, <1>7

\* Where the list of entries or the entry changes too.
LEMMA StillEntries ==
  ASSUME Literal, input.kind # "missing", pos' \in Nat,
         UNCHANGED <<input, flat, mapping>>,
         entries' \in Seq(EntriesOf(text)), entry' \in EntriesOf(text)
  PROVE  Literal'
<1>1. text' = text
  BY DEF text
<1>2. EntriesOf(text)' = EntriesOf(text)
  BY <1>1 DEF EntriesOf
<1>3. Spelled(text)' = Spelled(text)
  BY <1>1 DEF Spelled
<1> QED
  BY <1>1, <1>2, <1>3 DEF Literal

\* An entry without keys yet.
LEMMA WithoutKeys ==
  ASSUME NEW t, NEW v \in Strings
  PROVE  [keys |-> <<>>, value |-> v] \in EntriesOf(t)
BY DEF EntriesOf

LEMMA EmptyString == "" \in Strings
BY StringAssumption

\* The objects of the glossary.
LEMMA EntriesLiteral ==
  ASSUME text \in Seq(Tokens), Literal, input' = input,
         Element \/ LeaveFields \/ Field \/ Key
  PROVE  Literal'
<1> USE Moves
<1>0. pos \in Nat /\ entries \in Seq(EntriesOf(text)) /\ entry \in EntriesOf(text)
  BY DEF Literal
<1>1. input.kind # "missing"
  BY DEF Literal, Element, LeaveFields, Field, Key
<1>2. entry = [keys |-> entry.keys, value |-> entry.value]
      /\ entry.keys \in Seq(Strings \cap Range(text)) /\ entry.value \in Strings
  BY <1>0 DEF EntriesOf
<1>3. CASE Element
  <2>1. Skip[Skip[pos] + 1] \in Nat
    <3>1. Skip[pos] + 1 \in Nat
      BY <1>0
    <3> QED BY <3>1
  <2>2. pos' = Skip[Skip[pos] + 1] /\ entry' = NoEntry /\ UNCHANGED <<entries, flat, mapping>>
    BY <1>3 DEF Element, Go
  <2>3. entry' \in EntriesOf(text)
    BY <2>2, WithoutKeys, EmptyString DEF NoEntry
  <2> QED
    BY <1>0, <1>1, <2>1, <2>2, <2>3, StillEntries
<1>4. CASE LeaveFields
  <2> DEFINE q == Skip[pos]
             stop == IF ~Inside("}") THEN pos ELSE IF Tok[q] \notin Strings THEN q ELSE Skip[q + 1]
  <2>1. /\ pos' = AfterComma[Past(stop, "}")]
        /\ entries' = entries \/ entries' = Append(entries, entry)
        /\ UNCHANGED <<entry, flat, mapping>>
    BY <1>4 DEF LeaveFields, Go
  <2>2. q \in Nat
    BY <1>0
  <2>3. Skip[q + 1] \in Nat
    <3>1. q + 1 \in Nat
      BY <2>2
    <3> QED BY <3>1
  <2>4. stop = pos \/ stop = q \/ stop = Skip[q + 1]
    BY Zenon
  <2>5. stop \in Nat
    BY <1>0, <2>2, <2>3, <2>4
  <2> HIDE DEF stop
  <2>6. Past(stop, "}") \in Nat
    BY <2>5
  <2>7. pos' \in Nat
    BY <2>1, <2>6
  <2>8. entries' \in Seq(EntriesOf(text))
    <3>1. Append(entries, entry) \in Seq(EntriesOf(text))
      BY <1>0, AppendProperties
    <3>2. entries' = entries \/ entries' = Append(entries, entry)
      BY <2>1
    <3> QED BY <1>0, <3>1, <3>2
  <2> QED
    BY <1>0, <1>1, <2>1, <2>7, <2>8, StillEntries
<1>5. CASE Field
  <2> DEFINE v == ValueOf[Skip[pos]]
  <2>1. v \in Nat
    BY <1>0
  <2>2. Skip[v + 1] \in Nat
    <3>1. v + 1 \in Nat
      BY <2>1
    <3> QED BY <3>1
  <2>3. AfterComma[ValueEnd[v]] \in Nat
    BY <2>1
  <2>4. AfterComma[Skip[v + 1] + 1] \in Nat
    <3>1. Skip[v + 1] + 1 \in Nat
      BY <2>2
    <3> QED BY <3>1
  <2>5. pos' \in {pos, Skip[v + 1], AfterComma[Skip[v + 1] + 1], AfterComma[ValueEnd[v]]}
    BY <1>5 DEF Field, Go, Throw
  <2>6. pos' \in Nat
    BY <1>0, <2>2, <2>3, <2>4, <2>5
  <2>7. \/ entry' = entry
        \/ entry' = [entry EXCEPT !.keys = <<>>]
        \/ entry' = [entry EXCEPT !.value = Tok[v]] /\ Tok[v] \in Strings
    BY <1>5, Zenon DEF Field, Throw
  <2>8. entry' \in EntriesOf(text)
    <3> HIDE DEF v
    <3>1. CASE entry' = [entry EXCEPT !.keys = <<>>]
      <4>1. entry' = [keys |-> <<>>, value |-> entry.value]
        BY <1>2, <3>1
      <4> QED BY <1>2, <4>1, WithoutKeys
    <3>2. CASE entry' = [entry EXCEPT !.value = Tok[v]] /\ Tok[v] \in Strings
      <4>1. entry' = [keys |-> entry.keys, value |-> Tok[v]]
        BY <1>2, <3>2
      <4> QED BY <1>2, <3>2, <4>1 DEF EntriesOf
    <3> QED
      BY <1>0, <2>7, <3>1, <3>2
  <2>9. UNCHANGED <<entries, flat, mapping>>
    BY <1>5 DEF Field, Throw
  <2> QED
    BY <1>0, <1>1, <2>6, <2>8, <2>9, StillEntries
<1>6. CASE Key
  <2> DEFINE q == Skip[pos]
             c == Skip[q + 1]
  <2>1. q \in Nat
    BY <1>0
  <2>2. c \in Nat
    <3>1. q + 1 \in Nat
      BY <2>1
    <3> QED BY <3>1
  <2>3. pos' \in {pos, c + 1, AfterComma[c + 1]}
    BY <1>6 DEF Key, Go, Throw
  <2>4. pos' \in Nat
    <3> HIDE DEF c, q
    <3>1. c + 1 \in Nat
      BY <2>2
    <3> QED BY <1>0, <2>3, <3>1
  <2>5. UNCHANGED <<entries, flat, mapping>>
    BY <1>6 DEF Key, Throw
  <2>6. \/ entry' = entry
        \/ entry' = [entry EXCEPT !.keys = Append(@, Tok[q])] /\ Tok[q] \in Strings
    BY <1>6, Zenon DEF Key, Throw
  <2>7. entry' \in EntriesOf(text)
    <3> HIDE DEF q, c
    <3>1. CASE entry' = [entry EXCEPT !.keys = Append(@, Tok[q])] /\ Tok[q] \in Strings
      <4>1. entry' = [keys |-> Append(entry.keys, Tok[q]), value |-> entry.value]
        BY <1>2, <3>1
      <4>2. Tok[q] \in Strings \cap Range(text)
        BY <2>1, <3>1, TokenInText
      <4>3. Append(entry.keys, Tok[q]) \in Seq(Strings \cap Range(text))
        BY <1>2, <4>2, AppendProperties
      <4> QED BY <1>2, <4>1, <4>3 DEF EntriesOf
    <3> QED
      BY <1>0, <2>6, <3>1
  <2> QED
    BY <1>0, <1>1, <2>4, <2>5, <2>7, StillEntries
<1> QED
  BY <1>3, <1>4, <1>5, <1>6

\* The two formats end, and the old one is read.
LEMMA FlatLiteral ==
  ASSUME text \in Seq(Tokens), Literal, input' = input,
         Missing \/ Close \/ BeginFlat \/ Pair \/ LeavePairs
  PROVE  Literal'
<1> USE Moves
<1>0. pos \in Nat /\ DOMAIN flat \subseteq Range(text) /\ DOMAIN mapping \subseteq Spelled(text)
  BY DEF Literal
<1>1. Missing \/ input.kind # "missing"
  BY DEF Literal, Close, BeginFlat, Pair, LeavePairs
<1>2. text' = text /\ EntriesOf(text)' = EntriesOf(text) /\ Spelled(text)' = Spelled(text)
  BY DEF text, EntriesOf, Spelled
<1>3. CASE Missing
  BY <1>2, <1>3 DEF Missing, Throw, Literal
<1>4. CASE Close /\ input.kind # "missing"
  <2>1. DOMAIN mapping' \subseteq Spelled(text)
    <3>1. DOMAIN FromEntries(entries) \subseteq Range(text)
      BY EntriesSpelled DEF Literal
    <3>2. \A w \in WithVariants(FromEntries(entries)) : DOMAIN w \subseteq Spelled(text)
      BY <3>1, VariantsSpelled
    <3>3. mapping' = mapping \/ mapping' \in WithVariants(FromEntries(entries))
      BY <1>4 DEF Close
    <3> QED BY <1>0, <3>2, <3>3
  <2>2. UNCHANGED <<pos, entries, entry, flat>>
    BY <1>4 DEF Close
  <2> QED
    BY <1>2, <1>4, <2>1, <2>2 DEF Literal
<1>5. CASE BeginFlat /\ input.kind # "missing"
  <2>1. Skip[Skip[1] + 1] \in Nat
    <3>1. 1 \in Nat
      OBVIOUS
    <3>2. Skip[1] + 1 \in Nat
      BY <3>1
    <3> QED BY <3>2
  <2>2. pos' \in Nat /\ UNCHANGED <<entries, entry, flat, mapping>>
    BY <1>0, <1>5, <2>1 DEF BeginFlat, Go, Throw
  <2> QED
    BY <1>5, <2>2, OnlyMoves
<1>6. CASE Pair /\ input.kind # "missing"
  <2> DEFINE q == Skip[pos]
             v == ValueOf[q]
             e == Skip[ValueEnd[v]]
  <2>1. q \in Nat
    BY <1>0
  <2>2. v \in Nat
    BY <2>1
  <2>3. e \in Nat
    BY <2>2
  <2>4. Past(e, ",") \in Nat
    BY <2>3
  <2>5. pos' \in {pos, Past(e, ",")}
    BY <1>6 DEF Pair, Go, Throw
  <2>6. pos' \in Nat
    BY <1>0, <2>4, <2>5
  <2>7. UNCHANGED <<entries, entry, mapping>>
    BY <1>6 DEF Pair, Throw
  <2>8. \/ flat' = flat
        \/ flat' = Insert([k \in {Tok[q]} |-> Value(v)], flat) /\ Tok[q] \in Strings
    BY <1>6 DEF Pair, Throw, IsKey
  <2>9. DOMAIN flat' \subseteq Range(text)
    <3> HIDE DEF q, v
    <3>1. CASE flat' = Insert([k \in {Tok[q]} |-> Value(v)], flat) /\ Tok[q] \in Strings
      <4>1. Tok[q] \in Range(text)
        BY <2>1, <3>1, TokenInText
      <4>2. DOMAIN flat' = {Tok[q]} \cup DOMAIN flat
        BY <3>1 DEF Insert
      <4> QED BY <1>0, <4>1, <4>2
    <3> QED
      BY <1>0, <2>8, <3>1
  <2> QED
    BY <1>2, <1>6, <2>6, <2>7, <2>9 DEF Literal
<1>7. CASE LeavePairs /\ input.kind # "missing"
  <2> DEFINE pairs == Restrict(flat, {k \in DOMAIN flat : flat[k] # "bool"})
  <2>1. DOMAIN pairs \subseteq Range(text)
    BY <1>0 DEF Restrict
  <2>2. mapping' \in WithVariants(pairs) /\ UNCHANGED <<pos, entries, entry, flat>>
    BY <1>7 DEF LeavePairs
  <2> HIDE DEF pairs
  <2>3. DOMAIN mapping' \subseteq Spelled(text)
    BY <2>1, <2>2, VariantsSpelled
  <2> QED
    BY <1>2, <1>7, <2>2, <2>3 DEF Literal
<1> QED
  BY <1>1, <1>3, <1>4, <1>5, <1>6, <1>7

LEMMA ReadLiteral ==
  ASSUME text \in Seq(Tokens), Literal, ReadMapping
  PROVE  Literal'
BY MembersLiteral, EntriesLiteral, FlatLiteral DEF ReadMapping

-----------------------------------------------------------------------------
(* One file after the other *)

LEMMA CaseFiles ==
  ASSUME case \in Cases
  PROVE  /\ Len(case.files) \in Nat /\ DOMAIN case.files = 1 .. Len(case.files)
         /\ \A n \in 0 .. Len(case.files) : FileAfter(n).text \in Seq(Tokens)
<1>1. Len(case.files) \in Nat /\ DOMAIN case.files = 1 .. Len(case.files)
  BY CaseAssumption
<1>2. \A i \in DOMAIN case.files : case.files[i].text \in Seq(Tokens)
  BY CaseAssumption DEF IsFile
<1>3. NoFile.text \in Seq(Tokens)
  BY DEF NoFile
<1>4. ASSUME NEW n \in 0 .. Len(case.files)
      PROVE  FileAfter(n).text \in Seq(Tokens)
  <2>1. CASE n < Len(case.files)
    <3>1. n + 1 \in DOMAIN case.files
      BY <1>1, <2>1
    <3>2. FileAfter(n) = case.files[n + 1]
      BY <2>1 DEF FileAfter
    <3> QED BY <1>2, <3>1, <3>2
  <2>2. CASE ~(n < Len(case.files))
    BY <1>3, <2>2 DEF FileAfter
  <2> QED BY <2>1, <2>2
<1> QED
  BY <1>1, <1>4

LEMMA StartsLiteral == Starts => Literal
<1> SUFFICES ASSUME Starts PROVE Literal
  OBVIOUS
<1>1. entry \in EntriesOf(text)
  BY WithoutKeys, EmptyString DEF Starts, NoEntry
<1>2. DOMAIN flat = {} /\ DOMAIN mapping = {}
  BY DEF Starts, Nothing
<1>3. pos \in Nat /\ entries \in Seq(EntriesOf(text)) /\ at = "begin"
  BY DEF Starts
<1> QED
  BY <1>1, <1>2, <1>3 DEF Literal

LEMMA InitLiteral == Init => Literal /\ Bookkeeping /\ Merged
<1> SUFFICES ASSUME Init PROVE Literal /\ Bookkeeping /\ Merged
  OBVIOUS
<1>1. Literal
  BY StartsLiteral DEF Init
<1>2. case \in Cases /\ file = 0 /\ DOMAIN mappings = {} /\ DOMAIN explained = {}
      /\ outcome = "called" /\ input = FileAfter(file)
  BY DEF Init, Nothing
<1>3. file \in 0 .. Len(case.files)
  BY <1>2, CaseFiles
<1>4. Bookkeeping
  BY <1>2, <1>3 DEF Bookkeeping
<1>5. Merged
  BY <1>2 DEF Merged
<1> QED
  BY <1>1, <1>4, <1>5

LEMMA NextLiteral == Literal /\ Bookkeeping /\ [Next]_vars => Literal'
<1> SUFFICES ASSUME Literal, Bookkeeping, [Next]_vars PROVE Literal'
  OBVIOUS
<1>1. text \in Seq(Tokens)
  BY CaseFiles DEF Bookkeeping, text
<1>2. CASE UNCHANGED parserVars
  BY <1>2 DEF parserVars, Literal, EntriesOf, Spelled, text
<1>3. CASE Read
  BY <1>1, <1>3, ReadLiteral DEF Read
<1>4. CASE NextFile
  <2>1. Starts'
    BY <1>4 DEF NextFile, Starts, NoEntry, Nothing
  <2>2. Starts' => Literal'
    BY StartsLiteral, PTL
  <2> QED BY <2>1, <2>2
<1> QED
  BY <1>2, <1>3, <1>4 DEF Next, vars, Extract, insertMappings

LEMMA NextBookkeeping == Literal /\ Bookkeeping /\ [Next]_vars => Bookkeeping'
<1> SUFFICES ASSUME Literal, Bookkeeping, [Next]_vars PROVE Bookkeeping'
  OBVIOUS
<1> USE DEF Bookkeeping, FileAfter, Spelled
<1>1. CASE UNCHANGED vars
  BY <1>1 DEF vars, parserVars
<1>2. CASE Extract
  BY <1>2 DEF Extract, parserVars
<1>3. CASE Read
  BY <1>3 DEF Read, ReadMapping
<1>4. CASE NextFile
  <2>1. file' = file + 1 /\ file < Len(case.files) /\ case' = case
        /\ input' = FileAfter(file + 1) /\ outcome' = "reading"
    BY <1>4 DEF NextFile
  <2>2. file' \in 0 .. Len(case.files)'
    BY <2>1, CaseFiles
  <2>3. input' = FileAfter(file)'
    BY <2>1
  <2>4. ASSUME NEW k \in DOMAIN mappings'
        PROVE  \E i \in 1 .. file + 1 : k \in Spelled(case.files[i].text)
    <3>1. DOMAIN mappings' = DOMAIN mappings \cup DOMAIN mapping
      BY <1>4 DEF NextFile, Merge, Insert
    <3>2. CASE k \in DOMAIN mappings
      BY <3>2, CaseFiles
    <3>3. CASE k \in DOMAIN mapping
      <4>1. text = case.files[file + 1].text
        BY <2>1 DEF text
      <4>2. k \in Spelled(text)
        BY <3>3 DEF Literal
      <4>3. file + 1 \in 1 .. file + 1
        BY CaseFiles
      <4> QED BY <4>1, <4>2, <4>3
    <3> QED BY <3>1, <3>2, <3>3
  <2> QED
    BY <2>1, <2>2, <2>3, <2>4
<1>5. CASE insertMappings
  BY <1>5 DEF insertMappings, parserVars
<1> QED
  BY <1>1, <1>2, <1>3, <1>4, <1>5 DEF Next

\* Nothing but an irregular key, or one that becomes irregular without its
\* hyphens, makes the function throw: whatever a file says, however it is
\* damaged, the parser's own exceptions leave the transcription alone.
THEOREM LostToIrregularCorrect == Spec => []LostToIrregular
<1>1. Literal /\ Bookkeeping => LostToIrregular
  <2> SUFFICES ASSUME Bookkeeping, outcome = "thrown"
               PROVE  \E i \in DOMAIN case.files : Spelled(case.files[i].text) \cap Irregular # {}
    BY DEF LostToIrregular
  <2>1. PICK k \in DOMAIN mappings : k \in Irregular
    BY DEF Bookkeeping
  <2>2. PICK i \in 1 .. file : k \in Spelled(case.files[i].text)
    BY <2>1 DEF Bookkeeping
  <2>3. i \in DOMAIN case.files
    BY CaseFiles DEF Bookkeeping
  <2> QED BY <2>1, <2>2, <2>3
<1> QED
  BY <1>1, InitLiteral, NextLiteral, NextBookkeeping, PTL DEF Spec

-----------------------------------------------------------------------------
(* What the files say together *)

\* The next file adds what it knows and nobody has said yet.
LEMMA NextFileMerged ==
  ASSUME Literal, Bookkeeping, ReadsWellFormed, Merged, NextFile
  PROVE  Merged'
<1> DEFINE n == file + 1
<1>1. /\ case' = case /\ file' = n /\ outcome' = "reading"
      /\ at = "done" /\ input = case.files[n] /\ file \in Nat
  BY CaseFiles DEF NextFile, Bookkeeping, FileAfter
<1>2. /\ DOMAIN mappings' = DOMAIN mappings \cup DOMAIN mapping
      /\ \A k \in DOMAIN mappings : mappings'[k] = mappings[k]
      /\ \A k \in DOMAIN mapping \ DOMAIN mappings : mappings'[k] = mapping[k]
  BY DEF NextFile, Merge, Insert
<1>3. \A i, k : /\ Knows(i, k)' <=> Knows(i, k)
                /\ FirstToKnow(i, k)' <=> FirstToKnow(i, k)
  BY <1>1 DEF Knows, FirstToKnow, IsIntact, IsMissing
<1>4. \A i : IsIntact(i)' = IsIntact(i) /\ IsMissing(i)' = IsMissing(i)
  BY <1>1 DEF IsIntact, IsMissing
<1>5. 1 .. n = 1 .. file \cup {n} /\ n \in 1 .. n /\ n - 1 = file /\ n \notin 1 .. file
  BY <1>1
<1>6. IsIntact(n) => /\ \A k : k \in DOMAIN mapping <=> Knows(n, k)
                     /\ \A k \in DOMAIN mapping : mapping[k] \in SaidOf(case.files[n].told, k)
  BY <1>1 DEF ReadsWellFormed, IsIntact, Knows
<1>7. IsMissing(n) => DOMAIN mapping = {}
  BY <1>1 DEF Literal, IsMissing
<1> HIDE DEF n
<1>8. \A i \in 1 .. file' : IsIntact(i)' => Known(case'.files[i].told) \subseteq DOMAIN mappings'
  <2> SUFFICES ASSUME NEW i \in 1 .. n, IsIntact(i), NEW k \in Known(case.files[i].told)
               PROVE  k \in DOMAIN mappings \cup DOMAIN mapping
    BY <1>1, <1>2, <1>4
  <2>1. CASE i \in 1 .. file
    BY <2>1 DEF Merged
  <2>2. CASE i = n
    BY <1>6, <2>2 DEF Knows
  <2> QED BY <1>5, <2>1, <2>2
<1>9. \A k \in DOMAIN mappings' :
        \E i \in 1 .. file' : Knows(i, k)' \/ ~(IsIntact(i)' \/ IsMissing(i)')
  <2> SUFFICES ASSUME NEW k \in DOMAIN mappings \cup DOMAIN mapping
               PROVE  \E i \in 1 .. n : Knows(i, k) \/ ~(IsIntact(i) \/ IsMissing(i))
    BY <1>1, <1>2, <1>3, <1>4
  <2>1. CASE k \in DOMAIN mappings
    <3>1. PICK i \in 1 .. file : Knows(i, k) \/ ~(IsIntact(i) \/ IsMissing(i))
      BY <2>1 DEF Merged
    <3> QED BY <1>5, <3>1
  <2>2. CASE k \in DOMAIN mapping
    BY <1>5, <1>6, <1>7, <2>2
  <2> QED BY <2>1, <2>2
<1>10. \A k \in DOMAIN mappings', i \in 1 .. file' :
         FirstToKnow(i, k)' => mappings'[k] \in SaidOf(case'.files[i].told, k)
  <2> SUFFICES ASSUME NEW k \in DOMAIN mappings \cup DOMAIN mapping, NEW i \in 1 .. n,
                      FirstToKnow(i, k)
               PROVE  mappings'[k] \in SaidOf(case.files[i].told, k)
    BY <1>1, <1>2, <1>3
  <2>0. Knows(i, k) /\ \A j \in 1 .. i - 1 : ~Knows(j, k) /\ (IsIntact(j) \/ IsMissing(j))
    BY DEF FirstToKnow
  <2>1. CASE k \in DOMAIN mappings /\ i \in 1 .. file
    BY <1>2, <2>1 DEF Merged
  <2>2. CASE k \in DOMAIN mappings /\ i = n
    \* impossible: an earlier file has given k
    <3>1. PICK j \in 1 .. file : Knows(j, k) \/ ~(IsIntact(j) \/ IsMissing(j))
      BY <2>2 DEF Merged
    <3> QED BY <1>5, <2>0, <2>2, <3>1
  <2>3. CASE k \notin DOMAIN mappings /\ i \in 1 .. file
    BY <2>0, <2>3 DEF Merged, Knows
  <2>4. CASE k \notin DOMAIN mappings /\ i = n
    BY <1>2, <1>6, <2>0, <2>4 DEF Knows
  <2> QED BY <1>5, <2>1, <2>2, <2>3, <2>4
<1> QED
  BY <1>1, <1>8, <1>9, <1>10 DEF Merged

LEMMA NextMerged ==
  Literal /\ Bookkeeping /\ ReadsWellFormed /\ Merged /\ [Next]_vars => Merged'
<1> SUFFICES ASSUME Literal, Bookkeeping, ReadsWellFormed, Merged, [Next]_vars PROVE Merged'
  OBVIOUS
<1> DEFINE unread == UNCHANGED <<case, file, mappings>>
<1>1. ASSUME unread
      PROVE  /\ \A i, k : /\ Knows(i, k)' <=> Knows(i, k)
                          /\ FirstToKnow(i, k)' <=> FirstToKnow(i, k)
             /\ \A i : IsIntact(i)' = IsIntact(i) /\ IsMissing(i)' = IsMissing(i)
             /\ Heard(case.reply)' = Heard(case.reply)
  BY <1>1 DEF Knows, FirstToKnow, IsIntact, IsMissing, Heard
<1>2. ASSUME unread, outcome' = outcome, explained' = explained PROVE Merged'
  BY <1>1, <1>2 DEF Merged
<1>3. CASE Extract
  <2>1. unread /\ outcome = "called" /\ explained' = explained
    BY <1>3 DEF Extract
  <2>2. outcome' = "reading" \/ (outcome' = "returned" /\ Heard(case.reply) = {})
    <3>1. case.reply = <<>> => Heard(case.reply) = {}
      BY DEF Heard, Range
    <3> QED BY <1>3, <3>1 DEF Extract
  <2> QED
    BY <1>1, <2>1, <2>2 DEF Merged
<1>4. CASE insertMappings
  <2>1. unread /\ file = Len(case.files)
    BY <1>4 DEF insertMappings
  <2>2. \/ outcome' = "thrown"
        \/ /\ outcome' = "returned"
           /\ explained' = Restrict(mappings, DOMAIN mappings \cap Heard(case.reply))
    BY <1>4 DEF insertMappings
  <2> QED
    BY <1>1, <2>1, <2>2 DEF Merged
<1> QED
  BY <1>2, <1>3, <1>4, NextFileMerged DEF Next, vars, Read

\* Where every intact file by itself is read as it was meant (ReadsWellFormed,
\* proved below), what is heard is explained: by each intact file, whatever the
\* others are, and with the meaning of the first that knows the word.
THEOREM SpeechExplainedIfRead == Spec /\ []ReadsWellFormed => []SpeechExplained
<1>1. Bookkeeping /\ Merged /\ LostToIrregular => SpeechExplained
  <2> SUFFICES ASSUME Bookkeeping, Merged, outcome = "returned"
               PROVE  /\ DOMAIN explained \subseteq Heard(case.reply)
                      /\ \A k \in Heard(case.reply), i \in DOMAIN case.files :
                           /\ Knows(i, k) => k \in DOMAIN explained
                           /\ FirstToKnow(i, k) =>
                                explained[k] \in SaidOf(case.files[i].told, k)
    BY DEF SpeechExplained
  <2>1. CASE Heard(case.reply) = {} /\ DOMAIN explained = {}
    BY <2>1
  <2>2. CASE /\ file = Len(case.files)
             /\ explained = Restrict(mappings, DOMAIN mappings \cap Heard(case.reply))
    <3>1. DOMAIN explained = DOMAIN mappings \cap Heard(case.reply)
          /\ \A k \in DOMAIN explained : explained[k] = mappings[k]
      BY <2>2 DEF Restrict
    <3>2. DOMAIN case.files = 1 .. file
      BY <2>2, CaseFiles DEF Bookkeeping
    <3>3. ASSUME NEW k \in Heard(case.reply), NEW i \in DOMAIN case.files, Knows(i, k)
          PROVE  k \in DOMAIN explained
      BY <3>1, <3>2, <3>3 DEF Merged, Knows
    <3>4. ASSUME NEW k \in Heard(case.reply), NEW i \in DOMAIN case.files, FirstToKnow(i, k)
          PROVE  explained[k] \in SaidOf(case.files[i].told, k)
      <4>1. k \in DOMAIN explained
        BY <3>3, <3>4 DEF FirstToKnow
      <4> QED BY <3>1, <3>2, <3>4, <4>1 DEF Merged
    <3> QED BY <3>1, <3>3, <3>4
  <2> QED
    BY <2>1, <2>2 DEF Merged
<1> QED
  BY <1>1, LostToIrregularCorrect, InitLiteral, NextLiteral, NextBookkeeping, NextMerged, PTL
     DEF Spec

-----------------------------------------------------------------------------
(* An intact file: where the parser is, by the outline, and what it has     *)
(* read.                                                                   *)

\* Where what is behind the i-th cut is read from.
Behind(cuts, i) == IF i = Len(cuts) THEN cuts[i] ELSE cuts[i] + 1

\* The multi-key format, in the file f.
Before(f, j) == SubSeq(f.told, 1, j - 1)

\* What the first k - 1 fields of the j-th entry have given.
SoFar(f, j, k) ==
  LET e == f.told[j]
      cuts == f.outline.fields[j]
  IN  [keys |-> IF \E h \in 1 .. k - 1 : IsKeys(f.text, cuts[h], cuts[h + 1], e)
                THEN e.keys ELSE <<>>,
       value |-> IF \E h \in 1 .. k - 1 : IsMeaning(f.text, cuts[h], cuts[h + 1], e)
                 THEN e.value ELSE ""]

AtMember(f, i, p, es) ==
  /\ i \in 1 .. Len(f.outline.members) /\ p = Behind(f.outline.members, i)
  /\ es = IF i <= f.outline.glossary THEN <<>> ELSE f.told

AtElement(f, j, p, es) ==
  /\ j \in 1 .. Len(f.outline.elements) /\ p = Behind(f.outline.elements, j)
  /\ es = Before(f, j)

AtField(f, j, k, p, es, e) ==
  /\ j \in DOMAIN f.told /\ k \in 1 .. Len(f.outline.fields[j])
  /\ p = Behind(f.outline.fields[j], k)
  /\ es = Before(f, j) /\ e = SoFar(f, j, k)

\* Before the c-th key of the field behind the k-th cut.
AtKey(f, j, k, c, p, es, e) ==
  LET cuts == f.outline.fields[j]
      keys == f.told[j].keys
  IN  /\ j \in DOMAIN f.told /\ k \in 1 .. Len(cuts) - 1
      /\ IsKeys(f.text, cuts[k], cuts[k + 1], f.told[j])
      /\ c \in 1 .. Len(keys) /\ p = cuts[k] + 2 + 2 * c /\ es = Before(f, j)
      /\ e = [keys |-> SubSeq(keys, 1, c - 1), value |-> SoFar(f, j, k).value]

AlongEntries ==
  \/ at = "begin" /\ pos = 1 /\ entries = <<>>
  \/ at = "members" /\ \E i : AtMember(input, i, pos, entries)
  \/ at = "elements" /\ \E j : AtElement(input, j, pos, entries)
  \/ at = "fields" /\ \E j, k : AtField(input, j, k, pos, entries, entry)
  \/ at = "keys" /\ \E j, k, c : AtKey(input, j, k, c, pos, entries, entry)
  \/ at = "close" /\ entries = input.told
  \/ at = "done" /\ mapping \in WithVariants(FromEntries(input.told))

\* The flat format, which is read twice.
KeyOf(f, i) == f.text[f.outline.members[i] + 1]
ValueAt(f, i) == Told(f.text, f.outline.members[i]).value

AtPair(f, i, p) ==
  /\ i \in Members(f.outline.members) \cup {Len(f.outline.members)}
  /\ p = Behind(f.outline.members, i)

\* The pairs that have been read: of those with the same key, the last.
PairsBefore(f, i, pairs) ==
  LET read == {h \in Members(f.outline.members) : h < i}
  IN  /\ DOMAIN pairs = {KeyOf(f, h) : h \in read}
      /\ \A h \in read : (\A l \in read : h < l => KeyOf(f, l) # KeyOf(f, h))
                            => pairs[KeyOf(f, h)] = ValueAt(f, h)

\* A table that says what the entries do.
Spells(said, es) ==
  DOMAIN said = Listed(es) /\ \A k \in DOMAIN said : said[k] = LastSaid(es, k)

AlongPairs ==
  /\ entries = <<>>
  /\ \/ at = "begin" /\ pos = 1 /\ DOMAIN flat = {}
     \/ at = "members" /\ DOMAIN flat = {} /\ \E i : AtPair(input, i, pos)
     \/ at \in {"close", "flat"} /\ DOMAIN flat = {}
     \/ at = "pairs" /\ \E i : AtPair(input, i, pos) /\ PairsBefore(input, i, flat)
     \/ /\ at = "done"
        /\ \E said : Spells(said, input.told) /\ mapping \in WithVariants(said)

\* In an intact file the parser is where the outline says.
Following ==
  input.kind = "intact" =>
    \/ input.outline.format = "entries" /\ AlongEntries
    \/ input.outline.format = "pairs" /\ AlongPairs

-----------------------------------------------------------------------------
(* The tokens of an intact file *)

\* Names for the tokens that are compared where positions are computed.
Comma == ","
Opens(b) == b \in {"[", "{"}

LEMMA TokAt ==
  ASSUME NEW p \in Nat, p \in DOMAIN text
  PROVE  Tok[p] = text[p]
<1>1. Tok[p] = IF p \in DOMAIN text THEN text[p] ELSE "end"
  BY DEF Tok
<1> QED BY <1>1

LEMMA SkipAt ==
  ASSUME NEW p \in Nat, p \in DOMAIN text, text[p] # "ws"
  PROVE  Skip[p] = p
<1>1. Skip[p] = IF Tok[p] = "ws" THEN p + 1 ELSE p
  BY DEF Skip
<1> QED BY <1>1, TokAt

LEMMA CommaAt ==
  ASSUME NEW p \in Nat, p \in DOMAIN text, text[p] # "ws"
  PROVE  AfterComma[p] = IF text[p] = Comma THEN p + 1 ELSE p
<1>1. AfterComma[p] = IF Tok[Skip[p]] = "," THEN Skip[p] + 1 ELSE Skip[p]
  BY DEF AfterComma
<1> QED BY <1>1, TokAt, SkipAt DEF Comma

LEMMA TextAt ==
  ASSUME text \in Seq(Tokens), NEW a \in DOMAIN text
  PROVE  /\ a \in Nat /\ Len(text) \in Nat /\ 1 <= a /\ a <= Len(text)
         /\ \A x \in Nat : 1 <= x /\ x <= a => x \in DOMAIN text
OBVIOUS

\* The cuts of a list, and what is behind them.
LEMMA ListIs ==
  ASSUME NEW t, NEW cuts, NEW b, IsList(t, cuts, b)
  PROVE  /\ Len(cuts) \in Nat /\ Len(cuts) > 1
         /\ \A i \in 1 .. Len(cuts) : cuts[i] \in DOMAIN t
<1>1. cuts \in Seq(DOMAIN t)
  BY DEF IsList
<1>2. Len(cuts) > 1
  BY DEF IsList
<1>3. Len(cuts) \in Nat
  BY <1>1
<1>4. \A i \in 1 .. Len(cuts) : cuts[i] \in DOMAIN t
  BY <1>1
<1> QED BY <1>2, <1>3, <1>4, Zenon

LEMMA CutIs ==
  ASSUME NEW t, NEW cuts, NEW b, IsList(t, cuts, b), NEW i \in 1 .. Len(cuts)
  PROVE  /\ i = 1 => t[cuts[i]] = b
         /\ i = Len(cuts) => t[cuts[i]] = Ending(b)
         /\ i # 1 /\ i # Len(cuts) => t[cuts[i]] = Comma
<1> DEFINE n == Len(cuts)
<1>1. n \in Nat /\ n > 1
  BY ListIs, Zenon
<1>2. t[cuts[1]] = b /\ t[cuts[n]] = Ending(b) /\ \A j \in 2 .. n - 1 : t[cuts[j]] = Comma
  BY DEF IsList, Comma
<1> HIDE DEF n
<1>3. i \in 1 .. n
  BY DEF n
<1>4. i = 1 \/ i = n \/ i \in 2 .. n - 1
  BY <1>1, <1>3
<1> QED BY <1>2, <1>4 DEF n

LEMMA EndingIs ==
  ASSUME NEW b, Opens(b)
  PROVE  Ending(b) # Comma /\ Ending(b) # "ws" /\ b # "ws" /\ Comma # "ws"
BY DEF Ending, Opens, Comma

\* Behind a comma, and before a closing bracket, a cut is passed.
LEMMA CutAt ==
  ASSUME NEW cuts, NEW b, Opens(b), IsList(text, cuts, b), text \in Seq(Tokens),
         NEW i \in 1 .. Len(cuts)
  PROVE  /\ cuts[i] \in DOMAIN text /\ cuts[i] \in Nat
         /\ text[cuts[i]] # "ws"
         /\ i > 1 => AfterComma[cuts[i]] = Behind(cuts, i)
<1> DEFINE n == Len(cuts)
<1>1. cuts[i] \in DOMAIN text
  BY ListIs, Zenon
<1>2. cuts[i] \in Nat
  BY <1>1, TextAt, Zenon
<1>3. n \in Nat
  BY ListIs, Zenon
<1>4. i = 1 => text[cuts[i]] = b
  BY CutIs
<1>5. i = n => text[cuts[i]] = Ending(b)
  BY CutIs
<1>6. i # 1 /\ i # n => text[cuts[i]] = Comma
  BY CutIs
<1>7. i \in 1 .. n
  OBVIOUS
<1>8. text[cuts[i]] # "ws"
  BY <1>4, <1>5, <1>6, EndingIs
<1> HIDE DEF n
<1>9. ASSUME i > 1 PROVE AfterComma[cuts[i]] = Behind(cuts, i)
  <2>2. i # 1
    BY <1>3, <1>7, <1>9
  <2>4. text[cuts[i]] = Comma <=> i # n
    BY <1>5, <1>6, <2>2, EndingIs
  <2>5. AfterComma[cuts[i]] = IF text[cuts[i]] = Comma THEN cuts[i] + 1 ELSE cuts[i]
    BY <1>1, <1>2, <1>8, CommaAt, Zenon
  <2> QED BY <2>4, <2>5 DEF Behind, n
<1> QED BY <1>1, <1>2, <1>8, <1>9

Closes(b) == b \in {"]", "}"}

\* A key and its colon.
LEMMA KeyAt ==
  ASSUME text \in Seq(Tokens), NEW p \in Nat, NEW q \in DOMAIN text, NEW k \in Strings,
         HasKey(text, p, q, k), text[p + 3] # "ws"
  PROVE  /\ {p + 1, p + 2, p + 3} \subseteq DOMAIN text
         /\ Skip[p + 1] = p + 1 /\ Tok[p + 1] = k /\ IsKey(p + 1) /\ ValueOf[p + 1] = p + 3
         /\ Tok[p + 3] = text[p + 3]
<1>1. {p + 1, p + 2, p + 3} \subseteq DOMAIN text /\ text[p + 1] = k /\ text[p + 2] = ":"
  <2>1. p + 3 < q /\ text[p + 1] = k /\ text[p + 2] = ":"
    BY DEF HasKey
  <2>2. q \in Nat /\ \A x \in Nat : 1 <= x /\ x <= q => x \in DOMAIN text
    BY TextAt, Zenon
  <2>3. p + 1 \in DOMAIN text /\ p + 2 \in DOMAIN text /\ p + 3 \in DOMAIN text
    BY <2>1, <2>2
  <2> QED BY <2>1, <2>3
<1>2. p + 1 \in Nat /\ p + 2 \in Nat /\ p + 3 \in Nat
  OBVIOUS
<1>3. k # "ws"
  BY StringAssumption
<1>4. Tok[p + 1] = k /\ Tok[p + 2] = ":" /\ Tok[p + 3] = text[p + 3]
  BY <1>1, <1>2, TokAt
<1>5. Skip[p + 1] = p + 1
  BY <1>1, <1>2, <1>3, SkipAt
<1>6. Skip[p + 2] = p + 2
  BY <1>1, <1>2, SkipAt
<1>7. Skip[p + 3] = p + 3
  BY <1>1, <1>2, SkipAt
<1>8. (p + 1) + 1 = p + 2 /\ (p + 2) + 1 = p + 3
  OBVIOUS
<1>9. ValueOf[p + 1] = Skip[Skip[(p + 1) + 1] + 1]
  BY <1>2 DEF ValueOf
<1>10. ValueOf[p + 1] = p + 3
  BY <1>6, <1>7, <1>8, <1>9
<1>11. IsKey(p + 1)
  BY <1>4, <1>6, <1>8 DEF IsKey
<1> QED BY <1>1, <1>4, <1>5, <1>10, <1>11

LEMMA EndingTells ==
  ASSUME NEW x, NEW y, Opens(x), Opens(y)
  PROVE  Ending(x) = Ending(y) <=> x = y
BY DEF Ending, Opens

\* Where all brackets have partners, the first is closed by its own, and the
\* parser, which counts those of one kind, stops there.
LEMMA NestedEnds ==
  ASSUME text \in Seq(Tokens), NEW a \in DOMAIN text, NEW b \in DOMAIN text,
         IsNested(text, a, b)
  PROVE  Opens(text[a]) /\ Closing[a] = b + 1
<1> DEFINE n == Len(text)
           opened == {i \in a .. b : Opens(text[i])}
           closed == {i \in a .. b : Closes(text[i])}
           open == text[a]
           close == Ending(open)
           O(q) == {i \in a .. q : text[i] = open}
           C(q) == {i \in a .. q : text[i] = close}
           balanced == {q \in {c \in a .. n : text[c] = close} :
                          Cardinality(O(q)) = Cardinality(C(q))}
<1>1. PICK partner \in [opened -> closed] :
        /\ a \in opened /\ partner[a] = b
        /\ \A i \in opened : i < partner[i] /\ text[partner[i]] = Ending(text[i])
        /\ \A c \in closed : \E i \in opened : partner[i] = c
        /\ \A i, j \in opened : i < j => partner[i] < j \/ partner[j] < partner[i]
  BY DEF IsNested, Opens, Closes
<1>2. a \in Nat /\ b \in Nat /\ n \in Nat /\ b <= n
  BY TextAt, Zenon
<1>14. a < b
  BY <1>1
<1>3. Opens(open) /\ Closes(close)
  BY <1>1 DEF Ending, Opens, Closes
<1>4. \A i \in opened : i \in Nat /\ partner[i] \in closed /\ partner[i] \in Nat /\ partner[i] <= b /\ i <= b /\ a <= i
  BY <1>1, <1>2
<1>5. \A i, j \in opened : partner[i] = partner[j] => i = j
  <2> SUFFICES ASSUME NEW i \in opened, NEW j \in opened, partner[i] = partner[j], i < j PROVE FALSE
    BY <1>4
  <2>1. partner[i] < j \/ partner[j] < partner[i]
    BY <1>1
  <2>2. j < partner[j] /\ partner[i] \in Nat /\ partner[j] \in Nat /\ j \in Nat
    BY <1>1, <1>4
  <2> QED BY <2>1, <2>2
<1>6. \A i \in opened : text[partner[i]] = close <=> text[i] = open
  <2>1. \A i \in opened : Opens(text[i]) /\ text[partner[i]] = Ending(text[i])
    BY <1>1
  <2> QED BY <1>3, <2>1, EndingTells
<1>7. O(b) \subseteq opened /\ C(b) \subseteq closed
  BY <1>3
<1>8. \A q \in Nat : IsFiniteSet(O(q)) /\ IsFiniteSet(C(q))
  <2> TAKE q \in Nat
  <2>1. IsFiniteSet(a .. q)
    <3>1. a \in Int /\ q \in Int
      BY <1>2
    <3> QED BY <3>1, FS_Interval
  <2>2. O(q) \in SUBSET (a .. q) /\ C(q) \in SUBSET (a .. q)
    OBVIOUS
  <2> HIDE DEF O, C
  <2> QED BY <2>1, <2>2, FS_Subset
<1>9. Cardinality(O(b)) = Cardinality(C(b))
  <2> DEFINE f == [i \in O(b) |-> partner[i]]
  <2>1. \A i \in O(b) : partner[i] \in C(b)
    BY <1>1, <1>4, <1>6, <1>7
  <2>2. f \in [O(b) -> C(b)]
    BY <2>1
  <2>3. \A i, j \in O(b) : f[i] = f[j] => i = j
    BY <1>5, <1>7
  <2>4. \A c \in C(b) : \E i \in O(b) : f[i] = c
    <3> TAKE c \in C(b)
    <3>1. PICK i \in opened : partner[i] = c
      BY <1>1, <1>7
    <3>2. i \in O(b)
      BY <1>6, <3>1
    <3> QED BY <3>1, <3>2
  <2> HIDE DEF f, O, C
  <2>5. f \in Bijection(O(b), C(b))
    BY <2>2, <2>3, <2>4 DEF Bijection, Injection, Surjection, IsInjective
  <2>6. ExistsBijection(O(b), C(b))
    BY <2>5 DEF ExistsBijection
  <2> QED BY <1>2, <1>8, <2>6, FS_Bijection
<1>10. b \in balanced
  <2>1. text[b] = close
    BY <1>1
  <2> QED BY <1>2, <1>14, <1>9, <2>1
<1>11. \A q \in balanced : b <= q
  <2> SUFFICES ASSUME NEW q \in balanced, q < b PROVE FALSE
    BY <1>2
  <2>1. q \in Nat /\ a <= q /\ Cardinality(O(q)) = Cardinality(C(q))
    BY <1>2
  <2>2. \A c \in C(q) : \E i \in O(q) \ {a} : partner[i] = c
    <3> TAKE c \in C(q)
    <3>1. c \in closed /\ c <= q /\ c \in Nat
      BY <1>2, <1>3, <2>1
    <3>2. PICK i \in opened : partner[i] = c
      BY <1>1, <3>1
    <3>3. i < c /\ i \in Nat /\ a <= i
      BY <1>1, <1>4, <3>2
    <3>4. text[i] = open
      BY <1>6, <3>2
    <3>5. i # a
      BY <1>1, <1>2, <2>1, <3>1, <3>2
    <3>6. i \in a .. q
      BY <1>2, <2>1, <3>1, <3>3
    <3> QED BY <3>2, <3>4, <3>5, <3>6
  <2> DEFINE T == O(q) \ {a}
             g == [c \in C(q) |-> CHOOSE i \in T : partner[i] = c]
  <2>3. \A c \in C(q) : g[c] \in T /\ partner[g[c]] = c
    BY <2>2
  <2>4. g \in [C(q) -> T]
    BY <2>3
  <2>5. \A c, d \in C(q) : g[c] = g[d] => c = d
    BY <2>3
  <2>6. a \in O(q)
    BY <1>2, <2>1
  <2> HIDE DEF O, C, g
  <2>7. g \in Injection(C(q), T)
    BY <2>4, <2>5 DEF Injection, IsInjective
  <2>8. IsFiniteSet(O(q)) /\ IsFiniteSet(T) /\ Cardinality(T) = Cardinality(O(q)) - 1
    BY <1>8, <2>1, <2>6, FS_RemoveElement
  <2>9. Cardinality(C(q)) <= Cardinality(T)
    BY <2>7, <2>8, FS_Injection
  <2>10. Cardinality(O(q)) \in Nat
    BY <2>8, FS_CardinalityType
  <2> QED BY <2>1, <2>8, <2>9, <2>10
<1>12. Min(balanced) = b
  <2>1. \A q \in balanced : q \in Nat
    BY <1>2
  <2> HIDE DEF balanced
  <2>2. \A x \in balanced : (\A y \in balanced : x <= y) => x = b
    BY <1>2, <1>10, <1>11, <2>1
  <2>3. \E x \in balanced : \A y \in balanced : x <= y
    BY <1>10, <1>11
  <2>4. Min(balanced) \in balanced /\ \A y \in balanced : Min(balanced) <= y
    BY <2>3 DEF Min
  <2> QED BY <2>2, <2>4
<1>13. Closing[a] = IF balanced = {} THEN n + 1 ELSE Min(balanced) + 1
  <2>1. Tok[a] = text[a]
    BY <1>2, TokAt
  <2>2. close = IF Tok[a] = "[" THEN "]" ELSE "}"
    BY <2>1 DEF Ending
  <2> DEFINE Where(op, cl) ==
               LET Count(t, q) == Cardinality({i \in a .. q : text[i] = t})
                   bal == {q \in {c \in a .. n : text[c] = cl} : Count(op, q) = Count(cl, q)}
               IN  IF bal = {} THEN n + 1 ELSE Min(bal) + 1
  <2>3. Closing[a] = Where(Tok[a], IF Tok[a] = "[" THEN "]" ELSE "}")
    BY <1>2 DEF Closing
  <2>4. Closing[a] = Where(open, close)
    <3> HIDE DEF Where
    <3> QED BY <2>1, <2>2, <2>3, Zenon
  <2> QED BY <2>4, Zenon
<1> QED BY <1>3, <1>10, <1>12, <1>13

LEMMA StringIs ==
  ASSUME NEW x \in Strings
  PROVE  /\ x # "{" /\ x # "}" /\ x # "[" /\ x # "]" /\ x # ":" /\ x # Comma
         /\ x # "number" /\ x # "bool" /\ x # "ws" /\ x # "end" /\ ~Opens(x) /\ ~Closes(x)
BY StringAssumption, Zenon DEF Comma, Opens, Closes

\* A member, or a field to be skipped, whose key is behind the cut p.
LEMMA MemberAt ==
  ASSUME text \in Seq(Tokens), NEW p \in Nat, NEW q \in DOMAIN text, IsMember(text, p, q)
  PROVE  /\ p + 1 \in DOMAIN text /\ text[p + 1] \in Strings
         /\ Skip[p + 1] = p + 1 /\ Tok[p + 1] = text[p + 1] /\ IsKey(p + 1) /\ ValueOf[p + 1] = p + 3
         /\ Tok[p + 3] = text[p + 3] /\ IsValue(p + 3) /\ ValueEnd[p + 3] = q
         /\ Value(p + 3) = Told(text, p).value
<1>1. PICK k \in Strings : HasKey(text, p, q, k)
  BY DEF IsMember
<1>2. \/ text[p + 3] \in Strings \cup {"number", "bool"} /\ q = p + 4
      \/ IsNested(text, p + 3, q - 1)
  BY DEF IsMember
<1>3. p + 3 < q /\ text[p + 1] = k
  BY <1>1 DEF HasKey
<1>4. q \in Nat /\ q >= 1 /\ \A x \in Nat : 1 <= x /\ x <= q => x \in DOMAIN text
  BY TextAt, Zenon
<1>5. p + 3 \in DOMAIN text /\ q - 1 \in DOMAIN text /\ p + 3 \in Nat
  <2>1. p + 3 \in Nat /\ q - 1 \in Nat /\ 1 <= p + 3 /\ p + 3 <= q /\ 1 <= q - 1 /\ q - 1 <= q
    BY <1>3, <1>4
  <2> QED BY <1>4, <2>1
<1>6. CASE IsNested(text, p + 3, q - 1)
  <2>1. Opens(text[p + 3]) /\ Closing[p + 3] = (q - 1) + 1
    BY <1>5, <1>6, NestedEnds
  <2>2. text[p + 3] # "ws"
    BY <2>1, EndingIs
  <2>3. (q - 1) + 1 = q
    BY <1>4
  <2> HIDE DEF Opens
  <2>4. /\ p + 1 \in DOMAIN text
        /\ Skip[p + 1] = p + 1 /\ Tok[p + 1] = k /\ IsKey(p + 1) /\ ValueOf[p + 1] = p + 3
        /\ Tok[p + 3] = text[p + 3]
    BY <1>1, <2>2, KeyAt
  <2>5. IsValue(p + 3)
    BY <2>1, <2>4 DEF IsValue, Opens
  <2>6. ValueEnd[p + 3] = Closing[p + 3]
    BY <1>5, <2>1, <2>4 DEF ValueEnd, Opens
  <2>7. Value(p + 3) = Told(text, p).value
    BY <2>1, <2>4 DEF Value, Told, Opens
  <2> QED BY <1>3, <2>1, <2>3, <2>4, <2>5, <2>6, <2>7
<1>7. CASE text[p + 3] \in Strings \cup {"number", "bool"} /\ q = p + 4
  <2>1. text[p + 3] # "ws" /\ ~Opens(text[p + 3])
    BY <1>7, StringIs DEF Opens
  <2>2. q = (p + 3) + 1
    BY <1>7
  <2>4. /\ p + 1 \in DOMAIN text
        /\ Skip[p + 1] = p + 1 /\ Tok[p + 1] = k /\ IsKey(p + 1) /\ ValueOf[p + 1] = p + 3
        /\ Tok[p + 3] = text[p + 3]
    BY <1>1, <2>1, KeyAt
  <2>5. IsValue(p + 3)
    BY <1>7, <2>4 DEF IsValue
  <2>6. ValueEnd[p + 3] = (p + 3) + 1
    BY <1>5, <2>1, <2>4 DEF ValueEnd, Opens
  <2>7. Value(p + 3) = Told(text, p).value
    BY <2>1, <2>4 DEF Value, Told, Opens
  <2> QED BY <1>3, <2>2, <2>4, <2>5, <2>6, <2>7
<1> QED BY <1>2, <1>6, <1>7

-----------------------------------------------------------------------------
(* What the entries say *)

\* A set of positions has a greatest one.
LEMMA MaxOf ==
  ASSUME NEW n \in Nat, NEW T \in SUBSET (1 .. n), T # {}
  PROVE  Max(T) \in T /\ \A x \in T : x <= Max(T)
<1> DEFINE D == {n - x : x \in T}
<1>1. D \in SUBSET Nat /\ D # {}
  <2>1. \A x \in T : x \in Int /\ x <= n
    OBVIOUS
  <2>2. \A x \in T : n - x \in Nat
    BY <2>1
  <2> QED BY <2>2
<1> HIDE DEF D
<1>2. PICK d \in D : \A y \in D : d <= y
  BY <1>1, LeastNat
<1>3. PICK m \in T : d = n - m
  BY DEF D
<1>4. \A x \in T : x <= m
  <2> TAKE x \in T
  <2>1. n - m <= n - x
    BY <1>2, <1>3 DEF D
  <2> QED BY <2>1
<1>5. \E z \in T : \A x \in T : z >= x
  BY <1>4
<1> QED BY <1>5 DEF Max

\* What the last entry that lists a key says of it.
LEMMA LastIs ==
  ASSUME NEW es, DOMAIN es = 1 .. Len(es), Len(es) \in Nat, NEW k, NEW i \in DOMAIN es,
         k \in Range(es[i].keys), \A j \in DOMAIN es : k \in Range(es[j].keys) => j <= i
  PROVE  LastSaid(es, k) = es[i].value
<1> DEFINE IsLast(v) == \E h \in DOMAIN es : /\ k \in Range(es[h].keys) /\ es[h].value = v
                                             /\ \A j \in h + 1 .. Len(es) : k \notin Range(es[j].keys)
           lists == {h \in DOMAIN es : k \in Range(es[h].keys)}
           n == Len(es)
<1>1. \A j \in i + 1 .. n : k \notin Range(es[j].keys)
  <2> TAKE j \in i + 1 .. n
  <2>1. j \in DOMAIN es /\ ~(j <= i)
    OBVIOUS
  <2> QED BY <2>1
<1>2. IsLast(es[i].value) /\ es[i].value \in {es[h].value : h \in DOMAIN es}
  BY <1>1
<1>3. ASSUME NEW v, IsLast(v) PROVE v = es[i].value
  <2>1. PICK h \in DOMAIN es : /\ k \in Range(es[h].keys) /\ es[h].value = v
                               /\ \A j \in h + 1 .. n : k \notin Range(es[j].keys)
    BY <1>3
  <2>2. h <= i
    BY <2>1
  <2>3. i \notin h + 1 .. n
    BY <2>1
  <2> HIDE DEF n
  <2>4. n \in Nat /\ i \in 1 .. n /\ h \in 1 .. n
    BY DEF n
  <2>5. h = i
    BY <2>2, <2>3, <2>4
  <2> QED BY <2>1, <2>5
<1>4. LastSaid(es, k) = CHOOSE v \in {es[h].value : h \in DOMAIN es} : IsLast(v)
  BY DEF LastSaid
<1> HIDE DEF IsLast
<1>5. IsLast(LastSaid(es, k))
  BY <1>2, <1>4
<1> QED BY <1>3, <1>5

\* readMappingFile puts the entries into a table.
LEMMA TableSpells ==
  ASSUME NEW es, es \in Seq([keys : Seq(Strings), value : Strings])
  PROVE  Spells(FromEntries(es), es)
<1> DEFINE n == Len(es)
           Of(k) == {i \in DOMAIN es : k \in Range(es[i].keys)}
           table == FromEntries(es)
<1>1. n \in Nat /\ DOMAIN es = 1 .. n
  OBVIOUS
<1>2. \A k : Of(k) \in SUBSET (1 .. n)
  BY <1>1
<1>3. table = [k \in {s \in Strings : Of(s) # {}} |-> es[Max(Of(k))].value]
  BY DEF FromEntries
<1>4. \A k : k \in Listed(es) <=> Of(k) # {}
  BY DEF Listed
<1>5. \A i \in DOMAIN es : es[i].keys \in Seq(Strings)
  <2> DEFINE E == [keys : Seq(Strings), value : Strings]
  <2>1. es \in Seq(E)
    OBVIOUS
  <2> HIDE DEF E
  <2>2. \A i \in DOMAIN es : es[i] \in E
    BY <2>1
  <2> QED BY <2>2 DEF E
<1>6. \A i \in DOMAIN es : Range(es[i].keys) \subseteq Strings
  BY <1>5 DEF Range
<1>7. Listed(es) \subseteq Strings
  BY <1>6 DEF Listed
<1>8. DOMAIN table = Listed(es)
  <2> HIDE DEF table, Of
  <2>1. DOMAIN table = {s \in Strings : Of(s) # {}}
    BY <1>3
  <2> QED BY <1>4, <1>7, <2>1
<1>9. ASSUME NEW k \in DOMAIN table PROVE table[k] = LastSaid(es, k)
  <2>1. k \in Strings /\ Of(k) # {}
    BY <1>3
  <2>2. Max(Of(k)) \in Of(k) /\ \A x \in Of(k) : x <= Max(Of(k))
    <3> HIDE DEF n, Of
    <3> QED BY <1>1, <1>2, <2>1, MaxOf
  <2> DEFINE i == Max(Of(k))
  <2>3. i \in DOMAIN es /\ k \in Range(es[i].keys)
    BY <2>2
  <2>4. \A j \in DOMAIN es : k \in Range(es[j].keys) => j <= i
    BY <2>2
  <2> HIDE DEF i
  <2>5. LastSaid(es, k) = es[i].value
    BY <1>1, <2>3, <2>4, LastIs
  <2>6. table[k] = es[i].value
    BY <1>3, <2>1 DEF i
  <2> QED BY <2>5, <2>6
<1> QED BY <1>8, <1>9 DEF Spells

\* It adds the keys without hyphens.
LEMMA VariantsAreKnown ==
  ASSUME NEW es, NEW said, Spells(said, es), NEW w \in WithVariants(said)
  PROVE  DOMAIN w = Known(es) /\ \A k \in DOMAIN w : w[k] \in SaidOf(es, k)
<1> DEFINE hyphened == DOMAIN said \cap DOMAIN Stripped
           new == {Stripped[k] : k \in hyphened} \ DOMAIN said
<1>1. PICK h \in [new -> Range(said)] :
        /\ w = Insert(said, h)
        /\ \A s \in new : \E k \in hyphened : Stripped[k] = s /\ h[s] = said[k]
  BY DEF WithVariants
<1>2. DOMAIN said = Listed(es) /\ \A k \in DOMAIN said : said[k] = LastSaid(es, k)
  BY DEF Spells
<1>3. /\ DOMAIN w = DOMAIN said \cup new
      /\ \A k \in DOMAIN w : w[k] = IF k \in DOMAIN said THEN said[k] ELSE h[k]
  BY <1>1 DEF Insert
<1>4. DOMAIN w = Known(es)
  BY <1>2, <1>3 DEF Known
<1>5. ASSUME NEW k \in DOMAIN w PROVE w[k] \in SaidOf(es, k)
  <2>1. CASE k \in DOMAIN said
    BY <1>2, <1>3, <2>1 DEF SaidOf
  <2>2. CASE k \notin DOMAIN said
    <3>1. k \in new /\ w[k] = h[k]
      BY <1>3, <2>2
    <3>2. PICK g \in hyphened : Stripped[g] = k /\ h[k] = said[g]
      BY <1>1, <3>1
    <3>3. g \in Listed(es) \cap DOMAIN Stripped /\ w[k] = LastSaid(es, g) /\ k \notin Listed(es)
      BY <1>2, <2>2, <3>1, <3>2
    <3> QED BY <3>2, <3>3 DEF SaidOf
  <2> QED BY <2>1, <2>2
<1> QED BY <1>4, <1>5

-----------------------------------------------------------------------------
(* The outline of a file in the multi-key format *)

Brace == "{"
Bracket == "["
Outer == input.outline.members
Gloss == input.outline.glossary
Inner == input.outline.elements
Fields(j) == input.outline.fields[j]
Said == input.told

IsEntriesFile == text \in Seq(Tokens) /\ SaysEntries(text, Said, input.outline)

LEMMA OuterIs ==
  ASSUME IsEntriesFile
  PROVE  /\ text \in Seq(Tokens) /\ IsList(text, Outer, Brace) /\ Outer[1] = 1
         /\ Gloss \in 1 .. Len(Outer) - 1 /\ HasKey(text, Outer[Gloss], Outer[Gloss + 1], "GLOSSARY")
         /\ \A i \in (1 .. Len(Outer) - 1) \ {Gloss} :
              IsMember(text, Outer[i], Outer[i + 1]) /\ ~IsGlossary(text, Outer[i])
BY Zenon DEF IsEntriesFile, SaysEntries, Outer, Gloss, Brace

LEMMA InnerIs ==
  ASSUME IsEntriesFile
  PROVE  /\ IsList(text, Inner, Bracket) /\ Inner[1] = Outer[Gloss] + 3
         /\ Inner[Len(Inner)] = Outer[Gloss + 1] - 1
         /\ Said \in Seq([keys : Seq(Strings), value : Strings]) /\ Len(Inner) = Len(Said) + 1
         /\ Said # <<>>
BY Zenon DEF IsEntriesFile, SaysEntries, Outer, Gloss, Inner, Said, Bracket

LEMMA FieldsIs ==
  ASSUME IsEntriesFile, NEW j \in DOMAIN Said
  PROVE  /\ IsEntry(text, Fields(j), Said[j]) /\ Fields(j)[1] = Inner[j] + 1
         /\ Fields(j)[Len(Fields(j))] = Inner[j + 1] - 1
BY Zenon DEF IsEntriesFile, SaysEntries, Inner, Said, Fields

LEMMA EntryIs ==
  ASSUME NEW t, NEW cuts, NEW e, IsEntry(t, cuts, e)
  PROVE  /\ e \in [keys : Seq(Strings) \ {<<>>}, value : Strings \ {""}]
         /\ IsList(t, cuts, Brace)
         /\ \E i \in 1 .. Len(cuts) - 1 : IsKeys(t, cuts[i], cuts[i + 1], e)
         /\ \E i \in 1 .. Len(cuts) - 1 : IsMeaning(t, cuts[i], cuts[i + 1], e)
         /\ \A i \in 1 .. Len(cuts) - 1 :
              \/ IsKeys(t, cuts[i], cuts[i + 1], e)
              \/ IsMeaning(t, cuts[i], cuts[i + 1], e)
              \/ /\ IsMember(t, cuts[i], cuts[i + 1])
                 /\ t[cuts[i] + 1] # "keys" /\ t[cuts[i] + 1] # "value"
BY Zenon DEF IsEntry, Brace

LEMMA SaidIs ==
  ASSUME IsEntriesFile
  PROVE  /\ Len(Said) \in Nat /\ Len(Said) >= 1 /\ DOMAIN Said = 1 .. Len(Said)
         /\ \A j \in 1 .. Len(Said) : Said[j] \in [keys : Seq(Strings), value : Strings]
<1> DEFINE E == [keys : Seq(Strings), value : Strings]
<1>1. Said \in Seq(E)
  BY InnerIs, Zenon
<1> HIDE DEF E
<1>2. Said # <<>>
  BY InnerIs, Zenon
<1>3. Len(Said) \in Nat /\ DOMAIN Said = 1 .. Len(Said)
  BY <1>1
<1>4. Len(Said) # 0
  BY <1>1, <1>2, EmptySeq
<1>5. \A j \in 1 .. Len(Said) : Said[j] \in E
  BY <1>1
<1>6. Len(Said) >= 1
  BY <1>3, <1>4
<1> QED BY <1>3, <1>5, <1>6 DEF E

LEMMA Brackets ==
  /\ Opens(Brace) /\ Opens(Bracket) /\ Ending(Brace) = "}" /\ Ending(Bracket) = "]"
BY DEF Opens, Brace, Bracket, Ending

\* At a string the loops go on.
LEMMA InsideAt ==
  ASSUME text \in Seq(Tokens), pos \in DOMAIN text, Tok[pos] \in Strings
  PROVE  pos <= Len(text) /\ Inside("}") /\ Inside("]")
<1>1. pos <= Len(text)
  BY TextAt
<1>2. Tok[pos] # "}" /\ Tok[pos] # "]"
  BY StringIs
<1> QED BY <1>1, <1>2 DEF Inside

\* At the last cut they end.
LEMMA LastCut ==
  ASSUME text \in Seq(Tokens), NEW cuts, NEW b, Opens(b), IsList(text, cuts, b)
  PROVE  /\ cuts[Len(cuts)] \in DOMAIN text /\ cuts[Len(cuts)] \in Nat
         /\ Tok[cuts[Len(cuts)]] = Ending(b) /\ Skip[cuts[Len(cuts)]] = cuts[Len(cuts)]
<1> DEFINE n == Len(cuts)
<1>1. n \in Nat /\ n > 1
  BY ListIs, Zenon
<1> HIDE DEF n
<1>2. n \in 1 .. n
  BY <1>1
<1>3. cuts[n] \in DOMAIN text /\ cuts[n] \in Nat /\ text[cuts[n]] # "ws"
  BY <1>2, CutAt, Zenon DEF n
<1>4. text[cuts[n]] = Ending(b)
  BY <1>2, CutIs DEF n
<1> QED BY <1>3, <1>4, TokAt, SkipAt DEF n

\* The members of the outermost object.
LEMMA OuterAt ==
  ASSUME IsEntriesFile, NEW i \in 1 .. Len(Outer) - 1
  PROVE  /\ i \in 1 .. Len(Outer) /\ i + 1 \in 1 .. Len(Outer) /\ i # Len(Outer)
         /\ Outer[i] \in Nat /\ Outer[i + 1] \in DOMAIN text
         /\ AfterComma[Outer[i + 1]] = Behind(Outer, i + 1)
<1> DEFINE n == Len(Outer)
<1>1. IsList(text, Outer, Brace) /\ text \in Seq(Tokens)
  BY OuterIs, Zenon
<1>2. n \in Nat
  BY <1>1, ListIs, Zenon
<1>3. i \in 1 .. n - 1
  OBVIOUS
<1> HIDE DEF n
<1>4. i \in 1 .. n /\ i + 1 \in 1 .. n /\ i + 1 > 1 /\ i # n
  BY <1>2, <1>3
<1>5. Outer[i] \in Nat
  BY <1>1, <1>4, CutAt, Brackets, Zenon DEF n
<1>6. Outer[i + 1] \in DOMAIN text /\ AfterComma[Outer[i + 1]] = Behind(Outer, i + 1)
  BY <1>1, <1>4, CutAt, Brackets, Zenon DEF n
<1> QED BY <1>4, <1>5, <1>6 DEF n

LEMMA GlossAt ==
  ASSUME IsEntriesFile
  PROVE  LET p == Outer[Gloss]
         IN  /\ p \in Nat /\ p + 1 \in DOMAIN text /\ text[p + 1] = "GLOSSARY"
             /\ Skip[p + 1] = p + 1 /\ Tok[p + 1] = text[p + 1] /\ IsKey(p + 1)
             /\ ValueOf[p + 1] = p + 3 /\ p + 3 = Inner[1] /\ Tok[p + 3] = Bracket
<1> DEFINE p == Outer[Gloss]
           q == Outer[Gloss + 1]
<1>1. text \in Seq(Tokens) /\ HasKey(text, p, q, "GLOSSARY") /\ "GLOSSARY" \in Strings
  BY OuterIs, StringAssumption
<1>2. Gloss \in 1 .. Len(Outer) - 1
  BY OuterIs, Zenon
<1>3. p \in Nat /\ q \in DOMAIN text
  BY <1>2, OuterAt, Zenon
<1>4. IsList(text, Inner, Bracket) /\ p + 3 = Inner[1]
  BY InnerIs
<1>5. text[Inner[1]] = Bracket
  <2>1. Len(Inner) \in Nat /\ Len(Inner) > 1
    BY <1>4, ListIs, Zenon
  <2>2. 1 \in 1 .. Len(Inner)
    BY <2>1
  <2> QED BY <1>4, <2>2, CutIs
<1>6. text[p + 3] = Bracket /\ text[p + 3] # "ws"
  BY <1>4, <1>5 DEF Bracket
<1>7. text[p + 1] = "GLOSSARY"
  BY <1>1 DEF HasKey
<1> HIDE DEF p, q
<1>8. /\ {p + 1, p + 2, p + 3} \subseteq DOMAIN text
      /\ Skip[p + 1] = p + 1 /\ Tok[p + 1] = "GLOSSARY" /\ IsKey(p + 1) /\ ValueOf[p + 1] = p + 3
      /\ Tok[p + 3] = text[p + 3]
  BY <1>1, <1>3, <1>6, KeyAt
<1> QED BY <1>3, <1>4, <1>6, <1>7, <1>8 DEF p

LEMMA MemberKeyAt ==
  ASSUME IsEntriesFile, NEW i \in 1 .. Len(Outer) - 1
  PROVE  LET p == Outer[i]
         IN  /\ p + 1 \in DOMAIN text /\ text[p + 1] \in Strings /\ Tok[p + 1] = text[p + 1]
             /\ Skip[p + 1] = p + 1 /\ IsKey(p + 1)
<1>1. CASE i = Gloss
  BY <1>1, GlossAt, StringAssumption
<1>2. CASE i # Gloss
  <2>1. text \in Seq(Tokens) /\ IsMember(text, Outer[i], Outer[i + 1])
    BY <1>2, OuterIs
  <2>2. Outer[i] \in Nat /\ Outer[i + 1] \in DOMAIN text
    BY OuterAt, Zenon
  <2> QED BY <2>1, <2>2, MemberAt
<1> QED BY <1>1, <1>2

\* At the first cut they begin.
LEMMA FirstCut ==
  ASSUME text \in Seq(Tokens), NEW cuts, NEW b, Opens(b), IsList(text, cuts, b)
  PROVE  /\ cuts[1] \in DOMAIN text /\ cuts[1] \in Nat /\ 1 \in 1 .. Len(cuts) - 1 /\ 1 # Len(cuts)
         /\ Tok[cuts[1]] = b /\ Skip[cuts[1]] = cuts[1]
<1> DEFINE n == Len(cuts)
<1>1. n \in Nat /\ n > 1
  BY ListIs, Zenon
<1> HIDE DEF n
<1>2. 1 \in 1 .. n /\ 1 \in 1 .. n - 1 /\ 1 # n
  BY <1>1
<1>3. cuts[1] \in DOMAIN text /\ cuts[1] \in Nat /\ text[cuts[1]] # "ws"
  BY <1>2, CutAt, Zenon DEF n
<1>4. text[cuts[1]] = b
  BY <1>2, CutIs DEF n
<1> QED BY <1>2, <1>3, <1>4, TokAt, SkipAt DEF n

-----------------------------------------------------------------------------
(* The rounds of parseGlossaryFile *)

LEMMA MembersOrEnd ==
  ASSUME IsEntriesFile, NEW i, AtMember(input, i, pos, entries)
  PROVE  \/ i = Len(Outer) /\ ~Inside("}") /\ entries = Said
         \/ /\ i \in 1 .. Len(Outer) - 1 /\ pos = Outer[i] + 1 /\ Skip[pos] = pos
            /\ Inside("}") /\ IsKey(pos) /\ entries = IF i <= Gloss THEN <<>> ELSE Said
<1> DEFINE n == Len(Outer)
<1>1. i \in 1 .. n /\ pos = Behind(Outer, i) /\ entries = IF i <= Gloss THEN <<>> ELSE Said
  BY DEF AtMember, Outer, Gloss, Said
<1>2. text \in Seq(Tokens) /\ IsList(text, Outer, Brace) /\ Gloss \in 1 .. n - 1
  BY OuterIs, Zenon
<1>3. n \in Nat
  BY <1>2, ListIs, Zenon
<1>4. CASE i = n
  <2>1. pos = Outer[n]
    BY <1>1, <1>4 DEF Behind
  <2>2. Tok[pos] = "}"
    BY <1>2, <2>1, LastCut, Brackets
  <2> HIDE DEF n
  <2>3. ~(i <= Gloss)
    BY <1>2, <1>3, <1>4
  <2> QED BY <1>1, <1>4, <2>2, <2>3 DEF Inside, n
<1>5. CASE i # n
  <2>1. pos = Outer[i] + 1
    BY <1>1, <1>5 DEF Behind
  <2>2. i \in 1 .. n - 1
    <3> HIDE DEF n
    <3> QED BY <1>1, <1>3, <1>5
  <2>3. pos \in DOMAIN text /\ Tok[pos] \in Strings /\ Skip[pos] = pos /\ IsKey(pos)
    BY <2>1, <2>2, MemberKeyAt
  <2>4. Inside("}")
    BY <1>2, <2>3, InsideAt
  <2> QED BY <1>1, <2>1, <2>2, <2>3, <2>4
<1> QED BY <1>4, <1>5

LEMMA BeginEntries ==
  ASSUME IsEntriesFile, pos = 1, entries = <<>>, Begin
  PROVE  at' = "members" /\ AtMember(input, 1, pos', entries')
<1>1. text \in Seq(Tokens) /\ IsList(text, Outer, Brace) /\ Outer[1] = 1 /\ Gloss \in 1 .. Len(Outer) - 1
  BY OuterIs, Zenon
<1>2. /\ 1 \in 1 .. Len(Outer) - 1 /\ 1 # Len(Outer) /\ Tok[1] = Brace /\ Skip[1] = 1
  BY <1>1, FirstCut, Brackets
<1>3. Skip[1 + 1] = 1 + 1
  BY <1>1, <1>2, MemberKeyAt
<1>4. at' = "members" /\ pos' = 1 + 1 /\ entries' = <<>>
  BY <1>2, <1>3 DEF Begin, Go, Brace
<1>5. 1 \in 1 .. Len(Outer)
  BY <1>2, OuterAt, Zenon
<1>6. 1 <= Gloss
  BY <1>1
<1>7. pos' = Behind(Outer, 1)
  BY <1>1, <1>2, <1>4 DEF Behind
<1> QED BY <1>4, <1>5, <1>6, <1>7 DEF AtMember, Outer, Gloss

LEMMA LeaveMembersEntries ==
  ASSUME IsEntriesFile, NEW i, AtMember(input, i, pos, entries), LeaveMembers
  PROVE  at' = "close" /\ entries' = Said
<1>1. ~(Inside("}") /\ IsKey(Skip[pos]))
  BY DEF LeaveMembers
<1>2. entries = Said
  BY <1>1, MembersOrEnd
<1> QED BY <1>2 DEF LeaveMembers, Go

LEMMA MemberEntries ==
  ASSUME IsEntriesFile, NEW i, AtMember(input, i, pos, entries), Member
  PROVE  \/ at' = "members" /\ AtMember(input, i + 1, pos', entries')
         \/ at' = "elements" /\ AtElement(input, 1, pos', entries')
<1> DEFINE n == Len(Outer)
<1>1. Inside("}")
  BY DEF Member
<1>2. /\ i \in 1 .. n - 1 /\ pos = Outer[i] + 1 /\ Skip[pos] = pos
      /\ entries = IF i <= Gloss THEN <<>> ELSE Said
  BY <1>1, MembersOrEnd
<1>3. Gloss \in 1 .. n - 1 /\ IsList(text, Outer, Brace) /\ text \in Seq(Tokens)
  BY OuterIs, Zenon
<1>4. n \in Nat
  BY <1>3, ListIs, Zenon
<1>5. CASE i = Gloss
  <2> DEFINE v == Outer[Gloss] + 3
  <2>1. /\ Tok[pos] = "GLOSSARY" /\ ValueOf[pos] = v /\ v = Inner[1] /\ Tok[v] = Bracket
    BY <1>2, <1>5, GlossAt
  <2>2. IsValue(v)
    BY <2>1 DEF IsValue, Bracket
  <2> HIDE DEF v
  <2>3. at' = "elements" /\ pos' = Skip[v + 1] /\ entries' = entries
    BY <1>2, <2>1, <2>2 DEF Member, Go, Bracket
  <2>4. entries' = <<>>
    <3> HIDE DEF n
    <3>1. i <= Gloss
      BY <1>2, <1>3, <1>4, <1>5
    <3> QED BY <1>2, <2>3, <3>1
  <2>5. IsList(text, Inner, Bracket) /\ 1 \in DOMAIN Said
    BY InnerIs, SaidIs
  <2>6. Fields(1)[1] = v + 1
    BY <2>1, <2>5, FieldsIs
  <2>7. IsList(text, Fields(1), Brace)
    BY <2>5, FieldsIs, EntryIs
  <2>8. Skip[v + 1] = v + 1
    BY <1>3, <2>6, <2>7, FirstCut, Brackets
  <2>9. 1 # Len(Inner) /\ 1 \in 1 .. Len(Inner)
    <3> DEFINE l == Len(Inner)
    <3>1. l \in Nat /\ l > 1
      BY <2>5, ListIs, Zenon
    <3> HIDE DEF l
    <3>2. 1 # l /\ 1 \in 1 .. l
      BY <3>1
    <3> QED BY <3>2 DEF l
  <2>10. pos' = Behind(Inner, 1)
    BY <2>1, <2>3, <2>8, <2>9 DEF Behind
  <2>11. Before(input, 1) = <<>>
    BY DEF Before
  <2> QED BY <2>3, <2>4, <2>9, <2>10, <2>11 DEF AtElement, Inner
<1>6. CASE i # Gloss
  <2> DEFINE v == Outer[i] + 3
  <2>1. IsMember(text, Outer[i], Outer[i + 1]) /\ ~IsGlossary(text, Outer[i])
    BY <1>2, <1>6, OuterIs
  <2>2. /\ Outer[i] \in Nat /\ Outer[i + 1] \in DOMAIN text /\ i + 1 \in 1 .. n
        /\ AfterComma[Outer[i + 1]] = Behind(Outer, i + 1)
    BY <1>2, OuterAt, Zenon
  <2>3. /\ Tok[pos] = text[Outer[i] + 1] /\ ValueOf[pos] = v
        /\ Tok[v] = text[v] /\ IsValue(v) /\ ValueEnd[v] = Outer[i + 1]
    BY <1>2, <1>3, <2>1, <2>2, MemberAt
  <2>4. ~(Tok[pos] = "GLOSSARY" /\ Tok[v] = "[")
    BY <2>1, <2>3 DEF IsGlossary
  <2> HIDE DEF v
  <2>5. at' = "members" /\ pos' = Behind(Outer, i + 1) /\ entries' = entries
    BY <1>2, <2>2, <2>3, <2>4 DEF Member, Go
  <2>6. i + 1 <= Gloss <=> i <= Gloss
    <3> HIDE DEF n
    <3> QED BY <1>2, <1>3, <1>4, <1>6
  <2> QED BY <1>2, <2>2, <2>5, <2>6 DEF AtMember, Outer, Gloss, Said
<1> QED BY <1>5, <1>6

LEMMA ElementsOrEnd ==
  ASSUME IsEntriesFile, NEW j, AtElement(input, j, pos, entries)
  PROVE  \/ /\ j = Len(Inner) /\ pos = Outer[Gloss + 1] - 1 /\ Tok[pos] = "]" /\ ~Inside("]")
            /\ entries = Said
         \/ /\ j \in DOMAIN Said /\ pos = Fields(j)[1] /\ Skip[pos] = pos /\ Tok[pos] = "{"
            /\ Inside("]") /\ entries = Before(input, j)
<1> DEFINE n == Len(Inner)
           l == Len(Said)
<1>1. j \in 1 .. n /\ pos = Behind(Inner, j) /\ entries = Before(input, j)
  BY DEF AtElement, Inner
<1>2. text \in Seq(Tokens) /\ IsList(text, Inner, Bracket) /\ Inner[n] = Outer[Gloss + 1] - 1
  BY OuterIs, InnerIs, Zenon
<1>3. n = l + 1
  BY InnerIs
<1>4. l \in Nat /\ DOMAIN Said = 1 .. l
  BY SaidIs
<1>5. CASE j = n
  <2>1. pos = Inner[n]
    BY <1>1, <1>5 DEF Behind
  <2>2. Tok[pos] = "]"
    BY <1>2, <2>1, LastCut, Brackets
  <2>3. entries = SubSeq(Said, 1, j - 1)
    BY <1>1 DEF Before, Said
  <2> HIDE DEF n, l
  <2>4. j - 1 = l
    BY <1>3, <1>4, <1>5
  <2>5. entries = SubSeq(Said, 1, l)
    BY <2>3, <2>4
  <2>6. SubSeq(Said, 1, l) = Said
    <3> DEFINE E == [keys : Seq(Strings), value : Strings]
    <3>1. Said \in Seq(E)
      BY InnerIs, Zenon
    <3> HIDE DEF E
    <3> QED BY <3>1 DEF l
  <2> QED BY <1>2, <1>5, <2>1, <2>2, <2>5, <2>6 DEF Inside, n
<1>6. CASE j # n
  <2>1. pos = Inner[j] + 1
    BY <1>1, <1>6 DEF Behind
  <2>2. j \in DOMAIN Said
    <3> HIDE DEF n, l
    <3> QED BY <1>1, <1>3, <1>4, <1>6
  <2>3. IsList(text, Fields(j), Brace) /\ pos = Fields(j)[1]
    BY <2>1, <2>2, FieldsIs, EntryIs
  <2>4. pos \in DOMAIN text /\ Tok[pos] = Brace /\ Skip[pos] = pos
    BY <1>2, <2>3, FirstCut, Brackets
  <2>5. pos <= Len(text)
    BY <1>2, <2>4, TextAt
  <2>6. Tok[pos] = "{" /\ Inside("]")
    BY <2>4, <2>5 DEF Brace, Inside
  <2> QED BY <1>1, <2>2, <2>3, <2>4, <2>6
<1> QED BY <1>5, <1>6

LEMMA LeaveElementsEntries ==
  ASSUME IsEntriesFile, NEW j, AtElement(input, j, pos, entries), LeaveElements
  PROVE  at' = "members" /\ AtMember(input, Gloss + 1, pos', entries')
<1>1. ~Inside("]")
  BY DEF LeaveElements
<1>2. pos = Outer[Gloss + 1] - 1 /\ Tok[pos] = "]" /\ entries = Said
  BY <1>1, ElementsOrEnd
<1>3. Gloss \in 1 .. Len(Outer) - 1
  BY OuterIs, Zenon
<1>4. /\ Gloss + 1 \in 1 .. Len(Outer) /\ Outer[Gloss + 1] \in DOMAIN text
      /\ AfterComma[Outer[Gloss + 1]] = Behind(Outer, Gloss + 1)
  BY <1>3, OuterAt, Zenon
<1>5. Outer[Gloss + 1] \in Nat
  BY <1>4, OuterIs, TextAt, Zenon
<1>6. at' = "members" /\ pos' = AfterComma[pos + 1] /\ entries' = Said
  BY <1>2 DEF LeaveElements, Go, Past
<1>7. pos + 1 = Outer[Gloss + 1]
  BY <1>2, <1>5
<1>8. ~(Gloss + 1 <= Gloss)
  <2>1. Gloss \in Int
    BY <1>3
  <2> QED BY <2>1
<1> QED BY <1>4, <1>6, <1>7, <1>8 DEF AtMember, Outer, Gloss, Said

\* The fields of an entry.
LEMMA FieldsAt ==
  ASSUME IsEntriesFile, NEW j \in DOMAIN Said, NEW k \in 1 .. Len(Fields(j)) - 1
  PROVE  /\ k \in 1 .. Len(Fields(j)) /\ k + 1 \in 1 .. Len(Fields(j)) /\ k # Len(Fields(j))
         /\ Fields(j)[k] \in Nat /\ Fields(j)[k + 1] \in DOMAIN text
         /\ AfterComma[Fields(j)[k + 1]] = Behind(Fields(j), k + 1)
<1> DEFINE cuts == Fields(j)
           n == Len(cuts)
<1>1. IsList(text, cuts, Brace) /\ text \in Seq(Tokens)
  BY FieldsIs, EntryIs, OuterIs
<1> HIDE DEF cuts
<1>2. n \in Nat
  BY <1>1, ListIs, Zenon
<1>3. k \in 1 .. n - 1
  BY DEF cuts
<1> HIDE DEF n
<1>4. k \in 1 .. n /\ k + 1 \in 1 .. n /\ k + 1 > 1 /\ k # n
  BY <1>2, <1>3
<1>5. cuts[k] \in Nat
  BY <1>1, <1>4, CutAt, Brackets, Zenon DEF n
<1>6. cuts[k + 1] \in DOMAIN text /\ AfterComma[cuts[k + 1]] = Behind(cuts, k + 1)
  BY <1>1, <1>4, CutAt, Brackets, Zenon DEF n
<1> QED BY <1>4, <1>5, <1>6 DEF n, cuts

\* What every kind of field has in common.
LEMMA FieldKeyAt ==
  ASSUME IsEntriesFile, NEW j \in DOMAIN Said, NEW k \in 1 .. Len(Fields(j)) - 1
  PROVE  LET p == Fields(j)[k]
         IN  /\ p + 1 \in DOMAIN text /\ text[p + 1] \in Strings /\ Tok[p + 1] = text[p + 1]
             /\ Skip[p + 1] = p + 1 /\ IsKey(p + 1) /\ ValueOf[p + 1] = p + 3
             /\ Tok[p + 3] = text[p + 3]
<1> DEFINE p == Fields(j)[k]
           q == Fields(j)[k + 1]
           e == Said[j]
<1>1. p \in Nat /\ q \in DOMAIN text
  BY FieldsAt, Zenon
<1>2. text \in Seq(Tokens) /\ "keys" \in Strings /\ "value" \in Strings
  BY OuterIs, StringAssumption
<1>3. IsKeys(text, p, q, e) \/ IsMeaning(text, p, q, e) \/ IsMember(text, p, q)
  BY FieldsIs, EntryIs
<1>4. e \in [keys : Seq(Strings), value : Strings]
  BY SaidIs
<1>5. e.value \in Strings
  BY <1>4
<1> HIDE DEF p, q, e
<1>6. CASE IsKeys(text, p, q, e)
  <2>1. HasKey(text, p, q, "keys") /\ text[p + 3] = Bracket
    BY <1>6 DEF IsKeys, Bracket
  <2>2. text[p + 3] # "ws" /\ text[p + 1] = "keys"
    BY <2>1 DEF Bracket, HasKey
  <2> QED BY <1>1, <1>2, <2>1, <2>2, KeyAt DEF p
<1>7. CASE IsMeaning(text, p, q, e)
  <2>1. HasKey(text, p, q, "value") /\ text[p + 3] = e.value
    BY <1>7 DEF IsMeaning
  <2>2. text[p + 3] # "ws" /\ text[p + 1] = "value"
    BY <1>5, <2>1, StringIs DEF HasKey
  <2> QED BY <1>1, <1>2, <2>1, <2>2, KeyAt DEF p
<1>8. CASE IsMember(text, p, q)
  BY <1>1, <1>2, <1>8, MemberAt DEF p
<1> QED BY <1>3, <1>6, <1>7, <1>8

LEMMA FieldsOrEnd ==
  ASSUME IsEntriesFile, NEW j, NEW k, AtField(input, j, k, pos, entries, entry)
  PROVE  /\ j \in DOMAIN Said /\ entries = Before(input, j) /\ entry = SoFar(input, j, k)
         /\ \/ k = Len(Fields(j)) /\ pos = Inner[j + 1] - 1 /\ Tok[pos] = "}" /\ ~Inside("}")
            \/ /\ k \in 1 .. Len(Fields(j)) - 1 /\ pos = Fields(j)[k] + 1 /\ Skip[pos] = pos
               /\ Inside("}") /\ IsKey(pos)
<1> DEFINE cuts == Fields(j)
           n == Len(cuts)
<1>1. /\ j \in DOMAIN Said /\ k \in 1 .. n /\ pos = Behind(cuts, k)
      /\ entries = Before(input, j) /\ entry = SoFar(input, j, k)
  BY DEF AtField, Fields, Said
<1>2. text \in Seq(Tokens) /\ IsList(text, cuts, Brace) /\ cuts[n] = Inner[j + 1] - 1
  BY <1>1, OuterIs, FieldsIs, EntryIs
<1>3. n \in Nat
  BY <1>2, ListIs, Zenon
<1>4. CASE k = n
  <2>1. pos = cuts[n]
    BY <1>1, <1>4 DEF Behind
  <2> HIDE DEF cuts
  <2>2. Tok[pos] = "}"
    BY <1>2, <2>1, LastCut, Brackets
  <2>3. pos = Inner[j + 1] - 1
    BY <1>2, <2>1
  <2> QED BY <1>1, <1>4, <2>2, <2>3 DEF Inside, cuts
<1>5. CASE k # n
  <2>1. pos = cuts[k] + 1
    BY <1>1, <1>5 DEF Behind
  <2>2. k \in 1 .. n - 1
    <3> HIDE DEF n
    <3> QED BY <1>1, <1>3, <1>5
  <2>3. pos \in DOMAIN text /\ Tok[pos] \in Strings /\ Skip[pos] = pos /\ IsKey(pos)
    BY <1>1, <2>1, <2>2, FieldKeyAt
  <2>4. Inside("}")
    BY <1>2, <2>3, InsideAt
  <2> QED BY <1>1, <2>1, <2>2, <2>3, <2>4
<1> QED BY <1>1, <1>4, <1>5

\* An entry more.
LEMMA OneMore ==
  ASSUME NEW S, NEW s \in Seq(S), NEW j \in 1 .. Len(s)
  PROVE  Append(SubSeq(s, 1, j - 1), s[j]) = SubSeq(s, 1, j)
<1>1. SubSeq(s, 1, j - 1) \in Seq(S) /\ Len(SubSeq(s, 1, j - 1)) = j - 1 /\ s[j] \in S
  OBVIOUS
<1>2. SubSeq(s, 1, j) \in Seq(S) /\ Len(SubSeq(s, 1, j)) = j
  OBVIOUS
<1> QED BY <1>1, <1>2

\* What a field adds to the entry.
LEMMA SoFarNext ==
  ASSUME NEW f, NEW j, NEW k \in Nat, k >= 1
  PROVE  LET e == f.told[j]
             cuts == f.outline.fields[j]
         IN  SoFar(f, j, k + 1) =
               [keys |-> IF IsKeys(f.text, cuts[k], cuts[k + 1], e) THEN e.keys
                         ELSE SoFar(f, j, k).keys,
                value |-> IF IsMeaning(f.text, cuts[k], cuts[k + 1], e) THEN e.value
                          ELSE SoFar(f, j, k).value]
<1> DEFINE e == f.told[j]
           cuts == f.outline.fields[j]
           K(h) == IsKeys(f.text, cuts[h], cuts[h + 1], e)
           M(h) == IsMeaning(f.text, cuts[h], cuts[h + 1], e)
           Table(n) == [keys |-> IF \E h \in 1 .. n : K(h) THEN e.keys ELSE <<>>,
                        value |-> IF \E h \in 1 .. n : M(h) THEN e.value ELSE ""]
<1>1. SoFar(f, j, k) = Table(k - 1) /\ SoFar(f, j, k + 1) = Table((k + 1) - 1)
  BY Zenon DEF SoFar
<1>2. (k + 1) - 1 = k
  OBVIOUS
<1> HIDE DEF K, M
<1>3. /\ (\E h \in 1 .. k : K(h)) <=> K(k) \/ \E h \in 1 .. k - 1 : K(h)
      /\ (\E h \in 1 .. k : M(h)) <=> M(k) \/ \E h \in 1 .. k - 1 : M(h)
  <2>1. 1 .. k = (1 .. k - 1) \cup {k}
    OBVIOUS
  <2> QED BY <2>1
<1>4. Table(k) = [keys |-> IF K(k) THEN e.keys ELSE Table(k - 1).keys,
                  value |-> IF M(k) THEN e.value ELSE Table(k - 1).value]
  <2>1. /\ Table(k - 1).keys = IF \E h \in 1 .. k - 1 : K(h) THEN e.keys ELSE <<>>
        /\ Table(k - 1).value = IF \E h \in 1 .. k - 1 : M(h) THEN e.value ELSE ""
    OBVIOUS
  <2> QED BY <1>3, <2>1
<1> HIDE DEF Table
<1>5. SoFar(f, j, k + 1) = Table(k)
  BY <1>1, <1>2
<1> QED BY <1>1, <1>4, <1>5 DEF K, M

LEMMA ElementEntries ==
  ASSUME IsEntriesFile, NEW j, AtElement(input, j, pos, entries), Element
  PROVE  at' = "fields" /\ AtField(input, j, 1, pos', entries', entry')
<1> DEFINE cuts == Fields(j)
<1>1. Inside("]")
  BY DEF Element
<1>2. /\ j \in DOMAIN Said /\ pos = cuts[1] /\ Skip[pos] = pos
      /\ entries = Before(input, j)
  BY <1>1, ElementsOrEnd
<1>3. IsList(text, cuts, Brace) /\ text \in Seq(Tokens)
  BY <1>2, FieldsIs, EntryIs, OuterIs
<1>4. 1 \in 1 .. Len(cuts) - 1 /\ 1 # Len(cuts)
  <2> HIDE DEF cuts
  <2> QED BY <1>3, FirstCut, Brackets
<1>5. Skip[cuts[1] + 1] = cuts[1] + 1
  BY <1>2, <1>4, FieldKeyAt
<1>6. 1 \in 1 .. Len(cuts)
  BY <1>2, <1>4, FieldsAt
<1>7. at' = "fields" /\ pos' = cuts[1] + 1 /\ entry' = NoEntry /\ entries' = entries
  BY <1>2, <1>5 DEF Element, Go
<1>8. pos' = Behind(cuts, 1)
  BY <1>4, <1>7 DEF Behind
<1>9. SoFar(input, j, 1) = NoEntry
  <2>1. 1 .. 1 - 1 = {}
    OBVIOUS
  <2> QED BY <2>1 DEF SoFar, NoEntry
<1> QED BY <1>2, <1>6, <1>7, <1>8, <1>9 DEF AtField, Said, Fields

LEMMA NoStrayElement ==
  ASSUME IsEntriesFile, NEW j, AtElement(input, j, pos, entries), StrayElement
  PROVE  FALSE
<1>1. Inside("]") /\ Tok[Skip[pos]] # "{"
  BY DEF StrayElement
<1> QED BY <1>1, ElementsOrEnd

\* The end of an entry: both of its fields have been read.
LEMMA LeaveFieldsEntries ==
  ASSUME IsEntriesFile, NEW j, NEW k, AtField(input, j, k, pos, entries, entry), LeaveFields
  PROVE  at' = "elements" /\ AtElement(input, j + 1, pos', entries')
<1> DEFINE cuts == Fields(j)
           n == Len(cuts)
           e == Said[j]
<1>1. ~(Inside("}") /\ IsKey(Skip[pos]))
  BY DEF LeaveFields
<1>2. /\ j \in DOMAIN Said /\ entries = Before(input, j) /\ entry = SoFar(input, j, k)
      /\ k = n /\ pos = Inner[j + 1] - 1 /\ Tok[pos] = "}" /\ ~Inside("}")
  BY <1>1, FieldsOrEnd
<1>3. entry = [keys |-> e.keys, value |-> e.value]
  <2>1. IsEntry(text, cuts, e)
    BY <1>2, FieldsIs
  <2>2. /\ \E i \in 1 .. n - 1 : IsKeys(text, cuts[i], cuts[i + 1], e)
        /\ \E i \in 1 .. n - 1 : IsMeaning(text, cuts[i], cuts[i + 1], e)
    BY <2>1, EntryIs, Zenon
  <2> QED BY <1>2, <2>2 DEF SoFar, Said, Fields, text
<1>4. e.keys # <<>> /\ e.value # "" /\ e = [keys |-> e.keys, value |-> e.value]
  <2>1. e \in [keys : Seq(Strings) \ {<<>>}, value : Strings \ {""}]
    BY <1>2, FieldsIs, EntryIs, Zenon
  <2> QED BY <2>1
<1>5. at' = "elements" /\ pos' = AfterComma[pos + 1] /\ entries' = Append(entries, e)
  BY <1>2, <1>3, <1>4 DEF LeaveFields, Go, Past
<1>6. Len(Said) \in Nat /\ DOMAIN Said = 1 .. Len(Said) /\ Len(Inner) = Len(Said) + 1
  BY SaidIs, InnerIs
<1>7. j + 1 \in 1 .. Len(Inner) /\ j + 1 > 1 /\ j \in Nat
  <2>1. j \in DOMAIN Said
    BY <1>2
  <2> QED BY <1>6, <2>1
<1>8. IsList(text, Inner, Bracket) /\ text \in Seq(Tokens)
  BY OuterIs, InnerIs
<1>9. Inner[j + 1] \in Nat /\ AfterComma[Inner[j + 1]] = Behind(Inner, j + 1)
  BY <1>7, <1>8, CutAt, Brackets
<1>10. pos + 1 = Inner[j + 1]
  <2>1. pos = Inner[j + 1] - 1
    BY <1>2
  <2> QED BY <1>9, <2>1
<1>11. Append(SubSeq(Said, 1, j - 1), Said[j]) = SubSeq(Said, 1, j)
  <2> DEFINE E == [keys : Seq(Strings), value : Strings]
  <2>1. Said \in Seq(E)
    BY InnerIs, Zenon
  <2> HIDE DEF E
  <2> QED BY <1>2, <1>6, <2>1, OneMore
<1>12. (j + 1) - 1 = j
  BY <1>7
<1>13. entries' = Before(input, j + 1)
  BY <1>2, <1>5, <1>11, <1>12 DEF Before, Said
<1> QED BY <1>5, <1>7, <1>9, <1>10, <1>13 DEF AtElement, Inner

\* The keys of an entry.
LEMMA KeyListAt ==
  ASSUME text \in Seq(Tokens), NEW p \in Nat, NEW q \in DOMAIN text, NEW e, IsKeys(text, p, q, e),
         e.keys \in Seq(Strings), NEW c \in 1 .. Len(e.keys)
  PROVE  LET x == p + 2 + 2 * c
         IN  /\ x <= Len(text) /\ Skip[x] = x /\ Tok[x] = e.keys[c] /\ Tok[x] \in Strings
             /\ Skip[x + 1] = x + 1 /\ Tok[x + 1] = IF c = Len(e.keys) THEN Ending(Bracket) ELSE Comma
<1> DEFINE x == p + 2 + 2 * c
           n == Len(e.keys)
<1>1. n \in Nat /\ c \in 1 .. n
  OBVIOUS
<1>2. q = p + 4 + 2 * n
  BY DEF IsKeys
<1>3. text[x] = e.keys[c] /\ text[p + 3 + 2 * c] = IF c = n THEN Ending(Bracket) ELSE Comma
  <2>1. c \in DOMAIN e.keys
    BY <1>1
  <2> QED BY <2>1, Brackets, Zenon DEF IsKeys, Comma
<1>4. e.keys[c] \in Strings
  OBVIOUS
<1>5. q \in Nat /\ q <= Len(text) /\ Len(text) \in Nat /\ \A y \in Nat : 1 <= y /\ y <= q => y \in DOMAIN text
  BY TextAt, Zenon
<1> HIDE DEF n
<1>6. /\ x \in Nat /\ x + 1 \in Nat /\ 1 <= x /\ x <= q /\ x + 1 <= q /\ 1 <= x + 1
      /\ x + 1 = p + 3 + 2 * c
  BY <1>1, <1>2, <1>5
<1>7. x \in DOMAIN text /\ x + 1 \in DOMAIN text
  BY <1>5, <1>6
<1>8. text[x] # "ws" /\ text[x + 1] # "ws"
  BY <1>3, <1>4, <1>6, StringIs, EndingIs, Brackets
<1>9. x <= Len(text)
  BY <1>5, <1>6
<1> HIDE DEF x
<1>10. Skip[x] = x /\ Tok[x] = text[x] /\ Skip[x + 1] = x + 1 /\ Tok[x + 1] = text[x + 1]
  BY <1>6, <1>7, <1>8, SkipAt, TokAt
<1> QED BY <1>3, <1>4, <1>6, <1>9, <1>10 DEF x, n

\* A field, and a key in an array, when no white space is before them.
LEMMA FieldDoes ==
  ASSUME Field, Skip[pos] = pos, NEW v, ValueOf[pos] = v
  PROVE  LET array == Tok[pos] = "keys" /\ Tok[v] = "["
         IN  \/ /\ array
                /\ IF Tok[Skip[v + 1]] = "]" THEN Go("fields", AfterComma[Skip[v + 1] + 1])
                   ELSE Go("keys", Skip[v + 1])
                /\ entry' = [entry EXCEPT !.keys = <<>>] /\ entries' = entries
             \/ /\ ~array /\ IsValue(v) /\ Go("fields", AfterComma[ValueEnd[v]])
                /\ entry' = IF Tok[pos] = "value" /\ Tok[v] \in Strings
                            THEN [entry EXCEPT !.value = Tok[v]] ELSE entry
                /\ entries' = entries
             \/ ~IsValue(v)
<1> DEFINE Does(q, w) ==
             LET array == Tok[q] = "keys" /\ Tok[w] = "["
             IN  \/ /\ array
                    /\ IF Tok[Skip[w + 1]] = "]" THEN Go("fields", AfterComma[Skip[w + 1] + 1])
                       ELSE Go("keys", Skip[w + 1])
                    /\ entry' = [entry EXCEPT !.keys = <<>>] /\ entries' = entries
                 \/ /\ ~array /\ IsValue(w) /\ Go("fields", AfterComma[ValueEnd[w]])
                    /\ entry' = IF Tok[q] = "value" /\ Tok[w] \in Strings
                                THEN [entry EXCEPT !.value = Tok[w]] ELSE entry
                    /\ entries' = entries
                 \/ ~IsValue(w)
<1>1. Does(Skip[pos], ValueOf[Skip[pos]])
  BY Zenon DEF Field
<1>2. Does(pos, v)
  <2> HIDE DEF Does
  <2> QED BY <1>1
<1> QED BY <1>2, Zenon

LEMMA KeyDoes ==
  ASSUME Key, text \in Seq(Tokens), pos \in Nat, pos <= Len(text), Skip[pos] = pos, Tok[pos] \in Strings, Skip[pos + 1] = pos + 1,
         Tok[pos + 1] = Comma \/ Tok[pos + 1] = Ending(Bracket)
  PROVE  /\ entries' = entries /\ entry' = [entry EXCEPT !.keys = Append(entry.keys, Tok[pos])]
         /\ IF Tok[pos + 1] = Comma THEN Go("keys", (pos + 1) + 1)
            ELSE Go("fields", AfterComma[(pos + 1) + 1])
<1> DEFINE Does(q, c) ==
             \/ /\ IF Tok[c] = Comma THEN Go("keys", c + 1) ELSE Go("fields", AfterComma[c + 1])
                /\ entry' = [entry EXCEPT !.keys = Append(entry.keys, Tok[q])] /\ entries' = entries
             \/ pos > Len(text)
             \/ ~(Tok[q] \in Strings /\ (Tok[c] = Comma \/ Tok[c] = Ending(Bracket)))
<1>1. Does(Skip[pos], Skip[Skip[pos] + 1])
  BY Brackets, Zenon DEF Key, Comma
<1>2. Does(pos, pos + 1)
  <2> HIDE DEF Does
  <2> QED BY <1>1
<1>3. ~(pos > Len(text))
  <2>1. Len(text) \in Nat
    OBVIOUS
  <2> QED BY <2>1
<1> QED BY <1>2, <1>3, Zenon

LEMMA FieldEntries ==
  ASSUME IsEntriesFile, NEW j, NEW k, AtField(input, j, k, pos, entries, entry), Field
  PROVE  \/ at' = "fields" /\ AtField(input, j, k + 1, pos', entries', entry')
         \/ at' = "keys" /\ AtKey(input, j, k, 1, pos', entries', entry')
<1> DEFINE cuts == Fields(j)
           n == Len(cuts)
           e == Said[j]
           p == cuts[k]
           q == cuts[k + 1]
           v == p + 3
<1>1. Inside("}") /\ IsKey(Skip[pos])
  BY DEF Field
<1>2. /\ j \in DOMAIN Said /\ entries = Before(input, j) /\ entry = SoFar(input, j, k)
      /\ k \in 1 .. n - 1 /\ pos = p + 1 /\ Skip[pos] = pos
  BY <1>1, FieldsOrEnd
<1>3. /\ k \in 1 .. n /\ k + 1 \in 1 .. n /\ p \in Nat /\ q \in DOMAIN text
      /\ AfterComma[q] = Behind(cuts, k + 1)
  BY <1>2, FieldsAt
<1>4. /\ Tok[pos] = text[p + 1] /\ ValueOf[pos] = v /\ Tok[v] = text[v] /\ text \in Seq(Tokens)
  BY <1>2, FieldKeyAt, OuterIs
<1>5. /\ IsEntry(text, cuts, e)
      /\ \/ IsKeys(text, p, q, e)
         \/ IsMeaning(text, p, q, e)
         \/ IsMember(text, p, q) /\ text[p + 1] # "keys" /\ text[p + 1] # "value"
  <2>1. IsEntry(text, cuts, e)
    BY <1>2, FieldsIs
  <2> HIDE DEF cuts, e
  <2> QED BY <1>2, <2>1, EntryIs
<1>6. e \in [keys : Seq(Strings) \ {<<>>}, value : Strings \ {""}]
  BY <1>5, EntryIs, Zenon
<1>7. e.keys \in Seq(Strings) /\ e.keys # <<>> /\ e.value \in Strings
  BY <1>6
<1>8. k \in Nat /\ k >= 1
  <2>1. k \in 1 .. n
    BY <1>3
  <2> QED BY <2>1
<1>9. SoFar(input, j, k + 1) =
        [keys |-> IF IsKeys(text, p, q, e) THEN e.keys ELSE entry.keys,
         value |-> IF IsMeaning(text, p, q, e) THEN e.value ELSE entry.value]
  BY <1>2, <1>8, SoFarNext DEF Fields, Said, text
<1>10. entry = [keys |-> entry.keys, value |-> entry.value]
  BY <1>2 DEF SoFar
<1>11. CASE IsKeys(text, p, q, e)
  <2>1. HasKey(text, p, q, "keys") /\ text[v] = "["
    BY <1>11 DEF IsKeys
  <2>2. Tok[pos] = "keys" /\ Tok[v] = "["
    BY <1>4, <2>1 DEF HasKey
  <2>3. 1 \in 1 .. Len(e.keys)
    <3> DEFINE l == e.keys
    <3>1. l \in Seq(Strings) /\ l # <<>>
      BY <1>7
    <3> HIDE DEF l
    <3>2. Len(l) \in Nat /\ Len(l) # 0
      BY <3>1, EmptySeq
    <3>3. 1 \in 1 .. Len(l)
      BY <3>2
    <3> QED BY <3>3 DEF l
  <2>4. Skip[p + 2 + 2 * 1] = p + 2 + 2 * 1 /\ Tok[p + 2 + 2 * 1] \in Strings
    <3> HIDE DEF p, q, e
    <3> QED BY <1>3, <1>4, <1>7, <1>11, <2>3, KeyListAt
  <2>5. p + 2 + 2 * 1 = v + 1
    BY <1>3
  <2>6. Skip[v + 1] = v + 1 /\ Tok[v + 1] # "]"
    BY <2>4, <2>5, StringIs
  <2>7. IsValue(v)
    BY <2>2 DEF IsValue
  <2> HIDE DEF v
  <2>8. /\ at' = "keys" /\ pos' = v + 1 /\ entry' = [entry EXCEPT !.keys = <<>>]
        /\ entries' = entries
    BY <1>2, <1>4, <2>2, <2>6, <2>7, FieldDoes DEF Go
  <2>9. entry' = [keys |-> <<>>, value |-> entry.value]
    BY <1>10, <2>8
  <2>10. SubSeq(e.keys, 1, 1 - 1) = <<>>
    OBVIOUS
  <2> QED BY <1>2, <1>11, <2>3, <2>5, <2>8, <2>9, <2>10 DEF AtKey, Said, Fields, text, v
<1>12. CASE IsMeaning(text, p, q, e)
  <2>1. HasKey(text, p, q, "value") /\ q = p + 4 /\ text[v] = e.value
    BY <1>12 DEF IsMeaning
  <2>2. Tok[pos] = "value" /\ Tok[v] = e.value /\ text[p + 1] = "value"
    BY <1>4, <2>1 DEF HasKey
  <2>3. ~IsKeys(text, p, q, e)
    BY <2>2 DEF IsKeys, HasKey
  <2>4. Tok[v] \in Strings /\ ~Opens(Tok[v])
    BY <1>7, <2>2, StringIs
  <2>5. IsValue(v)
    BY <2>4 DEF IsValue
  <2>10. v \in Nat /\ v + 1 = q
    BY <1>3, <2>1
  <2>6. ValueEnd[v] = v + 1
    BY <2>4, <2>10 DEF ValueEnd, Opens
  <2> HIDE DEF v, q
  <2>7. /\ at' = "fields" /\ pos' = AfterComma[q] /\ entry' = [entry EXCEPT !.value = e.value]
        /\ entries' = entries
    BY <1>2, <1>4, <2>2, <2>4, <2>5, <2>6, <2>10, FieldDoes DEF Go
  <2>8. entry' = SoFar(input, j, k + 1)
    BY <1>9, <1>10, <1>12, <2>3, <2>7
  <2> QED BY <1>2, <1>3, <2>7, <2>8 DEF AtField, Said, Fields
<1>13. CASE IsMember(text, p, q) /\ text[p + 1] # "keys" /\ text[p + 1] # "value"
  <2>1. IsValue(v) /\ ValueEnd[v] = q
    <3> HIDE DEF p, q
    <3> QED BY <1>3, <1>4, <1>13, MemberAt
  <2>2. ~IsKeys(text, p, q, e) /\ ~IsMeaning(text, p, q, e)
    BY <1>13 DEF IsKeys, IsMeaning, HasKey
  <2>3. Tok[pos] # "keys" /\ Tok[pos] # "value"
    BY <1>4, <1>13
  <2> HIDE DEF v, q
  <2>4. at' = "fields" /\ pos' = AfterComma[q] /\ entry' = entry /\ entries' = entries
    BY <1>2, <1>4, <2>1, <2>3, FieldDoes DEF Go
  <2>5. entry' = SoFar(input, j, k + 1)
    BY <1>9, <1>10, <2>2, <2>4
  <2> QED BY <1>2, <1>3, <2>4, <2>5 DEF AtField, Said, Fields
<1> QED BY <1>5, <1>11, <1>12, <1>13

LEMMA KeyEntries ==
  ASSUME IsEntriesFile, NEW j, NEW k, NEW c, AtKey(input, j, k, c, pos, entries, entry), Key
  PROVE  \/ at' = "fields" /\ AtField(input, j, k + 1, pos', entries', entry')
         \/ at' = "keys" /\ AtKey(input, j, k, c + 1, pos', entries', entry')
<1> DEFINE cuts == Fields(j)
           n == Len(cuts)
           e == Said[j]
           p == cuts[k]
           q == cuts[k + 1]
           keys == e.keys
<1>1. /\ j \in DOMAIN Said /\ k \in 1 .. n - 1 /\ IsKeys(text, p, q, e)
      /\ c \in 1 .. Len(keys) /\ pos = p + 2 + 2 * c /\ entries = Before(input, j)
      /\ entry = [keys |-> SubSeq(keys, 1, c - 1), value |-> SoFar(input, j, k).value]
  BY DEF AtKey, Said, Fields, text
<1>2. /\ k \in 1 .. n /\ k + 1 \in 1 .. n /\ p \in Nat /\ q \in DOMAIN text
      /\ AfterComma[q] = Behind(cuts, k + 1)
  BY <1>1, FieldsAt
<1>3. text \in Seq(Tokens)
  BY OuterIs
<1>4. e \in [keys : Seq(Strings), value : Strings]
  <2>1. j \in 1 .. Len(Said)
    BY <1>1, SaidIs
  <2> QED BY <2>1, SaidIs
<1>5. keys \in Seq(Strings)
  BY <1>4
<1>6. /\ pos <= Len(text) /\ Skip[pos] = pos /\ Tok[pos] = keys[c] /\ Tok[pos] \in Strings
      /\ Skip[pos + 1] = pos + 1 /\ Tok[pos + 1] = IF c = Len(keys) THEN Ending(Bracket) ELSE Comma
  <2> HIDE DEF p, q, e
  <2> QED BY <1>1, <1>2, <1>3, <1>5, KeyListAt
<1>7. /\ entries' = entries /\ entry' = [entry EXCEPT !.keys = Append(entry.keys, keys[c])]
      /\ IF c = Len(keys) THEN Go("fields", AfterComma[pos + 2]) ELSE Go("keys", pos + 2)
  <2>1. (pos + 1) + 1 = pos + 2 /\ pos \in Nat
    <3>1. pos = p + 2 + 2 * c /\ c \in 1 .. Len(keys) /\ p \in Nat
      BY <1>1, <1>2
    <3> QED BY <3>1
  <2>2. Tok[pos + 1] = Comma <=> c # Len(keys)
    BY <1>6, EndingIs, Brackets
  <2> HIDE DEF keys
  <2>3. Tok[pos + 1] = Comma \/ Tok[pos + 1] = Ending(Bracket)
    BY <1>6
  <2> QED BY <1>3, <1>6, <2>1, <2>2, <2>3, KeyDoes
<1>8. Append(SubSeq(keys, 1, c - 1), keys[c]) = SubSeq(keys, 1, c)
  <2> HIDE DEF keys
  <2> QED BY <1>1, <1>5, OneMore
<1>9. entry' = [keys |-> SubSeq(keys, 1, c), value |-> SoFar(input, j, k).value]
  BY <1>1, <1>7, <1>8
<1>10. CASE c # Len(keys)
  <2>1. at' = "keys" /\ pos' = pos + 2
    BY <1>7, <1>10 DEF Go
  <2>2. c + 1 \in 1 .. Len(keys) /\ (c + 1) - 1 = c
    <3> HIDE DEF keys
    <3>1. c \in 1 .. Len(keys) /\ Len(keys) \in Nat
      BY <1>1, <1>5
    <3> QED BY <1>10, <3>1
  <2>3. pos' = p + 2 + 2 * (c + 1)
    <3>1. pos = p + 2 + 2 * c /\ c \in 1 .. Len(keys) /\ p \in Nat
      BY <1>1, <1>2
    <3> QED BY <2>1, <3>1
  <2> QED BY <1>1, <1>7, <1>9, <2>1, <2>2, <2>3 DEF AtKey, Said, Fields, text
<1>11. CASE c = Len(keys)
  <2>1. at' = "fields" /\ pos' = AfterComma[pos + 2]
    BY <1>7, <1>11 DEF Go
  <2>2. q = pos + 2
    <3>1. pos = p + 2 + 2 * c /\ c \in 1 .. Len(keys) /\ p \in Nat
      BY <1>1, <1>2
    <3>2. q = p + 4 + 2 * Len(keys)
      BY <1>1 DEF IsKeys
    <3> DEFINE l == Len(keys)
    <3>3. c = l /\ l \in Nat /\ q = p + 4 + 2 * l /\ pos = p + 2 + 2 * c /\ p \in Nat
      BY <1>5, <1>11, <3>1, <3>2
    <3> HIDE DEF l, keys, p, q
    <3> QED BY <3>3
  <2>3. SubSeq(keys, 1, c) = keys
    <3> HIDE DEF keys
    <3> QED BY <1>5, <1>11
  <2>4. ~IsMeaning(text, p, q, e)
    BY <1>1 DEF IsKeys, IsMeaning, HasKey
  <2>5. k \in Nat /\ k >= 1
    <3>1. k \in 1 .. n
      BY <1>2
    <3> QED BY <3>1
  <2>6. SoFar(input, j, k + 1) = [keys |-> keys, value |-> SoFar(input, j, k).value]
    BY <1>1, <2>4, <2>5, SoFarNext DEF Fields, Said, text
  <2> QED BY <1>1, <1>2, <1>7, <1>9, <2>1, <2>2, <2>3, <2>6 DEF AtField, Said, Fields
<1> QED BY <1>10, <1>11

\* The glossary has entries: the flat format is not tried.
LEMMA CloseEntries ==
  ASSUME IsEntriesFile, entries = Said, Close
  PROVE  at' = "done" /\ mapping' \in WithVariants(FromEntries(input.told))
<1>1. Said # <<>>
  BY InnerIs
<1> QED BY <1>1 DEF Close, Said

-----------------------------------------------------------------------------
(* The outline of a file in the flat format, and the rounds of parse *)

IsPairsFile == text \in Seq(Tokens) /\ SaysPairs(text, Said, input.outline)

LEMMA PairsIs ==
  ASSUME IsPairsFile
  PROVE  /\ text \in Seq(Tokens) /\ IsList(text, Outer, Brace) /\ Outer[1] = 1
         /\ \A i \in Members(Outer) : IsMember(text, Outer[i], Outer[i + 1]) /\ ~IsGlossary(text, Outer[i])
BY Zenon DEF IsPairsFile, SaysPairs, Outer, Brace

LEMMA CutTok ==
  ASSUME text \in Seq(Tokens), NEW cuts, NEW b, Opens(b), IsList(text, cuts, b),
         NEW i \in 1 .. Len(cuts), i > 1
  PROVE  /\ Skip[cuts[i]] = cuts[i]
         /\ Tok[cuts[i]] = IF i = Len(cuts) THEN Ending(b) ELSE Comma
<1> DEFINE n == Len(cuts)
<1>1. n \in Nat
  BY ListIs, Zenon
<1>2. i \in 1 .. n
  OBVIOUS
<1>3. cuts[i] \in DOMAIN text /\ cuts[i] \in Nat /\ text[cuts[i]] # "ws"
  BY CutAt, Zenon
<1>4. i = n => text[cuts[i]] = Ending(b)
  BY CutIs
<1>5. i # 1 /\ i # n => text[cuts[i]] = Comma
  BY CutIs
<1> HIDE DEF n
<1>6. i # 1
  BY <1>1, <1>2
<1> QED BY <1>3, <1>4, <1>5, <1>6, TokAt, SkipAt DEF n

\* The members there are.
LEMMA MembersAre ==
  ASSUME IsPairsFile
  PROVE  /\ Len(Outer) \in Nat /\ Len(Outer) > 1
         /\ Members(Outer) \subseteq 1 .. Len(Outer) - 1
         /\ Members(Outer) = {} => Len(Outer) = 2 /\ Outer[2] = 2
         /\ Members(Outer) # {} => Members(Outer) = 1 .. Len(Outer) - 1
<1>1. Len(Outer) \in Nat /\ Len(Outer) > 1
  BY PairsIs, ListIs, Zenon
<1>2. Members(Outer) = IF Len(Outer) = 2 /\ Outer[2] = Outer[1] + 1 THEN {} ELSE 1 .. Len(Outer) - 1
  BY DEF Members
<1>3. 1 .. Len(Outer) - 1 # {}
  BY <1>1
<1>4. Outer[1] = 1 /\ 1 + 1 = 2
  BY PairsIs
<1> QED BY <1>1, <1>2, <1>3, <1>4

LEMMA PairOrEnd ==
  ASSUME IsPairsFile, NEW i, AtPair(input, i, pos)
  PROVE  /\ i \in Nat
         /\ \/ i = Len(Outer) /\ Tok[pos] = Ending(Brace) /\ Skip[pos] = pos
            \/ /\ i \in Members(Outer) /\ pos = Outer[i] + 1 /\ Skip[pos] = pos
               /\ pos \in DOMAIN text /\ Tok[pos] = text[pos] /\ Tok[pos] \in Strings
               /\ IsKey(pos) /\ ValueOf[pos] = Outer[i] + 3
               /\ Tok[Outer[i] + 3] = text[Outer[i] + 3] /\ IsValue(Outer[i] + 3)
               /\ ValueEnd[Outer[i] + 3] = Outer[i + 1]
               /\ Value(Outer[i] + 3) = Told(text, Outer[i]).value
<1> DEFINE n == Len(Outer)
<1>1. i \in Members(Outer) \cup {n} /\ pos = Behind(Outer, i)
  BY DEF AtPair, Outer
<1>2. text \in Seq(Tokens) /\ IsList(text, Outer, Brace)
  BY PairsIs
<1>3. n \in Nat /\ Members(Outer) \subseteq 1 .. n - 1
  BY MembersAre
<1> HIDE DEF n
<1>4. i \in Nat
  BY <1>1, <1>3
<1>5. CASE i = n
  <2>1. pos = Outer[n]
    BY <1>1, <1>5 DEF Behind, n
  <2> QED BY <1>2, <1>4, <1>5, <2>1, LastCut, Brackets DEF n
<1>6. CASE i # n
  <2>1. i \in Members(Outer) /\ i \in 1 .. n - 1
    BY <1>1, <1>3, <1>6
  <2>2. pos = Outer[i] + 1
    BY <1>1, <1>6 DEF Behind, n
  <2>3. IsMember(text, Outer[i], Outer[i + 1])
    BY <2>1, PairsIs
  <2>4. i \in 1 .. n /\ i + 1 \in 1 .. n
    BY <1>3, <2>1
  <2>5. Outer[i] \in Nat /\ Outer[i + 1] \in DOMAIN text
    BY <1>2, <2>4, CutAt, Brackets DEF n
  <2> QED BY <1>2, <1>4, <2>1, <2>2, <2>3, <2>5, MemberAt
<1> QED BY <1>5, <1>6

\* The pairs after a pair.
LEMMA NextPair ==
  ASSUME IsPairsFile, NEW i \in Members(Outer)
  PROVE  /\ i + 1 \in Nat /\ AtPair(input, i + 1, Behind(Outer, i + 1))
         /\ AfterComma[Outer[i + 1]] = Behind(Outer, i + 1)
         /\ Skip[Outer[i + 1]] = Outer[i + 1]
         /\ Tok[Outer[i + 1]] = IF i + 1 = Len(Outer) THEN Ending(Brace) ELSE Comma
<1> DEFINE n == Len(Outer)
<1>1. n \in Nat /\ Members(Outer) = 1 .. n - 1
  BY MembersAre
<1>2. IsList(text, Outer, Brace) /\ text \in Seq(Tokens)
  BY PairsIs
<1> HIDE DEF n
<1>3. i + 1 \in Nat /\ i + 1 \in 1 .. n /\ i + 1 > 1 /\ (i + 1 = n \/ i + 1 \in 1 .. n - 1)
  BY <1>1
<1>4. AfterComma[Outer[i + 1]] = Behind(Outer, i + 1)
  BY <1>2, <1>3, CutAt, Brackets DEF n
<1>5. Skip[Outer[i + 1]] = Outer[i + 1] /\ Tok[Outer[i + 1]] = IF i + 1 = n THEN Ending(Brace) ELSE Comma
  BY <1>2, <1>3, CutTok, Brackets DEF n
<1>6. AtPair(input, i + 1, Behind(Outer, i + 1))
  BY <1>1, <1>3 DEF AtPair, Outer, n
<1> QED BY <1>3, <1>4, <1>5, <1>6 DEF n

\* The first pair, or the end of a file without pairs.
LEMMA FirstPair ==
  ASSUME IsPairsFile
  PROVE  /\ Tok[1] = "{" /\ Skip[1] = 1
         /\ \E i \in Nat : AtPair(input, i, Skip[1 + 1]) /\ \A h \in Members(Outer) : ~(h < i)
<1> DEFINE n == Len(Outer)
<1>1. IsList(text, Outer, Brace) /\ text \in Seq(Tokens) /\ Outer[1] = 1
  BY PairsIs
<1>2. Tok[1] = Brace /\ Skip[1] = 1 /\ 1 # n
  BY <1>1, FirstCut, Brackets
<1>3. CASE Members(Outer) = {}
  <2>1. n = 2 /\ Outer[2] = 2
    BY <1>3, MembersAre
  <2>2. Skip[Outer[n]] = Outer[n]
    BY <1>1, LastCut, Brackets
  <2>3. Skip[1 + 1] = 2
    BY <2>1, <2>2
  <2>4. Behind(Outer, 2) = 2
    BY <2>1 DEF Behind
  <2>5. AtPair(input, 2, Skip[1 + 1])
    BY <2>1, <2>3, <2>4 DEF AtPair, Outer
  <2> QED BY <1>2, <1>3, <2>5 DEF Brace
<1>4. CASE Members(Outer) # {}
  <2>1. n \in Nat /\ n > 1 /\ Members(Outer) = 1 .. n - 1
    BY <1>4, MembersAre
  <2>2. IsMember(text, Outer[1], Outer[1 + 1])
    <3> HIDE DEF n
    <3>1. 1 \in Members(Outer)
      BY <2>1
    <3> QED BY <3>1, PairsIs
  <2>3. Outer[1] \in Nat /\ Outer[1 + 1] \in DOMAIN text
    <3> HIDE DEF n
    <3>1. 1 \in 1 .. n /\ 1 + 1 \in 1 .. n
      BY <2>1
    <3> QED BY <1>1, <3>1, CutAt, Brackets DEF n
  <2>4. Skip[1 + 1] = 1 + 1
    BY <1>1, <2>2, <2>3, MemberAt
  <2>5. Behind(Outer, 1) = 1 + 1
    BY <1>1, <1>2 DEF Behind
  <2> HIDE DEF n
  <2>6. 1 \in Members(Outer) /\ \A h \in Members(Outer) : ~(h < 1)
    BY <2>1
  <2>7. AtPair(input, 1, Skip[1 + 1])
    BY <2>4, <2>5, <2>6 DEF AtPair, Outer
  <2> QED BY <1>2, <2>6, <2>7 DEF Brace
<1> QED BY <1>3, <1>4

LEMMA BeginPairs ==
  ASSUME IsPairsFile, Begin
  PROVE  at' = "members" /\ flat' = flat /\ entries' = entries /\ \E i \in Nat : AtPair(input, i, pos')
<1>1. at' = "members" /\ pos' = Skip[1 + 1] /\ flat' = flat /\ entries' = entries
  BY FirstPair DEF Begin, Go
<1> QED BY <1>1, FirstPair

LEMMA LeaveMembersPairs ==
  ASSUME LeaveMembers
  PROVE  at' = "close" /\ flat' = flat /\ entries' = entries
BY DEF LeaveMembers, Go

\* No member is taken for the glossary.
LEMMA MemberPairs ==
  ASSUME IsPairsFile, NEW i, AtPair(input, i, pos), Member
  PROVE  /\ at' = "members" /\ flat' = flat /\ entries' = entries
         /\ i + 1 \in Nat /\ AtPair(input, i + 1, pos')
<1> DEFINE v == Outer[i] + 3
<1>1. Inside("}")
  BY DEF Member
<1>2. Tok[pos] # Ending(Brace)
  BY <1>1, Brackets DEF Inside
<1>3. /\ i \in Members(Outer) /\ pos = Outer[i] + 1 /\ Skip[pos] = pos
      /\ Tok[pos] = text[pos] /\ ValueOf[pos] = v /\ Tok[v] = text[v] /\ IsValue(v)
      /\ ValueEnd[v] = Outer[i + 1]
  BY <1>2, PairOrEnd
<1>4. ~IsGlossary(text, Outer[i])
  BY <1>3, PairsIs
<1>5. ~(Tok[pos] = "GLOSSARY" /\ Tok[v] = "[")
  BY <1>3, <1>4 DEF IsGlossary
<1> HIDE DEF v
<1>6. /\ at' = "members" /\ pos' = AfterComma[Outer[i + 1]]
      /\ flat' = flat /\ entries' = entries
  BY <1>3, <1>5 DEF Member, Go
<1>7. /\ i + 1 \in Nat /\ AtPair(input, i + 1, Behind(Outer, i + 1))
      /\ AfterComma[Outer[i + 1]] = Behind(Outer, i + 1)
  BY <1>3, NextPair
<1> QED BY <1>6, <1>7

LEMMA BeginFlatPairs ==
  ASSUME IsPairsFile, DOMAIN flat = {}, BeginFlat
  PROVE  /\ at' = "pairs" /\ entries' = entries
         /\ \E i \in Nat : AtPair(input, i, pos') /\ PairsBefore(input, i, flat')
<1>1. at' = "pairs" /\ pos' = Skip[1 + 1] /\ flat' = flat /\ entries' = entries
  BY FirstPair DEF BeginFlat, Go
<1>2. PICK i \in Nat : AtPair(input, i, Skip[1 + 1]) /\ \A h \in Members(Outer) : ~(h < i)
  BY FirstPair
<1>3. {h \in Members(Outer) : h < i} = {}
  BY <1>2
<1>4. PairsBefore(input, i, flat)
  BY <1>3 DEF PairsBefore, Outer
<1> QED BY <1>1, <1>2, <1>4

\* A pair whose key has been read before replaces it.
LEMMA OnePairMore ==
  ASSUME IsPairsFile, NEW i \in Members(Outer), NEW old, PairsBefore(input, i, old), NEW new,
         new = Insert([k \in {KeyOf(input, i)} |-> ValueAt(input, i)], old)
  PROVE  PairsBefore(input, i + 1, new)
<1> DEFINE K(h) == KeyOf(input, h)
           read == {h \in Members(Outer) : h < i}
           more == {h \in Members(Outer) : h < i + 1}
<1>1. DOMAIN old = {K(h) : h \in read}
  BY DEF PairsBefore, Outer
<1>2. \A h \in read : (\A l \in read : h < l => K(l) # K(h)) => old[K(h)] = ValueAt(input, h)
  BY DEF PairsBefore, Outer
<1>3. /\ DOMAIN new = {K(i)} \cup DOMAIN old
      /\ new[K(i)] = ValueAt(input, i)
      /\ \A k \in DOMAIN old : k # K(i) => new[k] = old[k]
  BY DEF Insert
<1>4. Members(Outer) \subseteq Nat
  <2>1. Members(Outer) \subseteq 1 .. Len(Outer) - 1 /\ Len(Outer) \in Nat
    BY MembersAre
  <2> QED BY <2>1
<1>5. more = read \cup {i} /\ \A h \in read : h < i
  BY <1>4
<1> HIDE DEF K, read, more
<1>6. DOMAIN new = {K(h) : h \in more}
  BY <1>1, <1>3, <1>5
<1>7. ASSUME NEW h \in more, \A l \in more : h < l => K(l) # K(h)
      PROVE  new[K(h)] = ValueAt(input, h)
  <2>1. CASE h = i
    BY <1>3, <2>1
  <2>2. CASE h \in read
    <3>1. K(i) # K(h)
      BY <1>5, <1>7, <2>2
    <3>2. \A l \in read : h < l => K(l) # K(h)
      BY <1>5, <1>7
    <3>3. old[K(h)] = ValueAt(input, h) /\ K(h) \in DOMAIN old
      BY <1>1, <1>2, <2>2, <3>2
    <3> QED BY <1>3, <3>1, <3>3
  <2> QED BY <1>5, <2>1, <2>2
<1> QED BY <1>6, <1>7 DEF PairsBefore, Outer, K, more

\* A pair that fits.
LEMMA PairDoes ==
  ASSUME Pair, Skip[pos] = pos, IsKey(pos), NEW v, ValueOf[pos] = v, IsValue(v),
         NEW e, ValueEnd[v] = e, Skip[e] = e, Tok[e] = Comma \/ Tok[e] = Ending(Brace)
  PROVE  /\ at' = "pairs" /\ pos' = IF Tok[e] = Comma THEN e + 1 ELSE e
         /\ flat' = Insert([k \in {Tok[pos]} |-> Value(v)], flat) /\ entries' = entries
<1> DEFINE Fits(q, w, x) == /\ IsKey(q) /\ IsValue(w)
                            /\ Tok[x] = Comma \/ Tok[x] = Ending(Brace) \/ Tok[x] = "end"
           Does(q, w, x) == \/ /\ at' = "pairs" /\ pos' = IF Tok[x] = Comma THEN x + 1 ELSE x
                               /\ flat' = Insert([k \in {Tok[q]} |-> Value(w)], flat)
                               /\ entries' = entries
                            \/ ~Fits(q, w, x)
<1>1. Does(Skip[pos], ValueOf[Skip[pos]], Skip[ValueEnd[ValueOf[Skip[pos]]]])
  BY Brackets, Zenon DEF Pair, Go, Past, Comma
<1>2. Does(pos, v, e)
  <2> HIDE DEF Does
  <2> QED BY <1>1
<1> QED BY <1>2, Zenon

LEMMA PairPairs ==
  ASSUME IsPairsFile, NEW i, AtPair(input, i, pos), PairsBefore(input, i, flat), Pair
  PROVE  /\ at' = "pairs" /\ entries' = entries
         /\ i + 1 \in Nat /\ AtPair(input, i + 1, pos') /\ PairsBefore(input, i + 1, flat')
<1> DEFINE v == Outer[i] + 3
           e == Outer[i + 1]
<1>1. Tok[Skip[pos]] # Ending(Brace)
  BY Brackets DEF Pair
<1>2. /\ i \in Members(Outer) /\ pos = Outer[i] + 1 /\ Skip[pos] = pos
      /\ Tok[pos] = text[pos] /\ IsKey(pos) /\ ValueOf[pos] = v /\ IsValue(v)
      /\ ValueEnd[v] = e /\ Value(v) = Told(text, Outer[i]).value
  BY <1>1, PairOrEnd
<1>3. /\ i + 1 \in Nat /\ AtPair(input, i + 1, Behind(Outer, i + 1)) /\ Skip[e] = e
      /\ Tok[e] = IF i + 1 = Len(Outer) THEN Ending(Brace) ELSE Comma
  BY <1>2, NextPair
<1>4. Tok[e] = Comma <=> i + 1 # Len(Outer)
  BY <1>3, EndingIs, Brackets
<1>5. Behind(Outer, i + 1) = IF Tok[e] = Comma THEN e + 1 ELSE e
  BY <1>4 DEF Behind
<1>6. KeyOf(input, i) = Tok[pos] /\ ValueAt(input, i) = Value(v)
  BY <1>2 DEF KeyOf, ValueAt, Outer, text
<1> HIDE DEF v, e
<1>7. Tok[e] = Comma \/ Tok[e] = Ending(Brace)
  BY <1>3
<1>8. /\ at' = "pairs" /\ pos' = IF Tok[e] = Comma THEN e + 1 ELSE e
      /\ flat' = Insert([k \in {Tok[pos]} |-> Value(v)], flat) /\ entries' = entries
  BY <1>2, <1>3, <1>7, PairDoes
<1>9. PairsBefore(input, i + 1, flat')
  BY <1>2, <1>6, <1>8, OnePairMore
<1> QED BY <1>3, <1>5, <1>8, <1>9

\* The last of the pairs with a key is what the table has.
LEMMA LastPair ==
  ASSUME IsPairsFile, PairsBefore(input, Len(Outer), flat), NEW k \in DOMAIN flat
  PROVE  \E h \in Members(Outer) :
           /\ KeyOf(input, h) = k /\ flat[k] = ValueAt(input, h)
           /\ \A l \in Members(Outer) : KeyOf(input, l) = k => l <= h
<1> DEFINE n == Len(Outer)
           K(h) == KeyOf(input, h)
           M == Members(Outer)
           same == {h \in M : K(h) = k}
           read == {h \in M : h < n}
<1>1. n \in Nat /\ M \subseteq 1 .. n - 1
  BY MembersAre
<1>2. DOMAIN flat = {K(h) : h \in read}
  BY DEF PairsBefore, Outer
<1>3. \A h \in read : (\A l \in read : h < l => K(l) # K(h)) => flat[K(h)] = ValueAt(input, h)
  BY DEF PairsBefore, Outer
<1> HIDE DEF n, K, M
<1>4. read = M
  <2>1. \A h \in M : h < n
    BY <1>1
  <2> QED BY <2>1
<1>5. same \in SUBSET (1 .. n) /\ same # {}
  <2>1. same # {}
    BY <1>2, <1>4
  <2>2. 1 .. n - 1 \subseteq 1 .. n
    BY <1>1
  <2> QED BY <1>1, <2>1, <2>2
<1> DEFINE h == Max(same)
<1>6. h \in same /\ \A x \in same : x <= h
  <2> HIDE DEF same
  <2> QED BY <1>1, <1>5, MaxOf
<1> HIDE DEF h
<1>7. h \in M /\ K(h) = k /\ \A l \in M : K(l) = k => l <= h
  BY <1>6
<1>8. \A l \in M : h < l => K(l) # K(h)
  <2> TAKE l \in M
  <2>1. K(l) = k => l <= h
    BY <1>7
  <2>2. l \in Nat /\ h \in Nat
    BY <1>1, <1>7
  <2> QED BY <1>7, <2>1, <2>2
<1>9. flat[k] = ValueAt(input, h)
  BY <1>3, <1>4, <1>7, <1>8
<1> QED BY <1>7, <1>9 DEF K, M

LEMMA PairsSay ==
  ASSUME IsPairsFile
  PROVE  LET told == {i \in Members(Outer) : text[Outer[i] + 3] # "bool"}
             order == input.outline.order
         IN  /\ \A i \in Members(Outer) \ told, j \in told : KeyOf(input, i) # KeyOf(input, j)
             /\ Len(Said) \in Nat /\ DOMAIN Said = 1 .. Len(Said)
             /\ order \in [DOMAIN Said -> told] /\ \A h \in told : \E i \in DOMAIN Said : order[i] = h
             /\ \A i, j \in DOMAIN Said : i < j => order[i] < order[j]
             /\ \A i \in DOMAIN Said : /\ Said[i].keys = <<KeyOf(input, order[i])>>
                                       /\ Said[i].value = ValueAt(input, order[i])
<1> DEFINE told == {i \in Members(Outer) : text[Outer[i] + 3] # "bool"}
           order == input.outline.order
<1>1. \A i \in Members(Outer) \ told, j \in told : text[Outer[i] + 1] # text[Outer[j] + 1]
  BY Zenon DEF IsPairsFile, SaysPairs, Outer
<1>2. Said \in Seq([keys : Seq(Strings), value : Strings \cup {"number", "nested"}])
  BY Zenon DEF IsPairsFile, SaysPairs
<1>3. order \in [DOMAIN Said -> told] /\ Range(order) = told
  BY Zenon DEF IsPairsFile, SaysPairs, Outer
<1>4. \A i, j \in DOMAIN Said : i < j => order[i] < order[j]
  BY Zenon DEF IsPairsFile, SaysPairs
<1>5. \A i \in DOMAIN Said : Said[i] = Told(text, Outer[order[i]])
  BY Zenon DEF IsPairsFile, SaysPairs, Outer
<1>6. Len(Said) \in Nat /\ DOMAIN Said = 1 .. Len(Said)
  BY <1>2
<1>7. \A i \in Members(Outer) \ told, j \in told : KeyOf(input, i) # KeyOf(input, j)
  BY <1>1 DEF KeyOf, Outer, text
<1>8. \A i \in DOMAIN Said : /\ Said[i].keys = <<KeyOf(input, order[i])>>
                             /\ Said[i].value = ValueAt(input, order[i])
  <2> TAKE i \in DOMAIN Said
  <2>1. Said[i] = Told(text, Outer[order[i]])
    BY <1>5
  <2>2. Told(text, Outer[order[i]]).keys = <<text[Outer[order[i]] + 1]>>
    BY DEF Told
  <2> QED BY <2>1, <2>2 DEF KeyOf, ValueAt, Outer, text
<1> HIDE DEF told, order
<1>9. \A h \in told : \E i \in DOMAIN Said : order[i] = h
  BY <1>3 DEF Range
<1> QED BY <1>3, <1>4, <1>6, <1>7, <1>8, <1>9 DEF told, order

LEMMA TableOfPairs ==
  ASSUME IsPairsFile, PairsBefore(input, Len(Outer), flat)
  PROVE  Spells(Restrict(flat, {k \in DOMAIN flat : flat[k] # "bool"}), Said)
<1> DEFINE K(h) == KeyOf(input, h)
           V(h) == ValueAt(input, h)
           M == Members(Outer)
           told == {i \in M : text[Outer[i] + 3] # "bool"}
           order == input.outline.order
           kept == {k \in DOMAIN flat : flat[k] # "bool"}
           table == Restrict(flat, kept)
<1>1. /\ \A i \in M \ told, j \in told : K(i) # K(j)
      /\ Len(Said) \in Nat /\ DOMAIN Said = 1 .. Len(Said)
      /\ order \in [DOMAIN Said -> told] /\ \A h \in told : \E i \in DOMAIN Said : order[i] = h
      /\ \A i, j \in DOMAIN Said : i < j => order[i] < order[j]
      /\ \A i \in DOMAIN Said : Said[i].keys = <<K(order[i])>> /\ Said[i].value = V(order[i])
  BY PairsSay
<1>2. \A k \in DOMAIN flat : \E h \in M :
         K(h) = k /\ flat[k] = V(h) /\ \A l \in M : K(l) = k => l <= h
  BY LastPair
<1>3. \A h \in M : V(h) # "bool" <=> h \in told
  <2> TAKE h \in M
  <2>1. V(h) = IF text[Outer[h] + 3] \in {"[", "{"} THEN "nested" ELSE text[Outer[h] + 3]
    BY DEF ValueAt, Told, Outer, text
  <2> QED BY <2>1
<1>4. \A h \in M : K(h) \in DOMAIN flat
  <2>1. DOMAIN flat = {K(h) : h \in {x \in M : x < Len(Outer)}}
    BY DEF PairsBefore, Outer
  <2>2. \A h \in M : h < Len(Outer)
    <3>1. Len(Outer) \in Nat /\ M \subseteq 1 .. Len(Outer) - 1
      BY MembersAre
    <3> QED BY <3>1
  <2> QED BY <2>1, <2>2
<1>5. M \subseteq Nat
  <2>1. Len(Outer) \in Nat /\ M \subseteq 1 .. Len(Outer) - 1
    BY MembersAre
  <2> QED BY <2>1
<1>6. told \subseteq M
  OBVIOUS
<1>7. DOMAIN table = kept /\ \A k \in kept : table[k] = flat[k]
  BY DEF Restrict
<1> HIDE DEF K, V, M, told, order, table
<1>8. \A i \in DOMAIN Said : Range(Said[i].keys) = {K(order[i])}
  <2> TAKE i \in DOMAIN Said
  <2>1. Said[i].keys = <<K(order[i])>>
    BY <1>1
  <2>2. Range(<<K(order[i])>>) = {K(order[i])}
    BY DEF Range
  <2> QED BY <2>1, <2>2
<1>9. Listed(Said) = {K(h) : h \in told}
  <2>1. \A k : k \in Listed(Said) <=> \E i \in DOMAIN Said : k \in Range(Said[i].keys)
    BY Zenon DEF Listed
  <2>5. \A i \in DOMAIN Said : \A k : k \in Range(Said[i].keys) <=> k = K(order[i])
    BY <1>8
  <2>2. \A k : k \in Listed(Said) <=> \E i \in DOMAIN Said : k = K(order[i])
    BY <2>1, <2>5, Zenon
  <2>3. \A i \in DOMAIN Said : order[i] \in told
    BY <1>1
  <2>4. \A h \in told : \E i \in DOMAIN Said : order[i] = h
    BY <1>1
  <2> QED BY <2>2, <2>3, <2>4
<1>10. \A k \in kept : \E h \in told : K(h) = k /\ flat[k] = V(h) /\ \A l \in M : K(l) = k => l <= h
  BY <1>2, <1>3
<1>11. kept = {K(h) : h \in told}
  <2>1. ASSUME NEW h \in told PROVE K(h) \in kept
    <3>1. PICK g \in M : K(g) = K(h) /\ flat[K(h)] = V(g)
      BY <1>2, <1>4, <1>6
    <3>2. g \in told
      BY <1>1, <3>1
    <3> QED BY <1>3, <1>4, <1>6, <3>1, <3>2
  <2> QED BY <1>10, <2>1
<1>12. ASSUME NEW k \in kept PROVE table[k] = LastSaid(Said, k)
  <2>1. PICK h \in told : K(h) = k /\ flat[k] = V(h) /\ \A l \in M : K(l) = k => l <= h
    BY <1>10
  <2>2. PICK i \in DOMAIN Said : order[i] = h
    BY <1>1
  <2>3. k \in Range(Said[i].keys)
    BY <1>8, <2>1, <2>2
  <2>4. \A j \in DOMAIN Said : k \in Range(Said[j].keys) => j <= i
    <3> SUFFICES ASSUME NEW j \in DOMAIN Said, k \in Range(Said[j].keys) PROVE j <= i
      OBVIOUS
    <3>1. K(order[j]) = k /\ order[j] \in told /\ order[j] \in M
      BY <1>1, <1>6, <1>8
    <3>2. order[j] <= h /\ order[j] \in Nat /\ h \in Nat
      BY <1>5, <1>6, <2>1, <3>1
    <3>3. i < j => h < order[j]
      BY <1>1, <2>2
    <3>4. ~(i < j)
      BY <3>2, <3>3
    <3>5. i \in Nat /\ j \in Nat
      BY <1>1
    <3> QED BY <3>4, <3>5
  <2>5. LastSaid(Said, k) = Said[i].value
    BY <1>1, <2>3, <2>4, LastIs
  <2> QED BY <1>1, <1>7, <2>1, <2>2, <2>5
<1>13. Spells(table, Said)
  BY <1>7, <1>9, <1>11, <1>12 DEF Spells
<1> QED BY <1>13 DEF table

LEMMA LeavePairsPairs ==
  ASSUME IsPairsFile, NEW i, AtPair(input, i, pos), PairsBefore(input, i, flat), LeavePairs
  PROVE  /\ at' = "done" /\ entries' = entries
         /\ \E said : Spells(said, input.told) /\ mapping' \in WithVariants(said)
<1> DEFINE said == Restrict(flat, {k \in DOMAIN flat : flat[k] # "bool"})
<1>1. /\ ~(pos <= Len(text) /\ Tok[Skip[pos]] # "}") /\ at' = "done" /\ entries' = entries
      /\ mapping' \in WithVariants(said)
  BY DEF LeavePairs
<1>2. i = Len(Outer)
  <2> SUFFICES ASSUME i # Len(Outer) PROVE FALSE
    OBVIOUS
  <2>1. Skip[pos] = pos /\ pos \in DOMAIN text /\ Tok[pos] \in Strings
    BY PairOrEnd
  <2>2. pos <= Len(text)
    BY <2>1, PairsIs, InsideAt
  <2>3. Tok[pos] # "}"
    BY <2>1, StringIs
  <2> QED BY <1>1, <2>1, <2>2, <2>3
<1>3. Spells(said, Said)
  BY <1>2, TableOfPairs
<1> QED BY <1>1, <1>3 DEF Said

-----------------------------------------------------------------------------
(* The rounds together *)

LEMMA FollowsEntries ==
  ASSUME IsEntriesFile, input.kind = "intact", AlongEntries, ReadMapping
  PROVE  AlongEntries'
<1>1. input' = input
  BY DEF ReadMapping
<1>2. CASE at = "begin" /\ pos = 1 /\ entries = <<>>
  <2>1. Begin
    BY <1>2 DEF ReadMapping, Missing, LeaveMembers, Member, LeaveElements, Element, StrayElement,
                LeaveFields, Field, Key, Close, BeginFlat, Pair, LeavePairs
  <2>2. at' = "members" /\ AtMember(input, 1, pos', entries')
    BY <1>2, <2>1, BeginEntries
  <2> QED BY <1>1, <2>2 DEF AlongEntries
<1>3. CASE at = "members" /\ \E i : AtMember(input, i, pos, entries)
  <2>1. PICK i : AtMember(input, i, pos, entries)
    BY <1>3
  <2>2. LeaveMembers \/ Member
    BY <1>3 DEF ReadMapping, Missing, Begin, LeaveElements, Element, StrayElement,
                LeaveFields, Field, Key, Close, BeginFlat, Pair, LeavePairs
  <2>3. CASE LeaveMembers
    <3>1. at' = "close" /\ entries' = Said
      BY <2>1, <2>3, LeaveMembersEntries
    <3> QED BY <1>1, <3>1 DEF AlongEntries, Said
  <2>4. CASE Member
    <3>1. \/ at' = "members" /\ AtMember(input, i + 1, pos', entries')
          \/ at' = "elements" /\ AtElement(input, 1, pos', entries')
      BY <2>1, <2>4, MemberEntries
    <3> QED BY <1>1, <3>1 DEF AlongEntries
  <2> QED BY <2>2, <2>3, <2>4
<1>4. CASE at = "elements" /\ \E j : AtElement(input, j, pos, entries)
  <2>1. PICK j : AtElement(input, j, pos, entries)
    BY <1>4
  <2>2. LeaveElements \/ Element \/ StrayElement
    BY <1>4 DEF ReadMapping, Missing, Begin, LeaveMembers, Member,
                LeaveFields, Field, Key, Close, BeginFlat, Pair, LeavePairs
  <2>3. CASE LeaveElements
    <3>1. at' = "members" /\ AtMember(input, Gloss + 1, pos', entries')
      BY <2>1, <2>3, LeaveElementsEntries
    <3> QED BY <1>1, <3>1 DEF AlongEntries
  <2>4. CASE Element
    <3>1. at' = "fields" /\ AtField(input, j, 1, pos', entries', entry')
      BY <2>1, <2>4, ElementEntries
    <3> QED BY <1>1, <3>1 DEF AlongEntries
  <2> QED BY <2>1, <2>2, <2>3, <2>4, NoStrayElement
<1>5. CASE at = "fields" /\ \E j, k : AtField(input, j, k, pos, entries, entry)
  <2>1. PICK j, k : AtField(input, j, k, pos, entries, entry)
    BY <1>5
  <2>2. LeaveFields \/ Field
    BY <1>5 DEF ReadMapping, Missing, Begin, LeaveMembers, Member, LeaveElements, Element,
                StrayElement, Key, Close, BeginFlat, Pair, LeavePairs
  <2>3. CASE LeaveFields
    <3>1. at' = "elements" /\ AtElement(input, j + 1, pos', entries')
      BY <2>1, <2>3, LeaveFieldsEntries
    <3> QED BY <1>1, <3>1 DEF AlongEntries
  <2>4. CASE Field
    <3>1. \/ at' = "fields" /\ AtField(input, j, k + 1, pos', entries', entry')
          \/ at' = "keys" /\ AtKey(input, j, k, 1, pos', entries', entry')
      BY <2>1, <2>4, FieldEntries
    <3> QED BY <1>1, <3>1 DEF AlongEntries
  <2> QED BY <2>2, <2>3, <2>4
<1>6. CASE at = "keys" /\ \E j, k, c : AtKey(input, j, k, c, pos, entries, entry)
  <2>1. PICK j, k, c : AtKey(input, j, k, c, pos, entries, entry)
    BY <1>6
  <2>2. Key
    BY <1>6 DEF ReadMapping, Missing, Begin, LeaveMembers, Member, LeaveElements, Element,
                StrayElement, LeaveFields, Field, Close, BeginFlat, Pair, LeavePairs
  <2>3. \/ at' = "fields" /\ AtField(input, j, k + 1, pos', entries', entry')
        \/ at' = "keys" /\ AtKey(input, j, k, c + 1, pos', entries', entry')
    BY <2>1, <2>2, KeyEntries
  <2> QED BY <1>1, <2>3 DEF AlongEntries
<1>7. CASE at = "close" /\ entries = input.told
  <2>1. Close
    BY <1>7 DEF ReadMapping, Missing, Begin, LeaveMembers, Member, LeaveElements, Element,
                StrayElement, LeaveFields, Field, Key, BeginFlat, Pair, LeavePairs
  <2>2. at' = "done" /\ mapping' \in WithVariants(FromEntries(input.told))
    BY <1>7, <2>1, CloseEntries DEF Said
  <2> QED BY <1>1, <2>2 DEF AlongEntries
<1>8. at # "done"
  BY DEF ReadMapping, Missing, Begin, LeaveMembers, Member, LeaveElements, Element,
         StrayElement, LeaveFields, Field, Key, Close, BeginFlat, Pair, LeavePairs
<1> QED BY <1>2, <1>3, <1>4, <1>5, <1>6, <1>7, <1>8 DEF AlongEntries

LEMMA FollowsPairs ==
  ASSUME IsPairsFile, input.kind = "intact", AlongPairs, ReadMapping
  PROVE  AlongPairs'
<1>1. input' = input
  BY DEF ReadMapping
<1>2. entries = <<>>
  BY DEF AlongPairs
<1>3. CASE at = "begin" /\ pos = 1 /\ DOMAIN flat = {}
  <2>1. Begin
    BY <1>3 DEF ReadMapping, Missing, LeaveMembers, Member, LeaveElements, Element, StrayElement,
                LeaveFields, Field, Key, Close, BeginFlat, Pair, LeavePairs
  <2>2. at' = "members" /\ flat' = flat /\ entries' = entries /\ \E i \in Nat : AtPair(input, i, pos')
    BY <2>1, BeginPairs
  <2> QED BY <1>1, <1>2, <1>3, <2>2 DEF AlongPairs
<1>4. CASE at = "members" /\ DOMAIN flat = {} /\ \E i : AtPair(input, i, pos)
  <2>1. PICK i : AtPair(input, i, pos)
    BY <1>4
  <2>2. LeaveMembers \/ Member
    BY <1>4 DEF ReadMapping, Missing, Begin, LeaveElements, Element, StrayElement,
                LeaveFields, Field, Key, Close, BeginFlat, Pair, LeavePairs
  <2>3. CASE LeaveMembers
    <3>1. at' = "close" /\ flat' = flat /\ entries' = entries
      BY <2>3, LeaveMembersPairs
    <3> QED BY <1>1, <1>2, <1>4, <3>1 DEF AlongPairs
  <2>4. CASE Member
    <3>1. /\ at' = "members" /\ flat' = flat /\ entries' = entries
          /\ AtPair(input, i + 1, pos')
      BY <2>1, <2>4, MemberPairs
    <3> QED BY <1>1, <1>2, <1>4, <3>1 DEF AlongPairs
  <2> QED BY <2>2, <2>3, <2>4
<1>5. CASE at = "close" /\ DOMAIN flat = {}
  <2>1. Close
    BY <1>5 DEF ReadMapping, Missing, Begin, LeaveMembers, Member, LeaveElements, Element,
                StrayElement, LeaveFields, Field, Key, BeginFlat, Pair, LeavePairs
  <2>2. at' = "flat" /\ flat' = flat /\ entries' = entries
    BY <1>2, <2>1 DEF Close
  <2> QED BY <1>1, <1>2, <1>5, <2>2 DEF AlongPairs
<1>6. CASE at = "flat" /\ DOMAIN flat = {}
  <2>1. BeginFlat
    BY <1>6 DEF ReadMapping, Missing, Begin, LeaveMembers, Member, LeaveElements, Element,
                StrayElement, LeaveFields, Field, Key, Close, Pair, LeavePairs
  <2>2. /\ at' = "pairs" /\ entries' = entries
        /\ \E i \in Nat : AtPair(input, i, pos') /\ PairsBefore(input, i, flat')
    BY <1>6, <2>1, BeginFlatPairs
  <2> QED BY <1>1, <1>2, <2>2 DEF AlongPairs
<1>7. CASE at = "pairs" /\ \E i : AtPair(input, i, pos) /\ PairsBefore(input, i, flat)
  <2>1. PICK i : AtPair(input, i, pos) /\ PairsBefore(input, i, flat)
    BY <1>7
  <2>2. Pair \/ LeavePairs
    BY <1>7 DEF ReadMapping, Missing, Begin, LeaveMembers, Member, LeaveElements, Element,
                StrayElement, LeaveFields, Field, Key, Close, BeginFlat
  <2>3. CASE Pair
    <3>1. /\ at' = "pairs" /\ entries' = entries
          /\ AtPair(input, i + 1, pos') /\ PairsBefore(input, i + 1, flat')
      BY <2>1, <2>3, PairPairs
    <3> QED BY <1>1, <1>2, <3>1 DEF AlongPairs
  <2>4. CASE LeavePairs
    <3>1. /\ at' = "done" /\ entries' = entries
          /\ \E said : Spells(said, input.told) /\ mapping' \in WithVariants(said)
      BY <2>1, <2>4, LeavePairsPairs
    <3> QED BY <1>1, <1>2, <3>1 DEF AlongPairs
  <2> QED BY <2>2, <2>3, <2>4
<1>8. at # "done"
  BY DEF ReadMapping, Missing, Begin, LeaveMembers, Member, LeaveElements, Element,
         StrayElement, LeaveFields, Field, Key, Close, BeginFlat, Pair, LeavePairs
<1> QED BY <1>3, <1>4, <1>5, <1>6, <1>7, <1>8 DEF AlongPairs

\* What an intact file is.
LEMMA IntactIs ==
  ASSUME IsFile(input), input.kind = "intact"
  PROVE  \/ input.outline.format = "entries" /\ IsEntriesFile
         \/ input.outline.format = "pairs" /\ IsPairsFile
BY Zenon DEF IsFile, IsEntriesFile, IsPairsFile, text, Said

\* Every new file is read from its beginning.
LEMMA StartsFollowing ==
  ASSUME input.kind = "intact" => IsFile(input), Starts
  PROVE  Following
<1> SUFFICES ASSUME input.kind = "intact"
             PROVE  \/ input.outline.format = "entries" /\ AlongEntries
                    \/ input.outline.format = "pairs" /\ AlongPairs
  BY DEF Following
<1>1. pos = 1 /\ at = "begin" /\ entries = <<>> /\ DOMAIN flat = {}
  BY DEF Starts, Nothing
<1>2. AlongEntries /\ AlongPairs
  BY <1>1 DEF AlongEntries, AlongPairs
<1> QED BY <1>2, IntactIs

LEMMA ReadFollowing ==
  ASSUME input.kind = "intact" => IsFile(input), Following, ReadMapping
  PROVE  Following'
<1>1. input' = input
  BY DEF ReadMapping
<1> SUFFICES ASSUME input.kind = "intact"
             PROVE  \/ input.outline.format = "entries" /\ AlongEntries'
                    \/ input.outline.format = "pairs" /\ AlongPairs'
  BY <1>1 DEF Following
<1>2. \/ input.outline.format = "entries" /\ AlongEntries /\ IsEntriesFile
      \/ input.outline.format = "pairs" /\ AlongPairs /\ IsPairsFile
  BY IntactIs DEF Following
<1> QED BY <1>2, FollowsEntries, FollowsPairs

\* At the end, what has been read is what the file says.
LEMMA FollowingReads ==
  ASSUME input.kind = "intact" => IsFile(input), Following
  PROVE  ReadsWellFormed
<1> SUFFICES ASSUME at = "done", input.kind = "intact"
             PROVE  /\ DOMAIN mapping = Known(input.told)
                    /\ \A k \in DOMAIN mapping : mapping[k] \in SaidOf(input.told, k)
  BY DEF ReadsWellFormed
<1>1. \/ AlongEntries /\ IsEntriesFile
      \/ AlongPairs
  BY IntactIs DEF Following
<1>2. CASE AlongEntries /\ IsEntriesFile
  <2>1. mapping \in WithVariants(FromEntries(Said))
    BY <1>2 DEF AlongEntries, Said
  <2>2. Said \in Seq([keys : Seq(Strings), value : Strings])
    BY <1>2, InnerIs, Zenon
  <2>3. Spells(FromEntries(Said), Said)
    BY <2>2, TableSpells, Zenon
  <2>4. DOMAIN mapping = Known(Said) /\ \A k \in DOMAIN mapping : mapping[k] \in SaidOf(Said, k)
    BY <2>1, <2>3, VariantsAreKnown
  <2> QED BY <2>4 DEF Said
<1>3. CASE AlongPairs
  <2>1. PICK said : Spells(said, input.told) /\ mapping \in WithVariants(said)
    BY <1>3 DEF AlongPairs
  <2> QED BY <2>1, VariantsAreKnown
<1> QED BY <1>1, <1>2, <1>3

\* The file that is read is the one whose turn it is.
LEMMA InputIs == Bookkeeping => (input.kind = "intact" => IsFile(input))
<1> SUFFICES ASSUME Bookkeeping PROVE input.kind = "intact" => IsFile(input)
  OBVIOUS
<1>1. CASE file < Len(case.files)
  <2>1. input = case.files[file + 1]
    BY <1>1 DEF Bookkeeping, FileAfter
  <2>2. file + 1 \in DOMAIN case.files /\ case \in Cases
    BY <1>1, CaseFiles DEF Bookkeeping
  <2>3. IsFile(case.files[file + 1])
    BY <2>2, CaseAssumption
  <2> QED BY <2>1, <2>3
<1>2. CASE ~(file < Len(case.files))
  <2>1. input = NoFile
    BY <1>2 DEF Bookkeeping, FileAfter
  <2> QED BY <2>1 DEF NoFile
<1> QED BY <1>1, <1>2

LEMMA InitFollowing == Init => Following
<1> SUFFICES ASSUME Init PROVE Following
  OBVIOUS
<1>1. Starts /\ Bookkeeping
  BY InitLiteral DEF Init
<1> QED BY <1>1, InputIs, StartsFollowing

LEMMA NextFollowing == Bookkeeping /\ Bookkeeping' /\ Following /\ [Next]_vars => Following'
<1> SUFFICES ASSUME Bookkeeping, Bookkeeping', Following, [Next]_vars PROVE Following'
  OBVIOUS
<1>1. (input.kind = "intact" => IsFile(input)) /\ (input.kind = "intact" => IsFile(input))'
  BY InputIs, PTL
<1>2. CASE Read
  <2>1. ReadMapping
    BY <1>2 DEF Read
  <2> QED BY <1>1, <2>1, ReadFollowing
<1>3. CASE NextFile
  <2>1. pos' = 1 /\ at' = "begin" /\ entries' = <<>> /\ DOMAIN flat' = {}
    BY <1>3 DEF NextFile, Nothing
  <2>2. AlongEntries' /\ AlongPairs'
    BY <2>1 DEF AlongEntries, AlongPairs
  <2>3. input'.kind = "intact" => input'.outline.format = "entries" \/ input'.outline.format = "pairs"
    BY <1>1 DEF IsFile
  <2> QED BY <2>2, <2>3 DEF Following
<1>4. CASE UNCHANGED parserVars
  BY <1>4 DEF parserVars, Following, AlongEntries, AlongPairs
<1> QED BY <1>2, <1>3, <1>4 DEF Next, vars, Extract, insertMappings

\* Every glossary that is well-formed, in either format, is read as it was
\* meant: whatever other members and fields surround the entries, in whatever
\* order an entry has its fields, and however often a key is listed.
THEOREM ReadsWellFormedCorrect == Spec => []ReadsWellFormed
<1>1. Bookkeeping /\ Following => ReadsWellFormed
  BY InputIs, FollowingReads
<1> QED
  BY <1>1, InitLiteral, NextLiteral, NextBookkeeping, InitFollowing, NextFollowing, PTL DEF Spec

\* What is heard is explained: by each intact file, whatever the others are,
\* and with the meaning of the first that knows the word.  The function never
\* loses the transcription but to a key that is no regular expression.
THEOREM SpeechExplainedCorrect == Spec => []SpeechExplained
BY ReadsWellFormedCorrect, SpeechExplainedIfRead, PTL
=============================================================================
