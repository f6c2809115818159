----------------------------- MODULE JsonParser -----------------------------
(***************************************************************************)
(* src/jsonParser.cpp and readMappingFile of src/transcriptionProcessor.cpp: *)
(* how a glossary file becomes a mapping from keys to meanings.  The parser *)
(* first looks for the multi-key format; when it finds no entry it reads   *)
(* the same text again in the old flat format.  A step is one round of one *)
(* of its loops: what can go wrong is that a round does not advance.       *)
(***************************************************************************)
EXTENDS GlossaryFile

VARIABLES
  input,    \* the file
  pos,      \* the position in the text
  at,       \* the loop the parser is in
  entries,  \* the glossary entries it has read
  entry,    \* the one it is reading
  flat,     \* the pairs of the old format
  mapping   \* what readMappingFile returns

parserVars == <<input, pos, at, entries, entry, flat, mapping>>

text == input.text
NoEntry == [keys |-> <<>>, value |-> ""]
Nothing == [k \in {} |-> ""]

\* readMappingFile begins with the file.
Starts ==
  /\ pos = 1
  /\ at = "begin"
  /\ entries = <<>> /\ entry = NoEntry
  /\ flat = Nothing /\ mapping = Nothing

-----------------------------------------------------------------------------
(* Reading tokens.  An operator with a suffix _X is the operator before the *)
(* underscore as a plausible bug X would leave it; no action uses it.       *)

Tok[p \in Nat] == IF p \in DOMAIN text THEN text[p] ELSE "end"

\* skipWhitespace
Skip[p \in Nat] == IF Tok[p] = "ws" THEN p + 1 ELSE p

\* The optional comma after an element, and white space before it.
AfterComma[p \in Nat] == LET q == Skip[p] IN IF Tok[q] = "," THEN q + 1 ELSE q

\* The end of the array or object that begins at p: where its own kind of
\* bracket is balanced, or the end of the text.
Closing[p \in Nat] ==
  LET open == Tok[p]
      close == IF open = "[" THEN "]" ELSE "}"
      Count(t, q) == Cardinality({i \in p .. q : text[i] = t})
      balanced == {q \in {c \in p .. Len(text) : text[c] = close} : Count(open, q) = Count(close, q)}
  IN  IF balanced = {} THEN Len(text) + 1 ELSE Min(balanced) + 1

\* parseValue: what it accepts, where it stops, what it returns.
IsValue(p) == Tok[p] \in Strings \cup {"number", "bool", "[", "{"}
ValueEnd[p \in Nat] == IF Tok[p] \in {"[", "{"} THEN Closing[p] ELSE p + 1
Value(p) == IF Tok[p] \in {"[", "{"} THEN "nested" ELSE Tok[p]

\* A key and its colon are at p; the value begins at ValueOf[p].
IsKey(p) == Tok[p] \in Strings /\ Tok[Skip[p + 1]] = ":"
ValueOf[p \in Nat] == Skip[Skip[p + 1] + 1]

\* The loop condition: before the end, and not at the closing token t.
Inside(t) == pos <= Len(text) /\ Tok[pos] # t

\* pos at a closing token moves behind it.
Past(p, t) == IF Tok[p] = t THEN p + 1 ELSE p

\* An exception: readMappingFile catches it and returns an empty mapping.
Throw == /\ at' = "done"
         /\ UNCHANGED <<pos, entries, entry, flat, mapping>>

Go(label, p) == at' = label /\ pos' = p

-----------------------------------------------------------------------------
(* parseGlossaryFile *)

\* readMappingFile cannot open the file: an empty mapping.
Missing ==
  /\ at = "begin" /\ input.kind = "missing"
  /\ Throw

Begin ==
  /\ at = "begin" /\ input.kind # "missing"
  /\ IF Tok[Skip[1]] = "{" THEN Go("members", Skip[Skip[1] + 1]) ELSE Go("close", pos)
  /\ UNCHANGED <<entries, entry, flat, mapping>>

LeaveMembers ==
  /\ at = "members"
  /\ ~(Inside("}") /\ IsKey(Skip[pos]))
  /\ Go("close", pos)
  /\ UNCHANGED <<entries, entry, flat, mapping>>

\* A member of the outermost object: the glossary, or one to be skipped.
Member ==
  /\ at = "members"
  /\ Inside("}") /\ IsKey(Skip[pos])
  /\ LET v == ValueOf[Skip[pos]]
     IN  \/ /\ Tok[Skip[pos]] = "GLOSSARY" /\ Tok[v] = "["
            /\ Go("elements", Skip[v + 1])
            /\ UNCHANGED <<entries, entry, flat, mapping>>
         \/ /\ ~(Tok[Skip[pos]] = "GLOSSARY" /\ Tok[v] = "[")
            /\ IsValue(v)
            /\ Go("members", AfterComma[ValueEnd[v]])
            /\ UNCHANGED <<entries, entry, flat, mapping>>
         \/ ~IsValue(v) /\ Throw

LeaveElements_AtBracketOnly ==
  /\ at = "elements"
  /\ Tok[pos] = "]"
  /\ Go("members", AfterComma[pos + 1])
  /\ UNCHANGED <<entries, entry, flat, mapping>>

LeaveElements ==
  /\ at = "elements"
  /\ ~Inside("]")
  /\ Go("members", AfterComma[Past(pos, "]")])
  /\ UNCHANGED <<entries, entry, flat, mapping>>

\* An element of the glossary that is an object.
Element ==
  /\ at = "elements"
  /\ Inside("]") /\ Tok[Skip[pos]] = "{"
  /\ Go("fields", Skip[Skip[pos] + 1])
  /\ entry' = NoEntry
  /\ UNCHANGED <<entries, flat, mapping>>

\* Any other is not skipped: the loop only advances over a comma.
StrayElement ==
  /\ at = "elements"
  /\ Inside("]") /\ Tok[Skip[pos]] # "{"
  /\ Go("elements", AfterComma[pos])
  /\ UNCHANGED <<entries, entry, flat, mapping>>

LeaveFields_Continues ==
  /\ at = "fields"
  /\ IF Inside("}") THEN ~IsKey(Skip[pos]) /\ Go("fields", Skip[pos])
     ELSE Go("elements", AfterComma[Past(pos, "}")])
  /\ entries' = IF ~Inside("}") /\ entry.keys # <<>> /\ entry.value # "" THEN Append(entries, entry)
                ELSE entries
  /\ UNCHANGED <<entry, flat, mapping>>

\* The object ends, or a field without a key or a colon breaks the loop; an
\* entry is kept if it has keys and a value.
LeaveFields ==
  /\ at = "fields"
  /\ LET q == Skip[pos]
         stop == IF ~Inside("}") THEN pos
                 ELSE IF Tok[q] \notin Strings THEN q ELSE Skip[q + 1]
     IN  /\ ~(Inside("}") /\ IsKey(q))
         /\ Go("elements", AfterComma[Past(stop, "}")])
  /\ entries' = IF entry.keys # <<>> /\ entry.value # "" THEN Append(entries, entry)
                ELSE entries
  /\ UNCHANGED <<entry, flat, mapping>>

\* A field of an entry: its keys, its value, or one to be skipped.
Field ==
  /\ at = "fields"
  /\ Inside("}") /\ IsKey(Skip[pos])
  /\ LET k == Tok[Skip[pos]]
         v == ValueOf[Skip[pos]]
         array == k = "keys" /\ Tok[v] = "["
         value == k = "value" /\ Tok[v] \in Strings
     IN  \/ /\ array
            /\ IF Tok[Skip[v + 1]] = "]" THEN Go("fields", AfterComma[Skip[v + 1] + 1])
               ELSE Go("keys", Skip[v + 1])
            /\ entry' = [entry EXCEPT !.keys = <<>>]
            /\ UNCHANGED <<entries, flat, mapping>>
         \/ /\ ~array /\ IsValue(v)
            /\ Go("fields", AfterComma[ValueEnd[v]])
            /\ entry' = IF value THEN [entry EXCEPT !.value = Tok[v]] ELSE entry
            /\ UNCHANGED <<entries, flat, mapping>>
         \/ ~IsValue(v) /\ Throw

\* parseStringArray: one string and what follows it.
Key ==
  /\ at = "keys"
  /\ LET q == Skip[pos]
         c == Skip[q + 1]
     IN  \/ /\ pos > Len(text)
            /\ Go("fields", pos)
            /\ UNCHANGED <<entries, entry, flat, mapping>>
         \/ /\ pos <= Len(text)
            /\ Tok[q] \in Strings /\ Tok[c] \in {",", "]"}
            /\ IF Tok[c] = "," THEN Go("keys", c + 1) ELSE Go("fields", AfterComma[c + 1])
            /\ entry' = [entry EXCEPT !.keys = Append(@, Tok[q])]
            /\ UNCHANGED <<entries, flat, mapping>>
         \/ /\ pos <= Len(text)
            /\ ~(Tok[q] \in Strings /\ Tok[c] \in {",", "]"})
            /\ Throw

-----------------------------------------------------------------------------
(* readMappingFile *)

\* m.insert(n.begin(), n.end()): a key that is there stays as it is.
Insert(m, n) == [k \in DOMAIN m \cup DOMAIN n |-> IF k \in DOMAIN m THEN m[k] ELSE n[k]]

\* A later entry or pair with the same key replaces an earlier one.
FromEntries(es) ==
  LET Of(k) == {i \in DOMAIN es : k \in Range(es[i].keys)}
  IN  [k \in {s \in Strings : Of(s) # {}} |-> es[Max(Of(k))].value]

\* A variant replaces what the file says of the key without hyphens.
WithVariants_Override(m) ==
  LET hyphened == DOMAIN m \cap DOMAIN Stripped
      new == {Stripped[k] : k \in hyphened}
  IN  {Insert(h, m) : h \in {g \in [new -> Range(m)] :
         \A s \in new : \E k \in hyphened : Stripped[k] = s /\ g[s] = m[k]}}

\* Keys with hyphens are known without them too, unless the file has that key.
\* Of two that become the same, either wins: the order is the hash table's.
WithVariants(m) ==
  LET hyphened == DOMAIN m \cap DOMAIN Stripped
      new == {Stripped[k] : k \in hyphened} \ DOMAIN m
  IN  {Insert(m, h) : h \in {g \in [new -> Range(m)] :
         \A s \in new : \E k \in hyphened : Stripped[k] = s /\ g[s] = m[k]}}

\* The multi-key format has given entries, or the flat one is tried.
Close ==
  /\ at = "close"
  /\ IF entries # <<>>
     THEN at' = "done" /\ mapping' \in WithVariants(FromEntries(entries))
     ELSE at' = "flat" /\ UNCHANGED mapping
  /\ UNCHANGED <<pos, entries, entry, flat>>

\* parse: the same text from its beginning.
BeginFlat ==
  /\ at = "flat"
  /\ \/ /\ Tok[Skip[1]] = "{"
        /\ Go("pairs", Skip[Skip[1] + 1])
        /\ UNCHANGED <<entries, entry, flat, mapping>>
     \/ Tok[Skip[1]] # "{" /\ Throw

Pair ==
  /\ at = "pairs"
  /\ pos <= Len(text) /\ Tok[Skip[pos]] # "}"
  /\ LET q == Skip[pos]
         v == ValueOf[q]
         e == Skip[ValueEnd[v]]
         fits == IsKey(q) /\ IsValue(v) /\ Tok[e] \in {",", "}", "end"}
     IN  \/ /\ fits
            /\ Go("pairs", Past(e, ","))
            /\ flat' = Insert([k \in {Tok[q]} |-> Value(v)], flat)
            /\ UNCHANGED <<entries, entry, mapping>>
         \/ ~fits /\ Throw

\* Pairs with true, false or null are left out.
LeavePairs ==
  /\ at = "pairs"
  /\ ~(pos <= Len(text) /\ Tok[Skip[pos]] # "}")
  /\ at' = "done"
  /\ mapping' \in WithVariants(Restrict(flat, {k \in DOMAIN flat : flat[k] # "bool"}))
  /\ UNCHANGED <<pos, entries, entry, flat>>

-----------------------------------------------------------------------------

ReadMapping ==
  /\ \/ Missing \/ Begin \/ LeaveMembers \/ Member \/ LeaveElements \/ Element
     \/ StrayElement \/ LeaveFields \/ Field \/ Key \/ Close
     \/ BeginFlat \/ Pair \/ LeavePairs
  /\ UNCHANGED input

-----------------------------------------------------------------------------

\* A well-formed glossary is read as it was meant: in either format, in
\* whatever order its entries have their fields, whatever other members and
\* fields surround them, and although the text is first read as another format.
ReadsWellFormed ==
  at = "done" /\ input.kind = "intact" =>
    /\ DOMAIN mapping = Known(input.told)
    /\ \A k \in DOMAIN mapping : mapping[k] \in SaidOf(input.told, k)

\* The parser hangs on one kind of text only: the glossary array has an
\* element that is no object (or an object in it is broken off).
Stray == at = "elements" /\ Tok[Skip[pos]] \notin {"{", "]", ",", "end"}
=============================================================================
