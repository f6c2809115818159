----------------------------- MODULE YamlParser -----------------------------
(***************************************************************************)
(* src/yamlParser.cpp: how the lines of config.yaml become a tree.  A step *)
(* is one round of the loop of parse; nesting is found with a stack of the *)
(* open nodes and their indentation.                                       *)
(*                                                                         *)
(* A line is what parse sees of it: its indentation, what stands before    *)
(* its first colon ("" if it has none), and what stands behind: nothing    *)
(* (as a pair of quotes is too), a scalar, or a list in brackets.  For a   *)
(* line without a colon it is what the line would be as a list, since the  *)
(* line before may take it for one; such a list has no colons in it.       *)
(***************************************************************************)
EXTENDS Integers, Sequences, SequencesExt

VARIABLES
  lines,  \* the lines of the file without comments and empty ones
  next,   \* the line parse is at
  stack,  \* nodeStack: the nodes that are open, with their indentation
  tree    \* the nodes, by their path of keys from the root

yamlVars == <<lines, next, stack, tree>>

\* What a node holds: is is the scalar alone, or the items of a list.
Scalar(w) == [kind |-> "scalar", is |-> <<w>>]
List(items) == [kind |-> "list", is |-> items]
Map == [kind |-> "map", is |-> <<>>]

\* YamlNode(): an empty string; emptyNode too.
Blank == Scalar("")

\* A line with a key and a value (or, with the key "", a list alone on its
\* line), one with a key only, and one that is neither.
Under(n, k, v) == [indent |-> n, key |-> k, kind |-> v.kind, is |-> v.is]
Open(n, k) == [indent |-> n, key |-> k, kind |-> "none", is |-> <<>>]
Bare(n) == Open(n, "")
Comment == [indent |-> 0, key |-> "", kind |-> "comment", is |-> <<>>]

FileLines == [indent : Nat, key : STRING, is : Seq(STRING),
              kind : {"none", "scalar", "list", "comment"}]

\* parseString drops empty lines and comments, before nesting is looked at.
Lines(text) ==
  LET kept[n \in 0 .. Len(text)] ==
        IF n = 0 THEN <<>>
        ELSE IF text[n].kind = "comment" THEN kept[n - 1] ELSE Append(kept[n - 1], text[n])
  IN  kept[Len(text)]

YamlInit(text) ==
  /\ lines = Lines(text)
  /\ next = 1
  /\ stack = <<[path |-> <<>>, indent |-> -1]>>
  /\ tree = [p \in {<<>>} |-> Blank]

-----------------------------------------------------------------------------
(* The tree.  An operator with a suffix _X is the operator before the      *)
(* underscore as a plausible bug X would leave it; no action uses it.      *)

\* operator[]: the node p becomes a map, and its child k exists.
Entered(t, p, k) ==
  [q \in DOMAIN t \cup {Append(p, k)} |->
     IF q = p THEN IF t[p].kind = "map" THEN t[p] ELSE Map
     ELSE IF q \in DOMAIN t THEN t[q] ELSE Blank]

\* ... and setValue, which destroys whatever was below.
Assigned(t, p, k, v) ==
  LET e == Entered(t, p, k)
      child == Append(p, k)
  IN  [q \in {d \in DOMAIN e : ~IsStrictPrefix(child, d)} |->
         IF q = child THEN v ELSE e[q]]

\* The operator[] of a const node: a missing child is emptyNode.
At(p) == IF p \in DOMAIN tree THEN tree[p] ELSE Blank

\* getKeys
KeysAt(p) == {Last(q) : q \in {d \in DOMAIN tree : Len(d) = Len(p) + 1 /\ IsPrefix(p, d)}}

-----------------------------------------------------------------------------
(* parse *)

Line == lines[next]

StillOpen_Siblings ==
  SubSeq(stack, 1, Max({i \in DOMAIN stack : stack[i].indent <= Line.indent}))

\* Nodes are popped down to one that is indented less than the line; the root,
\* at -1, always is, so that the stack is never found empty.
StillOpen == SubSeq(stack, 1, Max({i \in DOMAIN stack : stack[i].indent < Line.indent}))

Parent == Last(StillOpen).path

\* "Look ahead to see if next line is a list"
ListFollows ==
  /\ next < Len(lines)
  /\ lines[next + 1].key = "" /\ lines[next + 1].kind = "list"
  /\ lines[next + 1].indent > Line.indent

AtKey == next <= Len(lines) /\ Line.key # ""

\* A line without a colon.
SkipLine ==
  /\ next <= Len(lines) /\ Line.key = ""
  /\ next' = next + 1
  /\ UNCHANGED <<lines, stack, tree>>

\* key: scalar, or key: [list]
Assign ==
  /\ AtKey /\ Line.kind # "none"
  /\ stack' = StillOpen
  /\ tree' = Assigned(tree, Parent, Line.key, [kind |-> Line.kind, is |-> Line.is])
  /\ next' = next + 1
  /\ UNCHANGED lines

\* key: and a list on the next line, which goes below a child GLOSSARY.
AssignNext ==
  /\ AtKey /\ Line.kind = "none" /\ ListFollows
  /\ stack' = StillOpen
  /\ tree' = Assigned(Entered(tree, Parent, Line.key),
                      Append(Parent, Line.key), "GLOSSARY", List(lines[next + 1].is))
  /\ next' = next + 2
  /\ UNCHANGED lines

\* key: and its children on the lines that follow.
OpenNode ==
  /\ AtKey /\ Line.kind = "none" /\ ~ListFollows
  /\ stack' = Append(StillOpen, [path |-> Append(Parent, Line.key), indent |-> Line.indent])
  /\ tree' = Entered(tree, Parent, Line.key)
  /\ next' = next + 1
  /\ UNCHANGED lines

Parse == SkipLine \/ Assign \/ AssignNext \/ OpenNode

Parsed == next > Len(lines)

-----------------------------------------------------------------------------
(* What the lines say, without a stack *)

Keyed(ls, j) == ls[j].key # ""

ListBelow(ls, j) == /\ j < Len(ls) /\ ~Keyed(ls, j + 1) /\ ls[j + 1].kind = "list"
                    /\ ls[j + 1].indent > ls[j].indent

Opens(ls, j) == Keyed(ls, j) /\ ls[j].kind = "none" /\ ~ListBelow(ls, j)

\* A line belongs to the nearest line above it that opens a node, is indented
\* less, and has not been closed by a key in between indented no more than it.
OwnersOf(ls, j) ==
  {h \in 1 .. j - 1 : /\ Opens(ls, h)
                      /\ \A g \in h + 1 .. j : Keyed(ls, g) => ls[g].indent > ls[h].indent}

PathsOf(ls) ==
  LET path[j \in DOMAIN ls] ==
        Append(IF OwnersOf(ls, j) = {} THEN <<>> ELSE path[Max(OwnersOf(ls, j))], ls[j].key)
  IN  path

\* The nodes a line names, and what it gives them.  Where a list on a line of
\* its own belongs is the parser's own convention, taken over here: it is given
\* to a child GLOSSARY of the key above.  What a file may mean by it instead is
\* what ConfigSingleton!DocumentedIsRead is about.
Named(ls, j) == [path |-> PathsOf(ls)[j], line |-> j,
                 value |-> IF ls[j].kind = "none" THEN Blank
                           ELSE [kind |-> ls[j].kind, is |-> ls[j].is],
                 sets |-> ls[j].kind # "none"]
NamedBelow(ls, j) == [path |-> Append(PathsOf(ls)[j], "GLOSSARY"), line |-> j,
                      value |-> List(ls[j + 1].is), sets |-> TRUE]

Said(ls) ==
  LET keys == {j \in DOMAIN ls : Keyed(ls, j)}
  IN  {Named(ls, j) : j \in keys}
        \cup {NamedBelow(ls, j) : j \in {k \in keys : ls[k].kind = "none" /\ ListBelow(ls, k)}}

\* A value given to a node removes what was below it.
Left(said) == {e \in said : ~\E l \in said : /\ l.sets /\ l.line > e.line
                                             /\ IsStrictPrefix(l.path, e.path)}

\* A node with keys below it is a map, and the last value given to it counts.
Holds(left, p, v) ==
  LET given == {e \in left : e.path = p /\ e.sets}
  IN  IF \E e \in left : IsStrictPrefix(p, e.path) THEN v = Map
      ELSE IF given = {} THEN v = Blank
      ELSE \E e \in given : v = e.value /\ \A l \in given : l.line <= e.line

\* The tree t is the one that what is said stands for: every key is under the
\* key it belongs to.
StandsFor(said, t) ==
  /\ DOMAIN t = {<<>>} \cup UNION {Prefixes(e.path) \ {<<>>} : e \in Left(said)}
  /\ \A p \in DOMAIN t : Holds(Left(said), p, t[p])
=============================================================================
