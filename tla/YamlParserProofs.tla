-------------------------- MODULE YamlParserProofs --------------------------
(***************************************************************************)
(* That the stack of YamlParser.tla builds the tree the indentation of the *)
(* lines stands for, for files of any length and depth, and that a node    *)
(* which is open on the stack is never destroyed.                          *)
(***************************************************************************)
EXTENDS YamlParser, FiniteSetTheorems, SequenceTheorems, WellFoundedInduction, TLAPS

\* The words in a path, and paths.
PathWords == STRING \cup {"GLOSSARY"}
Paths == Seq(PathWords)

\* What parse sees of a line.
KeptLines == {l \in FileLines : l.kind # "comment"}

-----------------------------------------------------------------------------
(* The inductive invariant *)

\* The lines before n that still can get children at n.
OpenAt(ls, n) ==
  {h \in 1 .. n - 1 : /\ Opens(ls, h)
                      /\ \A g \in h + 1 .. n - 1 : Keyed(ls, g) => ls[g].indent > ls[h].indent}

\* What the lines before n say.
SaidBefore(ls, n) == {e \in Said(ls) : e.line < n}

OnStack(ls, h) == [path |-> PathsOf(ls)[h], indent |-> ls[h].indent]

StackNodes == [path : Paths, indent : Int]

\* The stack s is the root and the lines that are open, one deeper than the
\* other.
StackFollows(ls, s, open) ==
  /\ s \in Seq(StackNodes) /\ s # <<>>
  /\ s[1] = [path |-> <<>>, indent |-> -1]
  /\ \A i, j \in DOMAIN s : i < j => /\ s[i].indent < s[j].indent
                                    /\ IsStrictPrefix(s[i].path, s[j].path)
  /\ \A i \in DOMAIN s : i > 1 => \E h \in open : s[i] = OnStack(ls, h)
  /\ \A h \in open : \E i \in DOMAIN s : i > 1 /\ s[i].indent = ls[h].indent

\* The nodes on the stack are in the tree: the pointers of the code to them
\* are good.
OpenNodesExist == \A i \in DOMAIN stack : stack[i].path \in DOMAIN tree

\* When a key is read there is a node it belongs to: the stack is never popped
\* until it is empty, for which parse would throw "Invalid YAML structure".
ParentExists ==
  AtKey => /\ {i \in DOMAIN stack : stack[i].indent < Line.indent} # {}
           /\ Parent \in DOMAIN tree

Nesting ==
  /\ lines \in Seq(KeptLines) /\ next \in Nat \ {0}
  /\ StackFollows(lines, stack, OpenAt(lines, next))
  /\ OpenNodesExist
  /\ StandsFor(SaidBefore(lines, next), tree)

-----------------------------------------------------------------------------
(* Prefixes *)

LEMMA PrefixDef ==
  ASSUME NEW S, NEW s \in Seq(S), NEW t \in Seq(S)
  PROVE  IsPrefix(s, t) <=> Len(s) <= Len(t) /\ \A i \in 1 .. Len(s) : s[i] = t[i]
BY DEF IsPrefix

LEMMA PrefixesDef ==
  ASSUME NEW S, NEW t \in Seq(S)
  PROVE  /\ Prefixes(t) \subseteq Seq(S)
         /\ \A s \in Seq(S) : s \in Prefixes(t) <=> IsPrefix(s, t)
BY DEF Prefixes, IsPrefix

LEMMA PrefixSelf ==
  ASSUME NEW S, NEW s \in Seq(S)
  PROVE  IsPrefix(s, s) /\ IsPrefix(<<>>, s) /\ ~IsStrictPrefix(s, s)
BY DEF IsPrefix, IsStrictPrefix

LEMMA StrictPrefixDef ==
  ASSUME NEW S, NEW s \in Seq(S), NEW t \in Seq(S)
  PROVE  IsStrictPrefix(s, t) <=> Len(s) < Len(t) /\ \A i \in 1 .. Len(s) : s[i] = t[i]
<1>1. ASSUME Len(s) = Len(t), \A i \in 1 .. Len(s) : s[i] = t[i] PROVE s = t
  BY <1>1
<1> QED
  BY <1>1, PrefixDef DEF IsStrictPrefix

LEMMA PrefixTransitive ==
  ASSUME NEW S, NEW s \in Seq(S), NEW t \in Seq(S), NEW u \in Seq(S),
         IsPrefix(s, t), IsPrefix(t, u)
  PROVE  IsPrefix(s, u)
<1>1. Len(s) \in Nat /\ Len(t) \in Nat /\ Len(u) \in Nat
  OBVIOUS
<1>2. \A i \in 1 .. Len(s) : i \in 1 .. Len(t) /\ s[i] = t[i] /\ t[i] = u[i]
  BY <1>1, PrefixDef
<1>3. Len(s) <= Len(u)
  BY <1>1, PrefixDef
<1> QED
  BY <1>2, <1>3, PrefixDef

LEMMA PrefixesCompare ==
  ASSUME NEW S, NEW s \in Seq(S), NEW t \in Seq(S), NEW u \in Seq(S),
         IsPrefix(s, u), IsPrefix(t, u)
  PROVE  IsPrefix(s, t) \/ IsStrictPrefix(t, s)
<1>1. Len(s) \in Nat /\ Len(t) \in Nat
  OBVIOUS
<1>2. (\A i \in 1 .. Len(s) : s[i] = u[i]) /\ (\A i \in 1 .. Len(t) : t[i] = u[i])
  BY PrefixDef
<1>3. CASE Len(s) <= Len(t)
  BY <1>1, <1>2, <1>3, PrefixDef
<1>4. CASE Len(t) < Len(s)
  BY <1>1, <1>2, <1>4, StrictPrefixDef
<1> QED
  BY <1>1, <1>3, <1>4

LEMMA PrefixOfAppend ==
  ASSUME NEW S, NEW s \in Seq(S), NEW t \in Seq(S), NEW k \in S
  PROVE  /\ IsPrefix(s, Append(t, k)) <=> s = Append(t, k) \/ IsPrefix(s, t)
         /\ IsStrictPrefix(s, Append(t, k)) <=> IsPrefix(s, t)
         /\ IsStrictPrefix(t, Append(t, k))
         /\ Append(t, k) # t /\ Append(t, k) # <<>> /\ Append(t, k) \in Seq(S)
<1> DEFINE a == Append(t, k)
<1>1. a \in Seq(S) /\ Len(a) = Len(t) + 1 /\ a[Len(t) + 1] = k
      /\ \A i \in 1 .. Len(t) : a[i] = t[i]
  OBVIOUS
<1>2. Len(s) \in Nat /\ Len(t) \in Nat
  OBVIOUS
<1> HIDE DEF a
<1>3. IsStrictPrefix(s, a) <=> IsPrefix(s, t)
  BY <1>1, <1>2, PrefixDef, StrictPrefixDef
<1>4. IsPrefix(s, a) <=> s = a \/ IsStrictPrefix(s, a)
  BY <1>1, PrefixSelf DEF IsStrictPrefix
<1>5. IsStrictPrefix(t, a)
  BY <1>1, <1>2, StrictPrefixDef
<1>6. a # t /\ a # <<>>
  BY <1>1, <1>2
<1> QED
  BY <1>1, <1>3, <1>4, <1>5, <1>6 DEF a

-----------------------------------------------------------------------------
(* The tree that is stood for *)

\* Entries as the lines give them.
Entries(said) ==
  \A e \in said : /\ e.path \in Paths /\ e.path # <<>> /\ e.line \in Nat
                  /\ e.value.kind # "map"

Nodes(left) == {<<>>} \cup UNION {Prefixes(e.path) \ {<<>>} : e \in left}

LEMMA EmptyPath == <<>> \in Paths
BY DEF Paths

LEMMA NodesDef ==
  ASSUME NEW left, \A e \in left : e.path \in Paths
  PROVE  /\ Nodes(left) \subseteq Paths
         /\ \A q \in Paths : q \in Nodes(left) <=> q = <<>> \/ \E d \in left : IsPrefix(q, d.path)
<1>1. \A d \in left : /\ Prefixes(d.path) \subseteq Paths
                      /\ \A q \in Paths : q \in Prefixes(d.path) <=> IsPrefix(q, d.path)
  BY PrefixesDef DEF Paths
<1> QED
  BY <1>1, EmptyPath DEF Nodes

\* What a node holds is a map only if it is Map.
LEMMA HeldMap ==
  ASSUME NEW said, Entries(said), NEW q, NEW v, Holds(Left(said), q, v), v.kind = "map"
  PROVE  v = Map
<1>1. Blank.kind # "map"
  BY DEF Blank, Scalar
<1>2. v = Map \/ v = Blank \/ \E e \in Left(said) : v = e.value
  BY DEF Holds
<1>3. Left(said) \subseteq said
  BY DEF Left
<1> QED
  BY <1>1, <1>2, <1>3 DEF Entries

\* What is known of a tree and a new child of one of its nodes.
LEMMA NewChild ==
  ASSUME NEW said, Entries(said), NEW t, StandsFor(said, t),
         NEW p \in DOMAIN t, NEW k \in PathWords
  PROVE  LET child == Append(p, k) IN
         /\ p \in Paths /\ child \in Paths /\ child # <<>> /\ child # p
         /\ DOMAIN t = Nodes(Left(said)) /\ DOMAIN t \subseteq Paths
         /\ \A q \in Paths :
              /\ IsPrefix(q, child) <=> q = child \/ IsPrefix(q, p)
              /\ IsStrictPrefix(q, child) <=> IsPrefix(q, p)
              /\ IsPrefix(q, p) => q \in DOMAIN t
              /\ IsStrictPrefix(q, p) => \E d \in Left(said) : IsStrictPrefix(q, d.path)
         /\ \A d \in Left(said) : d.path \in Paths /\ d.path \in DOMAIN t
         /\ \A q \in Paths, d \in Left(said) : IsPrefix(q, d.path) => q \in DOMAIN t
<1> DEFINE L == Left(said)
           child == Append(p, k)
<1>1. \A d \in L : d.path \in Paths /\ d.path # <<>>
  BY DEF Left, Entries
<1>2. DOMAIN t = Nodes(L)
  BY DEF StandsFor, Nodes
<1>3. DOMAIN t \subseteq Paths
      /\ \A q \in Paths : q \in DOMAIN t <=> q = <<>> \/ \E d \in L : IsPrefix(q, d.path)
  BY <1>1, <1>2, NodesDef
<1>4. p \in Paths
  BY <1>3
<1>5. /\ child \in Paths /\ child # <<>> /\ child # p
      /\ \A q \in Paths : /\ IsPrefix(q, child) <=> q = child \/ IsPrefix(q, p)
                          /\ IsStrictPrefix(q, child) <=> IsPrefix(q, p)
  BY <1>4, PrefixOfAppend DEF Paths
<1> HIDE DEF child, L
<1>6. ASSUME NEW q \in Paths, IsPrefix(q, p)
      PROVE  q = <<>> \/ \E d \in L : IsPrefix(q, d.path) /\ IsPrefix(p, d.path)
  <2>1. CASE p = <<>>
    <3>1. Len(q) <= Len(<<>>)
      BY <1>6, <2>1 DEF IsPrefix
    <3>2. Len(q) = 0
      BY <3>1 DEF Paths
    <3> QED BY <3>2 DEF Paths
  <2>2. CASE p # <<>>
    <3>1. PICK d \in L : IsPrefix(p, d.path)
      BY <1>3, <2>2
    <3>2. IsPrefix(q, d.path)
      BY <1>1, <1>4, <1>6, <3>1, PrefixTransitive DEF Paths
    <3> QED BY <3>1, <3>2
  <2> QED BY <2>1, <2>2
<1>7. ASSUME NEW q \in Paths, IsStrictPrefix(q, p)
      PROVE  \E d \in L : IsStrictPrefix(q, d.path)
  <2>1. p # <<>>
    <3>1. Len(q) < Len(p) /\ Len(q) \in Nat
      BY <1>4, <1>7, StrictPrefixDef DEF Paths
    <3> QED BY <3>1
  <2>2. PICK d \in L : IsPrefix(p, d.path)
    BY <1>3, <1>4, <2>1
  <2>3. Len(q) < Len(p) /\ Len(p) <= Len(d.path) /\ Len(q) \in Nat /\ Len(p) \in Nat
        /\ Len(d.path) \in Nat
    BY <1>1, <1>4, <1>7, <2>2, StrictPrefixDef, PrefixDef DEF Paths
  <2>4. IsPrefix(q, d.path)
    BY <1>1, <1>4, <1>7, <2>2, PrefixTransitive DEF Paths, IsStrictPrefix
  <2>5. q # d.path
    BY <2>3
  <2> QED BY <2>4, <2>5 DEF IsStrictPrefix
<1>8. \A d \in L : IsPrefix(d.path, d.path)
  BY <1>1, PrefixSelf DEF Paths
<1> QED
  BY <1>1, <1>2, <1>3, <1>4, <1>5, <1>6, <1>7, <1>8 DEF child, L

\* A child that is opened, and keeps what it had.
LEMMA EnterStands ==
  ASSUME NEW said, Entries(said), NEW t, StandsFor(said, t),
         NEW p \in DOMAIN t, NEW k \in PathWords,
         NEW e, e.path = Append(p, k), e.value = Blank, ~e.sets,
         e.line \in Nat, \A d \in said : d.line <= e.line
  PROVE  StandsFor(said \cup {e}, Entered(t, p, k))
<1> DEFINE L == Left(said)
           child == Append(p, k)
           new == Entered(t, p, k)
<1>0. e.path = child /\ ~e.sets
  OBVIOUS
<1>1. Left(said \cup {e}) = L \cup {e}
  <2>1. \A d \in said : d \in Left(said \cup {e}) <=> d \in L
    BY <1>0 DEF Left
  <2>2. e \in Left(said \cup {e})
    <3>1. \A l \in said \cup {e} : ~(l.line > e.line)
      BY <1>0 DEF Entries
    <3> QED BY <3>1 DEF Left
  <2>3. Left(said \cup {e}) \subseteq said \cup {e} /\ L \subseteq said
    BY DEF Left
  <2> QED BY <2>1, <2>2, <2>3
<1>2. /\ p \in Paths /\ child \in Paths /\ child # <<>> /\ child # p
      /\ DOMAIN t = Nodes(L) /\ DOMAIN t \subseteq Paths
  BY NewChild
<1>3. \A q \in Paths :
        /\ IsPrefix(q, child) <=> q = child \/ IsPrefix(q, p)
        /\ IsStrictPrefix(q, child) <=> IsPrefix(q, p)
        /\ IsPrefix(q, p) => q \in DOMAIN t
        /\ IsStrictPrefix(q, p) => \E d \in L : IsStrictPrefix(q, d.path)
  BY NewChild
<1>4. /\ \A d \in L : d.path \in Paths /\ d.path \in DOMAIN t
      /\ \A q \in Paths, d \in L : IsPrefix(q, d.path) => q \in DOMAIN t
  BY NewChild
<1>5. /\ DOMAIN new = DOMAIN t \cup {child}
      /\ new[p] = IF t[p].kind = "map" THEN t[p] ELSE Map
      /\ \A q \in DOMAIN t : q # p => new[q] = t[q]
      /\ child \notin DOMAIN t => new[child] = Blank
  BY <1>2 DEF Entered
<1> HIDE DEF child, L, new
<1>6. DOMAIN new = Nodes(L \cup {e})
  <2>1. \A d \in L \cup {e} : d.path \in Paths
    BY <1>0, <1>2, <1>4
  <2>2. Nodes(L \cup {e}) \subseteq Paths
        /\ \A q \in Paths : q \in Nodes(L \cup {e}) <=>
             q = <<>> \/ \E d \in L \cup {e} : IsPrefix(q, d.path)
    BY <2>1, NodesDef
  <2>3. \A q \in Paths : q \in DOMAIN t <=> q = <<>> \/ \E d \in L : IsPrefix(q, d.path)
    BY <1>2, <1>4, NodesDef
  <2>4. \A q \in Paths : q \in DOMAIN new <=> q \in Nodes(L \cup {e})
    BY <1>0, <1>3, <1>5, <2>2, <2>3
  <2> QED BY <1>2, <1>5, <2>2, <2>4
<1>7. ASSUME NEW q \in DOMAIN new PROVE Holds(L \cup {e}, q, new[q])
  <2>0. q \in Paths
    BY <1>2, <1>5
  <2>1. CASE q = p
    <3>1. new[p] = Map
      <4>1. Holds(L, p, t[p])
        BY DEF StandsFor, L
      <4>2. t[p].kind = "map" => t[p] = Map
        BY <4>1, HeldMap DEF L
      <4> QED BY <1>5, <4>2
    <3>2. IsStrictPrefix(p, e.path)
      BY <1>0, <1>2, <1>3, PrefixSelf DEF Paths
    <3> QED BY <2>1, <3>1, <3>2 DEF Holds
  <2>2. CASE q # p /\ q \in DOMAIN t
    <3>1. Holds(L, q, t[q]) /\ new[q] = t[q]
      BY <1>5, <2>2 DEF StandsFor, L
    <3>2. (\E d \in L \cup {e} : IsStrictPrefix(q, d.path))
            <=> \E d \in L : IsStrictPrefix(q, d.path)
      BY <1>0, <1>3, <2>0, <2>2 DEF IsStrictPrefix
    <3>3. {d \in L \cup {e} : d.path = q /\ d.sets} = {d \in L : d.path = q /\ d.sets}
      BY <1>0
    <3> QED BY <3>1, <3>2, <3>3 DEF Holds
  <2>3. CASE q = child /\ q \notin DOMAIN t
    <3>1. \A d \in L : ~IsPrefix(q, d.path)
      BY <1>4, <2>0, <2>3
    <3>2. \A d \in L : d.path # q
      BY <1>4, <2>3
    <3>3. ~IsStrictPrefix(q, e.path)
      BY <1>0, <2>3 DEF IsStrictPrefix
    <3>4. {d \in L \cup {e} : d.path = q /\ d.sets} = {}
      BY <1>0, <3>2
    <3>5. ~\E d \in L \cup {e} : IsStrictPrefix(q, d.path)
      BY <3>1, <3>3 DEF IsStrictPrefix
    <3> QED BY <1>5, <2>3, <3>4, <3>5 DEF Holds
  <2> QED BY <1>5, <2>1, <2>2, <2>3
<1>8. StandsFor(said \cup {e}, new)
  BY <1>1, <1>6, <1>7 DEF StandsFor, Nodes
<1> QED
  BY <1>8 DEF new

\* A child that is given a value, and loses what was below it.
LEMMA AssignStands ==
  ASSUME NEW said, Entries(said), NEW t, StandsFor(said, t),
         NEW p \in DOMAIN t, NEW k \in PathWords, NEW v,
         NEW e, e.path = Append(p, k), e.value = v, e.sets,
         e.line \in Nat, \A d \in said : d.line <= e.line,
         \A d \in said : d.line = e.line => ~IsStrictPrefix(Append(p, k), d.path)
  PROVE  StandsFor(said \cup {e}, Assigned(t, p, k, v))
<1> DEFINE L == Left(said)
           child == Append(p, k)
           K == {d \in L : ~IsStrictPrefix(child, d.path)}
           new == Assigned(t, p, k, v)
<1>0. e.path = child /\ e.sets /\ e.value = v
  OBVIOUS
<1>1. Left(said \cup {e}) = K \cup {e}
  <2>1. \A d \in said : d.line \in Nat
    BY DEF Entries
  <2>2. \A d \in said : IsStrictPrefix(child, d.path) => e.line > d.line
    BY <1>0, <2>1
  <2>3. \A d \in said : d \in Left(said \cup {e}) <=> d \in K
    <3> HIDE DEF child
    <3> QED BY <1>0, <2>2 DEF Left
  <2>4. e \in Left(said \cup {e})
    <3>1. \A l \in said \cup {e} : ~(l.line > e.line)
      BY <1>0, <2>1
    <3> QED BY <3>1 DEF Left
  <2>5. Left(said \cup {e}) \subseteq said \cup {e} /\ K \subseteq said
    BY DEF Left
  <2> QED BY <2>3, <2>4, <2>5
<1>2. /\ p \in Paths /\ child \in Paths /\ child # <<>> /\ child # p
      /\ DOMAIN t = Nodes(L) /\ DOMAIN t \subseteq Paths
  BY NewChild
<1>3. \A q \in Paths :
        /\ IsPrefix(q, child) <=> q = child \/ IsPrefix(q, p)
        /\ IsStrictPrefix(q, child) <=> IsPrefix(q, p)
        /\ IsPrefix(q, p) => q \in DOMAIN t
        /\ IsStrictPrefix(q, p) => \E d \in L : IsStrictPrefix(q, d.path)
  BY NewChild
<1>4. /\ \A d \in L : d.path \in Paths /\ d.path \in DOMAIN t
      /\ \A q \in Paths, d \in L : IsPrefix(q, d.path) => q \in DOMAIN t
  BY NewChild
<1>5. ~IsStrictPrefix(child, child) /\ ~IsStrictPrefix(child, p)
  <2>1. IsPrefix(p, p)
    BY <1>2, PrefixSelf DEF Paths
  <2>2. IsStrictPrefix(p, child)
    BY <1>2, <1>3, <2>1
  <2> HIDE DEF child
  <2>3. Len(p) < Len(child) /\ Len(p) \in Nat /\ Len(child) \in Nat
    BY <1>2, <2>2, StrictPrefixDef DEF Paths
  <2>4. ~IsStrictPrefix(child, p)
    BY <1>2, <2>3, StrictPrefixDef DEF Paths
  <2> QED BY <2>4 DEF IsStrictPrefix
<1>6. /\ DOMAIN new = {q \in DOMAIN t \cup {child} : ~IsStrictPrefix(child, q)}
      /\ new[child] = v
      /\ new[p] = IF t[p].kind = "map" THEN t[p] ELSE Map
      /\ \A q \in DOMAIN new : q # p /\ q # child => new[q] = t[q]
  <2> DEFINE E == Entered(t, p, k)
  <2>1. /\ DOMAIN E = DOMAIN t \cup {child}
        /\ E[p] = IF t[p].kind = "map" THEN t[p] ELSE Map
        /\ \A q \in DOMAIN t : q # p => E[q] = t[q]
    BY <1>2 DEF Entered
  <2>2. new = [q \in {d \in DOMAIN E : ~IsStrictPrefix(child, d)} |->
                 IF q = child THEN v ELSE E[q]]
    BY DEF Assigned
  <2> HIDE DEF new, E, child
  <2> QED BY <1>2, <1>5, <2>1, <2>2
<1> HIDE DEF child, L, new, K
<1>7. DOMAIN new = Nodes(K \cup {e})
  <2>1. \A d \in K \cup {e} : d.path \in Paths
    BY <1>0, <1>2, <1>4 DEF K
  <2>2. Nodes(K \cup {e}) \subseteq Paths
        /\ \A q \in Paths : q \in Nodes(K \cup {e}) <=>
             q = <<>> \/ \E d \in K \cup {e} : IsPrefix(q, d.path)
    BY <2>1, NodesDef
  <2>3. \A q \in Paths : q \in DOMAIN t <=> q = <<>> \/ \E d \in L : IsPrefix(q, d.path)
    BY <1>2, <1>4, NodesDef
  <2>4. ASSUME NEW q \in DOMAIN new PROVE q \in Nodes(K \cup {e})
    <3>1. q \in Paths /\ ~IsStrictPrefix(child, q) /\ (q \in DOMAIN t \/ q = child)
      BY <1>2, <1>6
    <3>2. CASE q = child
      BY <1>0, <1>2, <1>3, <2>2, <3>2
    <3>3. CASE q = <<>>
      BY <2>2, <3>1, <3>3
    <3>4. CASE q # <<>> /\ q # child
      <4>1. PICK d \in L : IsPrefix(q, d.path)
        BY <2>3, <3>1, <3>4
      <4>2. CASE d \in K
        BY <2>2, <3>1, <4>1, <4>2
      <4>3. CASE d \notin K
        <5>1. IsPrefix(child, d.path)
          BY <4>3 DEF K, IsStrictPrefix
        <5>2. IsPrefix(q, child) \/ IsStrictPrefix(child, q)
          BY <1>2, <1>4, <3>1, <4>1, <5>1, PrefixesCompare DEF Paths
        <5> QED BY <1>0, <2>2, <3>1, <5>2
      <4> QED BY <4>2, <4>3
    <3> QED BY <3>2, <3>3, <3>4
  <2>5. ASSUME NEW q \in Nodes(K \cup {e}) PROVE q \in DOMAIN new
    <3>0. q \in Paths
      BY <2>2
    <3>1. CASE q = <<>> \/ IsPrefix(q, child)
      <4>1. IsPrefix(q, child)
        BY <1>2, <3>0, <3>1, PrefixSelf DEF Paths
      <4>2. q = child \/ IsPrefix(q, p)
        BY <1>3, <3>0, <4>1
      <4>3. q \in DOMAIN t \cup {child}
        BY <1>3, <3>0, <4>2
      <4>4. ~IsStrictPrefix(child, q)
        <5>1. Len(q) <= Len(child) /\ Len(q) \in Nat /\ Len(child) \in Nat
          BY <1>2, <3>0, <4>1, PrefixDef DEF Paths
        <5> QED BY <1>2, <3>0, <5>1, StrictPrefixDef DEF Paths
      <4> QED BY <1>6, <4>3, <4>4
    <3>2. CASE \E d \in K : IsPrefix(q, d.path)
      <4>1. PICK d \in K : IsPrefix(q, d.path)
        BY <3>2
      <4>2. d \in L /\ ~IsStrictPrefix(child, d.path) /\ d.path \in Paths
        BY <1>4 DEF K
      <4>3. q \in DOMAIN t
        BY <1>4, <3>0, <4>1, <4>2
      <4>4. ~IsStrictPrefix(child, q)
        <5> SUFFICES ASSUME IsStrictPrefix(child, q) PROVE FALSE
          OBVIOUS
        <5>1. IsPrefix(child, d.path)
          BY <1>2, <3>0, <4>1, <4>2, PrefixTransitive DEF Paths, IsStrictPrefix
        <5>2. child # d.path
          <6>1. /\ Len(child) < Len(q) /\ Len(q) <= Len(d.path)
                /\ Len(child) \in Nat /\ Len(q) \in Nat /\ Len(d.path) \in Nat
            BY <1>2, <3>0, <4>1, <4>2, StrictPrefixDef, PrefixDef DEF Paths
          <6> QED BY <6>1
        <5> QED BY <4>2, <5>1, <5>2 DEF IsStrictPrefix
      <4> QED BY <1>6, <4>3, <4>4
    <3> QED BY <1>0, <2>2, <3>0, <3>1, <3>2
  <2> QED BY <2>4, <2>5
<1>8. ASSUME NEW q \in DOMAIN new PROVE Holds(K \cup {e}, q, new[q])
  <2>0. q \in Paths /\ (q \in DOMAIN t \/ q = child) /\ ~IsStrictPrefix(child, q)
    BY <1>2, <1>6
  <2>1. CASE q = p
    <3>1. new[p] = Map
      <4>1. Holds(L, p, t[p])
        BY DEF StandsFor, L
      <4>2. t[p].kind = "map" => t[p] = Map
        BY <4>1, HeldMap DEF L
      <4> QED BY <1>6, <4>2
    <3>2. IsStrictPrefix(p, e.path)
      BY <1>0, <1>2, <1>3, PrefixSelf DEF Paths
    <3> QED BY <2>1, <3>1, <3>2 DEF Holds
  <2>2. CASE q = child
    <3>1. ~\E d \in K \cup {e} : IsStrictPrefix(q, d.path)
      BY <1>0, <1>5, <2>2 DEF K
    <3>2. \A d \in K \cup {e} : d.line <= e.line
      <4>1. K \subseteq said
        BY DEF K, L, Left
      <4> QED BY <1>0, <4>1
    <3> QED BY <1>0, <1>6, <2>2, <3>1, <3>2 DEF Holds
  <2>3. CASE q # p /\ q # child
    <3>1. Holds(L, q, t[q]) /\ new[q] = t[q]
      BY <1>6, <2>0, <2>3 DEF StandsFor, L
    <3>2. CASE IsPrefix(q, p)
      <4>1. IsStrictPrefix(q, p)
        BY <2>3, <3>2 DEF IsStrictPrefix
      <4>2. t[q] = Map
        BY <1>3, <2>0, <3>1, <4>1 DEF Holds
      <4>3. IsStrictPrefix(q, e.path)
        BY <1>0, <1>3, <2>0, <3>2
      <4> QED BY <3>1, <4>2, <4>3 DEF Holds
    <3>3. CASE ~IsPrefix(q, p)
      <4>1. ~IsPrefix(q, child) /\ ~IsStrictPrefix(q, e.path) /\ e.path # q
        BY <1>0, <1>3, <2>0, <2>3, <3>3
      <4>2. \A d \in L : IsPrefix(q, d.path) => d \in K
        <5> SUFFICES ASSUME NEW d \in L, IsPrefix(q, d.path), IsPrefix(child, d.path) PROVE FALSE
          BY DEF K, IsStrictPrefix
        <5> QED BY <1>2, <1>4, <2>0, <4>1, PrefixesCompare DEF Paths
      <4>3. \A d \in L : d.path = q => d \in K
        BY <2>0, <4>2, PrefixSelf DEF Paths
      <4>4. K \subseteq L
        BY DEF K
      <4>5. (\E d \in K \cup {e} : IsStrictPrefix(q, d.path))
              <=> \E d \in L : IsStrictPrefix(q, d.path)
        BY <4>1, <4>2, <4>4 DEF IsStrictPrefix
      <4>6. {d \in K \cup {e} : d.path = q /\ d.sets} = {d \in L : d.path = q /\ d.sets}
        BY <4>1, <4>3, <4>4
      <4> QED BY <3>1, <4>5, <4>6 DEF Holds
    <3> QED BY <3>2, <3>3
  <2> QED BY <2>1, <2>2, <2>3
<1> QED
  BY <1>1, <1>6, <1>7, <1>8 DEF StandsFor, Nodes, new, child

-----------------------------------------------------------------------------
(* Induction *)

\* A set of naturals has a least element.
LEMMA LeastNat ==
  ASSUME NEW T \in SUBSET Nat, T # {}
  PROVE  \E x \in T : \A y \in T : x <= y
<1> DEFINE Upto(x) == 0 .. x
           I == {Upto(x) : x \in T}
           R == StrictSubsetOrdering(Nat)
<1>1. I \in SUBSET FiniteSubsetsOf(Nat) /\ I # {}
  <2>1. \A x \in T : Upto(x) \in SUBSET Nat /\ IsFiniteSet(Upto(x))
    BY FS_Interval
  <2> QED BY <2>1 DEF FiniteSubsetsOf
<1>2. ASSUME NEW x \in T, NEW y \in T, x < y PROVE <<Upto(x), Upto(y)>> \in R
  <2>1. /\ Upto(x) \in SUBSET Nat /\ Upto(y) \in SUBSET Nat
        /\ Upto(x) \subseteq Upto(y) /\ y \in Upto(y) /\ y \notin Upto(x)
    BY <1>2
  <2> HIDE DEF Upto
  <2> QED BY <2>1 DEF StrictSubsetOrdering
<1> HIDE DEF R, I, Upto
<1>3. PICK i \in I : \A j \in I : <<j, i>> \notin R
  <2>1. IsWellFoundedOn(R, FiniteSubsetsOf(Nat))
    BY FS_StrictSubsetOrderingWellFounded DEF R
  <2> QED BY <1>1, <2>1, WFMin
<1>4. PICK x \in T : i = Upto(x)
  BY DEF I
<1>5. \A y \in T : ~(y < x)
  BY <1>2, <1>3, <1>4 DEF I
<1> QED BY <1>5

\* Induction, with the predicate as a set.
LEMMA NatSetInduction ==
  ASSUME NEW S, 0 \in S, \A n \in Nat : n \in S => n + 1 \in S
  PROVE  Nat \subseteq S
<1> SUFFICES ASSUME Nat \ S # {} PROVE FALSE
  OBVIOUS
<1>1. PICK x \in Nat \ S : \A y \in Nat \ S : x <= y
  BY LeastNat
<1>2. x - 1 \in Nat /\ x - 1 \in S
  BY <1>1
<1> QED BY <1>1, <1>2

LEMMA MaxOf ==
  ASSUME NEW n \in Nat, NEW T \in SUBSET (1 .. n), T # {}
  PROVE  Max(T) \in T /\ \A x \in T : x <= Max(T)
<1> DEFINE D == {n - x : x \in T}
<1>1. D \in SUBSET Nat /\ D # {}
  <2>1. \A x \in T : x \in Int /\ x <= n
    OBVIOUS
  <2>2. \A x \in T : n - x \in Nat
    BY <2>1
  <2> QED BY <2>2
<1> HIDE DEF D
<1>2. PICK d \in D : \A y \in D : d <= y
  BY <1>1, LeastNat
<1>3. PICK m \in T : d = n - m
  BY DEF D
<1>4. \A x \in T : x <= m
  <2> TAKE x \in T
  <2>1. n - m <= n - x
    BY <1>2, <1>3 DEF D
  <2> QED BY <2>1
<1>5. \E z \in T : \A x \in T : z >= x
  BY <1>4
<1> QED BY <1>5 DEF Max

-----------------------------------------------------------------------------
(* The recursive definitions *)

\* Comments are no lines.
LEMMA KeptOnly ==
  ASSUME NEW text \in Seq(FileLines)
  PROVE  Lines(text) \in Seq(KeptLines)
<1> DEFINE N == Len(text)
           Grown(s, n) == IF text[n].kind = "comment" THEN s ELSE Append(s, text[n])
           Upto(g, k) == /\ g[0] = <<>>
                         /\ \A n \in 1 .. k : g[n] = Grown(g[n - 1], n)
           Some(k) == \E g \in [0 .. k -> Seq(KeptLines)] : Upto(g, k)
           Fixed(g) == g = [n \in 0 .. N |->
                              IF n = 0 THEN <<>> ELSE Grown(g[n - 1], n)]
           kept == CHOOSE f : Fixed(f)
<1>1. N \in Nat /\ \A n \in 1 .. N : text[n] \in FileLines
  OBVIOUS
<1>2. ASSUME NEW s \in Seq(KeptLines), NEW n \in 1 .. N PROVE Grown(s, n) \in Seq(KeptLines)
  <2>1. text[n].kind # "comment" => text[n] \in KeptLines
    BY <1>1 DEF KeptLines
  <2> QED BY <2>1
<1>3. Some(0)
  <2> DEFINE g == [x \in 0 .. 0 |-> <<>>]
  <2>1. g \in [0 .. 0 -> Seq(KeptLines)] /\ Upto(g, 0)
    BY 0 .. 0 = {0}, 1 .. 0 = {}
  <2> QED BY <2>1
<1>4. ASSUME NEW k \in Nat, k + 1 <= N, Some(k) PROVE Some(k + 1)
  <2>1. PICK g \in [0 .. k -> Seq(KeptLines)] : Upto(g, k)
    BY <1>4
  <2> DEFINE h == [x \in 0 .. k + 1 |-> IF x = k + 1 THEN Grown(g[k], k + 1) ELSE g[x]]
  <2>2. Grown(g[k], k + 1) \in Seq(KeptLines)
    BY <1>1, <1>2, <1>4, k + 1 \in 1 .. N, k \in 0 .. k
  <2> HIDE DEF Grown
  <2>3. h \in [0 .. k + 1 -> Seq(KeptLines)]
    BY <2>2
  <2>4. h[0] = <<>>
    BY <2>1
  <2>5. ASSUME NEW n \in 1 .. k + 1 PROVE h[n] = Grown(h[n - 1], n)
    <3>1. CASE n = k + 1
      BY <3>1
    <3>2. CASE n # k + 1
      BY <2>1, <3>2
    <3> QED BY <3>1, <3>2
  <2> QED BY <2>3, <2>4, <2>5
<1>5. Some(N)
  <2> DEFINE S == {k \in Nat : k <= N => Some(k)}
  <2> HIDE DEF Some
  <2>1. 0 \in S
    BY <1>3
  <2>2. \A k \in Nat : k \in S => k + 1 \in S
    BY <1>1, <1>4
  <2> HIDE DEF S
  <2>3. N \in S
    BY <1>1, <2>1, <2>2, NatSetInduction
  <2> QED BY <2>3 DEF S
<1>6. PICK g \in [0 .. N -> Seq(KeptLines)] : Upto(g, N)
  BY <1>1, <1>5
<1>7. Lines(text) = kept[N]
  BY DEF Lines
<1> HIDE DEF Grown
<1>8. Fixed(g)
  BY <1>6
<1>9. Fixed(kept)
  <2> HIDE DEF Fixed
  <2> QED BY <1>8
<1> HIDE DEF kept
<1>10. kept[0] = <<>> /\ \A n \in 1 .. N : kept[n] = Grown(kept[n - 1], n)
  BY <1>1, <1>9
<1>11. kept[N] \in Seq(KeptLines)
  <2> DEFINE S == {k \in Nat : k <= N => kept[k] \in Seq(KeptLines)}
  <2>1. 0 \in S
    <3>1. <<>> \in Seq(KeptLines)
      OBVIOUS
    <3> QED BY <1>10, <3>1
  <2>2. \A k \in Nat : k \in S => k + 1 \in S
    <3> SUFFICES ASSUME NEW k \in S, k + 1 <= N PROVE kept[k + 1] \in Seq(KeptLines)
      OBVIOUS
    <3>1. k + 1 \in 1 .. N /\ (k + 1) - 1 = k /\ k <= N
      BY <1>1
    <3> QED BY <1>2, <1>10, <3>1
  <2> HIDE DEF S
  <2>3. N \in S
    BY <1>1, <2>1, <2>2, NatSetInduction
  <2> QED BY <2>3 DEF S
<1> QED BY <1>7, <1>11

LEMMA OwnersAbove ==
  ASSUME NEW ls \in Seq(KeptLines), NEW j \in DOMAIN ls
  PROVE  /\ OwnersOf(ls, j) \subseteq 1 .. j - 1
         /\ OwnersOf(ls, j) # {} => /\ Max(OwnersOf(ls, j)) \in OwnersOf(ls, j)
                                    /\ \A h \in OwnersOf(ls, j) : h <= Max(OwnersOf(ls, j))
<1>1. j - 1 \in Nat
  OBVIOUS
<1>2. OwnersOf(ls, j) \in SUBSET (1 .. j - 1)
  BY DEF OwnersOf
<1> QED BY <1>1, <1>2, MaxOf

\* The path of a line is its key, behind the path of its owner.
LEMMA PathOfLine ==
  ASSUME NEW ls \in Seq(KeptLines), NEW j \in DOMAIN ls
  PROVE  /\ PathsOf(ls)[j] \in Paths
         /\ PathsOf(ls)[j] =
              Append(IF OwnersOf(ls, j) = {} THEN <<>> ELSE PathsOf(ls)[Max(OwnersOf(ls, j))],
                     ls[j].key)
<1> DEFINE N == Len(ls)
           O(i) == OwnersOf(ls, i)
           Below(g, i) == Append(IF O(i) = {} THEN <<>> ELSE g[Max(O(i))], ls[i].key)
           Some(k) == \E g \in [1 .. k -> Paths] : \A i \in 1 .. k : g[i] = Below(g, i)
           Fixed(g) == g = [i \in DOMAIN ls |->
                              Append(IF OwnersOf(ls, i) = {} THEN <<>>
                                     ELSE g[Max(OwnersOf(ls, i))], ls[i].key)]
           path == CHOOSE f : Fixed(f)
<1>1. N \in Nat /\ DOMAIN ls = 1 .. N
  OBVIOUS
<1>2. \A i \in 1 .. N : ls[i].key \in PathWords
  <2>1. \A i \in 1 .. N : ls[i] \in FileLines
    BY DEF KeptLines
  <2> QED BY <2>1 DEF FileLines, PathWords
<1>3. \A i \in 1 .. N : O(i) # {} => Max(O(i)) \in 1 .. i - 1
  BY OwnersAbove
<1> HIDE DEF O
<1>4. ASSUME NEW i \in 1 .. N, NEW g, O(i) # {} => g[Max(O(i))] \in Paths
      PROVE  Below(g, i) \in Paths
  BY <1>2, <1>4, EmptyPath DEF Paths
<1>5. Some(0)
  <2> DEFINE g == [x \in {} |-> <<>>]
  <2>1. 1 .. 0 = {}
    OBVIOUS
  <2>2. g \in [1 .. 0 -> Paths] /\ \A i \in 1 .. 0 : g[i] = Below(g, i)
    BY <2>1
  <2> QED BY <2>2
<1>6. ASSUME NEW k \in Nat, k + 1 <= N, Some(k) PROVE Some(k + 1)
  <2>1. PICK g \in [1 .. k -> Paths] : \A i \in 1 .. k : g[i] = Below(g, i)
    BY <1>6
  <2> DEFINE h == [x \in 1 .. k + 1 |-> IF x = k + 1 THEN Below(g, k + 1) ELSE g[x]]
  <2>2. k + 1 \in 1 .. N
    BY <1>1, <1>6
  <2>3. O(k + 1) # {} => Max(O(k + 1)) \in 1 .. k
    BY <1>3, <2>2
  <2>4. Below(g, k + 1) \in Paths
    BY <1>4, <2>2, <2>3
  <2>5. \A i \in 1 .. k + 1 : O(i) # {} => Max(O(i)) \in 1 .. k /\ Max(O(i)) # k + 1
    BY <1>1, <1>3, <1>6
  <2>6. \A i \in 1 .. k + 1 : Below(h, i) = Below(g, i)
    <3> HIDE DEF O
    <3>1. \A x \in 1 .. k : h[x] = g[x]
      OBVIOUS
    <3> HIDE DEF h
    <3> QED BY <2>5, <3>1
  <2> HIDE DEF Below
  <2>7. h \in [1 .. k + 1 -> Paths]
    BY <2>4
  <2>8. \A i \in 1 .. k + 1 : h[i] = Below(h, i)
    <3>1. \A i \in 1 .. k + 1 : h[i] = Below(g, i)
      BY <2>1
    <3> QED BY <2>6, <3>1
  <2> QED BY <2>7, <2>8
<1>7. Some(N)
  <2> DEFINE S == {k \in Nat : k <= N => Some(k)}
  <2> HIDE DEF Some
  <2>1. 0 \in S
    BY <1>5
  <2>2. \A k \in Nat : k \in S => k + 1 \in S
    BY <1>1, <1>6
  <2> HIDE DEF S
  <2>3. N \in S
    BY <1>1, <2>1, <2>2, NatSetInduction
  <2> QED BY <2>3 DEF S
<1>8. PICK g \in [1 .. N -> Paths] : \A i \in 1 .. N : g[i] = Below(g, i)
  BY <1>7
<1>9. Fixed(g)
  BY <1>1, <1>8 DEF O
<1>10. Fixed(path)
  <2> HIDE DEF Fixed
  <2> QED BY <1>9
<1>11. PathsOf(ls) = path
  BY DEF PathsOf
<1> HIDE DEF path
<1>12. \A i \in 1 .. N : path[i] = Below(path, i)
  BY <1>1, <1>10 DEF O
<1> DEFINE Bad == {i \in 1 .. N : path[i] \notin Paths}
<1>13. Bad = {}
  <2> SUFFICES ASSUME Bad # {} PROVE FALSE
    OBVIOUS
  <2>0. Bad \in SUBSET Nat
    OBVIOUS
  <2>1. PICK x \in Bad : \A y \in Bad : x <= y
    <3> HIDE DEF Bad
    <3> QED BY <2>0, LeastNat
  <2>2. O(x) # {} => Max(O(x)) \in 1 .. N /\ ~(x <= Max(O(x)))
    BY <1>1, <1>3
  <2>3. O(x) # {} => path[Max(O(x))] \in Paths
    BY <2>1, <2>2
  <2>4. Below(path, x) \in Paths
    BY <1>4, <2>3
  <2> QED BY <1>12, <2>4
<1> QED BY <1>1, <1>11, <1>12, <1>13 DEF O

-----------------------------------------------------------------------------
(* A line and the ones that are open *)

LEMMA LineType ==
  ASSUME NEW ls \in Seq(KeptLines)
  PROVE  /\ Len(ls) \in Nat /\ DOMAIN ls = 1 .. Len(ls)
         /\ \A i \in 1 .. Len(ls) : /\ ls[i].indent \in Nat /\ ls[i].key \in PathWords
                                    /\ ls[i].kind \in {"none", "scalar", "list"}
<1>1. Len(ls) \in Nat /\ DOMAIN ls = 1 .. Len(ls)
  OBVIOUS
<1>2. \A i \in 1 .. Len(ls) : ls[i] \in FileLines /\ ls[i].kind # "comment"
  BY DEF KeptLines
<1>3. \A i \in 1 .. Len(ls) : /\ ls[i].indent \in Nat /\ ls[i].key \in PathWords
                              /\ ls[i].kind \in {"none", "scalar", "list", "comment"}
  BY <1>2 DEF FileLines, PathWords
<1> QED BY <1>1, <1>2, <1>3

\* A line belongs to one of those open before it ...
LEMMA OwnersAreOpen ==
  ASSUME NEW ls \in Seq(KeptLines), NEW j \in DOMAIN ls, Keyed(ls, j)
  PROVE  OwnersOf(ls, j) = {h \in OpenAt(ls, j) : ls[j].indent > ls[h].indent}
<1>1. j \in Nat /\ \A h \in 1 .. j - 1 : h + 1 .. j = (h + 1 .. j - 1) \cup {j}
  OBVIOUS
<1>2. ASSUME NEW h \in 1 .. j - 1
      PROVE  (\A g \in h + 1 .. j : Keyed(ls, g) => ls[g].indent > ls[h].indent)
               <=> /\ \A g \in h + 1 .. j - 1 : Keyed(ls, g) => ls[g].indent > ls[h].indent
                   /\ ls[j].indent > ls[h].indent
  BY <1>1
<1> QED BY <1>2 DEF OwnersOf, OpenAt

\* ... and those, and perhaps itself, are open behind it.
LEMMA OpenBehind ==
  ASSUME NEW ls \in Seq(KeptLines), NEW j \in DOMAIN ls
  PROVE  /\ Keyed(ls, j) => OpenAt(ls, j + 1) = OwnersOf(ls, j)
                                                  \cup (IF Opens(ls, j) THEN {j} ELSE {})
         /\ ~Keyed(ls, j) => OpenAt(ls, j + 1) = OpenAt(ls, j)
<1>1. /\ j \in Nat /\ (j + 1) - 1 = j /\ 1 .. j = (1 .. j - 1) \cup {j} /\ j \notin 1 .. j - 1
      /\ \A h \in 1 .. j - 1 : h + 1 .. j = (h + 1 .. j - 1) \cup {j}
      /\ j + 1 .. j = {}
  OBVIOUS
<1>2. OpenAt(ls, j + 1) =
        {h \in 1 .. j : /\ Opens(ls, h)
                        /\ \A g \in h + 1 .. j : Keyed(ls, g) => ls[g].indent > ls[h].indent}
  BY <1>1 DEF OpenAt
<1>3. OpenAt(ls, j + 1) = OwnersOf(ls, j) \cup (IF Opens(ls, j) THEN {j} ELSE {})
  BY <1>1, <1>2 DEF OwnersOf
<1>4. ASSUME ~Keyed(ls, j) PROVE OwnersOf(ls, j) = OpenAt(ls, j) /\ ~Opens(ls, j)
  BY <1>1, <1>4 DEF OwnersOf, OpenAt, Opens
<1> QED BY <1>3, <1>4

\* What the lines before a line say, when one line more is read.
LEMMA SaidOneMore ==
  ASSUME NEW ls \in Seq(KeptLines), NEW j \in DOMAIN ls
  PROVE  /\ ~Keyed(ls, j) => SaidBefore(ls, j + 1) = SaidBefore(ls, j)
         /\ Keyed(ls, j) /\ ~(ls[j].kind = "none" /\ ListBelow(ls, j))
              => SaidBefore(ls, j + 1) = SaidBefore(ls, j) \cup {Named(ls, j)}
         /\ Keyed(ls, j) /\ ls[j].kind = "none" /\ ListBelow(ls, j)
              => SaidBefore(ls, j + 1) = SaidBefore(ls, j) \cup {Named(ls, j), NamedBelow(ls, j)}
<1> DEFINE At_j == {e \in Said(ls) : e.line = j}
<1>1. \A i \in DOMAIN ls : i \in Nat
  OBVIOUS
<1>2. \A i \in DOMAIN ls : Named(ls, i).line = i /\ NamedBelow(ls, i).line = i
  BY DEF Named, NamedBelow
<1>3. \A e \in Said(ls) : e.line \in Nat
  BY <1>1, <1>2 DEF Said
<1>4. SaidBefore(ls, j + 1) = SaidBefore(ls, j) \cup At_j
  BY <1>1, <1>3 DEF SaidBefore
<1>5. \A e : e \in At_j <=> \/ Keyed(ls, j) /\ e = Named(ls, j)
                            \/ Keyed(ls, j) /\ ls[j].kind = "none" /\ ListBelow(ls, j)
                               /\ e = NamedBelow(ls, j)
  BY <1>2 DEF Said
<1> HIDE DEF At_j
<1> QED BY <1>4, <1>5

LEMMA SaidEntries ==
  ASSUME NEW ls \in Seq(KeptLines)
  PROVE  Entries(Said(ls))
<1>1. ASSUME NEW j \in DOMAIN ls
      PROVE  /\ PathsOf(ls)[j] \in Paths /\ PathsOf(ls)[j] # <<>>
             /\ Append(PathsOf(ls)[j], "GLOSSARY") \in Paths
             /\ Append(PathsOf(ls)[j], "GLOSSARY") # <<>>
             /\ j \in Nat
  <2>1. "GLOSSARY" \in PathWords /\ ls[j].key \in PathWords
    BY LineType DEF PathWords
  <2>2. \A s \in Paths, k \in PathWords : Append(s, k) \in Paths /\ Append(s, k) # <<>>
    BY PrefixOfAppend DEF Paths
  <2>3. PathsOf(ls)[j] \in Paths
    BY PathOfLine
  <2>4. \A h \in OwnersOf(ls, j) : h \in DOMAIN ls
    BY OwnersAbove
  <2>5. OwnersOf(ls, j) # {} => PathsOf(ls)[Max(OwnersOf(ls, j))] \in Paths
    BY <2>4, OwnersAbove, PathOfLine
  <2>6. PathsOf(ls)[j] # <<>>
    BY <2>1, <2>2, <2>5, PathOfLine, EmptyPath
  <2> QED BY <2>1, <2>2, <2>3, <2>6
<1>2. ASSUME NEW j \in DOMAIN ls
      PROVE  Named(ls, j).value.kind # "map" /\ NamedBelow(ls, j).value.kind # "map"
  <2>1. ls[j].kind \in {"none", "scalar", "list"}
    BY LineType
  <2>2. Blank.kind # "map"
    BY DEF Blank, Scalar
  <2>3. Named(ls, j).value = Blank \/ Named(ls, j).value.kind = ls[j].kind
    BY DEF Named
  <2>4. NamedBelow(ls, j).value.kind = "list"
    BY DEF NamedBelow, List
  <2> QED BY <2>1, <2>2, <2>3, <2>4
<1>3. \A e \in Said(ls) : \E j \in DOMAIN ls : e = Named(ls, j) \/ e = NamedBelow(ls, j)
  BY DEF Said
<1>4. \A j \in DOMAIN ls : /\ Named(ls, j).path = PathsOf(ls)[j] /\ Named(ls, j).line = j
                           /\ NamedBelow(ls, j).path = Append(PathsOf(ls)[j], "GLOSSARY")
                           /\ NamedBelow(ls, j).line = j
  BY DEF Named, NamedBelow
<1>5. ASSUME NEW e \in Said(ls)
      PROVE  e.path \in Paths /\ e.path # <<>> /\ e.line \in Nat /\ e.value.kind # "map"
  <2>1. PICK j \in DOMAIN ls : e = Named(ls, j) \/ e = NamedBelow(ls, j)
    BY <1>3
  <2>2. CASE e = Named(ls, j)
    BY <1>1, <1>2, <1>4, <2>2
  <2>3. CASE e = NamedBelow(ls, j)
    <3>1. e.path = Append(PathsOf(ls)[j], "GLOSSARY") /\ e.line = j
      BY <1>4, <2>3
    <3>2. e.path \in Paths /\ e.path # <<>> /\ e.line \in Nat
      BY <1>1, <3>1
    <3> QED BY <1>2, <2>3, <3>2
  <2> QED BY <2>1, <2>2, <2>3
<1> QED BY <1>5 DEF Entries

-----------------------------------------------------------------------------
(* The stack *)

\* What is left of the stack when a key is read: the nodes indented less.
LEMMA StillOpenIs ==
  ASSUME Nesting, AtKey
  PROVE  /\ next \in DOMAIN lines /\ next \in Nat /\ Line.indent \in Nat /\ Line.key \in PathWords
         /\ StillOpen \in Seq(StackNodes) /\ Len(StillOpen) \in DOMAIN stack
         /\ \A i \in 1 .. Len(StillOpen) : StillOpen[i] = stack[i]
         /\ \A i \in DOMAIN stack : i <= Len(StillOpen) <=> stack[i].indent < Line.indent
         /\ Parent = stack[Len(StillOpen)].path
<1> DEFINE N == Len(stack)
           T == {i \in DOMAIN stack : stack[i].indent < Line.indent}
           m == Max(T)
<1>1. /\ lines \in Seq(KeptLines) /\ next \in Nat \ {0} /\ next <= Len(lines)
      /\ stack \in Seq(StackNodes) /\ stack # <<>> /\ stack[1].indent = -1
  <2>1. stack[1] = [path |-> <<>>, indent |-> -1]
    BY DEF Nesting, StackFollows
  <2>2. stack[1].indent = -1
    BY <2>1
  <2> QED BY <2>2 DEF Nesting, StackFollows, AtKey
<1>2. next \in DOMAIN lines /\ next \in 1 .. Len(lines)
  BY <1>1
<1>3. Line.indent \in Nat /\ Line.key \in PathWords
  BY <1>1, <1>2, LineType DEF Line
<1>4. N \in Nat /\ DOMAIN stack = 1 .. N /\ 1 \in 1 .. N
      /\ \A i \in 1 .. N : stack[i] \in StackNodes
  BY <1>1
<1>5. \A i \in 1 .. N : stack[i].indent \in Int
  BY <1>4 DEF StackNodes
<1>6. \A i, j \in 1 .. N : i < j => stack[i].indent < stack[j].indent
  BY <1>4 DEF Nesting, StackFollows
<1>7. T \in SUBSET (1 .. N) /\ 1 \in T
  BY <1>1, <1>3, <1>4
<1> HIDE DEF T
<1>8. m \in T /\ \A i \in T : i <= m
  BY <1>4, <1>7, MaxOf
<1> HIDE DEF m, N
<1>9. m \in 1 .. N /\ stack[m].indent < Line.indent
  BY <1>7, <1>8 DEF T
<1>10. ASSUME NEW i \in 1 .. N PROVE i <= m <=> stack[i].indent < Line.indent
  <2>1. CASE i <= m
    <3>1. i = m \/ stack[i].indent < stack[m].indent
      BY <1>6, <1>9, <2>1
    <3> QED BY <1>3, <1>5, <1>9, <2>1, <3>1
  <2>2. CASE i > m
    <3>1. i \notin T
      BY <1>8, <1>9, <2>2
    <3> QED BY <1>4, <1>9, <2>2, <3>1 DEF T
  <2> QED BY <1>9, <2>1, <2>2
<1>11. StillOpen = SubSeq(stack, 1, m)
  BY DEF StillOpen, m, T
<1>12. /\ StillOpen \in Seq(StackNodes) /\ Len(StillOpen) = m
       /\ \A i \in 1 .. m : StillOpen[i] = stack[i]
  BY <1>1, <1>4, <1>9, <1>11 DEF N
<1>13. Parent = stack[m].path
  <2>1. Last(StillOpen) = StillOpen[m]
    BY <1>12 DEF Last
  <2> QED BY <1>9, <1>12, <2>1 DEF Parent
<1> QED BY <1>1, <1>2, <1>3, <1>4, <1>9, <1>10, <1>12, <1>13

\* The pops leave the lines the key belongs to.
LEMMA StillFollows ==
  ASSUME Nesting, AtKey
  PROVE  StackFollows(lines, StillOpen, OwnersOf(lines, next))
<1> DEFINE s == StillOpen
           m == Len(s)
<1>1. /\ next \in DOMAIN lines /\ Line.indent \in Nat
      /\ s \in Seq(StackNodes) /\ m \in DOMAIN stack
      /\ \A i \in 1 .. m : s[i] = stack[i]
      /\ \A i \in DOMAIN stack : i <= m <=> stack[i].indent < Line.indent
  BY StillOpenIs
<1> HIDE DEF s
<1>2. lines \in Seq(KeptLines) /\ Keyed(lines, next)
  BY DEF Nesting, AtKey, Keyed, Line
<1>3. StackFollows(lines, stack, OpenAt(lines, next)) /\ stack \in Seq(StackNodes)
  BY DEF Nesting, StackFollows
<1>4. Len(stack) \in Nat /\ DOMAIN stack = 1 .. Len(stack) /\ m \in Nat /\ DOMAIN s = 1 .. m
      /\ 1 <= m /\ 1 .. m \subseteq DOMAIN stack
  BY <1>1, <1>3
<1> HIDE DEF m
<1>5. OwnersOf(lines, next) = {h \in OpenAt(lines, next) : Line.indent > lines[h].indent}
  BY <1>1, <1>2, OwnersAreOpen DEF Line
<1>6. \A h \in OpenAt(lines, next) : lines[h].indent \in Nat
  <2>1. OpenAt(lines, next) \subseteq 1 .. next - 1
    BY DEF OpenAt
  <2>2. \A h \in OpenAt(lines, next) : h \in 1 .. Len(lines)
    BY <1>1, <1>2, <2>1
  <2> QED BY <1>2, <2>2, LineType
<1>7. s # <<>> /\ s[1] = [path |-> <<>>, indent |-> -1]
  BY <1>1, <1>3, <1>4 DEF StackFollows
<1>8. \A i, j \in DOMAIN s : i < j => /\ s[i].indent < s[j].indent
                                      /\ IsStrictPrefix(s[i].path, s[j].path)
  BY <1>1, <1>3, <1>4 DEF StackFollows
<1>9. ASSUME NEW i \in DOMAIN s, i > 1
      PROVE  \E h \in OwnersOf(lines, next) : s[i] = OnStack(lines, h)
  <2>1. PICK h \in OpenAt(lines, next) : stack[i] = OnStack(lines, h)
    BY <1>3, <1>4, <1>9 DEF StackFollows
  <2>2. stack[i].indent < Line.indent /\ stack[i].indent = lines[h].indent
    BY <1>1, <1>4, <2>1 DEF OnStack
  <2>3. h \in OwnersOf(lines, next)
    BY <1>1, <1>5, <1>6, <2>2
  <2> QED BY <1>1, <1>4, <2>1, <2>3
<1>10. ASSUME NEW h \in OwnersOf(lines, next)
       PROVE  \E i \in DOMAIN s : i > 1 /\ s[i].indent = lines[h].indent
  <2>1. h \in OpenAt(lines, next) /\ lines[h].indent < Line.indent
    BY <1>1, <1>5, <1>6
  <2>2. PICK i \in DOMAIN stack : i > 1 /\ stack[i].indent = lines[h].indent
    BY <1>3, <2>1 DEF StackFollows
  <2>3. i \in 1 .. m
    BY <1>1, <1>4, <2>1, <2>2
  <2> QED BY <1>1, <1>4, <2>2, <2>3
<1>11. s \in Seq(StackNodes)
  BY <1>1
<1>12. StackFollows(lines, s, OwnersOf(lines, next))
  BY <1>7, <1>8, <1>9, <1>10, <1>11 DEF StackFollows
<1> QED BY <1>12 DEF s

\* The node on top is the owner of the line: the path is the same.
LEMMA ParentIsOwner ==
  ASSUME Nesting, AtKey
  PROVE  PathsOf(lines)[next] = Append(Parent, Line.key)
<1> DEFINE s == StillOpen
           m == Len(s)
           O == OwnersOf(lines, next)
<1>1. StackFollows(lines, s, O)
  BY StillFollows
<1>2. /\ next \in DOMAIN lines /\ lines \in Seq(KeptLines) /\ Keyed(lines, next)
      /\ s \in Seq(StackNodes) /\ m \in DOMAIN s /\ m \in Nat /\ DOMAIN s = 1 .. m
      /\ Parent = s[m].path
  <2>1. lines \in Seq(KeptLines) /\ Keyed(lines, next) /\ stack \in Seq(StackNodes)
    BY DEF Nesting, AtKey, Keyed, Line, StackFollows
  <2>2. next \in DOMAIN lines /\ s \in Seq(StackNodes) /\ m \in DOMAIN stack
        /\ (\A i \in 1 .. m : s[i] = stack[i]) /\ Parent = stack[m].path
    BY StillOpenIs
  <2> HIDE DEF s
  <2>3. m \in 1 .. m /\ m \in Nat /\ DOMAIN s = 1 .. m
    BY <2>1, <2>2
  <2> QED BY <2>1, <2>2, <2>3
<1>3. /\ O \subseteq 1 .. next - 1
      /\ O # {} => Max(O) \in O /\ \A h \in O : h <= Max(O)
  BY <1>2, OwnersAbove
<1>4. PathsOf(lines)[next] =
        Append(IF O = {} THEN <<>> ELSE PathsOf(lines)[Max(O)], Line.key)
  BY <1>2, PathOfLine DEF Line
<1>5. \A h \in O : /\ Opens(lines, h) /\ lines[h].indent \in Nat
                   /\ \A g \in h + 1 .. next : Keyed(lines, g) => lines[g].indent > lines[h].indent
  <2>1. \A h \in O : h \in 1 .. Len(lines)
    BY <1>2, <1>3
  <2> QED BY <1>2, <2>1, LineType DEF OwnersOf
<1> HIDE DEF s, O, m
<1>6. CASE m = 1
  <2>1. O = {}
    BY <1>1, <1>2, <1>6 DEF StackFollows
  <2>2. Parent = <<>>
    BY <1>1, <1>2, <1>6 DEF StackFollows
  <2> QED BY <1>4, <2>1, <2>2
<1>7. CASE m > 1
  <2>1. PICK h \in O : s[m] = OnStack(lines, h)
    BY <1>1, <1>2, <1>7 DEF StackFollows
  <2> DEFINE M == Max(O)
  <2>2. M \in O /\ h <= M /\ M \in Nat /\ h \in Nat /\ M < next
    <3>1. \A g \in O : g \in Nat /\ g < next
      BY <1>2, <1>3
    <3> QED BY <1>3, <2>1, <3>1
  <2> HIDE DEF M
  <2>3. h = M
    <3> SUFFICES ASSUME h < M PROVE FALSE
      BY <2>2
    <3>1. lines[M].indent > lines[h].indent
      <4>1. Keyed(lines, M)
        BY <1>5, <2>2 DEF Opens
      <4>2. M \in h + 1 .. next
        BY <1>2, <2>2
      <4> QED BY <1>5, <4>1, <4>2
    <3>2. PICK i \in DOMAIN s : i > 1 /\ s[i].indent = lines[M].indent
      BY <1>1, <2>2 DEF StackFollows
    <3>3. s[m].indent = lines[h].indent
      BY <2>1 DEF OnStack
    <3>4. i = m \/ s[i].indent < s[m].indent
      BY <1>1, <1>2, <3>2 DEF StackFollows
    <3> QED BY <1>5, <2>1, <2>2, <3>1, <3>2, <3>3, <3>4
  <2>4. Parent = PathsOf(lines)[M]
    BY <1>2, <2>1, <2>3 DEF OnStack
  <2> QED BY <1>4, <2>1, <2>4 DEF M
<1> QED BY <1>2, <1>6, <1>7

\* The nodes left are those on the way to the parent, and they exist.
LEMMA OpenLeadToParent ==
  ASSUME Nesting, AtKey
  PROVE  /\ Parent \in Paths /\ Parent \in DOMAIN tree
         /\ \A i \in DOMAIN StillOpen : /\ StillOpen[i].path \in Paths
                                        /\ StillOpen[i].path \in DOMAIN tree
                                        /\ IsPrefix(StillOpen[i].path, Parent)
         /\ DOMAIN tree \subseteq Paths
<1> DEFINE s == StillOpen
           m == Len(s)
<1>1. /\ s \in Seq(StackNodes) /\ m \in DOMAIN stack /\ \A i \in 1 .. m : s[i] = stack[i]
      /\ Parent = stack[m].path
  BY StillOpenIs
<1>2. stack \in Seq(StackNodes) /\ OpenNodesExist
  BY DEF Nesting, StackFollows
<1>3. StackFollows(lines, s, OwnersOf(lines, next))
  BY StillFollows
<1> HIDE DEF s
<1>4. m \in DOMAIN s /\ DOMAIN s = 1 .. m /\ DOMAIN s \subseteq DOMAIN stack /\ m \in Nat
  BY <1>1, <1>2
<1>5. Parent = s[m].path
  BY <1>1, <1>4
<1> HIDE DEF m
<1>6. \A i \in DOMAIN s : s[i].path \in Paths /\ s[i].path \in DOMAIN tree
  <2>1. \A i \in DOMAIN s : s[i] \in StackNodes
    BY <1>1
  <2> QED BY <1>1, <1>2, <1>4, <2>1 DEF OpenNodesExist, StackNodes
<1>7. ASSUME NEW i \in DOMAIN s PROVE IsPrefix(s[i].path, Parent)
  <2>1. CASE i = m
    BY <1>4, <1>5, <1>6, <2>1, PrefixSelf DEF Paths
  <2>2. CASE i < m
    <3>1. IsStrictPrefix(s[i].path, s[m].path)
      BY <1>3, <1>4, <2>2 DEF StackFollows
    <3> QED BY <1>5, <3>1 DEF IsStrictPrefix
  <2> QED BY <1>4, <2>1, <2>2
<1>8. DOMAIN tree \subseteq Paths
  <2>1. Entries(SaidBefore(lines, next))
    BY SaidEntries DEF Nesting, Entries, SaidBefore
  <2>2. \A e \in Left(SaidBefore(lines, next)) : e.path \in Paths
    BY <2>1 DEF Left, Entries
  <2>3. DOMAIN tree = Nodes(Left(SaidBefore(lines, next)))
    BY DEF Nesting, StandsFor, Nodes
  <2> QED BY <2>2, <2>3, NodesDef
<1> QED BY <1>4, <1>5, <1>6, <1>7, <1>8 DEF s

LEMMA NestsHaveParents == Nesting => OpenNodesExist /\ ParentExists
<1> SUFFICES ASSUME Nesting PROVE OpenNodesExist /\ ParentExists
  OBVIOUS
<1>1. OpenNodesExist
  BY DEF Nesting
<1>2. ASSUME AtKey
      PROVE  {i \in DOMAIN stack : stack[i].indent < Line.indent} # {} /\ Parent \in DOMAIN tree
  <2>1. /\ Len(StillOpen) \in DOMAIN stack
        /\ Len(StillOpen) <= Len(StillOpen) <=> stack[Len(StillOpen)].indent < Line.indent
        /\ Len(StillOpen) \in Int
    BY <1>2, StillOpenIs
  <2>2. Len(StillOpen) \in {i \in DOMAIN stack : stack[i].indent < Line.indent}
    BY <2>1
  <2> QED BY <1>2, <2>2, OpenLeadToParent
<1> QED BY <1>1, <1>2 DEF ParentExists

\* A line that opens a node is pushed.
LEMMA PushFollows ==
  ASSUME Nesting, AtKey
  PROVE  StackFollows(lines, Append(StillOpen, OnStack(lines, next)),
                      OwnersOf(lines, next) \cup {next})
<1> DEFINE s == StillOpen
           m == Len(s)
           top == OnStack(lines, next)
           O == OwnersOf(lines, next)
           new == Append(s, top)
<1>1. StackFollows(lines, s, O)
  BY StillFollows
<1>2. /\ s \in Seq(StackNodes) /\ m \in DOMAIN stack
      /\ \A i \in 1 .. m : s[i].indent < Line.indent
      /\ Line.indent \in Nat /\ next \in DOMAIN lines /\ Line.key \in PathWords
  <2>1. \A i \in 1 .. m : i \in DOMAIN stack
    <3>1. stack \in Seq(StackNodes)
      BY DEF Nesting, StackFollows
    <3> QED BY <3>1, StillOpenIs
  <2>2. m \in Nat
    BY <2>1, StillOpenIs
  <2> QED BY <2>1, <2>2, StillOpenIs
<1>3. /\ Parent \in Paths
      /\ \A i \in DOMAIN s : s[i].path \in Paths /\ IsPrefix(s[i].path, Parent)
  BY OpenLeadToParent
<1>4. top.path = Append(Parent, Line.key) /\ top.indent = Line.indent
  BY ParentIsOwner DEF OnStack, Line
<1>5. top \in StackNodes /\ \A i \in DOMAIN s : IsStrictPrefix(s[i].path, top.path)
  <2>1. Append(Parent, Line.key) \in Paths
        /\ \A i \in DOMAIN s : IsStrictPrefix(s[i].path, Append(Parent, Line.key))
    BY <1>2, <1>3, PrefixOfAppend DEF Paths
  <2>2. top = [path |-> top.path, indent |-> top.indent]
    BY DEF OnStack
  <2> HIDE DEF top
  <2>3. top.path \in Paths /\ top.indent \in Int
    BY <1>2, <1>4, <2>1
  <2>4. top \in StackNodes
    BY <2>2, <2>3 DEF StackNodes
  <2> QED BY <1>4, <2>1, <2>4
<1>6. lines[next].indent = Line.indent
  BY DEF Line
<1>7. top = OnStack(lines, next)
  OBVIOUS
<1> HIDE DEF s, top, O
<1>8. m \in Nat /\ DOMAIN s = 1 .. m /\ 1 <= m
  BY <1>1, <1>2 DEF StackFollows
<1> HIDE DEF m
<1>9. /\ new \in Seq(StackNodes) /\ DOMAIN new = 1 .. m + 1 /\ new # <<>>
      /\ new[m + 1] = top /\ \A i \in 1 .. m : new[i] = s[i]
  BY <1>2, <1>5, <1>8 DEF m
<1> HIDE DEF new
<1>10. new[1] = [path |-> <<>>, indent |-> -1]
  BY <1>1, <1>8, <1>9 DEF StackFollows
<1>11. ASSUME NEW i \in DOMAIN new, NEW j \in DOMAIN new, i < j
       PROVE  new[i].indent < new[j].indent /\ IsStrictPrefix(new[i].path, new[j].path)
  <2>1. CASE j \in 1 .. m
    <3>1. i \in 1 .. m
      BY <1>8, <1>9, <1>11, <2>1
    <3> QED BY <1>1, <1>8, <1>9, <1>11, <2>1, <3>1 DEF StackFollows
  <2>2. CASE j = m + 1
    <3>1. i \in 1 .. m
      BY <1>8, <1>9, <1>11, <2>2
    <3> QED BY <1>2, <1>4, <1>5, <1>8, <1>9, <2>2, <3>1
  <2> QED BY <1>8, <1>9, <2>1, <2>2
<1>12. ASSUME NEW i \in DOMAIN new, i > 1
       PROVE  \E h \in O \cup {next} : new[i] = OnStack(lines, h)
  <2>1. CASE i \in 1 .. m
    BY <1>1, <1>8, <1>9, <1>12, <2>1 DEF StackFollows
  <2>2. CASE i = m + 1
    BY <1>7, <1>9, <2>2
  <2> QED BY <1>8, <1>9, <2>1, <2>2
<1>13. ASSUME NEW h \in O \cup {next}
       PROVE  \E i \in DOMAIN new : i > 1 /\ new[i].indent = lines[h].indent
  <2>1. CASE h \in O
    <3>1. PICK i \in DOMAIN s : i > 1 /\ s[i].indent = lines[h].indent
      BY <1>1, <2>1 DEF StackFollows
    <3>2. i \in DOMAIN new /\ new[i] = s[i]
      BY <1>8, <1>9
    <3> QED BY <3>1, <3>2
  <2>2. CASE h = next
    <3>1. m + 1 \in DOMAIN new /\ m + 1 > 1
      BY <1>8, <1>9
    <3> QED BY <1>4, <1>6, <1>9, <2>2, <3>1
  <2> QED BY <2>1, <2>2
<1>14. StackFollows(lines, new, O \cup {next})
  BY <1>9, <1>10, <1>11, <1>12, <1>13 DEF StackFollows
<1> QED BY <1>14 DEF new, s, top, O

-----------------------------------------------------------------------------
(* The steps of parse *)

\* What is known of the tree before a key is read.
LEMMA SaidSoFar ==
  ASSUME Nesting, AtKey
  PROVE  /\ Entries(SaidBefore(lines, next)) /\ StandsFor(SaidBefore(lines, next), tree)
         /\ \A d \in SaidBefore(lines, next) : d.line <= next /\ d.line # next
<1>1. lines \in Seq(KeptLines) /\ next \in Nat /\ StandsFor(SaidBefore(lines, next), tree)
  BY DEF Nesting
<1>2. Entries(SaidBefore(lines, next))
  BY <1>1, SaidEntries DEF Entries, SaidBefore
<1>3. \A d \in SaidBefore(lines, next) : d.line \in Nat /\ d.line < next
  BY <1>2 DEF Entries, SaidBefore
<1> QED BY <1>1, <1>2, <1>3

\* The next line is looked at as the lines' own meaning has it.
LEMMA LooksAhead ==
  ASSUME Nesting, AtKey
  PROVE  /\ ListFollows <=> ListBelow(lines, next)
         /\ Keyed(lines, next)
         /\ ListFollows => next + 1 \in DOMAIN lines /\ ~Keyed(lines, next + 1)
         /\ Line.kind \in {"none", "scalar", "list"}
<1>1. next \in DOMAIN lines /\ lines \in Seq(KeptLines)
  BY StillOpenIs DEF Nesting
<1>2. Line.kind \in {"none", "scalar", "list"}
  BY <1>1, LineType DEF Line
<1>3. ListFollows <=> ListBelow(lines, next)
  BY DEF ListFollows, ListBelow, Keyed, Line
<1>4. ListFollows => next + 1 \in DOMAIN lines /\ ~Keyed(lines, next + 1)
  <2>1. DOMAIN lines = 1 .. Len(lines) /\ Len(lines) \in Nat
    BY <1>1
  <2>2. next < Len(lines) => next + 1 \in DOMAIN lines
    BY <1>1, <2>1
  <2> QED BY <2>2 DEF ListFollows, Keyed
<1> QED BY <1>2, <1>3, <1>4 DEF AtKey, Keyed, Line

\* The nodes that stay open lead to the parent, and so never are below the
\* node a value is given to.
LEMMA OpenKept ==
  ASSUME Nesting, AtKey, NEW i \in DOMAIN StillOpen
  PROVE  /\ ~IsStrictPrefix(Append(Parent, Line.key), StillOpen[i].path)
         /\ ~IsStrictPrefix(Append(Append(Parent, Line.key), "GLOSSARY"), StillOpen[i].path)
<1> DEFINE q == StillOpen[i].path
           child == Append(Parent, Line.key)
           below == Append(child, "GLOSSARY")
<1>1. Parent \in Paths /\ q \in Paths /\ IsPrefix(q, Parent)
  BY OpenLeadToParent
<1>2. Line.key \in PathWords /\ "GLOSSARY" \in PathWords
  BY StillOpenIs DEF PathWords
<1>3. child \in Paths /\ below \in Paths
      /\ Len(child) = Len(Parent) + 1 /\ Len(below) = Len(Parent) + 2 /\ Len(Parent) \in Nat
  BY <1>1, <1>2 DEF Paths
<1> HIDE DEF q, below, child
<1>4. Len(q) <= Len(Parent) /\ Len(q) \in Nat
  BY <1>1, PrefixDef DEF Paths
<1>5. ~IsStrictPrefix(child, q) /\ ~IsStrictPrefix(below, q)
  BY <1>1, <1>3, <1>4, StrictPrefixDef DEF Paths
<1> QED BY <1>5 DEF q, below, child

LEMMA SkipNests ==
  ASSUME Nesting, SkipLine
  PROVE  Nesting'
<1>1. /\ lines \in Seq(KeptLines) /\ next \in Nat \ {0} /\ next <= Len(lines)
      /\ lines' = lines /\ next' = next + 1 /\ stack' = stack /\ tree' = tree
      /\ ~Keyed(lines, next)
  BY DEF Nesting, SkipLine, Keyed, Line
<1>2. next \in DOMAIN lines
  BY <1>1
<1>3. OpenAt(lines, next + 1) = OpenAt(lines, next)
  BY <1>1, <1>2, OpenBehind
<1>4. SaidBefore(lines, next + 1) = SaidBefore(lines, next)
  BY <1>1, <1>2, SaidOneMore
<1>5. /\ StackFollows(lines, stack, OpenAt(lines, next + 1)) /\ OpenNodesExist
      /\ StandsFor(SaidBefore(lines, next + 1), tree)
  BY <1>3, <1>4 DEF Nesting
<1>6. /\ StackFollows(lines, stack, OpenAt(lines, next))' /\ OpenNodesExist'
      /\ StandsFor(SaidBefore(lines, next), tree)'
  BY <1>1, <1>5 DEF StackFollows, OnStack, StackNodes, OpenNodesExist, OpenAt, SaidBefore
<1> QED BY <1>1, <1>6 DEF Nesting

LEMMA OpenNests ==
  ASSUME Nesting, OpenNode
  PROVE  Nesting'
<1> DEFINE child == Append(Parent, Line.key)
           said == SaidBefore(lines, next)
           top == OnStack(lines, next)
           new == Append(StillOpen, top)
           grown == Entered(tree, Parent, Line.key)
<1>1. /\ AtKey /\ Line.kind = "none" /\ ~ListFollows
      /\ lines' = lines /\ next' = next + 1 /\ tree' = grown
      /\ stack' = Append(StillOpen, [path |-> child, indent |-> Line.indent])
  BY DEF OpenNode
<1>2. /\ lines \in Seq(KeptLines) /\ next \in DOMAIN lines /\ next \in Nat
      /\ Line.key \in PathWords
  BY <1>1, StillOpenIs DEF Nesting
<1>3. PathsOf(lines)[next] = child
  BY <1>1, ParentIsOwner
<1>4. stack' = new
  BY <1>1, <1>3 DEF OnStack, Line
<1>5. Opens(lines, next) /\ Keyed(lines, next) /\ ~ListBelow(lines, next)
  BY <1>1, LooksAhead DEF Opens, Line
<1>6. OpenAt(lines, next + 1) = OwnersOf(lines, next) \cup {next}
  BY <1>2, <1>5, OpenBehind
<1>7. StackFollows(lines, new, OpenAt(lines, next + 1))
  BY <1>1, <1>6, PushFollows
<1> DEFINE e == [path |-> child, line |-> next, value |-> Blank, sets |-> FALSE]
<1>8. SaidBefore(lines, next + 1) = said \cup {e}
  <2>1. Named(lines, next) = e
    BY <1>1, <1>3 DEF Named, Line
  <2> QED BY <1>2, <1>5, <2>1, SaidOneMore
<1>9. Parent \in DOMAIN tree
      /\ \A i \in DOMAIN StillOpen : StillOpen[i].path \in DOMAIN tree
  BY <1>1, OpenLeadToParent
<1>10. StandsFor(said \cup {e}, grown) /\ DOMAIN grown = DOMAIN tree \cup {child}
  <2>1. Entries(said) /\ StandsFor(said, tree) /\ \A d \in said : d.line <= next
    BY <1>1, SaidSoFar
  <2>2. e.path = Append(Parent, Line.key) /\ e.line = next /\ e.value = Blank /\ ~e.sets
    OBVIOUS
  <2>3. e.line \in Nat /\ \A d \in said : d.line <= e.line
    BY <1>2, <2>1
  <2> HIDE DEF said, e
  <2>4. StandsFor(said \cup {e}, Entered(tree, Parent, Line.key))
    BY <1>2, <1>9, <2>1, <2>2, <2>3, EnterStands, Zenon
  <2>5. DOMAIN Entered(tree, Parent, Line.key) = DOMAIN tree \cup {Append(Parent, Line.key)}
    BY DEF Entered
  <2> QED BY <2>4, <2>5
<1>11. \A i \in DOMAIN new : new[i].path \in DOMAIN grown
  <2>1. StillOpen \in Seq(StackNodes) /\ top.path = child
    BY <1>1, <1>3, StillOpenIs DEF OnStack
  <2> HIDE DEF top, grown, child
  <2>2. \A i \in DOMAIN new : IF i \in DOMAIN StillOpen THEN new[i] = StillOpen[i] ELSE new[i] = top
    BY <2>1
  <2> HIDE DEF new
  <2> QED BY <1>9, <1>10, <2>1, <2>2
<1> HIDE DEF new, grown, said, e, child
<1>12. StackFollows(lines, stack, OpenAt(lines, next))'
  BY <1>1, <1>4, <1>7
<1>13. OpenNodesExist'
  BY <1>1, <1>4, <1>11 DEF OpenNodesExist
<1>14. StandsFor(SaidBefore(lines, next), tree)'
  BY <1>1, <1>8, <1>10
<1> QED BY <1>1, <1>2, <1>12, <1>13, <1>14 DEF Nesting

LEMMA AssignNests ==
  ASSUME Nesting, Assign
  PROVE  Nesting'
<1> DEFINE child == Append(Parent, Line.key)
           said == SaidBefore(lines, next)
           v == [kind |-> Line.kind, is |-> Line.is]
           grown == Assigned(tree, Parent, Line.key, v)
<1>1. /\ AtKey /\ Line.kind # "none"
      /\ lines' = lines /\ next' = next + 1 /\ tree' = grown /\ stack' = StillOpen
  BY DEF Assign
<1>2. /\ lines \in Seq(KeptLines) /\ next \in DOMAIN lines /\ next \in Nat
      /\ Line.key \in PathWords
  BY <1>1, StillOpenIs DEF Nesting
<1>3. ~Opens(lines, next) /\ Keyed(lines, next) /\ ~(lines[next].kind = "none")
  BY <1>1, LooksAhead DEF Opens, Line
<1>4. OpenAt(lines, next + 1) = OwnersOf(lines, next)
  <2>1. OpenAt(lines, next + 1)
          = OwnersOf(lines, next) \cup (IF Opens(lines, next) THEN {next} ELSE {})
    BY <1>2, <1>3, OpenBehind
  <2> QED BY <1>3, <2>1
<1>5. StackFollows(lines, StillOpen, OpenAt(lines, next + 1))
  BY <1>1, <1>4, StillFollows
<1> DEFINE e == [path |-> child, line |-> next, value |-> v, sets |-> TRUE]
<1>6. SaidBefore(lines, next + 1) = said \cup {e}
  <2>1. Named(lines, next) = e
    BY <1>1, ParentIsOwner DEF Named, Line
  <2> QED BY <1>2, <1>3, <2>1, SaidOneMore
<1>7. Parent \in DOMAIN tree
      /\ \A i \in DOMAIN StillOpen : /\ StillOpen[i].path \in DOMAIN tree
                                     /\ ~IsStrictPrefix(child, StillOpen[i].path)
  BY <1>1, OpenLeadToParent, OpenKept
<1>8. /\ StandsFor(said \cup {e}, grown)
      /\ DOMAIN grown = {q \in DOMAIN tree \cup {child} : ~IsStrictPrefix(child, q)}
  <2>1. /\ Entries(said) /\ StandsFor(said, tree)
        /\ \A d \in said : d.line <= next /\ d.line # next
    BY <1>1, SaidSoFar
  <2>2. e.path = Append(Parent, Line.key) /\ e.line = next /\ e.value = v /\ e.sets
    OBVIOUS
  <2>3. e.line \in Nat /\ \A d \in said : d.line <= e.line
    BY <1>2, <2>1
  <2>4. \A d \in said : d.line = e.line => ~IsStrictPrefix(Append(Parent, Line.key), d.path)
    BY <2>1
  <2> HIDE DEF said, v, e
  <2>5. StandsFor(said \cup {e}, Assigned(tree, Parent, Line.key, v))
    BY <1>2, <1>7, <2>1, <2>2, <2>3, <2>4, AssignStands, Zenon
  <2>6. DOMAIN Assigned(tree, Parent, Line.key, v) =
          {q \in DOMAIN tree \cup {Append(Parent, Line.key)} :
             ~IsStrictPrefix(Append(Parent, Line.key), q)}
    BY DEF Assigned, Entered
  <2> QED BY <2>5, <2>6
<1> HIDE DEF grown, said, e, child
<1>9. \A i \in DOMAIN StillOpen : StillOpen[i].path \in DOMAIN grown
  BY <1>7, <1>8
<1>10. StackFollows(lines, stack, OpenAt(lines, next))'
  BY <1>1, <1>5
<1>11. OpenNodesExist'
  BY <1>1, <1>9 DEF OpenNodesExist
<1>12. StandsFor(SaidBefore(lines, next), tree)'
  BY <1>1, <1>6, <1>8
<1> QED BY <1>1, <1>2, <1>10, <1>11, <1>12 DEF Nesting

LEMMA AssignNextNests ==
  ASSUME Nesting, AssignNext
  PROVE  Nesting'
<1> DEFINE child == Append(Parent, Line.key)
           below == Append(child, "GLOSSARY")
           said == SaidBefore(lines, next)
           v == List(lines[next + 1].is)
           mid == Entered(tree, Parent, Line.key)
           grown == Assigned(mid, child, "GLOSSARY", v)
<1>1. /\ AtKey /\ Line.kind = "none" /\ ListFollows
      /\ lines' = lines /\ next' = next + 2 /\ tree' = grown /\ stack' = StillOpen
  BY DEF AssignNext
<1>2. /\ lines \in Seq(KeptLines) /\ next \in DOMAIN lines /\ next \in Nat
      /\ Line.key \in PathWords /\ "GLOSSARY" \in PathWords
  BY <1>1, StillOpenIs DEF Nesting, PathWords
<1>3. /\ Keyed(lines, next) /\ ListBelow(lines, next) /\ ~Opens(lines, next)
      /\ next + 1 \in DOMAIN lines /\ ~Keyed(lines, next + 1) /\ lines[next].kind = "none"
  BY <1>1, LooksAhead DEF Opens, Line
<1>4. (next + 1) + 1 = next + 2
  BY <1>2
<1>5. OpenAt(lines, next + 2) = OwnersOf(lines, next)
  <2>1. OpenAt(lines, next + 1) = OwnersOf(lines, next) \cup {}
    BY <1>2, <1>3, OpenBehind
  <2>2. OpenAt(lines, (next + 1) + 1) = OpenAt(lines, next + 1)
    BY <1>2, <1>3, OpenBehind
  <2> HIDE DEF child, below, said, v, mid, grown
  <2> QED BY <1>4, <2>1, <2>2
<1>6. StackFollows(lines, StillOpen, OpenAt(lines, next + 2))
  BY <1>1, <1>5, StillFollows
<1> DEFINE e == [path |-> child, line |-> next, value |-> Blank, sets |-> FALSE]
           b == [path |-> below, line |-> next, value |-> v, sets |-> TRUE]
<1>7. SaidBefore(lines, next + 2) = (said \cup {e}) \cup {b}
  <2>1. PathsOf(lines)[next] = child
    BY <1>1, ParentIsOwner
  <2>2. Named(lines, next) = e /\ NamedBelow(lines, next) = b
    BY <1>1, <2>1 DEF Named, NamedBelow, Line
  <2>3. SaidBefore(lines, next + 1) = said \cup {Named(lines, next), NamedBelow(lines, next)}
    BY <1>2, <1>3, SaidOneMore
  <2>4. SaidBefore(lines, (next + 1) + 1) = SaidBefore(lines, next + 1)
    BY <1>2, <1>3, SaidOneMore
  <2> HIDE DEF e, b, said
  <2> QED BY <1>4, <2>2, <2>3, <2>4
<1>8. Parent \in Paths /\ Parent \in DOMAIN tree
      /\ \A i \in DOMAIN StillOpen : /\ StillOpen[i].path \in DOMAIN tree
                                     /\ ~IsStrictPrefix(below, StillOpen[i].path)
  BY <1>1, OpenLeadToParent, OpenKept
<1>9. /\ Entries(said) /\ StandsFor(said, tree)
      /\ \A d \in said : d.line <= next /\ d.line # next
  BY <1>1, SaidSoFar
<1> HIDE DEF said, v
<1>10. StandsFor(said \cup {e}, mid) /\ DOMAIN mid = DOMAIN tree \cup {child}
  <2>1. e.path = Append(Parent, Line.key) /\ e.line = next /\ e.value = Blank /\ ~e.sets
    OBVIOUS
  <2>2. e.line \in Nat /\ \A d \in said : d.line <= e.line
    BY <1>2, <1>9
  <2> HIDE DEF e
  <2>3. StandsFor(said \cup {e}, Entered(tree, Parent, Line.key))
    BY <1>2, <1>8, <1>9, <2>1, <2>2, EnterStands, Zenon
  <2>4. DOMAIN Entered(tree, Parent, Line.key) = DOMAIN tree \cup {Append(Parent, Line.key)}
    BY DEF Entered
  <2> QED BY <2>3, <2>4
<1>11. Entries(said \cup {e})
  <2>1. child \in Paths /\ child # <<>>
    BY <1>2, <1>8, PrefixOfAppend DEF Paths
  <2>2. Blank.kind # "map"
    BY DEF Blank, Scalar
  <2>3. e.path = child /\ e.line = next /\ e.value = Blank
    OBVIOUS
  <2> HIDE DEF e, child
  <2> QED BY <1>2, <1>9, <2>1, <2>2, <2>3 DEF Entries
<1>12. \A d \in said \cup {e} : d.line <= next /\ (d.line = next => ~IsStrictPrefix(below, d.path))
  <2>1. e.path = child /\ e.line = next
    OBVIOUS
  <2>2. child \in Paths /\ below \in Paths /\ IsStrictPrefix(child, below)
    BY <1>2, <1>8, PrefixOfAppend DEF Paths
  <2> HIDE DEF e, child, below
  <2>3. ~IsStrictPrefix(below, child)
    <3>1. Len(child) < Len(below) /\ Len(child) \in Nat /\ Len(below) \in Nat
      BY <2>2, StrictPrefixDef DEF Paths
    <3> QED BY <2>2, <3>1, StrictPrefixDef DEF Paths
  <2> QED BY <1>2, <1>9, <2>1, <2>3
<1>13. child \in DOMAIN mid
  BY <1>10
<1> HIDE DEF e, child, mid
<1>14. /\ StandsFor((said \cup {e}) \cup {b}, grown)
       /\ DOMAIN grown = {q \in DOMAIN mid \cup {below} : ~IsStrictPrefix(below, q)}
  <2>1. b.path = Append(child, "GLOSSARY") /\ b.line = next /\ b.value = v /\ b.sets
    OBVIOUS
  <2> DEFINE all == said \cup {e}
  <2>2. Entries(all) /\ StandsFor(all, mid)
    BY <1>10, <1>11
  <2>3. b.line \in Nat /\ \A d \in all : d.line <= b.line
    BY <1>2, <1>12
  <2>4. \A d \in all : d.line = b.line => ~IsStrictPrefix(Append(child, "GLOSSARY"), d.path)
    BY <1>12
  <2> HIDE DEF b, all
  <2>5. StandsFor(all \cup {b}, Assigned(mid, child, "GLOSSARY", v))
    BY <1>2, <1>13, <2>1, <2>2, <2>3, <2>4, AssignStands, Zenon
  <2>6. DOMAIN Assigned(mid, child, "GLOSSARY", v) =
          {q \in DOMAIN mid \cup {Append(child, "GLOSSARY")} :
             ~IsStrictPrefix(Append(child, "GLOSSARY"), q)}
    BY DEF Assigned, Entered
  <2> QED BY <2>5, <2>6 DEF all
<1> HIDE DEF grown, b, below
<1>15. \A i \in DOMAIN StillOpen : StillOpen[i].path \in DOMAIN grown
  BY <1>8, <1>10, <1>14
<1>16. StackFollows(lines, stack, OpenAt(lines, next))'
  BY <1>1, <1>6
<1>17. OpenNodesExist'
  BY <1>1, <1>15 DEF OpenNodesExist
<1>18. StandsFor(SaidBefore(lines, next), tree)'
  BY <1>1, <1>7, <1>14
<1> QED BY <1>1, <1>2, <1>16, <1>17, <1>18 DEF Nesting

\* Whatever the next line is, the stack and the tree go on to follow.
LEMMA ParseNests ==
  ASSUME Nesting, Parse
  PROVE  Nesting'
BY SkipNests, OpenNests, AssignNests, AssignNextNests DEF Parse

LEMMA InitNests ==
  ASSUME NEW text \in Seq(FileLines), YamlInit(text)
  PROVE  Nesting
<1>1. /\ lines \in Seq(KeptLines) /\ next = 1
      /\ stack = <<[path |-> <<>>, indent |-> -1]>> /\ tree = [p \in {<<>>} |-> Blank]
  BY KeptOnly DEF YamlInit
<1>2. OpenAt(lines, 1) = {}
  BY 1 .. 1 - 1 = {} DEF OpenAt
<1>3. [path |-> <<>>, indent |-> -1] \in StackNodes
  BY EmptyPath DEF StackNodes
<1>4. StackFollows(lines, stack, {})
  <2>1. stack \in Seq(StackNodes) /\ DOMAIN stack = {1} /\ stack # <<>>
        /\ stack[1] = [path |-> <<>>, indent |-> -1]
    BY <1>1, <1>3
  <2> QED BY <2>1 DEF StackFollows
<1>5. OpenNodesExist
  BY <1>1 DEF OpenNodesExist
<1>6. SaidBefore(lines, 1) = {}
  <2>1. \A e \in Said(lines) : \E j \in DOMAIN lines : e.line = j
    BY DEF Said, Named, NamedBelow
  <2>2. \A j \in DOMAIN lines : ~(j < 1)
    BY <1>1
  <2> QED BY <2>1, <2>2 DEF SaidBefore
<1>7. StandsFor({}, tree)
  <2>1. Left({}) = {} /\ DOMAIN tree = {<<>>} /\ tree[<<>>] = Blank
    BY <1>1 DEF Left
  <2> QED BY <2>1 DEF StandsFor, Holds
<1>8. StackFollows(lines, stack, OpenAt(lines, next)) /\ StandsFor(SaidBefore(lines, next), tree)
  BY <1>1, <1>2, <1>4, <1>6, <1>7
<1> QED BY <1>1, <1>5, <1>8 DEF Nesting

LEMMA RestNests ==
  ASSUME Nesting, UNCHANGED yamlVars
  PROVE  Nesting'
BY DEF Nesting, yamlVars, OpenNodesExist

\* When the last line is read, the tree is the one all lines stand for.
LEMMA NestsAtTheEnd ==
  ASSUME Nesting, Parsed
  PROVE  StandsFor(Said(lines), tree)
<1>1. lines \in Seq(KeptLines) /\ next \in Nat /\ next > Len(lines)
  BY DEF Nesting, Parsed
<1>2. \A e \in Said(lines) : \E j \in DOMAIN lines : e.line = j
  BY DEF Said, Named, NamedBelow
<1>3. \A j \in DOMAIN lines : j < next
  BY <1>1
<1>4. SaidBefore(lines, next) = Said(lines)
  BY <1>2, <1>3 DEF SaidBefore
<1> QED BY <1>4 DEF Nesting

-----------------------------------------------------------------------------
(* Reading the tree *)

LEMMA LeftOf ==
  ASSUME NEW ls \in Seq(KeptLines), NEW e \in Left(Said(ls))
  PROVE  /\ e.path \in Paths /\ e.line \in Nat
         /\ \E j \in DOMAIN ls : /\ j = e.line
                                 /\ \/ e = Named(ls, j) /\ e.path = PathsOf(ls)[j]
                                    \/ e = NamedBelow(ls, j)
                                       /\ e.path = Append(PathsOf(ls)[j], "GLOSSARY")
<1>1. e \in Said(ls)
  BY DEF Left
<1>2. e.path \in Paths /\ e.line \in Nat
  BY <1>1, SaidEntries DEF Entries
<1>3. PICK j \in DOMAIN ls : e = Named(ls, j) \/ e = NamedBelow(ls, j)
  BY <1>1 DEF Said
<1>4. /\ Named(ls, j).path = PathsOf(ls)[j] /\ Named(ls, j).line = j
      /\ NamedBelow(ls, j).path = Append(PathsOf(ls)[j], "GLOSSARY")
      /\ NamedBelow(ls, j).line = j
  BY DEF Named, NamedBelow
<1> QED BY <1>2, <1>3, <1>4

\* No two things can be said of one node.
LEMMA HoldsOne ==
  ASSUME NEW ls \in Seq(KeptLines), NEW p, NEW v, NEW w,
         Holds(Left(Said(ls)), p, v), Holds(Left(Said(ls)), p, w)
  PROVE  v = w
<1> DEFINE left == Left(Said(ls))
           given == {e \in left : e.path = p /\ e.sets}
<1>1. CASE \E e \in left : IsStrictPrefix(p, e.path)
  BY <1>1 DEF Holds
<1>2. CASE ~(\E e \in left : IsStrictPrefix(p, e.path)) /\ given = {}
  BY <1>2 DEF Holds
<1>3. CASE ~(\E e \in left : IsStrictPrefix(p, e.path)) /\ given # {}
  <2>1. PICK e \in given : v = e.value /\ \A l \in given : l.line <= e.line
    BY <1>3 DEF Holds
  <2>2. PICK f \in given : w = f.value /\ \A l \in given : l.line <= f.line
    BY <1>3 DEF Holds
  <2>3. e \in left /\ f \in left /\ e.path = p /\ f.path = p
    OBVIOUS
  <2>4. e.line \in Nat /\ f.line \in Nat
    BY <2>3, LeftOf
  <2>5. e.line = f.line
    BY <2>1, <2>2, <2>4
  <2> HIDE DEF given
  <2>6. PICK j \in DOMAIN ls : /\ j = e.line
                               /\ \/ e = Named(ls, j) /\ p = PathsOf(ls)[j]
                                  \/ e = NamedBelow(ls, j) /\ p = Append(PathsOf(ls)[j], "GLOSSARY")
    BY <2>3, LeftOf
  <2>7. \/ f = Named(ls, j) /\ p = PathsOf(ls)[j]
        \/ f = NamedBelow(ls, j) /\ p = Append(PathsOf(ls)[j], "GLOSSARY")
    BY <2>3, <2>5, <2>6, LeftOf
  <2>8. PathsOf(ls)[j] # Append(PathsOf(ls)[j], "GLOSSARY")
    <3>1. PathsOf(ls)[j] \in Paths /\ "GLOSSARY" \in PathWords
      BY PathOfLine DEF PathWords
    <3> QED BY <3>1, PrefixOfAppend DEF Paths
  <2>9. e = f
    BY <2>6, <2>7, <2>8
  <2> QED BY <2>1, <2>2, <2>9
<1> QED BY <1>1, <1>2, <1>3

\* What the tree has at a path, or does not have, is what the lines say of it.
LEMMA AtHolds ==
  ASSUME Nesting, Parsed, NEW S, PathWords \subseteq S, NEW p \in Seq(S)
  PROVE  Holds(Left(Said(lines)), p, At(p))
<1> DEFINE left == Left(Said(lines))
<1>1. lines \in Seq(KeptLines) /\ StandsFor(Said(lines), tree)
  BY NestsAtTheEnd DEF Nesting
<1>2. CASE p \in DOMAIN tree
  BY <1>1, <1>2 DEF At, StandsFor
<1>3. CASE p \notin DOMAIN tree
  <2>1. p # <<>> /\ \A d \in left : p \notin Prefixes(d.path)
    BY <1>1, <1>3 DEF StandsFor
  <2>2. \A d \in left : d.path \in Seq(S)
    <3>1. Paths \subseteq Seq(S)
      BY DEF Paths
    <3> QED BY <1>1, <3>1, LeftOf
  <2> HIDE DEF left
  <2>3. \A d \in left : ~IsPrefix(p, d.path)
    BY <2>1, <2>2, PrefixesDef
  <2>4. \A d \in left : d.path # p /\ ~IsStrictPrefix(p, d.path)
    BY <2>3, PrefixSelf DEF IsStrictPrefix
  <2>5. Holds(left, p, Blank)
    BY <2>4 DEF Holds
  <2> QED BY <1>3, <2>5 DEF At, left
<1> QED BY <1>2, <1>3

LEMMA AtIs ==
  ASSUME Nesting, Parsed, NEW S, PathWords \subseteq S, NEW p \in Seq(S), NEW v,
         Holds(Left(Said(lines)), p, v)
  PROVE  At(p) = v
<1>1. Holds(Left(Said(lines)), p, At(p)) /\ lines \in Seq(KeptLines)
  BY AtHolds DEF Nesting
<1> QED BY <1>1, HoldsOne

\* The keys of a node at the top are those the lines have below it.
LEMMA KeysAre ==
  ASSUME Nesting, Parsed, NEW S, PathWords \subseteq S, NEW a \in S
  PROVE  KeysAt(<<a>>) = {d.path[2] : d \in {e \in Left(Said(lines)) : /\ Len(e.path) > 1
                                                                      /\ e.path[1] = a}}
<1> DEFINE left == Left(Said(lines))
<1>1. lines \in Seq(KeptLines) /\ StandsFor(Said(lines), tree)
  BY NestsAtTheEnd DEF Nesting
<1>2. \A d \in left : d.path \in Seq(S)
  <2>1. Paths \subseteq Seq(S)
    BY DEF Paths
  <2> QED BY <1>1, <2>1, LeftOf
<1>3. DOMAIN tree = {<<>>} \cup UNION {Prefixes(d.path) \ {<<>>} : d \in left}
  BY <1>1 DEF StandsFor
<1>4. <<a>> \in Seq(S) /\ Len(<<a>>) = 1 /\ <<a>>[1] = a
  OBVIOUS
<1> HIDE DEF left
<1>5. \A d \in left : /\ Prefixes(d.path) \subseteq Seq(S)
                      /\ \A s \in Seq(S) : s \in Prefixes(d.path) <=> IsPrefix(s, d.path)
  BY <1>2, PrefixesDef
<1>6. DOMAIN tree \subseteq Seq(S)
  <2>1. <<>> \in Seq(S)
    OBVIOUS
  <2> QED BY <1>3, <1>5, <2>1
<1>7. ASSUME NEW q \in DOMAIN tree, Len(q) = 1 + 1, IsPrefix(<<a>>, q)
      PROVE  \E d \in left : Len(d.path) > 1 /\ d.path[1] = a /\ Last(q) = d.path[2]
  <2>0. q \in Seq(S)
    BY <1>6
  <2>1. q \in Seq(S) /\ q # <<>>
    <3>1. Len(q) = 2
      BY <1>7
    <3>2. q # <<>>
      <4>1. Len(<<>>) = 0
        OBVIOUS
      <4>2. Len(q) # 0
        BY <3>1
      <4> QED BY <4>1, <4>2, Zenon
    <3> QED BY <2>0, <3>2
  <2>2. PICK d \in left : IsPrefix(q, d.path)
    BY <1>3, <1>5, <2>1
  <2>3. q[1] = a
    <3> DEFINE o == <<a>>
    <3> HIDE DEF o
    <3>1. o \in Seq(S) /\ Len(o) = 1 /\ o[1] = a /\ IsPrefix(o, q)
      BY <1>4, <1>7 DEF o
    <3>2. \A i \in 1 .. 1 : o[i] = q[i]
      BY <2>1, <3>1, PrefixDef
    <3> QED BY <3>1, <3>2
  <2>4. Len(q) <= Len(d.path) /\ \A i \in 1 .. Len(q) : q[i] = d.path[i]
    BY <1>2, <2>1, <2>2, PrefixDef
  <2>5. Len(d.path) \in Nat /\ Len(d.path) > 1 /\ d.path[1] = q[1] /\ d.path[2] = q[2]
    BY <1>2, <1>7, <2>4
  <2>6. Last(q) = q[2]
    BY <1>7 DEF Last
  <2> QED BY <2>3, <2>5, <2>6
<1>8. ASSUME NEW d \in left, Len(d.path) > 1, d.path[1] = a
      PROVE  \E q \in DOMAIN tree : Len(q) = 1 + 1 /\ IsPrefix(<<a>>, q) /\ Last(q) = d.path[2]
  <2> DEFINE s == d.path
             q == SubSeq(s, 1, 2)
  <2>1. s \in Seq(S) /\ Len(s) \in Nat
    BY <1>2
  <2> HIDE DEF s
  <2>2. q \in Seq(S) /\ Len(q) = 2 /\ q[1] = s[1] /\ q[2] = s[2]
    BY <1>8, <2>1 DEF s
  <2> HIDE DEF q
  <2>3. IsPrefix(q, s)
    <3>1. \A i \in 1 .. 2 : q[i] = s[i]
      BY <2>2
    <3>2. Len(s) > 1
      BY <1>8 DEF s
    <3> QED BY <2>1, <2>2, <3>1, <3>2, PrefixDef
  <2>4. q \in DOMAIN tree
    <3>1. q \in Prefixes(s) /\ q # <<>>
      BY <1>5, <2>2, <2>3 DEF s
    <3> QED BY <1>3, <3>1 DEF s
  <2>5. IsPrefix(<<a>>, q)
    <3> DEFINE o == <<a>>
    <3>1. o \in Seq(S) /\ Len(o) = 1 /\ o[1] = a
      BY <1>4
    <3> HIDE DEF o
    <3>2. \A i \in 1 .. 1 : o[i] = q[i]
      BY <1>8, <2>2, <3>1 DEF s
    <3>3. IsPrefix(o, q)
      BY <2>2, <3>1, <3>2, PrefixDef
    <3> QED BY <3>3 DEF o
  <2>6. Last(q) = s[2]
    BY <2>2 DEF Last
  <2> QED BY <2>2, <2>4, <2>5, <2>6 DEF s
<1>9. KeysAt(<<a>>) = {Last(q) : q \in {d \in DOMAIN tree : Len(d) = 1 + 1 /\ IsPrefix(<<a>>, d)}}
  BY <1>4 DEF KeysAt
<1> QED BY <1>7, <1>8, <1>9 DEF left
=============================================================================
