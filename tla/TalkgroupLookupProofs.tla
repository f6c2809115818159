----------------------- MODULE TalkgroupLookupProofs -----------------------
(***************************************************************************)
(* What TalkgroupLookup.tla promises of the talkgroups that are configured,*)
(* and of the one a recording is given, for every configuration file,      *)
(* every order of its keys and every name of a recording.                  *)
(***************************************************************************)
EXTENDS TalkgroupLookup, YamlParserProofs

\* The keys initialize has added.
Added == KeysAt(<<"TALKGROUP_FILES">>) \ keysLeft

\* What initialize has made of them, at any point of its loop.
SomeEntry(id) == \E k \in Added : /\ id \in parseTalkgroupIDs(k)
                                  /\ talkgroupFiles[id] = FilesOf(k)

Adding ==
  /\ phase = "loading" => DOMAIN talkgroupFiles = {}
  /\ phase = "talkgroups" => keysLeft \subseteq KeysAt(<<"TALKGROUP_FILES">>)
  /\ phase = "running" => keysLeft = {}
  /\ phase \in {"talkgroups", "running"} =>
       /\ \A k \in Added : Stops(k) = {}
       /\ DOMAIN talkgroupFiles = UNION {parseTalkgroupIDs(k) : k \in Added}
       /\ \A id \in DOMAIN talkgroupFiles : SomeEntry(id)

\* The prompt for the digits of a name.
PromptFor(digits) ==
  IF IdOf(digits, 0) > 0 /\ IdOf(digits, 0) \in DOMAIN talkgroupFiles
  THEN talkgroupFiles[IdOf(digits, 0)].prompt ELSE ""

\* Nobody asks before the configuration is complete, and the prompt that was
\* sent is the one the second reading of the name would look up as well.
Asking ==
  /\ step \in {"none", "sent", "rejected", "filed", "thrown"}
  /\ step # "none" => phase = "running"
  /\ step \in {"sent", "filed", "thrown"} =>
       /\ name \in Names
       /\ Fits(LateDigits(name.tokens))
       /\ prompt = PromptFor(LateDigits(name.tokens))
  /\ step = "filed" =>
       /\ talkgroup = IdOf(LateDigits(name.tokens), DefaultID)
       /\ glossaries = IF talkgroup \in DOMAIN talkgroupFiles
                       THEN talkgroupFiles[talkgroup].files ELSE <<>>
  /\ step = "thrown" => name.short \/ ~Fits(RadioDigits(name.tokens))

-----------------------------------------------------------------------------
(* What regex_search finds in a name *)

LEMMA SuffixAt ==
  ASSUME NEW W, NEW t \in Seq(W), NEW i \in DOMAIN t, NEW p \in Seq(W)
  PROVE  IsSuffix(p, SubSeq(t, 1, i - 1)) <=>
           /\ Len(p) < i
           /\ \A k \in 1 .. Len(p) : p[k] = t[i - 1 - Len(p) + k]
<1> DEFINE s == SubSeq(t, 1, i - 1)
           n == Len(p)
<1>1. i \in 1 .. Len(t) /\ Len(t) \in Nat /\ n \in Nat /\ DOMAIN p = 1 .. n
  OBVIOUS
<1>2. s \in Seq(W) /\ Len(s) = i - 1 /\ \A k \in 1 .. i - 1 : s[k] = t[k]
  BY <1>1
<1> DEFINE rs == [k \in 1 .. i - 1 |-> s[i - 1 - k + 1]]
           rp == [k \in 1 .. n |-> p[n - k + 1]]
<1>3. Reverse(s) = rs /\ Reverse(p) = rp
  BY <1>2 DEF Reverse
<1>4. rs \in Seq(W) /\ Len(rs) = i - 1 /\ rp \in Seq(W) /\ Len(rp) = n
  <2>1. i - 1 \in Nat /\ \A k \in 1 .. i - 1 : s[i - 1 - k + 1] \in W
    BY <1>1, <1>2
  <2>2. \A k \in 1 .. n : p[n - k + 1] \in W
    BY <1>1
  <2>3. rs \in [1 .. i - 1 -> W] /\ rp \in [1 .. n -> W]
    BY <2>1, <2>2
  <2>4. rs \in Seq(W) /\ rp \in Seq(W)
    <3> HIDE DEF rs, rp
    <3>1. i - 1 \in Nat
      BY <1>1
    <3> DEFINE m == i - 1
    <3> HIDE DEF m
    <3>2. m \in Nat /\ rs \in [1 .. m -> W]
      BY <3>1, <2>3 DEF m
    <3> QED
      BY <1>1, <2>3, <3>2, SeqDef
  <2>5. DOMAIN rs = 1 .. i - 1 /\ DOMAIN rp = 1 .. n
    OBVIOUS
  <2> HIDE DEF rs, rp
  <2>6. Len(rs) = i - 1
    BY <2>1, <2>4, <2>5, LenProperties
  <2>7. Len(rp) = n
    BY <1>1, <2>4, <2>5, LenProperties
  <2> QED
    BY <2>4, <2>6, <2>7
<1>5. IsSuffix(p, s) <=> n <= i - 1 /\ SubSeq(rp, 1, n) = SubSeq(rs, 1, n)
  BY <1>3, <1>4 DEF IsSuffix, IsPrefix
<1>6. ASSUME n <= i - 1
      PROVE  SubSeq(rp, 1, n) = SubSeq(rs, 1, n) <=> \A k \in 1 .. n : p[k] = t[i - 1 - n + k]
  <2>1. /\ SubSeq(rp, 1, n) \in Seq(W) /\ Len(SubSeq(rp, 1, n)) = n
        /\ SubSeq(rs, 1, n) \in Seq(W) /\ Len(SubSeq(rs, 1, n)) = n
    BY <1>1, <1>4, <1>6
  <2>2. \A k \in 1 .. n : SubSeq(rp, 1, n)[k] = rp[k] /\ SubSeq(rs, 1, n)[k] = rs[k]
    BY <1>1, <1>4, <1>6
  <2>3. \A k \in 1 .. n : rp[k] = p[n - k + 1] /\ rs[k] = t[i - k]
    BY <1>1, <1>2, <1>6
  <2> HIDE DEF rs, rp
  <2>4. SubSeq(rp, 1, n) = SubSeq(rs, 1, n) <=> \A k \in 1 .. n : rp[k] = rs[k]
    BY <2>1, <2>2
  <2>5. (\A k \in 1 .. n : rp[k] = rs[k]) <=> \A k \in 1 .. n : p[n - k + 1] = t[i - k]
    BY <2>3
  <2>6. ASSUME \A k \in 1 .. n : p[n - k + 1] = t[i - k], NEW k \in 1 .. n
        PROVE  p[k] = t[i - 1 - n + k]
    <3>1. n - k + 1 \in 1 .. n /\ n - (n - k + 1) + 1 = k /\ i - (n - k + 1) = i - 1 - n + k
      BY <1>1
    <3> QED
      BY <2>6, <3>1
  <2>7. ASSUME \A k \in 1 .. n : p[k] = t[i - 1 - n + k], NEW k \in 1 .. n
        PROVE  p[n - k + 1] = t[i - k]
    <3>1. n - k + 1 \in 1 .. n /\ i - 1 - n + (n - k + 1) = i - k
      BY <1>1
    <3> QED
      BY <2>7, <3>1
  <2> QED
    BY <2>4, <2>5, <2>6, <2>7
<1>7. n <= i - 1 <=> n < i
  BY <1>1
<1> QED
  BY <1>5, <1>6, <1>7

LEMMA BehindOne ==
  ASSUME NEW W, NEW t \in Seq(W), NEW i \in DOMAIN t, NEW a
  PROVE  IsSuffix(<<a>>, SubSeq(t, 1, i - 1)) <=> 1 < i /\ a = t[i - 1]
<1> DEFINE p == <<a>>
           V == W \cup {a}
<1>1. i \in Nat
  OBVIOUS
<1>2. p \in Seq(V) /\ t \in Seq(V)
  OBVIOUS
<1>3. Len(p) = 1 /\ p[1] = a
  OBVIOUS
<1> HIDE DEF p, V
<1>4. IsSuffix(p, SubSeq(t, 1, i - 1)) <=>
        Len(p) < i /\ \A k \in 1 .. Len(p) : p[k] = t[i - 1 - Len(p) + k]
  BY <1>2, SuffixAt
<1>5. 1 .. Len(p) = {1}
  BY <1>3
<1>6. i - 1 - Len(p) + 1 = i - 1
  BY <1>1, <1>3
<1>7. (\A k \in 1 .. Len(p) : p[k] = t[i - 1 - Len(p) + k]) <=> a = t[i - 1]
  BY <1>3, <1>5, <1>6
<1>8. IsSuffix(p, SubSeq(t, 1, i - 1)) <=> 1 < i /\ a = t[i - 1]
  BY <1>3, <1>4, <1>7
<1> QED
  BY <1>8 DEF p

LEMMA BehindTwo ==
  ASSUME NEW W, NEW t \in Seq(W), NEW i \in DOMAIN t, NEW a, NEW b
  PROVE  IsSuffix(<<a, b>>, SubSeq(t, 1, i - 1)) <=> 2 < i /\ a = t[i - 2] /\ b = t[i - 1]
<1> DEFINE p == <<a, b>>
           V == W \cup {a, b}
<1>1. i \in Nat
  OBVIOUS
<1>2. p \in Seq(V) /\ t \in Seq(V)
  OBVIOUS
<1>3. Len(p) = 2 /\ p[1] = a /\ p[2] = b
  OBVIOUS
<1> HIDE DEF p, V
<1>4. IsSuffix(p, SubSeq(t, 1, i - 1)) <=>
        Len(p) < i /\ \A k \in 1 .. Len(p) : p[k] = t[i - 1 - Len(p) + k]
  BY <1>2, SuffixAt
<1>5. 1 .. Len(p) = {1, 2}
  BY <1>3
<1>6. i - 1 - Len(p) + 1 = i - 2 /\ i - 1 - Len(p) + 2 = i - 1
  BY <1>1, <1>3
<1>7. (\A k \in 1 .. Len(p) : p[k] = t[i - 1 - Len(p) + k]) <=> a = t[i - 2] /\ b = t[i - 1]
  BY <1>3, <1>5, <1>6
<1>8. IsSuffix(p, SubSeq(t, 1, i - 1)) <=> 2 < i /\ a = t[i - 2] /\ b = t[i - 1]
  BY <1>3, <1>4, <1>7
<1> QED
  BY <1>8 DEF p

LEMMA BehindThree ==
  ASSUME NEW W, NEW t \in Seq(W), NEW i \in DOMAIN t,
         NEW a, NEW b, NEW c
  PROVE  IsSuffix(<<a, b, c>>, SubSeq(t, 1, i - 1)) <=>
           3 < i /\ a = t[i - 3] /\ b = t[i - 2] /\ c = t[i - 1]
<1> DEFINE p == <<a, b, c>>
           V == W \cup {a, b, c}
<1>1. i \in Nat
  OBVIOUS
<1>2. p \in Seq(V) /\ t \in Seq(V)
  OBVIOUS
<1>3. Len(p) = 3 /\ p[1] = a /\ p[2] = b /\ p[3] = c
  OBVIOUS
<1> HIDE DEF p, V
<1>4. IsSuffix(p, SubSeq(t, 1, i - 1)) <=>
        Len(p) < i /\ \A k \in 1 .. Len(p) : p[k] = t[i - 1 - Len(p) + k]
  BY <1>2, SuffixAt
<1>5. 1 .. Len(p) = {1, 2, 3}
  BY <1>3
<1>6. i - 1 - Len(p) + 1 = i - 3 /\ i - 1 - Len(p) + 2 = i - 2 /\ i - 1 - Len(p) + 3 = i - 1
  BY <1>1, <1>3
<1>7. (\A k \in 1 .. Len(p) : p[k] = t[i - 1 - Len(p) + k]) <=>
        a = t[i - 3] /\ b = t[i - 2] /\ c = t[i - 1]
  BY <1>3, <1>5, <1>6
<1>8. IsSuffix(p, SubSeq(t, 1, i - 1)) <=> 3 < i /\ a = t[i - 3] /\ b = t[i - 2] /\ c = t[i - 1]
  BY <1>3, <1>4, <1>7
<1> QED
  BY <1>8 DEF p

\* Digits stand at i, behind one of the prefixes.
Hit(t, i, prefixes) ==
  t[i] \in DOMAIN Number /\ \E p \in prefixes : IsSuffix(p, SubSeq(t, 1, i - 1))

LEMMA DigitsFound ==
  ASSUME NEW t \in Seq(STRING), NEW prefixes, NEW i \in DOMAIN t, Hit(t, i, prefixes),
         \A j \in DOMAIN t : Hit(t, j, prefixes) => i <= j
  PROVE  DigitsAfter(t, prefixes) = t[i]
<1> DEFINE hits == {j \in DOMAIN t : Hit(t, j, prefixes)}
<1>1. DigitsAfter(t, prefixes) = IF hits = {} THEN "" ELSE t[Min(hits)]
  BY DEF DigitsAfter, Hit
<1>2. hits \subseteq Int /\ i \in hits /\ \A j \in hits : i <= j
  OBVIOUS
<1> HIDE DEF hits
<1>3. Min(hits) = i
  <2>1. \A x, y \in hits : x <= y /\ y <= x => x = y
    BY <1>2
  <2> QED
    BY <1>2, <2>1 DEF Min
<1> QED
  BY <1>1, <1>2, <1>3

LEMMA NoDigits ==
  ASSUME NEW t, NEW prefixes, \A j \in DOMAIN t : ~Hit(t, j, prefixes)
  PROVE  DigitsAfter(t, prefixes) = ""
BY DEF DigitsAfter, Hit

\* The two functions that read a name read the same digits.
LEMMA SameDigits == \A t : EarlyDigits(t) = LateDigits(t)
BY DEF EarlyDigits, LateDigits

\* Which tokens are hits: behind one mark,
LEMMA MarkHits ==
  ASSUME NEW t \in Seq(STRING), NEW a
  PROVE  /\ \A h \in DOMAIN t :
              h + 1 \in DOMAIN t /\ t[h] = a /\ t[h + 1] \in DOMAIN Number => Hit(t, h + 1, {<<a>>})
         /\ \A j \in DOMAIN t : Hit(t, j, {<<a>>}) => \E h \in DOMAIN t : t[h] = a /\ j = h + 1
<1>1. \A j \in DOMAIN t : Hit(t, j, {<<a>>}) <=> t[j] \in DOMAIN Number /\ 1 < j /\ a = t[j - 1]
  <2> SUFFICES ASSUME NEW j \in DOMAIN t
               PROVE  Hit(t, j, {<<a>>}) <=> t[j] \in DOMAIN Number /\ 1 < j /\ a = t[j - 1]
    OBVIOUS
  <2>1. IsSuffix(<<a>>, SubSeq(t, 1, j - 1)) <=> 1 < j /\ a = t[j - 1]
    BY BehindOne
  <2> QED
    BY <2>1 DEF Hit
<1>2. DOMAIN t = 1 .. Len(t) /\ Len(t) \in Nat
  OBVIOUS
<1>3. \A h \in DOMAIN t : (h + 1) - 1 = h /\ 1 < h + 1
  BY <1>2
<1>4. \A j \in DOMAIN t : 1 < j => j - 1 \in DOMAIN t /\ j = (j - 1) + 1
  BY <1>2
<1> QED
  BY <1>1, <1>3, <1>4

LEMMA HitsMark ==
  ASSUME NEW t \in Seq(STRING), NEW a, NEW i \in DOMAIN t, \A h \in DOMAIN t : t[h] = a => i <= h
  PROVE  \A j \in DOMAIN t : Hit(t, j, {<<a>>}) => i + 1 <= j
<1>1. DOMAIN t \subseteq Nat
  OBVIOUS
<1>2. \A h \in DOMAIN t : t[h] = a => i + 1 <= h + 1
  BY <1>1
<1>3. \A j \in DOMAIN t : Hit(t, j, {<<a>>}) => \E h \in DOMAIN t : t[h] = a /\ j = h + 1
  BY MarkHits
<1> QED
  BY <1>2, <1>3

\* and behind a P-group's.
PGroupMarks == {<<"TO_", "P">>, <<"TO_", "P", "_">>}

LEMMA PGroupHits ==
  ASSUME NEW t \in Seq(STRING)
  PROVE  /\ \A h \in DOMAIN t :
              /\ h + 1 \in DOMAIN t /\ h + 2 \in DOMAIN t
              /\ t[h] = "TO_" /\ t[h + 1] = "P" /\ t[h + 2] \in DOMAIN Number
              => Hit(t, h + 2, PGroupMarks)
         /\ \A h \in DOMAIN t :
              /\ h + 1 \in DOMAIN t /\ h + 2 \in DOMAIN t /\ h + 3 \in DOMAIN t
              /\ t[h] = "TO_" /\ t[h + 1] = "P" /\ t[h + 2] = "_" /\ t[h + 3] \in DOMAIN Number
              => Hit(t, h + 3, PGroupMarks)
         /\ \A j \in DOMAIN t : Hit(t, j, PGroupMarks) =>
              \E h \in DOMAIN t : t[h] = "TO_" /\ (j = h + 2 \/ (j = h + 3 /\ t[h + 2] = "_"))
<1>1. \A j \in DOMAIN t : Hit(t, j, PGroupMarks) <=>
        /\ t[j] \in DOMAIN Number
        /\ \/ 2 < j /\ "TO_" = t[j - 2] /\ "P" = t[j - 1]
           \/ 3 < j /\ "TO_" = t[j - 3] /\ "P" = t[j - 2] /\ "_" = t[j - 1]
  <2> SUFFICES ASSUME NEW j \in DOMAIN t
               PROVE  Hit(t, j, PGroupMarks) <=>
                        /\ t[j] \in DOMAIN Number
                        /\ \/ 2 < j /\ "TO_" = t[j - 2] /\ "P" = t[j - 1]
                           \/ 3 < j /\ "TO_" = t[j - 3] /\ "P" = t[j - 2] /\ "_" = t[j - 1]
    OBVIOUS
  <2>1. IsSuffix(<<"TO_", "P">>, SubSeq(t, 1, j - 1)) <=> 2 < j /\ "TO_" = t[j - 2] /\ "P" = t[j - 1]
    BY BehindTwo
  <2>2. IsSuffix(<<"TO_", "P", "_">>, SubSeq(t, 1, j - 1)) <=>
          3 < j /\ "TO_" = t[j - 3] /\ "P" = t[j - 2] /\ "_" = t[j - 1]
    BY BehindThree
  <2> QED
    BY <2>1, <2>2 DEF Hit, PGroupMarks
<1>2. DOMAIN t = 1 .. Len(t) /\ Len(t) \in Nat
  OBVIOUS
<1>3. \A h \in DOMAIN t :
        /\ (h + 2) - 2 = h /\ (h + 2) - 1 = h + 1 /\ 2 < h + 2
        /\ (h + 3) - 3 = h /\ (h + 3) - 2 = h + 1 /\ (h + 3) - 1 = h + 2 /\ 3 < h + 3
  BY <1>2
<1>4. \A j \in DOMAIN t :
        /\ 2 < j => j - 2 \in DOMAIN t /\ j = (j - 2) + 2
        /\ 3 < j => j - 3 \in DOMAIN t /\ j = (j - 3) + 3 /\ j - 1 = (j - 3) + 2
  BY <1>2
<1>5. ASSUME NEW j \in DOMAIN t, Hit(t, j, PGroupMarks)
      PROVE  \E h \in DOMAIN t : t[h] = "TO_" /\ (j = h + 2 \/ (j = h + 3 /\ t[h + 2] = "_"))
  <2>1. CASE 2 < j /\ "TO_" = t[j - 2]
    BY <1>4, <2>1
  <2>2. CASE 3 < j /\ "TO_" = t[j - 3] /\ "_" = t[j - 1]
    BY <1>4, <2>2
  <2> QED
    BY <1>1, <1>5, <2>1, <2>2
<1> QED
  BY <1>1, <1>3, <1>5

LEMMA PGroupName ==
  ASSUME NEW t \in Seq(STRING)
  PROVE  IsPGroup(t) <=>
           \E h \in DOMAIN t : h + 1 \in DOMAIN t /\ t[h] = "TO_" /\ t[h + 1] = "P"
<1>1. DOMAIN t = 1 .. Len(t) /\ Len(t) \in Nat
  OBVIOUS
<1>2. \A h \in DOMAIN t : h + 1 \in DOMAIN t => h + 1 \in 2 .. Len(t) /\ (h + 1) - 1 = h
  BY <1>1
<1>3. \A k \in 2 .. Len(t) : k - 1 \in DOMAIN t /\ k \in DOMAIN t /\ (k - 1) + 1 = k
  BY <1>1
<1> QED
  BY <1>2, <1>3 DEF IsPGroup

LEMMA PartsFollow ==
  ASSUME NEW t, NEW i \in Nat
  PROVE  /\ \A a : Follows(t, i, <<a>>) => i + 1 \in DOMAIN t /\ t[i + 1] = a
         /\ \A a, b : Follows(t, i, <<a, b>>) =>
              /\ i + 1 \in DOMAIN t /\ t[i + 1] = a
              /\ i + 2 \in DOMAIN t /\ t[i + 2] = b
         /\ \A a, b, c : Follows(t, i, <<a, b, c>>) =>
              /\ i + 1 \in DOMAIN t /\ t[i + 1] = a
              /\ i + 2 \in DOMAIN t /\ t[i + 2] = b
              /\ i + 3 \in DOMAIN t /\ t[i + 3] = c
BY DEF Follows

\* In a name of SDRTrunk the digits that are read are those of its talkgroup.
LEMMA MeantDigits ==
  ASSUME NEW n \in Names, n.means # "none"
  PROVE  LateDigits(n.tokens) = n.means /\ n.means \in DOMAIN Number /\ n.means # ""
<1> DEFINE t == n.tokens
           d == n.means
<1>1. t \in Seq(STRING) /\ d \in DOMAIN Number /\ SDRTrunkName(n)
  BY NameAssumption
<1>2. d # "" /\ d # "TO_" /\ d # "P" /\ d # "_" /\ d # "[" /\ "_" \notin DOMAIN Number
  BY <1>1, MarkAssumption
<1>3. PICK i \in DOMAIN t :
        /\ t[i] = "TO_" /\ \A j \in DOMAIN t : t[j] = "TO_" => j = i
        /\ \/ Follows(t, i, <<d>>)
           \/ /\ Follows(t, i, <<"P">>)
              /\ \E b \in DOMAIN t : /\ t[b] = "[" /\ \A j \in 1 .. b - 1 : t[j] # "["
                                     /\ Follows(t, b, <<d>>)
           \/ /\ Follows(t, i, <<"P", d>>) \/ Follows(t, i, <<"P", "_", d>>)
              /\ \A j \in DOMAIN t : t[j] # "["
  BY <1>1 DEF SDRTrunkName
<1> HIDE DEF t, d
<1>4. DOMAIN t = 1 .. Len(t) /\ Len(t) \in Nat /\ i \in Nat /\ i >= 1
  BY <1>1
<1>5. LateDigits(t) = d
  <2>1. CASE Follows(t, i, <<d>>)
    <3>1. i + 1 \in DOMAIN t /\ t[i + 1] = d
      BY <1>4, <2>1, PartsFollow
    <3>2. ~IsPGroup(t)
      BY <1>1, <1>2, <1>3, <3>1, PGroupName
    <3>3. Hit(t, i + 1, {<<"TO_">>})
      BY <1>1, <1>3, <3>1, MarkHits
    <3>4. \A j \in DOMAIN t : Hit(t, j, {<<"TO_">>}) => i + 1 <= j
      <4>1. \A h \in DOMAIN t : t[h] = "TO_" => i <= h
        <5>1. i <= i
          BY <1>4
        <5> QED
          BY <1>3, <5>1
      <4> QED
        BY <1>1, <4>1, HitsMark
    <3>5. Standard(t) = d
      BY <1>1, <3>1, <3>3, <3>4, DigitsFound DEF Standard
    <3> QED
      BY <3>2, <3>5 DEF LateDigits
  <2>2. ASSUME Follows(t, i, <<"P">>), NEW b \in DOMAIN t,
               t[b] = "[", \A j \in 1 .. b - 1 : t[j] # "[", Follows(t, b, <<d>>)
        PROVE  LateDigits(t) = d
    <3>1. i + 1 \in DOMAIN t /\ t[i + 1] = "P" /\ b + 1 \in DOMAIN t /\ t[b + 1] = d
      BY <1>4, <2>2, PartsFollow
    <3>2. IsPGroup(t)
      BY <1>1, <1>3, <3>1, PGroupName
    <3>3. Hit(t, b + 1, {<<"[">>})
      BY <1>1, <2>2, <3>1, MarkHits
    <3>4. \A j \in DOMAIN t : Hit(t, j, {<<"[">>}) => b + 1 <= j
      <4>1. \A h \in DOMAIN t : t[h] = "[" => b <= h
        BY <1>4, <2>2
      <4> QED
        BY <1>1, <4>1, HitsMark
    <3>5. InBracket(t) = d
      BY <1>1, <3>1, <3>3, <3>4, DigitsFound DEF InBracket
    <3> QED
      BY <1>2, <3>2, <3>5 DEF LateDigits
  <2>3. ASSUME Follows(t, i, <<"P", d>>) \/ Follows(t, i, <<"P", "_", d>>),
               \A j \in DOMAIN t : t[j] # "["
        PROVE  LateDigits(t) = d
    <3>1. \/ /\ i + 1 \in DOMAIN t /\ t[i + 1] = "P"
             /\ i + 2 \in DOMAIN t /\ t[i + 2] = d
          \/ /\ i + 1 \in DOMAIN t /\ t[i + 1] = "P"
             /\ i + 2 \in DOMAIN t /\ t[i + 2] = "_"
             /\ i + 3 \in DOMAIN t /\ t[i + 3] = d
      BY <1>4, <2>3, PartsFollow
    <3>2. IsPGroup(t)
      BY <1>1, <1>3, <3>1, PGroupName
    <3>3. InBracket(t) = ""
      <4>1. \A j \in DOMAIN t : ~Hit(t, j, {<<"[">>})
        BY <1>1, <2>3, MarkHits
      <4> QED
        BY <4>1, NoDigits DEF InBracket
    <3>4. \A j \in DOMAIN t : Hit(t, j, PGroupMarks) => j = i + 2 \/ (j = i + 3 /\ t[i + 2] = "_")
      BY <1>1, <1>3, PGroupHits
    <3>5. CASE t[i + 2] = d /\ i + 2 \in DOMAIN t /\ t[i + 1] = "P"
      <4>1. Hit(t, i + 2, PGroupMarks)
        BY <1>1, <1>3, <3>1, <3>5, PGroupHits
      <4>2. \A j \in DOMAIN t : Hit(t, j, PGroupMarks) => i + 2 <= j
        <5>1. i + 2 <= i + 2 /\ i + 2 <= i + 3
          BY <1>4
        <5> QED
          BY <3>4, <5>1
      <4> QED
        BY <1>1, <1>2, <3>2, <3>3, <3>5, <4>1, <4>2,
           DigitsFound DEF LateDigits, OfPGroup, PGroupMarks
    <3>6. CASE /\ i + 1 \in DOMAIN t /\ t[i + 1] = "P" /\ i + 2 \in DOMAIN t /\ t[i + 2] = "_"
               /\ i + 3 \in DOMAIN t /\ t[i + 3] = d
      <4>1. Hit(t, i + 3, PGroupMarks)
        BY <1>1, <1>3, <3>6, PGroupHits
      <4>2. ~Hit(t, i + 2, PGroupMarks)
        BY <1>2, <3>6 DEF Hit
      <4>3. \A j \in DOMAIN t : Hit(t, j, PGroupMarks) => i + 3 <= j
        <5>1. i + 3 <= i + 3
          BY <1>4
        <5> QED
          BY <3>4, <4>2, <5>1
      <4> QED
        BY <1>1, <1>2, <3>2, <3>3, <3>6, <4>1, <4>3,
           DigitsFound DEF LateDigits, OfPGroup, PGroupMarks
    <3> QED
      BY <3>1, <3>5, <3>6
  <2> QED
    BY <1>3, <2>1, <2>2, <2>3
<1> QED
  BY <1>1, <1>2, <1>5 DEF t, d

-----------------------------------------------------------------------------
(* The configured talkgroups *)

LEMMA InitAdding == Init => Adding
BY DEF Init, ConfigInit, Adding

\* Nothing of start-up happens any more once the program runs.
LEMMA OnlyWhileStarting == StartUp => phase \in {"loading", "talkgroups"}
BY DEF StartUp, Refuse, ParseLine, Initialize, Settle, AddTalkgroups, FailTalkgroups

LEMMA StepAdding == Adding /\ [Next]_vars => Adding'
<1> SUFFICES ASSUME Adding, [Next]_vars PROVE Adding'
  OBVIOUS
<1>1. ASSUME UNCHANGED <<tree, phase, keysLeft, talkgroupFiles>> PROVE Adding'
  BY <1>1 DEF Adding, Added, SomeEntry, KeysAt, FilesOf, IsText, AsText, At
<1>2. CASE Refuse
  BY <1>2 DEF Refuse, Adding
<1>3. CASE ParseLine
  BY <1>3 DEF ParseLine, configVars, Adding
<1>4. CASE Initialize
  <2>1. /\ phase' = "talkgroups" /\ DOMAIN talkgroupFiles' = {} /\ tree' = tree
        /\ keysLeft' = KeysAt(<<"TALKGROUP_FILES">>)
    BY <1>4 DEF Initialize, Adding, yamlVars
  <2>2. KeysAt(<<"TALKGROUP_FILES">>)' = KeysAt(<<"TALKGROUP_FILES">>)
    BY <2>1 DEF KeysAt
  <2>3. Added' = {}
    BY <2>1, <2>2 DEF Added
  <2> QED
    BY <2>1, <2>2, <2>3 DEF Adding
<1>5. ASSUME NEW k \in keysLeft, AddTalkgroups(k) PROVE Adding'
  <2>1. /\ phase = "talkgroups" /\ phase' = phase /\ Stops(k) = {}
        /\ keysLeft' = keysLeft \ {k} /\ UNCHANGED tree
        /\ talkgroupFiles' = [id \in DOMAIN talkgroupFiles \cup parseTalkgroupIDs(k) |->
              IF id \in parseTalkgroupIDs(k) THEN FilesOf(k) ELSE talkgroupFiles[id]]
    BY <1>5 DEF AddTalkgroups, yamlVars
  <2>2. UNCHANGED KeysAt(<<"TALKGROUP_FILES">>) /\ \A c : UNCHANGED FilesOf(c)
    BY <2>1 DEF KeysAt, FilesOf, IsText, AsText, At
  <2>3. Added' = Added \cup {k}
    BY <2>1, <2>2 DEF Adding, Added
  <2>4. DOMAIN talkgroupFiles' = UNION {parseTalkgroupIDs(c) : c \in Added'}
    BY <2>1, <2>3 DEF Adding
  <2>5. \A id \in DOMAIN talkgroupFiles' : SomeEntry(id)'
    <3> SUFFICES ASSUME NEW id \in DOMAIN talkgroupFiles'
                 PROVE  \E c \in Added' : /\ id \in parseTalkgroupIDs(c)
                                          /\ talkgroupFiles'[id] = FilesOf(c)'
      BY DEF SomeEntry
    <3>1. CASE id \in parseTalkgroupIDs(k)
      BY <2>1, <2>2, <2>3, <3>1
    <3>2. CASE id \notin parseTalkgroupIDs(k)
      BY <2>1, <2>2, <2>3, <3>2 DEF Adding, SomeEntry
    <3> QED
      BY <3>1, <3>2
  <2> QED
    BY <2>1, <2>2, <2>3, <2>4, <2>5 DEF Adding
<1>6. ASSUME NEW k \in keysLeft, FailTalkgroups(k) PROVE Adding'
  BY <1>6 DEF FailTalkgroups, Adding
<1>7. CASE Settle
  <2>1. /\ phase = "talkgroups" /\ keysLeft = {} /\ phase' \in {"running", "terminated"}
        /\ UNCHANGED <<tree, keysLeft, talkgroupFiles>>
    BY <1>7 DEF Settle, yamlVars
  <2> QED
    BY <2>1 DEF Adding, Added, SomeEntry, KeysAt, FilesOf, IsText, AsText, At
<1>8. CASE SendRequest \/ extractFileInfo \/ UNCHANGED vars
  BY <1>1, <1>8 DEF SendRequest, extractFileInfo, vars, yamlVars, configVars
<1> QED
  BY <1>2, <1>3, <1>4, <1>5, <1>6, <1>7, <1>8 DEF Next, StartUp

\* The numbers of a key that does not stop parseTalkgroupIDs are ints.
LEMMA KeysFit ==
  ASSUME NEW k, Stops(k) = {}
  PROVE  parseTalkgroupIDs(k) \subseteq 0 .. IntMax
<1>1. \A i \in DOMAIN RangesOf(k) : ~Throws(RangesOf(k)[i])
  BY DEF Stops
<1>2. k \in DOMAIN Ranges
  <2>1. SUFFICES ASSUME k \notin DOMAIN Ranges PROVE FALSE
    OBVIOUS
  <2>2. RangesOf(k) = <<<<>>>> /\ 1 \in DOMAIN <<<<>>>> /\ <<<<>>>>[1] = <<>>
    BY <2>1 DEF RangesOf
  <2>3. Throws(<<>>)
    BY DEF Throws
  <2> QED
    BY <1>1, <2>2, <2>3
<1>3. ASSUME NEW i \in DOMAIN RangesOf(k)
      PROVE  RangesOf(k)[i][1] .. RangesOf(k)[i][Len(RangesOf(k)[i])] \subseteq 0 .. IntMax
  <2> DEFINE r == RangesOf(k)[i]
  <2>1. r \in Seq(Nat)
    BY <1>2, <1>3, RangeAssumption DEF RangesOf
  <2>2. r # <<>> /\ \A j \in DOMAIN r : ~(r[j] > IntMax)
    BY <1>1, <1>3 DEF Throws
  <2> HIDE DEF r
  <2>3. 1 \in DOMAIN r /\ Len(r) \in DOMAIN r
    BY <2>1, <2>2
  <2>4. r[1] \in Nat /\ r[Len(r)] \in Nat /\ ~(r[Len(r)] > IntMax)
    BY <2>1, <2>2, <2>3
  <2>5. r[1] .. r[Len(r)] \subseteq 0 .. IntMax
    BY <2>4, NumberAssumption
  <2> QED
    BY <2>5 DEF r
<1> QED
  BY <1>3 DEF parseTalkgroupIDs

-----------------------------------------------------------------------------
(* The recording *)

LEMMA InitAsking == Init => Asking
BY DEF Init, Asking

LEMMA StepAsking == Asking /\ [Next]_vars => Asking'
<1> SUFFICES ASSUME Asking, [Next]_vars PROVE Asking'
  OBVIOUS
<1>1. CASE StartUp /\ UNCHANGED lookupVars
  <2>1. step = "none" /\ step' = "none"
    BY <1>1, OnlyWhileStarting DEF Asking, lookupVars
  <2> QED
    BY <2>1 DEF Asking
<1>2. CASE SendRequest
  <2>1. PICK n \in Names :
          LET digits == EarlyDigits(n.tokens)
              id == IdOf(digits, 0)
          IN  /\ name' = n
              /\ \/ Fits(digits) /\ step' = "sent"
                 \/ ~Fits(digits) /\ step' = "rejected"
              /\ prompt' = IF Fits(digits) /\ id > 0 /\ id \in DOMAIN talkgroupFiles
                           THEN talkgroupFiles[id].prompt ELSE ""
    BY <1>2 DEF SendRequest
  <2>2. phase' = "running" /\ talkgroupFiles' = talkgroupFiles /\ step' \in {"sent", "rejected"}
    BY <1>2, <2>1 DEF SendRequest, configVars
  <2>3. ASSUME step' = "sent"
        PROVE  Fits(LateDigits(n.tokens)) /\ prompt' = PromptFor(LateDigits(n.tokens))'
    BY <2>1, <2>2, <2>3, SameDigits DEF PromptFor
  <2> QED
    BY <2>1, <2>2, <2>3 DEF Asking
<1>3. CASE extractFileInfo
  <2>1. /\ step = "sent" /\ step' \in {"filed", "thrown"}
        /\ UNCHANGED <<phase, talkgroupFiles, name, prompt>>
    BY <1>3 DEF extractFileInfo, configVars
  <2>2. UNCHANGED PromptFor(LateDigits(name.tokens))
    BY <2>1 DEF PromptFor
  <2>3. /\ phase = "running" /\ name \in Names /\ Fits(LateDigits(name.tokens))
        /\ prompt = PromptFor(LateDigits(name.tokens))
    BY <2>1 DEF Asking
  <2>4. step' = "filed" =>
          /\ talkgroup' = IdOf(LateDigits(name.tokens), DefaultID)
          /\ glossaries' = IF talkgroup' \in DOMAIN talkgroupFiles
                           THEN talkgroupFiles[talkgroup'].files ELSE <<>>
    BY <1>3 DEF extractFileInfo
  <2>5. step' = "thrown" => name.short \/ ~Fits(RadioDigits(name.tokens))
    BY <1>3, <2>3 DEF extractFileInfo
  <2> QED
    BY <2>1, <2>2, <2>3, <2>4, <2>5 DEF Asking
<1>4. CASE UNCHANGED vars
  BY <1>4 DEF vars, configVars, lookupVars, Asking, PromptFor
<1> QED
  BY <1>1, <1>2, <1>3, <1>4 DEF Next

LEMMA AskingAgrees == Asking => OneTalkgroupPerRecording
<1> SUFFICES ASSUME Asking PROVE OneTalkgroupPerRecording
  OBVIOUS
<1> DEFINE digits == LateDigits(name.tokens)
<1>1. ASSUME step = "filed"
      PROVE  LET configured == talkgroup \in DOMAIN talkgroupFiles
                 named == digits # "" /\ talkgroup # 0
             IN  /\ prompt = IF configured /\ named THEN talkgroupFiles[talkgroup].prompt ELSE ""
                 /\ glossaries = IF configured THEN talkgroupFiles[talkgroup].files ELSE <<>>
  <2>1. /\ Fits(digits) /\ prompt = PromptFor(digits) /\ talkgroup = IdOf(digits, DefaultID)
        /\ glossaries = IF talkgroup \in DOMAIN talkgroupFiles
                        THEN talkgroupFiles[talkgroup].files ELSE <<>>
    BY <1>1 DEF Asking
  <2> HIDE DEF digits
  <2>2. CASE digits = ""
    <3>1. ~(IdOf(digits, 0) > 0)
      <4>1. IdOf(digits, 0) = 0
        BY <2>2 DEF IdOf
      <4>2. ~(0 > 0)
        OBVIOUS
      <4> QED
        BY <4>1, <4>2
    <3>2. PromptFor(digits) = ""
      BY <3>1 DEF PromptFor
    <3> QED
      BY <2>1, <2>2, <3>2
  <2>3. CASE digits # ""
    <3>1. IdOf(digits, 0) = talkgroup /\ talkgroup = Number[digits] /\ digits \in DOMAIN Number
      BY <2>1, <2>3 DEF IdOf, Fits, IsInt
    <3>2. talkgroup > 0 <=> talkgroup # 0
      BY <3>1, NumberAssumption
    <3>3. prompt = IF talkgroup > 0 /\ talkgroup \in DOMAIN talkgroupFiles
                   THEN talkgroupFiles[talkgroup].prompt ELSE ""
      BY <2>1, <3>1 DEF PromptFor
    <3> QED
      BY <2>1, <2>3, <3>2, <3>3
  <2> QED
    BY <2>2, <2>3
<1>2. ASSUME step = "filed", name.means # "none" PROVE talkgroup = Number[name.means]
  <2>1. name \in Names /\ talkgroup = IdOf(digits, DefaultID)
    BY <1>2 DEF Asking
  <2>2. digits = name.means /\ name.means # ""
    BY <1>2, <2>1, MeantDigits
  <2> QED
    BY <2>1, <2>2 DEF IdOf
<1>3. step = "thrown" => name.short \/ ~Fits(RadioDigits(name.tokens))
  BY DEF Asking
<1> QED
  BY <1>1, <1>2, <1>3 DEF OneTalkgroupPerRecording

-----------------------------------------------------------------------------
(* The results *)

\* What the program runs with: in whatever order initialize has met the keys,
\* the talkgroups are those of all keys, each has the glossaries and the
\* prompt of one key that lists it, and all of them are ints.
Configured ==
  phase = "running" =>
    /\ DOMAIN talkgroupFiles = UNION {parseTalkgroupIDs(k) : k \in KeysAt(<<"TALKGROUP_FILES">>)}
    /\ \A id \in DOMAIN talkgroupFiles :
         \E k \in KeysAt(<<"TALKGROUP_FILES">>) :
           id \in parseTalkgroupIDs(k) /\ talkgroupFiles[id] = FilesOf(k)
    /\ DOMAIN talkgroupFiles \subseteq 0 .. IntMax

LEMMA AddedIsConfigured == Adding => Configured
<1> SUFFICES ASSUME Adding, phase = "running" PROVE Configured
  BY DEF Configured
<1>1. Added = KeysAt(<<"TALKGROUP_FILES">>)
  BY DEF Adding, Added
<1>2. /\ \A k \in Added : Stops(k) = {}
      /\ DOMAIN talkgroupFiles = UNION {parseTalkgroupIDs(k) : k \in Added}
      /\ \A id \in DOMAIN talkgroupFiles : SomeEntry(id)
  BY DEF Adding
<1>3. DOMAIN talkgroupFiles \subseteq 0 .. IntMax
  BY <1>2, KeysFit
<1> QED
  BY <1>1, <1>2, <1>3 DEF Configured, SomeEntry

\* initialize takes the keys of TALKGROUP_FILES in the order of a hash table,
\* and keys may list the same talkgroup: whatever the order, a talkgroup never
\* gets the glossaries of one key and the prompt of another, none is left out
\* or made up, and none is too large for an int.
THEOREM ConfiguredCorrect == Spec => []Configured
<1>1. Spec => []Adding
  BY InitAdding, StepAdding, PTL DEF Spec
<1> QED
  BY <1>1, AddedIsConfigured, PTL

\* extractTalkgroupIdFromFilename reads a name before the request,
\* extractFileInfo after it: the prompt that was sent and the glossaries that
\* explain the answer are of the talkgroup the recording is filed under, which
\* for a name of SDRTrunk is the one it means; and a talkgroup that is no int
\* is found out before the request.
THEOREM OneTalkgroupCorrect == Spec => []OneTalkgroupPerRecording
<1>1. Spec => []Asking
  BY InitAsking, StepAsking, PTL DEF Spec
<1> QED
  BY <1>1, AskingAgrees, PTL

-----------------------------------------------------------------------------
(* The file that is read *)

LEMMA InitNesting == Init => Nesting
<1> SUFFICES ASSUME Init PROVE Nesting
  OBVIOUS
<1>1. input.text \in Seq(FileLines) /\ YamlInit(input.text)
  BY InputAssumption DEF Init, ConfigInit
<1> QED
  BY <1>1, InitNests

LEMMA StepNesting == Nesting /\ [Next]_vars => Nesting'
<1> SUFFICES ASSUME Nesting, [Next]_vars PROVE Nesting'
  OBVIOUS
<1>1. Parse \/ UNCHANGED yamlVars
  BY DEF Next, vars, StartUp, Refuse, ParseLine, Initialize, Settle, AddTalkgroups,
         FailTalkgroups, SendRequest, extractFileInfo
<1> QED
  BY <1>1, ParseNests, RestNests

\* The stack of open nodes that parse keeps, popped by indentation, builds the
\* tree the indentation of the lines stands for: each key is below the nearest
\* line above that is indented less and still open, and a key that is given
\* again leaves of what was below it nothing.
THEOREM TreeCorrect == Spec => []TreeFollowsIndentation
<1>1. Spec => []Nesting
  BY InitNesting, StepNesting, PTL DEF Spec
<1>2. Nesting => TreeFollowsIndentation
  BY NestsAtTheEnd DEF TreeFollowsIndentation
<1> QED
  BY <1>1, <1>2, PTL

\* nodeStack holds plain pointers into the tree, and setValue destroys the
\* nodes below: no open node is ever destroyed, and the root is never popped,
\* so that "Invalid YAML structure" is never thrown.
THEOREM ParentCorrect == Spec => [](OpenNodesExist /\ ParentExists)
<1>1. Spec => []Nesting
  BY InitNesting, StepNesting, PTL DEF Spec
<1> QED
  BY <1>1, NestsHaveParents, PTL

-----------------------------------------------------------------------------
(* The file that means something *)

\* The words of a file, and the ones the program knows.
Words == PathWords \cup Texts \cup Ints \cup Flags
           \cup {"MAX_THREADS", "TALKGROUP_FILES", "PROMPT"}

\* The tree is of the file; and of one that means something, start-up makes
\* what was meant.
Reading ==
  /\ input \in Inputs /\ lines = Lines(input.text)
  /\ phase \in {"talkgroups", "running"} => Parsed
  /\ input.kind = "meant" =>
       /\ phase \in {"loading", "talkgroups", "running"}
       /\ phase = "running" => settings = input.told.settings

\* What the lines say of a path is there when the program looks.
LEMMA ReadAt ==
  ASSUME Nesting, Parsed, NEW p \in Seq(Words), NEW v, Holds(Left(Said(lines)), p, v)
  PROVE  At(p) = v
<1>1. PathWords \subseteq Words
  BY DEF Words
<1> HIDE DEF Words
<1> QED BY <1>1, AtIs

LEMMA ReadWord ==
  ASSUME Nesting, Parsed, NEW s \in Words, NEW w, Holds(Left(Said(lines)), <<s>>, Scalar(w))
  PROVE  IsText(<<s>>) /\ AsText(<<s>>) = w
<1>1. <<s>> \in Seq(Words)
  OBVIOUS
<1>2. At(<<s>>) = Scalar(w)
  BY <1>1, ReadAt
<1>3. Scalar(w).kind = "scalar" /\ Scalar(w).is[1] = w
  BY DEF Scalar
<1> QED BY <1>2, <1>3 DEF IsText, AsText

LEMMA ReadInt ==
  ASSUME Nesting, Parsed, NEW s \in Words, NEW n, MeansInt(Left(Said(lines)), s, n)
  PROVE  HoldsInt(<<s>>) /\ AsInt(<<s>>) = n
<1>1. PICK w \in DOMAIN Number : IsInt(w) /\ n = Number[w] /\ Holds(Left(Said(lines)), <<s>>, Scalar(w))
  BY DEF MeansInt
<1>2. IsText(<<s>>) /\ AsText(<<s>>) = w
  BY <1>1, ReadWord
<1> QED BY <1>1, <1>2 DEF HoldsInt, AsInt

LEMMA ReadFlag ==
  ASSUME Nesting, Parsed, NEW s \in Words, NEW b \in BOOLEAN, MeansFlag(Left(Said(lines)), s, b)
  PROVE  IsTrue(<<s>>) <=> b
<1>1. PICK w : /\ Holds(Left(Said(lines)), <<s>>, Scalar(w))
               /\ b <=> \/ w \in {"true", "yes"}
                        \/ w \in Whole /\ Number[w] \in 1 .. IntMax
  BY DEF MeansFlag
<1>2. IsText(<<s>>) /\ AsText(<<s>>) = w
  BY <1>1, ReadWord
<1> QED BY <1>1, <1>2 DEF IsTrue, AsInt

LEMMA MeantSettings ==
  ASSUME Nesting, Parsed, input \in Inputs, lines = Lines(input.text), input.kind = "meant"
  PROVE  /\ \A s \in Texts : IsText(<<s>>)
         /\ \A s \in Ints : HoldsInt(<<s>>)
         /\ input.told.settings =
              [texts |-> [s \in Texts |-> AsText(<<s>>)],
               ints |-> [s \in Ints \cup {"MAX_THREADS"} |->
                           IF HoldsInt(<<s>>) THEN AsInt(<<s>>) ELSE 1],
               flags |-> [s \in Flags |-> IsTrue(<<s>>)]]
<1> DEFINE left == Left(Said(lines))
           told == input.told.settings
<1>1. Means(input.text, input.told)
  BY MeantAssumption
<1>2. /\ told \in [texts : [Texts -> STRING], ints : [Ints \cup {"MAX_THREADS"} -> Nat],
                   flags : [Flags -> BOOLEAN]]
      /\ \A s \in Texts : Holds(left, <<s>>, Scalar(told.texts[s]))
      /\ \A s \in Ints : MeansInt(left, s, told.ints[s])
      /\ \/ MeansInt(left, "MAX_THREADS", told.ints["MAX_THREADS"])
         \/ Holds(left, <<"MAX_THREADS">>, Blank) /\ told.ints["MAX_THREADS"] = 1
      /\ \A s \in Flags : MeansFlag(left, s, told.flags[s])
  BY <1>1 DEF Means
<1> HIDE DEF told
<1>3. Texts \subseteq Words /\ Ints \subseteq Words /\ Flags \subseteq Words /\ "MAX_THREADS" \in Words
  BY DEF Words
<1>4. \A s \in Texts : IsText(<<s>>) /\ AsText(<<s>>) = told.texts[s]
  BY <1>2, <1>3, ReadWord
<1>5. \A s \in Ints : HoldsInt(<<s>>) /\ AsInt(<<s>>) = told.ints[s]
  BY <1>2, <1>3, ReadInt
<1>6. (IF HoldsInt(<<"MAX_THREADS">>) THEN AsInt(<<"MAX_THREADS">>) ELSE 1) = told.ints["MAX_THREADS"]
  <2>1. CASE MeansInt(left, "MAX_THREADS", told.ints["MAX_THREADS"])
    BY <1>3, <2>1, ReadInt
  <2>2. CASE Holds(left, <<"MAX_THREADS">>, Blank) /\ told.ints["MAX_THREADS"] = 1
    <3>1. AsText(<<"MAX_THREADS">>) = ""
      BY <1>3, <2>2, ReadWord DEF Blank
    <3>2. ~HoldsInt(<<"MAX_THREADS">>)
      BY <3>1, MeantAssumption DEF HoldsInt, IsInt
    <3> QED BY <2>2, <3>2
  <2> QED BY <1>2, <2>1, <2>2
<1>7. \A s \in Flags : IsTrue(<<s>>) = told.flags[s]
  <2>1. TAKE s \in Flags
  <2>2. told.flags[s] \in BOOLEAN /\ IsTrue(<<s>>) \in BOOLEAN
    BY <1>2 DEF IsTrue
  <2>3. IsTrue(<<s>>) <=> told.flags[s]
    BY <1>2, <1>3, <2>2, ReadFlag
  <2> QED BY <2>2, <2>3
<1>8. told.texts = [s \in Texts |-> AsText(<<s>>)]
  BY <1>2, <1>4
<1>9. told.ints = [s \in Ints \cup {"MAX_THREADS"} |->
                     IF HoldsInt(<<s>>) THEN AsInt(<<s>>) ELSE 1]
  BY <1>2, <1>5, <1>6
<1>10. told.flags = [s \in Flags |-> IsTrue(<<s>>)]
  BY <1>2, <1>7
<1>11. told = [texts |-> told.texts, ints |-> told.ints, flags |-> told.flags]
  BY <1>2
<1> QED BY <1>4, <1>5, <1>8, <1>9, <1>10, <1>11 DEF told

LEMMA ReadIds ==
  ASSUME NEW k, NEW ids, MeansIds(k, ids)
  PROVE  Stops(k) = {} /\ ids = parseTalkgroupIDs(k)
<1>1. k \in DOMAIN Ranges /\ RangesOf(k) = Ranges[k]
  BY DEF MeansIds, RangesOf
<1>2. Ranges[k] \in Seq(Seq(Nat)) /\ \A i \in DOMAIN Ranges[k] : Len(Ranges[k][i]) <= 2
  BY <1>1, RangeAssumption
<1>3. ASSUME NEW i \in DOMAIN Ranges[k]
      PROVE  /\ ~Throws(Ranges[k][i]) /\ ~NeverEnds(Ranges[k][i])
             /\ Ranges[k][i][1] \in Nat /\ Ranges[k][i][Len(Ranges[k][i])] \in 0 .. IntMax
  <2> DEFINE r == Ranges[k][i]
  <2>1. r \in Seq(Nat) /\ Len(r) <= 2 /\ IntMax \in Nat
    BY <1>2, NumberAssumption
  <2>2. r # <<>> /\ r[1] <= IntMax /\ (Len(r) = 2 => r[2] < IntMax)
    BY DEF MeansIds
  <2> HIDE DEF r
  <2>3. Len(r) = 1 \/ Len(r) = 2
    <3>0. r \in Seq(Nat) /\ r # <<>>
      BY <2>1, <2>2
    <3>1. Len(r) \in Nat \ {0}
      BY <3>0, EmptySeq, Zenon
    <3>2. Len(r) <= 2
      BY <2>1
    <3> DEFINE n == Len(r)
    <3> HIDE DEF n
    <3>3. n \in Nat \ {0} /\ n <= 2
      BY <3>1, <3>2 DEF n
    <3>4. n = 1 \/ n = 2
      BY <3>3
    <3> QED BY <3>4 DEF n
  <2>4. DOMAIN r = 1 .. Len(r)
    BY <2>1
  <2>5. ~Throws(r)
    <3>1. \A j \in DOMAIN r : ~(r[j] > IntMax)
      BY <2>1, <2>2, <2>3, <2>4
    <3> QED BY <2>2, <3>1 DEF Throws
  <2>6. ~NeverEnds(r)
    BY <2>1, <2>2 DEF NeverEnds
  <2>7. r[1] \in Nat /\ r[Len(r)] \in 0 .. IntMax
    BY <2>1, <2>2, <2>3, <2>4
  <2> QED BY <2>5, <2>6, <2>7 DEF r
<1>4. Stops(k) = {}
  BY <1>1, <1>3 DEF Stops
<1>5. ids = {n \in 0 .. IntMax : \E i \in DOMAIN Ranges[k] :
                n >= Ranges[k][i][1] /\ n <= Ranges[k][i][Len(Ranges[k][i])]}
  BY DEF MeansIds
<1>6. parseTalkgroupIDs(k) = UNION {Ranges[k][i][1] .. Ranges[k][i][Len(Ranges[k][i])] :
                                      i \in DOMAIN Ranges[k]}
  BY <1>1 DEF parseTalkgroupIDs
<1>7. IntMax \in Nat
  BY NumberAssumption
<1>8. ids \subseteq parseTalkgroupIDs(k)
  <2> SUFFICES ASSUME NEW n \in ids
               PROVE  \E i \in DOMAIN Ranges[k] :
                        n \in Ranges[k][i][1] .. Ranges[k][i][Len(Ranges[k][i])]
    BY <1>6
  <2>1. PICK i \in DOMAIN Ranges[k] : n >= Ranges[k][i][1] /\ n <= Ranges[k][i][Len(Ranges[k][i])]
    BY <1>5
  <2>2. n \in Nat
    BY <1>5, <1>7
  <2>3. Ranges[k][i][1] \in Nat /\ Ranges[k][i][Len(Ranges[k][i])] \in Nat
    BY <1>3, <1>7
  <2> QED BY <2>1, <2>2, <2>3
<1>9. parseTalkgroupIDs(k) \subseteq ids
  <2> SUFFICES ASSUME NEW i \in DOMAIN Ranges[k],
                      NEW n \in Ranges[k][i][1] .. Ranges[k][i][Len(Ranges[k][i])]
               PROVE  n \in ids
    BY <1>6
  <2>1. Ranges[k][i][1] \in Nat /\ Ranges[k][i][Len(Ranges[k][i])] \in 0 .. IntMax
    BY <1>3
  <2>2. n \in 0 .. IntMax /\ n >= Ranges[k][i][1] /\ n <= Ranges[k][i][Len(Ranges[k][i])]
    BY <1>7, <2>1
  <2> QED BY <1>5, <2>2
<1> QED BY <1>4, <1>8, <1>9

LEMMA MeantKeys ==
  ASSUME Nesting, Parsed, input \in Inputs, lines = Lines(input.text), input.kind = "meant"
  PROVE  /\ \A k \in KeysAt(<<"TALKGROUP_FILES">>) :
              /\ Stops(k) = {}
              /\ \E i \in DOMAIN input.told.entries :
                   /\ input.told.entries[i].ids = parseTalkgroupIDs(k)
                   /\ FilesOf(k) = [files |-> input.told.entries[i].files,
                                    prompt |-> input.told.entries[i].prompt]
         /\ \A i \in DOMAIN input.told.entries :
              \E k \in KeysAt(<<"TALKGROUP_FILES">>) :
                input.told.entries[i].ids = parseTalkgroupIDs(k)
<1> DEFINE left == Left(Said(lines))
           told == input.told.entries
           keys == {d.path[2] : d \in {e \in left : /\ Len(e.path) > 1
                                                    /\ e.path[1] = "TALKGROUP_FILES"}}
<1>1. MeansEntries(left, told)
  BY MeantAssumption DEF Means
<1>2. /\ \A k \in keys : \E i \in DOMAIN told : MeansEntry(left, k, told[i])
      /\ \A i \in DOMAIN told : \E k \in keys : MeansEntry(left, k, told[i])
  BY <1>1 DEF MeansEntries
<1>3. KeysAt(<<"TALKGROUP_FILES">>) = keys
  <2>1. PathWords \subseteq Words /\ "TALKGROUP_FILES" \in Words
    BY DEF Words
  <2> HIDE DEF Words
  <2> QED BY <2>1, KeysAre
<1>4. keys \subseteq Words
  <2>1. \A d \in left : d.path \in Paths
    <3>1. lines \in Seq(KeptLines)
      BY DEF Nesting
    <3> QED BY <3>1, LeftOf
  <2>2. \A d \in left : Len(d.path) > 1 => d.path[2] \in PathWords
    BY <2>1 DEF Paths
  <2> QED BY <2>2 DEF Words
<1> HIDE DEF keys, told
<1>5. ASSUME NEW k \in keys, NEW e, MeansEntry(left, k, e)
      PROVE  /\ Stops(k) = {} /\ e.ids = parseTalkgroupIDs(k)
             /\ FilesOf(k) = [files |-> e.files, prompt |-> e.prompt]
  <2> DEFINE node == <<"TALKGROUP_FILES", k>>
             glossary == Append(node, "GLOSSARY")
             spoken == Append(node, "PROMPT")
  <2>1. glossary \in Seq(Words) /\ spoken \in Seq(Words)
    <3>1. k \in Words /\ "TALKGROUP_FILES" \in Words /\ "GLOSSARY" \in Words /\ "PROMPT" \in Words
      BY <1>4 DEF Words, PathWords
    <3> HIDE DEF Words
    <3> QED BY <3>1
  <2>0. Stops(k) = {} /\ e.ids = parseTalkgroupIDs(k)
    BY <1>5, ReadIds DEF MeansEntry
  <2>2. /\ \/ Holds(left, glossary, List(e.files))
           \/ Holds(left, glossary, Blank) /\ e.files = <<>>
        /\ Holds(left, spoken, Scalar(e.prompt))
    BY <1>5 DEF MeansEntry
  <2>3. FilesOf(k) = [files |-> IF At(glossary).kind = "list" THEN At(glossary).is ELSE <<>>,
                      prompt |-> IF IsText(spoken) THEN AsText(spoken) ELSE ""]
    BY DEF FilesOf
  <2> HIDE DEF glossary, spoken
  <2>4. At(spoken) = Scalar(e.prompt)
    BY <2>1, <2>2, ReadAt
  <2>5. IsText(spoken) /\ AsText(spoken) = e.prompt
    BY <2>4 DEF IsText, AsText, Scalar
  <2>6. (IF At(glossary).kind = "list" THEN At(glossary).is ELSE <<>>) = e.files
    <3>1. CASE Holds(left, glossary, List(e.files))
      <4>1. At(glossary) = List(e.files)
        BY <2>1, <3>1, ReadAt
      <4> QED BY <4>1 DEF List
    <3>2. CASE Holds(left, glossary, Blank) /\ e.files = <<>>
      <4>1. At(glossary) = Blank
        BY <2>1, <3>2, ReadAt
      <4>2. Blank.kind # "list"
        BY DEF Blank, Scalar
      <4> QED BY <3>2, <4>1, <4>2
    <3> QED BY <2>2, <3>1, <3>2
  <2> QED BY <2>0, <2>3, <2>5, <2>6
<1>6. \A k \in keys :
        /\ Stops(k) = {}
        /\ \E i \in DOMAIN told : /\ told[i].ids = parseTalkgroupIDs(k)
                                  /\ FilesOf(k) = [files |-> told[i].files, prompt |-> told[i].prompt]
  BY <1>2, <1>5
<1>7. \A i \in DOMAIN told : \E k \in keys : told[i].ids = parseTalkgroupIDs(k)
  BY <1>2, <1>5
<1> QED BY <1>3, <1>6, <1>7 DEF told

LEMMA InitReading == Init => Reading
BY DEF Init, ConfigInit, YamlInit, Reading

LEMMA StepReading == Nesting /\ Adding /\ Reading /\ [Next]_vars => Reading'
<1> SUFFICES ASSUME Nesting, Adding, Reading, [Next]_vars PROVE Reading'
  OBVIOUS
<1>1. CASE Refuse
  BY <1>1, MeantAssumption DEF Refuse, Reading, yamlVars
<1>2. CASE ParseLine
  <2>1. UNCHANGED lines /\ UNCHANGED configVars /\ phase = "loading"
    BY <1>2 DEF ParseLine, Parse, SkipLine, OpenNode, Assign, AssignNext
  <2> QED BY <2>1 DEF Reading, configVars
<1>3. CASE Initialize
  <2>1. UNCHANGED <<lines, next, input, settings>> /\ phase' = "talkgroups" /\ Parsed
    BY <1>3 DEF Initialize, yamlVars
  <2> QED BY <2>1 DEF Reading, Parsed
<1>4. ASSUME NEW k \in keysLeft, AddTalkgroups(k) PROVE Reading'
  <2>1. UNCHANGED <<lines, next, input, phase, settings>>
    BY <1>4 DEF AddTalkgroups, yamlVars
  <2> QED BY <2>1 DEF Reading, Parsed
<1>5. ASSUME NEW k \in keysLeft, FailTalkgroups(k) PROVE Reading'
  <2>1. UNCHANGED <<lines, next, input>> /\ phase = "talkgroups" /\ Stops(k) # {}
        /\ phase' \in {"terminated", "endless"}
    BY <1>5 DEF FailTalkgroups, yamlVars
  <2>2. k \in KeysAt(<<"TALKGROUP_FILES">>) /\ Parsed
    BY <2>1 DEF Adding, Reading
  <2>3. input.kind # "meant"
    BY <2>1, <2>2, MeantKeys DEF Reading
  <2> QED BY <2>1, <2>3 DEF Reading
<1>6. CASE Settle
  <2>1. /\ UNCHANGED <<lines, next, input>> /\ phase = "talkgroups"
        /\ phase' \in {"running", "terminated"}
    BY <1>6 DEF Settle, yamlVars
  <2>2. Parsed /\ Parsed' /\ input' \in Inputs /\ lines' = Lines(input'.text)
    BY <2>1 DEF Reading, Parsed
  <2>3. ASSUME input.kind = "meant"
        PROVE  phase' = "running" /\ settings' = input.told.settings
    <3>1. /\ \A s \in Texts : IsText(<<s>>)
          /\ \A s \in Ints : HoldsInt(<<s>>)
          /\ input.told.settings =
               [texts |-> [s \in Texts |-> AsText(<<s>>)],
                ints |-> [s \in Ints \cup {"MAX_THREADS"} |->
                            IF HoldsInt(<<s>>) THEN AsInt(<<s>>) ELSE 1],
                flags |-> [s \in Flags |-> IsTrue(<<s>>)]]
      BY <2>2, <2>3, MeantSettings DEF Reading
    <3> QED BY <1>6, <3>1 DEF Settle
  <2> QED BY <2>1, <2>2, <2>3 DEF Reading
<1>7. CASE SendRequest \/ extractFileInfo \/ UNCHANGED vars
  <2>1. UNCHANGED <<lines, next, input, phase, settings>>
    BY <1>7 DEF SendRequest, extractFileInfo, vars, configVars, yamlVars
  <2> QED BY <2>1 DEF Reading, Parsed
<1> QED BY <1>1, <1>2, <1>3, <1>4, <1>5, <1>6, <1>7 DEF Next, StartUp

LEMMA ReadingAgrees == Nesting /\ Adding /\ Reading => ReadsAsMeant
<1> SUFFICES ASSUME Nesting, Adding, Reading, input.kind = "meant" PROVE AsMeant(input.told)
  BY DEF ReadsAsMeant
<1> DEFINE told == input.told.entries
           keys == KeysAt(<<"TALKGROUP_FILES">>)
<1>1. phase \notin {"refused", "terminated", "endless"}
  BY DEF Reading
<1>2. CASE phase # "running"
  BY <1>1, <1>2 DEF AsMeant
<1>3. CASE phase = "running"
  <2>1. /\ \A k \in keys : \E i \in DOMAIN told :
             /\ told[i].ids = parseTalkgroupIDs(k)
             /\ FilesOf(k) = [files |-> told[i].files, prompt |-> told[i].prompt]
        /\ \A i \in DOMAIN told : \E k \in keys : told[i].ids = parseTalkgroupIDs(k)
    BY <1>3, MeantKeys DEF Reading
  <2>2. /\ DOMAIN talkgroupFiles = UNION {parseTalkgroupIDs(k) : k \in keys}
        /\ \A id \in DOMAIN talkgroupFiles : \E k \in keys :
             id \in parseTalkgroupIDs(k) /\ talkgroupFiles[id] = FilesOf(k)
    BY <1>3, AddedIsConfigured DEF Configured
  <2> HIDE DEF told, keys
  <2>3. DOMAIN talkgroupFiles = UNION {told[i].ids : i \in DOMAIN told}
    BY <2>1, <2>2
  <2>4. \A id \in DOMAIN talkgroupFiles : \E i \in DOMAIN told :
          /\ id \in told[i].ids
          /\ talkgroupFiles[id] = [files |-> told[i].files, prompt |-> told[i].prompt]
    BY <2>1, <2>2
  <2>5. settings = input.told.settings
    BY <1>3 DEF Reading
  <2> QED BY <1>1, <2>3, <2>4, <2>5 DEF AsMeant, told
<1> QED BY <1>2, <1>3

\* A file that means something, by its lines alone, is read as it was meant:
\* neither the stack of parse, nor the order of the hash table, nor what
\* as<int>() makes of a word and what initialize takes for a missing one,
\* gives a talkgroup or a setting anything else, or stops the program.
THEOREM ReadsAsMeantCorrect == Spec => []ReadsAsMeant
<1>1. Spec => []Nesting
  BY InitNesting, StepNesting, PTL DEF Spec
<1>2. Spec => []Adding
  BY InitAdding, StepAdding, PTL DEF Spec
<1>3. Spec => []Reading
  BY <1>1, <1>2, InitReading, StepReading, PTL DEF Spec
<1> QED
  BY <1>1, <1>2, <1>3, ReadingAgrees, PTL
=============================================================================
