----------------------- MODULE DatabaseManagerProofs -----------------------
(***************************************************************************)
(* What DatabaseManager.tla promises, for every set of files, every table  *)
(* an earlier version may have left and any number of SQL errors.          *)
(***************************************************************************)
EXTENDS DatabaseManager, FiniteSetTheorems, SequenceTheorems, WellFoundedInduction, TLAPS

NewSchema(table) == table.columns = {"id", "real"}

\* The new schema has the UNIQUE constraint, and the constraint is kept.
Constrained(table) ==
  table # NoTable =>
    /\ NewSchema(table) => table.unique
    /\ table.unique => Unique(table.rows)

\* Every file of the old table is in the new one, with the same transcription.
KeepsFirst(old, new) ==
  \A f \in Filenames :
    Has(old, f) => Has(new, f) /\ Transcription(new, f) = Transcription(old, f)

\* What the statements of the migration have done so far, and what ROLLBACK
\* goes back to.
MidMigration ==
  /\ InTransaction => saved[1] # NoTable /\ saved[2] = NoTable
  /\ pc = "new" => recordings = NoTable
  /\ pc = "copy" => recordings = NewTable
  /\ pc \in {"new", "copy", "drop"} => recordings_old = saved[1]
  /\ pc = "commit" => recordings_old = NoTable
  /\ pc \in {"drop", "commit"} => NewSchema(recordings) /\ KeepsFirst(saved[1], recordings)

\* As long as no statement has failed.
Faultless ==
  errors = MaxErrors =>
    /\ pc = "ready" => recordings # NoTable /\ NewSchema(recordings)
    /\ pc = "migrate" => recordings.indexes = Indexes

IInv ==
  /\ TypeOK
  /\ NothingStranded
  /\ Constrained(recordings) /\ Constrained(saved[1])
  /\ MidMigration
  /\ Faultless
-----------------------------------------------------------------------------
(* Induction *)

\* A set of naturals has a least element: the ranges 0 .. x are well-founded.
LEMMA LeastNat ==
  ASSUME NEW T \in SUBSET Nat, T # {}
  PROVE  \E x \in T : \A y \in T : x <= y
<1> DEFINE I == {0 .. x : x \in T}
           R == StrictSubsetOrdering(Nat)
<1>1. IsWellFoundedOn(R, FiniteSubsetsOf(Nat))
  BY FS_StrictSubsetOrderingWellFounded
<1>2. I \subseteq FiniteSubsetsOf(Nat)
  <2> SUFFICES ASSUME NEW x \in T PROVE 0 .. x \in FiniteSubsetsOf(Nat)
    OBVIOUS
  <2>1. 0 \in Int /\ x \in Int
    OBVIOUS
  <2>2. IsFiniteSet(0 .. x)
    BY <2>1, FS_Interval
  <2> QED
    BY <2>2 DEF FiniteSubsetsOf
<1>3. I # {}
  OBVIOUS
<1>4. \A x, y \in T : x < y => <<0 .. x, 0 .. y>> \in R
  <2> SUFFICES ASSUME NEW x \in T, NEW y \in T, x < y PROVE <<0 .. x, 0 .. y>> \in R
    OBVIOUS
  <2>1. 0..x \in SUBSET Nat /\ 0..y \in SUBSET Nat /\ 0..x \subseteq 0..y /\ y \in 0..y /\ y \notin 0..x
    OBVIOUS
  <2> QED
    BY <2>1 DEF StrictSubsetOrdering
<1> HIDE DEF R
<1>5. PICK i \in I : \A j \in I : <<j, i>> \notin R
  <2> HIDE DEF I
  <2> QED BY <1>1, <1>2, <1>3, WFMin
<1>6. PICK x \in T : i = 0 .. x
  OBVIOUS
<1>7. \A y \in T : ~(y < x)
  BY <1>4, <1>5, <1>6
<1> QED
  BY <1>7

\* Induction, with the predicate as a set.
LEMMA NatSetInduction ==
  ASSUME NEW S, 0 \in S, \A n \in Nat : n \in S => n + 1 \in S
  PROVE  Nat \subseteq S
<1>1. SUFFICES ASSUME Nat \ S # {} PROVE FALSE
  OBVIOUS
<1>2. PICK x \in Nat \ S : \A y \in Nat \ S : x <= y
  BY <1>1, LeastNat
<1>3. x # 0
  BY <1>2
<1>4. x - 1 \in S
  BY <1>2, <1>3
<1> QED
  BY <1>2, <1>3, <1>4
-----------------------------------------------------------------------------
(* The operators *)

LEMMA RowTypes ==
  ASSUME NEW table \in Tables
  PROVE  /\ table.columns \in SUBSET {"id", "real"} /\ table.unique \in BOOLEAN
         /\ table.rows \in Seq(Rows) /\ table.indexes \in SUBSET Indexes
         /\ Len(table.rows) \in Nat /\ DOMAIN table.rows = 1 .. Len(table.rows)
         /\ table # NoTable
<1>1. table.rows \in Seq(Rows)
  BY DEF Tables
<1> QED
  BY <1>1, NoTableAssumption DEF Tables

LEMMA NewTableType == NewTable \in Tables /\ Constrained(NewTable)
<1>1. <<>> \in Seq(Rows) /\ {} \in SUBSET Indexes
  OBVIOUS
<1> QED
  BY <1>1 DEF NewTable, Tables, Constrained, Unique

\* A file that has a row has a first one.
LEMMA FirstRow ==
  ASSUME NEW rows \in Seq(Rows), NEW f, HasFile(rows, f)
  PROVE  \E i \in 1 .. Len(rows) :
           rows[i].filename = f /\ \A j \in 1 .. i - 1 : rows[j].filename # f
<1> DEFINE T == {i \in 1 .. Len(rows) : rows[i].filename = f}
<1>1. DOMAIN rows = 1 .. Len(rows) /\ Len(rows) \in Nat
  OBVIOUS
<1>2. T \in SUBSET Nat /\ T # {}
  BY <1>1 DEF HasFile
<1>3. PICK i \in T : \A j \in T : i <= j
  BY <1>2, LeastNat
<1> QED
  BY <1>1, <1>3

\* Transcription is the one in the first row.
LEMMA TranscriptionIs ==
  ASSUME NEW table \in Tables, NEW f, NEW i \in 1 .. Len(table.rows),
         table.rows[i].filename = f,
         \A j \in 1 .. i - 1 : table.rows[j].filename # f
  PROVE  Transcription(table, f) = table.rows[i].transcription
<1> DEFINE First(k) == /\ table.rows[k].filename = f
                       /\ \A j \in 1 .. k - 1 : table.rows[j].filename # f
<1>1. DOMAIN table.rows = 1 .. Len(table.rows) /\ Len(table.rows) \in Nat
  BY RowTypes
<1>2. \A k \in DOMAIN table.rows : First(k) => k = i
  <2> SUFFICES ASSUME NEW k \in DOMAIN table.rows, First(k), k # i PROVE FALSE
    OBVIOUS
  <2>1. CASE k < i
    BY <1>1, <2>1
  <2>2. CASE i < k
    BY <1>1, <2>2
  <2> QED
    BY <1>1, <2>1, <2>2
<1>3. i \in DOMAIN table.rows /\ First(i)
  BY <1>1
<1> HIDE DEF First
<1>4. (CHOOSE k \in DOMAIN table.rows : First(k)) = i
  BY <1>2, <1>3
<1> QED
  BY <1>4 DEF Transcription, First

\* INSERT OR IGNORE gives a table with the same schema that obeys its
\* constraint, and takes no file, and no file's first row, away.
LEMMA OrIgnoreKeeps ==
  ASSUME NEW table \in Tables, Constrained(table), NEW r \in Rows
  PROVE  /\ OrIgnore(table, r) \in Tables
         /\ Constrained(OrIgnore(table, r))
         /\ OrIgnore(table, r).columns = table.columns
         /\ OrIgnore(table, r).unique = table.unique
         /\ OrIgnore(table, r).indexes = table.indexes
         /\ KeepsFirst(table, OrIgnore(table, r))
<1> DEFINE new == OrIgnore(table, r)
           n == Len(table.rows)
<1> USE RowTypes
<1>1. CASE table.unique /\ HasFile(table.rows, r.filename)
  BY <1>1 DEF OrIgnore, KeepsFirst
<1>2. CASE ~(table.unique /\ HasFile(table.rows, r.filename))
  <2>1. new = [table EXCEPT !.rows = Append(@, r)]
    BY <1>2 DEF OrIgnore
  <2>2. Append(table.rows, r) \in Seq(Rows)
    OBVIOUS
  <2>3. new \in Tables
    BY <2>1, <2>2 DEF Tables
  <2>4. new.columns = table.columns /\ new.unique = table.unique /\ new.indexes = table.indexes
        /\ new.rows = Append(table.rows, r)
    BY <2>1 DEF Tables
  <2>5. Len(new.rows) = n + 1 /\ n \in Nat /\ new.rows[n + 1] = r
        /\ \A i \in 1 .. n : new.rows[i] = table.rows[i]
    BY <2>4
  <2>6. DOMAIN new.rows = 1 .. (n + 1) /\ DOMAIN table.rows = 1 .. n
    BY <2>3, <2>5
  <2> HIDE DEF new, n
  <2>7. Constrained(new)
    <3>1. ASSUME new.unique PROVE Unique(new.rows)
      <4>1. Unique(table.rows) /\ ~HasFile(table.rows, r.filename)
        BY <1>2, <2>4, <3>1 DEF Constrained
      <4>2. \A i, j \in 1 .. (n + 1) : new.rows[i].filename = new.rows[j].filename => i = j
        <5> SUFFICES ASSUME NEW i \in 1 .. (n + 1), NEW j \in 1 .. (n + 1),
                            new.rows[i].filename = new.rows[j].filename
                     PROVE  i = j
          OBVIOUS
        <5>1. CASE i \in 1 .. n /\ j \in 1 .. n
          BY <2>5, <2>6, <4>1, <5>1 DEF Unique
        <5>2. CASE i = n + 1 /\ j \in 1 .. n
          BY <2>5, <2>6, <4>1, <5>2 DEF HasFile
        <5>3. CASE j = n + 1 /\ i \in 1 .. n
          BY <2>5, <2>6, <4>1, <5>3 DEF HasFile
        <5> QED
          BY <2>5, <5>1, <5>2, <5>3
      <4> QED
        BY <2>6, <4>2 DEF Unique
    <3> QED
      BY <2>4, <3>1 DEF Constrained, NewSchema
  <2>8. KeepsFirst(table, new)
    <3> SUFFICES ASSUME NEW f \in Filenames, Has(table, f)
                 PROVE  Has(new, f) /\ Transcription(new, f) = Transcription(table, f)
      BY DEF KeepsFirst
    <3>1. PICK i \in 1 .. n : table.rows[i].filename = f /\ \A j \in 1 .. i - 1 : table.rows[j].filename # f
      BY FirstRow DEF Has, n
    <3>2. i \in 1 .. (n + 1) /\ \A j \in 1 .. i - 1 : j \in 1 .. n
      BY <2>5, <3>1
    <3>3. new.rows[i] = table.rows[i] /\ \A j \in 1 .. i - 1 : new.rows[j] = table.rows[j]
      BY <2>5, <3>1, <3>2
    <3>4. Transcription(table, f) = table.rows[i].transcription
      BY <3>1, TranscriptionIs DEF n
    <3>5. Transcription(new, f) = new.rows[i].transcription
      <4>1. i \in 1 .. Len(new.rows)
        BY <2>5, <3>2
      <4>2. new.rows[i].filename = f /\ \A j \in 1 .. i - 1 : new.rows[j].filename # f
        BY <3>1, <3>3
      <4> QED
        BY <2>3, <4>1, <4>2, TranscriptionIs
    <3>6. Has(new, f)
      BY <2>3, <2>6, <3>1, <3>2, <3>3 DEF Has, HasFile
    <3> QED
      BY <3>3, <3>4, <3>5, <3>6
  <2> QED
    BY <2>3, <2>4, <2>7, <2>8 DEF new
<1> QED
  BY <1>1, <1>2

\* What the recursive definition of AllOrIgnore says: the tables after 0, 1,
\* ..., Len(rows) insertions.
LEMMA Insertions ==
  ASSUME NEW table \in Tables, Constrained(table), NEW rows \in Seq(Rows)
  PROVE  \E g \in [0 .. Len(rows) -> {t \in Tables : Constrained(t)}] :
           /\ g[0] = table
           /\ \A n \in 1 .. Len(rows) : g[n] = OrIgnore(g[n - 1], rows[n])
           /\ AllOrIgnore(table, rows) = g[Len(rows)]
<1> DEFINE N == Len(rows)
           T == {t \in Tables : Constrained(t)}
           Upto(g, k) == /\ g[0] = table
                         /\ \A n \in 1 .. k : g[n] = OrIgnore(g[n - 1], rows[n])
           Some(k) == \E g \in [0 .. k -> T] : Upto(g, k)
           S == {k \in Nat : k <= N => Some(k)}
           Fixed(g) == g = [n \in 0 .. N |->
                              IF n = 0 THEN table ELSE OrIgnore(g[n - 1], rows[n])]
<1>1. N \in Nat /\ \A n \in 1 .. N : rows[n] \in Rows
  OBVIOUS
<1>2. \A t \in T, r \in Rows : OrIgnore(t, r) \in T
  BY OrIgnoreKeeps
<1>3. 0 \in S
  <2>1. [x \in 0 .. 0 |-> table] \in [0 .. 0 -> T] /\ Upto([x \in 0 .. 0 |-> table], 0)
    BY 0 .. 0 = {0}, 1 .. 0 = {}
  <2> QED
    BY <2>1
<1>4. \A k \in Nat : k \in S => k + 1 \in S
  <2> SUFFICES ASSUME NEW k \in S, k + 1 <= N PROVE Some(k + 1)
    <3> HIDE DEF Some
    <3> QED
      OBVIOUS
  <2>1. PICK g \in [0 .. k -> T] : Upto(g, k)
    BY <1>1
  <2> DEFINE h == [x \in 0 .. k + 1 |-> IF x = k + 1 THEN OrIgnore(g[k], rows[k + 1]) ELSE g[x]]
  <2>2. OrIgnore(g[k], rows[k + 1]) \in T
    BY <1>1, <1>2, k + 1 \in 1 .. N, k \in 0 .. k
  <2>3. h \in [0 .. k + 1 -> T]
    BY <2>2
  <2>4. h[0] = table
    BY <2>1
  <2>5. \A n \in 1 .. k + 1 : h[n] = OrIgnore(h[n - 1], rows[n])
    <3> SUFFICES ASSUME NEW n \in 1 .. k + 1 PROVE h[n] = OrIgnore(h[n - 1], rows[n])
      OBVIOUS
    <3>1. CASE n = k + 1
      BY <3>1
    <3>2. CASE n # k + 1
      BY <2>1, <3>2
    <3> QED
      BY <3>1, <3>2
  <2> QED
    BY <2>3, <2>4, <2>5
<1>5. N \in S
  <2> HIDE DEF S
  <2> QED
    BY <1>1, <1>3, <1>4, NatSetInduction
<1>6. PICK g \in [0 .. N -> T] : Upto(g, N)
  BY <1>1, <1>5
<1>7. Fixed(g)
  BY <1>6
<1> DEFINE inserted == CHOOSE f : Fixed(f)
<1>8. Fixed(inserted)
  <2> HIDE DEF Fixed
  <2> QED
    BY <1>7
<1>9. AllOrIgnore(table, rows) = inserted[N]
  BY DEF AllOrIgnore
<1> HIDE DEF inserted
<1>10. \A k \in Nat : k <= N => inserted[k] = g[k]
  <2> DEFINE Q == {k \in Nat : k <= N => inserted[k] = g[k]}
  <2>1. 0 \in Q
    BY <1>1, <1>6, <1>8
  <2>2. \A k \in Nat : k \in Q => k + 1 \in Q
    <3> SUFFICES ASSUME NEW k \in Q, k + 1 <= N PROVE inserted[k + 1] = g[k + 1]
      OBVIOUS
    <3>1. k + 1 \in 0 .. N /\ k + 1 \in 1 .. N /\ k + 1 # 0 /\ (k + 1) - 1 = k
      BY <1>1
    <3>2. inserted[k + 1] = OrIgnore(inserted[k], rows[k + 1])
      BY <1>8, <3>1
    <3>3. g[k + 1] = OrIgnore(g[k], rows[k + 1])
      BY <1>6, <3>1
    <3> QED
      BY <1>1, <3>2, <3>3
  <2>3. Nat \subseteq Q
    <3> HIDE DEF Q
    <3> QED
      BY <2>1, <2>2, NatSetInduction
  <2> QED
    BY <2>3
<1> QED
  BY <1>1, <1>6, <1>9, <1>10

\* The copy of a table into the new, empty one obeys the constraint, and each
\* file keeps the transcription of its first row.
LEMMA CopyKeeps ==
  ASSUME NEW old \in Tables
  PROVE  /\ AllOrIgnore(NewTable, old.rows) \in Tables
         /\ Constrained(AllOrIgnore(NewTable, old.rows))
         /\ NewSchema(AllOrIgnore(NewTable, old.rows))
         /\ KeepsFirst(old, AllOrIgnore(NewTable, old.rows))
<1> DEFINE N == Len(old.rows)
           T == {t \in Tables : Constrained(t)}
<1>1. N \in Nat /\ old.rows \in Seq(Rows) /\ DOMAIN old.rows = 1 .. N
      /\ \A n \in 1 .. N : old.rows[n] \in Rows
  BY RowTypes
<1>2. PICK g \in [0 .. N -> T] :
        /\ g[0] = NewTable
        /\ \A n \in 1 .. N : g[n] = OrIgnore(g[n - 1], old.rows[n])
        /\ AllOrIgnore(NewTable, old.rows) = g[N]
  BY <1>1, NewTableType, Insertions
\* After k insertions: the schema is the new one, every row comes from the
\* first k, and the first row of each file among them is there.
<1> DEFINE Schema(k) == NewSchema(g[k]) /\ g[k].unique
           From(k) == \A j \in DOMAIN g[k].rows : \E i \in 1 .. k : g[k].rows[j] = old.rows[i]
           First(i) == \A j \in 1 .. i - 1 : old.rows[j].filename # old.rows[i].filename
           Firsts(k) == \A i \in 1 .. k :
                          First(i) => \E j \in DOMAIN g[k].rows : g[k].rows[j] = old.rows[i]
           S == {k \in Nat : k <= N => Schema(k) /\ From(k) /\ Firsts(k)}
<1>3. 0 \in S
  <2>1. Schema(0)
    BY <1>2 DEF NewSchema, NewTable
  <2>2. From(0)
    BY <1>2 DEF NewTable
  <2>3. Firsts(0)
    OBVIOUS
  <2> QED
    BY <2>1, <2>2, <2>3
<1>4. ASSUME NEW k \in Nat, k + 1 <= N, Schema(k) /\ From(k) /\ Firsts(k)
      PROVE  Schema(k + 1) /\ From(k + 1) /\ Firsts(k + 1)
  <2> DEFINE r == old.rows[k + 1]
             t == g[k]
  <2>1. k \in 0 .. N /\ k + 1 \in 1 .. N /\ (k + 1) - 1 = k
    BY <1>1, <1>4
  <2>2. t \in Tables /\ Constrained(t) /\ r \in Rows
    BY <1>1, <1>2, <2>1
  <2>3. g[k + 1] = OrIgnore(t, r)
    BY <1>2, <2>1
  <2>4. Schema(k + 1)
    BY <1>4, <2>2, <2>3, OrIgnoreKeeps DEF NewSchema
  <2>5. CASE HasFile(t.rows, r.filename)
    <3>1. g[k + 1] = t
      BY <1>4, <2>3, <2>5 DEF OrIgnore
    <3>2. From(k + 1)
      BY <1>4, <2>1, <3>1
    <3>3. ~First(k + 1)
      <4>1. PICK j \in DOMAIN t.rows : t.rows[j].filename = r.filename
        BY <2>5 DEF HasFile
      <4>2. PICK i \in 1 .. k : t.rows[j] = old.rows[i]
        BY <1>4
      <4> QED
        BY <2>1, <4>1, <4>2
    <3>4. Firsts(k + 1)
      BY <1>4, <3>1, <3>3
    <3> QED
      BY <2>4, <3>2, <3>4
  <2>6. CASE ~HasFile(t.rows, r.filename)
    <3>1. g[k + 1].rows = Append(t.rows, r)
      BY <2>2, <2>3, <2>6 DEF OrIgnore, Tables
    <3> DEFINE m == Len(t.rows)
    <3>2. m \in Nat /\ DOMAIN t.rows = 1 .. m /\ t.rows \in Seq(Rows)
      BY <2>2, RowTypes
    <3>3. DOMAIN g[k + 1].rows = 1 .. m + 1 /\ g[k + 1].rows[m + 1] = r
          /\ \A j \in 1 .. m : g[k + 1].rows[j] = t.rows[j]
      BY <2>2, <3>1, <3>2
    <3> HIDE DEF m, t
    <3>4. From(k + 1)
      <4> SUFFICES ASSUME NEW j \in 1 .. m + 1
                   PROVE  \E i \in 1 .. k + 1 : g[k + 1].rows[j] = old.rows[i]
        BY <3>3
      <4>1. CASE j = m + 1
        BY <2>1, <3>3, <4>1
      <4>2. CASE j # m + 1
        <5>1. j \in 1 .. m
          BY <3>2, <4>2
        <5>2. PICK i \in 1 .. k : t.rows[j] = old.rows[i]
          BY <1>4, <3>2, <5>1 DEF t
        <5> QED
          BY <2>1, <3>3, <5>1, <5>2
      <4> QED
        BY <4>1, <4>2
    <3>5. Firsts(k + 1)
      <4> SUFFICES ASSUME NEW i \in 1 .. k + 1, First(i)
                   PROVE  \E j \in 1 .. m + 1 : g[k + 1].rows[j] = old.rows[i]
        BY <3>3
      <4>1. CASE i = k + 1
        BY <3>2, <3>3, <4>1
      <4>2. CASE i # k + 1
        <5>1. i \in 1 .. k
          BY <2>1, <4>2
        <5>2. PICK j \in 1 .. m : t.rows[j] = old.rows[i]
          BY <1>4, <3>2, <5>1 DEF t
        <5> QED
          BY <3>2, <3>3, <5>2
      <4> QED
        BY <4>1, <4>2
    <3> QED
      BY <2>4, <3>4, <3>5
  <2> QED
    BY <2>5, <2>6
<1>5. N \in S
  <2>1. \A k \in Nat : k \in S => k + 1 \in S
    <3> SUFFICES ASSUME NEW k \in S, k + 1 <= N
                 PROVE  Schema(k + 1) /\ From(k + 1) /\ Firsts(k + 1)
      <4> HIDE DEF Schema, From, Firsts
      <4> QED
        OBVIOUS
    <3> HIDE DEF Schema, From, Firsts
    <3>1. k \in Nat /\ k <= N
      BY <1>1
    <3> QED
      BY <1>4, <3>1
  <2> HIDE DEF S
  <2> QED
    BY <1>1, <1>3, <2>1, NatSetInduction
<1> DEFINE new == g[N]
<1>6. new \in Tables /\ Constrained(new) /\ Schema(N) /\ Firsts(N)
  BY <1>1, <1>2, <1>5
<1>7. KeepsFirst(old, new)
  <2> SUFFICES ASSUME NEW f \in Filenames, Has(old, f)
               PROVE  Has(new, f) /\ Transcription(new, f) = Transcription(old, f)
    BY DEF KeepsFirst
  <2>1. PICK i \in 1 .. N : old.rows[i].filename = f /\ \A j \in 1 .. i - 1 : old.rows[j].filename # f
    BY <1>1, FirstRow DEF Has
  <2>2. Transcription(old, f) = old.rows[i].transcription
    BY <2>1, TranscriptionIs
  <2>3. PICK j \in DOMAIN new.rows : new.rows[j] = old.rows[i]
    BY <1>6, <2>1
  <2>4. DOMAIN new.rows = 1 .. Len(new.rows) /\ Len(new.rows) \in Nat /\ Unique(new.rows)
    BY <1>6, RowTypes DEF Constrained
  <2> HIDE DEF new, N
  <2>5. new.rows[j].filename = f /\ \A q \in 1 .. j - 1 : new.rows[q].filename # f
    <3> SUFFICES ASSUME NEW q \in 1 .. j - 1, new.rows[q].filename = f PROVE FALSE
      BY <2>1, <2>3
    <3>1. q \in DOMAIN new.rows /\ q # j
      BY <2>4
    <3> QED
      BY <2>1, <2>3, <2>4, <3>1 DEF Unique
  <2>6. Transcription(new, f) = new.rows[j].transcription
    BY <1>6, <2>3, <2>4, <2>5, TranscriptionIs
  <2>7. Has(new, f)
    BY <1>6, <2>3, <2>5, NoTableAssumption DEF Has, HasFile
  <2> QED
    BY <2>2, <2>3, <2>6, <2>7
<1> QED
  BY <1>2, <1>6, <1>7

-----------------------------------------------------------------------------
(* The invariant *)

LEMMA InitIInv == Init => IInv
<1> SUFFICES ASSUME Init PROVE IInv
  OBVIOUS
<1> USE DEF Init, tables
<1>1. SeqOf(Rows, MaxOldRows) \subseteq Seq(Rows)
  BY BoundAssumption DEF SeqOf
<1>2. recordings \in Tables \cup {NoTable}
  <2>1. CASE recordings \in {NoTable, NewTable}
    BY <2>1, NewTableType
  <2>2. CASE recordings \notin {NoTable, NewTable}
    <3>1. PICK C \in SUBSET {"id", "real"}, u \in BOOLEAN, rows \in SeqOf(Rows, MaxOldRows) :
            recordings = [columns |-> C, unique |-> u, rows |-> rows, indexes |-> {}]
      BY <2>2
    <3>2. rows \in Seq(Rows) /\ {} \in SUBSET Indexes
      BY <1>1
    <3> QED
      BY <3>1, <3>2 DEF Tables
  <2> QED
    BY <2>1, <2>2
<1>3. TypeOK
  BY <1>2, BoundAssumption DEF TypeOK, PC
<1>4. Constrained(recordings)
  <2>1. CASE recordings \in {NoTable, NewTable}
    BY <2>1, NewTableType DEF Constrained
  <2>2. CASE recordings \notin {NoTable, NewTable}
    <3> DEFINE Old == (SUBSET {"id", "real"}) \ {{"id", "real"}}
    <3>1. PICK C \in Old, u \in BOOLEAN, rows \in SeqOf(Rows, MaxOldRows) :
            recordings = [columns |-> C, unique |-> u, rows |-> rows, indexes |-> {}]
      <4> HIDE DEF Old
      <4>1. recordings \in {NoTable, NewTable} \cup
              {[columns |-> C, unique |-> u, rows |-> rows, indexes |-> {}] :
                 C \in Old, u \in BOOLEAN, rows \in SeqOf(Rows, MaxOldRows)}
        BY DEF Old
      <4> QED
        BY <2>2, <4>1
    <3>2. recordings.columns # {"id", "real"}
      BY <3>1
    <3>3. recordings # NoTable => (recordings.unique => Unique(recordings.rows))
      OBVIOUS
    <3> QED
      BY <3>2, <3>3 DEF Constrained, NewSchema
  <2> QED
    BY <2>1, <2>2
<1> QED
  BY <1>3, <1>4 DEF IInv, NothingStranded, MidMigration, Faultless, InTransaction

LEMMA OpenIInv == IInv /\ Open => IInv'
<1> SUFFICES ASSUME IInv, Open PROVE IInv'
  OBVIOUS
<1> USE DEF IInv, Open, Go, tables
<1>1. TypeOK'
  BY DEF TypeOK, PC
<1> QED
  BY <1>1 DEF NothingStranded, Constrained, MidMigration, Faultless, InTransaction, NewSchema, Unique

LEMMA CreateTableIInv == IInv /\ (CreateTable \/ CreateTableFails) => IInv'
<1> SUFFICES ASSUME IInv, CreateTable \/ CreateTableFails PROVE IInv'
  OBVIOUS
<1> USE DEF IInv, Go
<1>1. CASE CreateTable
  <2> USE <1>1 DEF CreateTable
  <2>1. recordings' \in Tables /\ Constrained(recordings)'
    BY NewTableType DEF TypeOK, Constrained, Unique, NewSchema
  <2>2. TypeOK'
    BY <2>1, NoTableAssumption DEF TypeOK, PC
  <2> QED
    BY <2>1, <2>2 DEF NothingStranded, Constrained, MidMigration, Faultless, InTransaction, NewSchema, Unique
<1>2. CASE CreateTableFails
  <2> USE <1>2 DEF CreateTableFails, SqlError, tables
  <2>1. errors' \in 0 .. MaxErrors /\ errors' # MaxErrors
    BY BoundAssumption DEF TypeOK
  <2>2. TypeOK'
    BY <2>1 DEF TypeOK, PC
  <2> QED
    BY <2>1, <2>2 DEF NothingStranded, Constrained, MidMigration, Faultless, InTransaction, NewSchema, Unique
<1> QED
  BY <1>1, <1>2

LEMMA CreateIndexesIInv == IInv /\ CreateIndexes => IInv'
<1> SUFFICES ASSUME IInv, CreateIndexes PROVE IInv'
  OBVIOUS
<1> USE DEF IInv, CreateIndexes, Go
<1>1. PICK S \in SUBSET Indexes :
        /\ IF S = Indexes THEN UNCHANGED errors ELSE SqlError
        /\ recordings' = [recordings EXCEPT !.indexes = @ \cup S]
  OBVIOUS
<1>2. recordings \in Tables
  BY DEF TypeOK
<1>3. recordings.indexes \cup S \in SUBSET Indexes
  BY <1>2, RowTypes
<1>4. recordings' \in Tables /\ recordings'.rows = recordings.rows
      /\ recordings'.columns = recordings.columns /\ recordings'.unique = recordings.unique
      /\ recordings'.indexes = recordings.indexes \cup S
  BY <1>1, <1>2, <1>3 DEF Tables
<1>5. errors' \in 0 .. MaxErrors /\ (errors' = MaxErrors => S = Indexes)
  BY <1>1, BoundAssumption DEF TypeOK, SqlError
<1>6. TypeOK'
  BY <1>4, <1>5, NoTableAssumption DEF TypeOK, PC
<1>7. Constrained(recordings)'
  BY <1>2, <1>4, NoTableAssumption DEF Constrained, NewSchema, Unique
<1>8. recordings'.indexes = Indexes \/ errors' # MaxErrors
  BY <1>2, <1>4, <1>5, RowTypes
<1> QED
  BY <1>6, <1>7, <1>8 DEF NothingStranded, Constrained, MidMigration, Faultless, InTransaction, NewSchema, Unique

LEMMA migrateSchemaIInv == IInv /\ migrateSchema => IInv'
<1> SUFFICES ASSUME IInv, migrateSchema PROVE IInv'
  OBVIOUS
<1> USE DEF IInv, migrateSchema, tables
<1>1. recordings \in Tables
  BY DEF TypeOK
<1>2. errors' \in 0 .. MaxErrors /\ (errors' = MaxErrors => errors = MaxErrors /\ UNCHANGED errors)
  BY BoundAssumption DEF TypeOK, SqlError
<1>3. TypeOK'
  BY <1>1, <1>2, NoTableAssumption DEF TypeOK, PC
<1>4. ~NeedsMigration => NewSchema(recordings)
  BY <1>1, RowTypes DEF NeedsMigration, NewSchema
<1>5. pc' = "ready" /\ errors' = MaxErrors => NewSchema(recordings)
  BY <1>2, <1>4, BoundAssumption DEF SqlError, TypeOK
<1>6. Faultless'
  BY <1>1, <1>5, NoTableAssumption DEF Faultless, NewSchema
<1> QED
  BY <1>3, <1>6 DEF NothingStranded, Constrained, MidMigration, InTransaction, NewSchema, Unique

LEMMA RenameIInv == IInv /\ Rename => IInv'
<1> SUFFICES ASSUME IInv, Rename PROVE IInv'
  OBVIOUS
<1> USE DEF IInv, Rename, Go, tables
<1>1. recordings # NoTable /\ saved'[1] = recordings /\ saved'[2] = NoTable
  BY DEF TypeOK
<1>2. TypeOK'
  BY <1>1 DEF TypeOK, PC
<1>3. MidMigration'
  BY <1>1 DEF MidMigration
<1>4. Constrained(saved[1])' /\ Constrained(recordings)'
  BY <1>1 DEF Constrained, NewSchema, Unique
<1> QED
  BY <1>2, <1>3, <1>4 DEF NothingStranded, Faultless, InTransaction

LEMMA CreateNewIInv == IInv /\ CreateNew => IInv'
<1> SUFFICES ASSUME IInv, CreateNew PROVE IInv'
  OBVIOUS
<1> USE DEF IInv, CreateNew, Go
<1>1. TypeOK'
  BY NewTableType, NoTableAssumption DEF TypeOK, PC
<1>2. MidMigration'
  BY DEF MidMigration, InTransaction
<1>3. Constrained(saved[1])' /\ Constrained(recordings)'
  BY NewTableType DEF Constrained, NewSchema, Unique
<1> QED
  BY <1>1, <1>2, <1>3 DEF NothingStranded, Faultless, InTransaction

LEMMA CopyIInv == IInv /\ Copy => IInv'
<1> SUFFICES ASSUME IInv, Copy PROVE IInv'
  OBVIOUS
<1> USE DEF IInv, Copy, Go
<1>1. recordings = NewTable /\ recordings_old = saved[1] /\ saved[1] \in Tables /\ saved[2] = NoTable
  BY DEF MidMigration, InTransaction, TypeOK
<1>2. /\ recordings' \in Tables /\ Constrained(recordings')
      /\ NewSchema(recordings') /\ KeepsFirst(saved[1], recordings')
  BY <1>1, CopyKeeps
<1>3. TypeOK'
  BY <1>2, NoTableAssumption DEF TypeOK, PC
<1>4. MidMigration'
  <2>1. KeepsFirst(saved'[1], recordings') /\ saved'[1] # NoTable
    BY <1>1, <1>2, NoTableAssumption
  <2> QED
    BY <1>1, <1>2, <2>1 DEF MidMigration, InTransaction
<1>5. Constrained(saved[1])' /\ Constrained(recordings)'
  BY <1>2 DEF Constrained, NewSchema, Unique
<1> QED
  BY <1>3, <1>4, <1>5 DEF NothingStranded, Faultless, InTransaction

LEMMA DropIInv == IInv /\ (Drop \/ Commit) => IInv'
<1> SUFFICES ASSUME IInv, Drop \/ Commit PROVE IInv'
  OBVIOUS
<1> USE DEF IInv, Drop, Commit, Go, tables
<1>1. TypeOK'
  BY DEF TypeOK, PC
<1>2. recordings' = recordings /\ saved' = saved
  OBVIOUS
<1>3. MidMigration'
  <2>1. KeepsFirst(saved'[1], recordings') /\ NewSchema(recordings')
    BY <1>2 DEF MidMigration
  <2> QED
    BY <1>2, <2>1 DEF MidMigration, InTransaction
<1>4. Constrained(saved[1])' /\ Constrained(recordings)'
  BY <1>2 DEF Constrained, NewSchema, Unique
<1>5. NothingStranded'
  BY DEF NothingStranded, InTransaction, MidMigration
<1>6. Faultless'
  BY NoTableAssumption DEF Faultless, MidMigration, NewSchema, TypeOK
<1> QED
  BY <1>1, <1>3, <1>4, <1>5, <1>6

\* Both ways back to what was there at BEGIN TRANSACTION.
LEMMA UndoIInv == IInv /\ (MigrationFails \/ Crash) => IInv'
<1> SUFFICES ASSUME IInv, MigrationFails \/ Crash PROVE IInv'
  OBVIOUS
<1> USE DEF IInv, MigrationFails, Crash, tables, Undo
<1>1. saved' = saved /\ errors' \in 0 .. MaxErrors /\ pc' \in {"ready", "closed"}
      /\ (pc' = "ready" => errors' # MaxErrors)
  BY BoundAssumption DEF TypeOK, SqlError
<1>2. \/ InTransaction /\ recordings' = saved[1] /\ recordings_old' = saved[2]
      \/ ~InTransaction /\ UNCHANGED tables
  BY DEF InTransaction
<1>3. recordings_old' = NoTable
  BY <1>2 DEF MidMigration, NothingStranded
<1>4. recordings' \in Tables \cup {NoTable}
  BY <1>2 DEF TypeOK
<1>5. TypeOK'
  BY <1>1, <1>3, <1>4 DEF TypeOK, PC
<1>6. Constrained(saved[1])' /\ Constrained(recordings)'
  BY <1>1, <1>2 DEF Constrained, NewSchema, Unique
<1>7. ~InTransaction' /\ NothingStranded' /\ Faultless'
  BY <1>1, <1>3 DEF InTransaction, NothingStranded, Faultless
<1>8. MidMigration'
  BY <1>1, <1>7 DEF MidMigration
<1> QED
  BY <1>5, <1>6, <1>7, <1>8

LEMMA insertRecordingIInv == ASSUME NEW r \in Rows PROVE IInv /\ insertRecording(r) => IInv'
<1> SUFFICES ASSUME IInv, insertRecording(r) PROVE IInv'
  OBVIOUS
<1> USE DEF IInv, insertRecording
<1>1. recordings \in Tables
  BY DEF TypeOK
<1>2. /\ recordings' \in Tables /\ Constrained(recordings') /\ recordings'.columns = recordings.columns
  BY <1>1, OrIgnoreKeeps
<1>3. TypeOK'
  BY <1>2, NoTableAssumption DEF TypeOK, PC
<1>4. Constrained(saved[1])' /\ Constrained(recordings)'
  BY <1>2 DEF Constrained, NewSchema, Unique
<1>5. Faultless'
  BY <1>2, NoTableAssumption DEF Faultless, NewSchema
<1> QED
  BY <1>3, <1>4, <1>5 DEF NothingStranded, MidMigration, InTransaction

LEMMA StepIInv == IInv /\ [Next]_vars => IInv'
<1> SUFFICES ASSUME IInv, [Next]_vars PROVE IInv'
  OBVIOUS
<1>1. CASE UNCHANGED vars
  BY <1>1 DEF vars, tables, IInv, TypeOK, NothingStranded, Constrained, MidMigration, Faultless,
              InTransaction, NewSchema, Unique, KeepsFirst, Has, HasFile, Transcription
<1>2. CASE Next
  BY <1>2, OpenIInv, CreateTableIInv, CreateIndexesIInv, migrateSchemaIInv, RenameIInv, CreateNewIInv,
     CopyIInv, DropIInv, UndoIInv, insertRecordingIInv DEF Next
<1> QED
  BY <1>1, <1>2

LEMMA IInvCorrect == Spec => []IInv
<1> QED
  BY InitIInv, StepIInv, PTL DEF Spec

-----------------------------------------------------------------------------
(* The theorems *)

\* Every variable has its type, and every statement of createTable and of the
\* migration finds the table it names.
THEOREM TypesHold == Spec => []TypeOK
<1>1. IInv => TypeOK
  BY DEF IInv
<1> QED
  BY <1>1, IInvCorrect, PTL

\* Whatever fails and wherever a start is cut off, no recordings_old is left
\* that would make every later migration fail.
THEOREM NothingIsStranded == Spec => []NothingStranded
<1>1. IInv => NothingStranded
  BY DEF IInv
<1> QED
  BY <1>1, IInvCorrect, PTL

\* A start of which no statement has failed has the new schema and one row per
\* file, whatever tables earlier starts have left.
THEOREM ReadyIsMigrated == Spec => []ReadyMeansMigrated
<1>1. IInv => ReadyMeansMigrated
  BY DEF IInv, ReadyMeansMigrated, Faultless, Constrained, NewSchema
<1> QED
  BY <1>1, IInvCorrect, PTL

\* What another connection sees only ever gains files: no insertion, no
\* migration, no error and no crash takes a file away or changes the
\* transcription it was given first.
LEMMA DurableKeepsFirst == IInv /\ [Next]_vars => KeepsFirst(Durable, Durable')
<1> SUFFICES ASSUME IInv, [Next]_vars PROVE KeepsFirst(Durable, Durable')
  OBVIOUS
<1>1. \A t : KeepsFirst(t, t) /\ KeepsFirst(NoTable, t)
  BY DEF KeepsFirst, Has
<1>2. ASSUME Durable' = Durable PROVE KeepsFirst(Durable, Durable')
  BY <1>1, <1>2
<1>3. CASE Open \/ CreateTableFails \/ migrateSchema \/ UNCHANGED vars
  BY <1>2, <1>3 DEF Open, CreateTableFails, migrateSchema, vars, tables, Go, Durable, InTransaction
<1>4. CASE CreateTable
  BY <1>1, <1>4 DEF CreateTable, Go, Durable, InTransaction
<1>5. CASE CreateIndexes
  <2>1. recordings \in Tables /\ Durable = recordings /\ Durable' = recordings'
    BY <1>5 DEF IInv, TypeOK, CreateIndexes, Go, Durable, InTransaction
  <2>2. PICK S : recordings' = [recordings EXCEPT !.indexes = @ \cup S]
    BY <1>5 DEF CreateIndexes
  <2>3. recordings'.rows = recordings.rows /\ recordings' # NoTable
    <3>1. TypeOK' /\ pc' = "migrate"
      BY <1>5, StepIInv DEF IInv, CreateIndexes, Go
    <3> QED
      BY <2>1, <2>2, <3>1 DEF Tables, TypeOK
  <2>4. KeepsFirst(recordings, recordings')
    BY <2>3 DEF KeepsFirst, Has, HasFile, Transcription
  <2> QED
    BY <2>1, <2>4
<1>6. CASE Rename \/ CreateNew \/ Copy \/ Drop
  BY <1>2, <1>6 DEF Rename, CreateNew, Copy, Drop, Go, tables, Durable, InTransaction
<1>7. CASE Commit
  <2>1. Durable = saved[1] /\ Durable' = recordings
    BY <1>7 DEF Commit, Go, tables, Durable, InTransaction
  <2> QED
    BY <1>7, <2>1 DEF Commit, Go, IInv, MidMigration
<1>8. CASE MigrationFails \/ Crash
  BY <1>2, <1>8 DEF MigrationFails, Crash, Undo, tables, Durable, InTransaction
<1>9. CASE \E r \in Rows : insertRecording(r)
  <2>1. PICK r \in Rows : insertRecording(r)
    BY <1>9
  <2>2. Durable = recordings /\ Durable' = recordings' /\ recordings \in Tables
    BY <2>1 DEF insertRecording, Durable, InTransaction, IInv, TypeOK
  <2> QED
    BY <2>1, <2>2, OrIgnoreKeeps DEF insertRecording, IInv
<1> QED
  BY <1>3, <1>4, <1>5, <1>6, <1>7, <1>8, <1>9 DEF Next

THEOREM FirstTranscriptionIsKept == Spec => FirstTranscriptionKept
<1>1. KeepsFirst(Durable, Durable') =>
        \A f \in Filenames :
          Has(Durable, f) => /\ Has(Durable', f)
                             /\ Transcription(Durable', f) = Transcription(Durable, f)
  BY DEF KeepsFirst
<1> QED
  BY <1>1, IInvCorrect, DurableKeepsFirst, PTL DEF Spec, FirstTranscriptionKept

\* A start that finds the new schema, and no SQL error, leaves the table with
\* all its indexes, those a migration before it has dropped included.
THEOREM IndexedUnlessJustMigrated == Spec => IndexedUnlessMigrated
<1>1. IInv /\ [Next]_vars =>
        (pc = "migrate" /\ pc' = "ready" /\ errors' = MaxErrors => recordings'.indexes = Indexes)
  <2> SUFFICES ASSUME IInv, [Next]_vars, pc = "migrate", pc' = "ready", errors' = MaxErrors
               PROVE  recordings'.indexes = Indexes
    OBVIOUS
  <2>1. migrateSchema
    BY DEF Next, vars, Open, CreateTable, CreateTableFails, CreateIndexes, Rename, CreateNew, Copy,
           Drop, Commit, MigrationFails, InTransaction, insertRecording, Crash, Go
  <2>2. errors = MaxErrors
    BY <2>1, BoundAssumption DEF migrateSchema, SqlError, IInv, TypeOK
  <2> QED
    BY <2>1, <2>2 DEF migrateSchema, tables, IInv, Faultless
<1> QED
  BY <1>1, IInvCorrect, PTL DEF Spec, IndexedUnlessMigrated
=============================================================================
