-------------------------- MODULE DatabaseManager --------------------------
(***************************************************************************)
(* src/DatabaseManager.cpp: the recordings table across starts of the      *)
(* program - createTable with its indexes, migrateSchema and its           *)
(* transaction, insertRecording - under SQL errors and crashes.  A step is *)
(* one SQL statement.  SQLite is external: a statement happens or fails,   *)
(* and what an open transaction did is undone by ROLLBACK and by a crash.  *)
(*                                                                         *)
(* A table is a record: which columns of the new schema it has ("id",      *)
(* "real" for duration REAL), whether filename is UNIQUE, its rows in      *)
(* rowid order, its indexes.  The other columns are not told apart.        *)
(***************************************************************************)
EXTENDS Naturals, Sequences, FiniteSets, SequencesExt

CONSTANTS
  Filenames, Transcriptions,
  NoTable,    \* the table does not exist
  Indexes,    \* names of the indexes createTable creates
  MaxOldRows, \* BOUND: rows of the table an earlier version has left
  MaxRows,    \* BOUND: rows of a table without the UNIQUE constraint
  MaxErrors   \* BOUND: how many SQL statements may fail

ASSUME BoundAssumption == {MaxOldRows, MaxRows, MaxErrors} \subseteq Nat

VARIABLES
  recordings,      \* the table recordings
  recordings_old,  \* the table recordings_old
  saved,           \* both, as they were at BEGIN TRANSACTION
  pc,              \* where the program is
  errors           \* SQL errors that may still happen

tables == <<recordings, recordings_old>>
vars == <<tables, saved, pc, errors>>

Rows == [filename : Filenames, transcription : Transcriptions]
Tables == [columns : SUBSET {"id", "real"}, unique : BOOLEAN, rows : Seq(Rows),
           indexes : SUBSET Indexes]

ASSUME NoTableAssumption == NoTable \notin Tables

PC == {"closed", "create", "index", "migrate",   \* createTable
       "begin", "new", "copy", "drop", "commit", \* the migration
       "ready"}                                  \* createTable has returned

\* Each variable has its type, and the table exists wherever a statement of
\* createTable or of the migration names it.
TypeOK ==
  /\ {recordings, recordings_old} \subseteq Tables \cup {NoTable}
  /\ saved \in (Tables \cup {NoTable}) \X (Tables \cup {NoTable})
  /\ pc \in PC /\ errors \in 0 .. MaxErrors
  /\ pc \notin {"closed", "create", "new", "ready"} => recordings # NoTable

Unique(rows) ==
  \A i, j \in DOMAIN rows : rows[i].filename = rows[j].filename => i = j

NewTable == [columns |-> {"id", "real"}, unique |-> TRUE, rows |-> <<>>, indexes |-> {}]

\* What earlier versions may have left: nothing, or a table some of whose
\* columns are old, with some rows.
Init ==
  /\ recordings \in {NoTable, NewTable} \cup
       {[columns |-> C, unique |-> u, rows |-> rows, indexes |-> {}] :
          C \in (SUBSET {"id", "real"}) \ {{"id", "real"}}, u \in BOOLEAN,
          rows \in SeqOf(Rows, MaxOldRows)}
  /\ recordings # NoTable => (recordings.unique => Unique(recordings.rows))
  /\ recordings_old = NoTable
  /\ saved = tables
  /\ pc = "closed" /\ errors = MaxErrors

-----------------------------------------------------------------------------
(* What SQLite does.  An operator with a suffix _X is the operator before   *)
(* the underscore as a plausible bug X would leave it; no action uses it.   *)

HasFile(rows, f) == \E i \in DOMAIN rows : rows[i].filename = f

\* INSERT OR REPLACE.
OrIgnore_Replace(table, r) ==
  [table EXCEPT !.rows =
     (IF table.unique THEN SelectSeq(@, LAMBDA q : q.filename # r.filename) ELSE @) \o <<r>>]

\* INSERT OR IGNORE: a row that would break the constraint is left out.
OrIgnore(table, r) ==
  IF table.unique /\ HasFile(table.rows, r.filename) THEN table
  ELSE [table EXCEPT !.rows = Append(@, r)]

\* The rows of a SELECT, inserted one after the other.
AllOrIgnore(table, rows) ==
  LET inserted[n \in 0 .. Len(rows)] ==
        IF n = 0 THEN table ELSE OrIgnore(inserted[n - 1], rows[n])
  IN  inserted[Len(rows)]

\* Without BEGIN TRANSACTION every statement is a transaction of its own.
Undo_Autocommit == UNCHANGED tables

\* ROLLBACK, and the recovery after a crash.
Undo == /\ recordings' = saved[1]
        /\ recordings_old' = saved[2]

InTransaction == pc \in {"new", "copy", "drop", "commit"}

\* A statement fails.
SqlError == errors > 0 /\ errors' = errors - 1

Go(from, to) == pc = from /\ pc' = to

-----------------------------------------------------------------------------
(* createTable *)

Open == Go("closed", "create") /\ UNCHANGED <<tables, saved, errors>>

\* Only a table that is new is indexed.
CreateTable_SkipsOld ==
  /\ Go("create", IF recordings = NoTable THEN "index" ELSE "migrate")
  /\ recordings' = IF recordings = NoTable THEN NewTable ELSE recordings
  /\ UNCHANGED <<recordings_old, saved, errors>>

CreateTable ==
  /\ Go("create", "index")
  /\ recordings' = IF recordings = NoTable THEN NewTable ELSE recordings
  /\ UNCHANGED <<recordings_old, saved, errors>>

\* CREATE TABLE fails: createTable returns, without indexes or migration.
CreateTableFails ==
  /\ Go("create", "ready")
  /\ SqlError
  /\ UNCHANGED <<tables, saved>>

\* The three CREATE INDEX IF NOT EXISTS, whose errors nobody looks at.
CreateIndexes ==
  /\ Go("index", "migrate")
  /\ \E S \in SUBSET Indexes :
       /\ IF S = Indexes THEN UNCHANGED errors ELSE SqlError
       /\ recordings' = [recordings EXCEPT !.indexes = @ \cup S]
  /\ UNCHANGED <<recordings_old, saved>>

\* Either new column is taken for the new schema.
NeedsMigration_EitherColumn == recordings.columns \cap {"id", "real"} = {}

\* !(hasIdColumn && hasDurationAsReal)
NeedsMigration == ~({"id", "real"} \subseteq recordings.columns)

\* migrateSchema reads the columns; if it cannot, it returns.
migrateSchema ==
  /\ pc = "migrate"
  /\ \/ pc' = (IF NeedsMigration THEN "begin" ELSE "ready") /\ UNCHANGED errors
     \/ pc' = "ready" /\ SqlError
  /\ UNCHANGED <<tables, saved>>

-----------------------------------------------------------------------------
(* The migration *)

\* BEGIN TRANSACTION; ALTER TABLE recordings RENAME: its indexes go with it.
Rename ==
  /\ Go("begin", "new")
  /\ recordings_old = NoTable
  /\ saved' = tables
  /\ recordings_old' = recordings
  /\ recordings' = NoTable
  /\ UNCHANGED errors

\* The statement is left out.
CreateNew_Forgotten == Go("new", "copy") /\ UNCHANGED <<tables, saved, errors>>

CreateNew ==
  /\ Go("new", "copy")
  /\ recordings' = NewTable
  /\ UNCHANGED <<recordings_old, saved, errors>>

\* INSERT OR IGNORE ... SELECT ... FROM recordings_old, in rowid order.  (That
\* an old row with a NULL would be left behind too is left out.)
Copy ==
  /\ Go("copy", "drop")
  /\ recordings' = AllOrIgnore(recordings, recordings_old.rows)
  /\ UNCHANGED <<recordings_old, saved, errors>>

\* DROP TABLE recordings_old: its indexes go with it.
Drop ==
  /\ Go("drop", "commit")
  /\ recordings_old' = NoTable
  /\ UNCHANGED <<recordings, saved, errors>>

Commit ==
  /\ Go("commit", "ready")
  /\ UNCHANGED <<tables, saved, errors>>

\* A statement of the migration fails, and migrateSchema rolls back.  (That the
\* ROLLBACK fails as well, and its result is ignored, is left out.)
MigrationFails ==
  /\ SqlError
  /\ \/ pc = "begin" /\ UNCHANGED tables
     \/ InTransaction /\ Undo
  /\ pc' = "ready"
  /\ UNCHANGED saved

-----------------------------------------------------------------------------

\* insertRecording, for a row r; when it cannot prepare the statement (there
\* is no table) or execute it, the row is lost.
insertRecording(r) ==
  /\ pc = "ready"
  /\ recordings # NoTable
  /\ recordings.unique \/ Len(recordings.rows) < MaxRows
  /\ recordings' = OrIgnore(recordings, r)
  /\ UNCHANGED <<recordings_old, saved, pc, errors>>

\* The process ends, anywhere, and is started again.
Crash ==
  /\ pc' = "closed"
  /\ IF InTransaction THEN Undo ELSE UNCHANGED tables
  /\ UNCHANGED <<saved, errors>>

Next == \/ Open \/ CreateTable \/ CreateTableFails \/ CreateIndexes \/ migrateSchema
        \/ Rename \/ CreateNew \/ Copy \/ Drop \/ Commit \/ MigrationFails
        \/ \E r \in Rows : insertRecording(r)
        \/ Crash

Spec == Init /\ [][Next]_vars

-----------------------------------------------------------------------------
(* Properties *)

\* What another connection, or the next start, sees.
Durable == IF InTransaction THEN saved[1] ELSE recordings

\* The transcription a file has: that of its first row.
Transcription(table, f) ==
  table.rows[CHOOSE i \in DOMAIN table.rows :
               /\ table.rows[i].filename = f
               /\ \A j \in 1 .. i - 1 : table.rows[j].filename # f].transcription

Has(table, f) == table # NoTable /\ HasFile(table.rows, f)

\* A file keeps the transcription it was given first, whatever happens:
\* a second insertion, a migration that copies and drops the table, an error
\* in the middle of it, a crash, a start with another schema.
FirstTranscriptionKept ==
  [][\A f \in Filenames :
       Has(Durable, f) => /\ Has(Durable', f)
                          /\ Transcription(Durable', f) = Transcription(Durable, f)]_vars

\* No start finds a recordings_old, whose presence would make every
\* migration fail for ever.
NothingStranded == ~InTransaction => recordings_old = NoTable

\* When createTable has returned and no statement ever failed, the table has
\* the new schema and one row per file, whatever an earlier version, or a
\* start that ended in the middle of the migration, had left.
ReadyMeansMigrated ==
  pc = "ready" /\ errors = MaxErrors =>
    /\ recordings.columns = {"id", "real"}
    /\ Unique(recordings.rows)

\* A start that finds the new schema, and no SQL error, leaves the table with
\* all its indexes, also the one after a migration, which drops them (they
\* are created before it), or after a start that was interrupted.
IndexedUnlessMigrated ==
  [][pc = "migrate" /\ pc' = "ready" /\ errors' = MaxErrors =>
       recordings'.indexes = Indexes]_vars
=============================================================================
