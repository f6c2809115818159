SPECIFICATION Spec
CONSTANTS
  f1 = f1
  f2 = f2
  t1 = t1
  t2 = t2
  NoTable = NoTable
  Filenames = {f1, f2}
  Transcriptions = {t1, t2}
  Indexes = {"talkgroup_id", "unixtime", "filename"}
  MaxOldRows = 2
  MaxRows = 3
  MaxErrors = 2
SYMMETRY Symmetry
INVARIANTS TypeOK NothingStranded ReadyMeansMigrated
PROPERTIES FirstTranscriptionKept IndexedUnlessMigrated
