SPECIFICATION FairSpec
CONSTANTS
  a = a
  b = b
  c = c
  w1 = w1
  w2 = w2
  Main = Main
  None = None
  Empty = Empty
  Files = {a, b}
  Workers = {w1, w2}
  Threads <- MainAndWorkers
  Parallel = TRUE
  Local = TRUE
  MaxAudio = 2
  MinDuration = 2
  InPlace = {a}
  Locking = {a}
  Outside = {}
  Misnamed = {b}
  MaxAsks = 2
  Budget <- Removals
INVARIANTS FiledIsComplete LongRecordingKept OneCallPerFile
PROPERTIES HandedOverIsConsumed
CHECK_DEADLOCK FALSE
