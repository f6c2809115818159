SPECIFICATION FairSpec
CONSTANTS
  a = a
  b = b
  c = c
  w1 = w1
  w2 = w2
  Main = Main
  None = None
  Empty = Empty
  Files = {a, b, c}
  Workers = {w1}
  Threads <- MainAndWorkers
  Parallel = FALSE
  Local = FALSE
  MaxAudio = 2
  MinDuration = 2
  InPlace = {}
  Locking = {}
  Outside = {c}
  Misnamed = {b}
  MaxAsks = 3
  Budget <- ExitsAndRemovals
PROPERTIES GoodIsRecorded ShutdownStops
CHECK_DEADLOCK FALSE
