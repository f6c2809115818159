SPECIFICATION FairSpec
CONSTANTS
  a = a
  b = b
  c = c
  w1 = w1
  w2 = w2
  Main = Main
  None = None
  Empty = Empty
  Files = {a, b}
  Workers = {w1, w2}
  Threads <- MainAndWorkers
  Parallel = TRUE
  Local = FALSE
  MaxAudio = 2
  MinDuration = 2
  InPlace = {}
  Locking = {}
  Outside = {}
  Misnamed = {}
  MaxAsks = 2
  Budget <- Exits
PROPERTIES FiledGetsRow
CHECK_DEADLOCK FALSE
