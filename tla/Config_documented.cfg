SPECIFICATION Spec
CONSTANTS
  Inputs <- Documented
  Names <- Recordings
  Number <- Numbers
  Whole <- Wholes
  Ranges <- Keys
  IntMax <- MaxInt
  DefaultID <- Default
INVARIANTS DocumentedIsRead
CHECK_DEADLOCK FALSE
