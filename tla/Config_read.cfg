SPECIFICATION FairSpec
CONSTANTS
  Inputs <- Files
  Names <- Recordings
  Number <- Numbers
  Whole <- Wholes
  Ranges <- Keys
  IntMax <- MaxInt
  DefaultID <- Default
INVARIANTS TreeFollowsIndentation ReadsAsMeant OneTalkgroupPerRecording
PROPERTIES StartUpEnds
CHECK_DEADLOCK FALSE
