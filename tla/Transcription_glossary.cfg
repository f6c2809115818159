SPECIFICATION FairSpec
CONSTANTS
  Strings <- Words
  Stripped <- Unhyphened
  Quote <- EscapedQuote
  Irregular <- NoRegex
  Cases <- Files
INVARIANTS ReadsWellFormed SpeechExplained
PROPERTIES CutOffEnds HangsOnlyAtStray
CHECK_DEADLOCK FALSE
