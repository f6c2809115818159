SPECIFICATION FairSpec
CONSTANTS
  Callers = {t1, t2}
  MaxRetries = 2
  MaxCalls = 2
INVARIANTS NeverOvercounts
PROPERTIES EveryCallEnds
CHECK_DEADLOCK FALSE
