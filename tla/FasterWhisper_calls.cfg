SPECIFICATION FairSpec
CONSTANTS
  Callers = {t1, t2, t3, t4}
  Nobody = Nobody
INVARIANTS OneTranscription ImportedBeforeUse NoCircularWait
PROPERTIES EveryCallEnds
