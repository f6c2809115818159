SPECIFICATION FairSpec
CONSTANTS
  Workers = {w1}
  Tasks = {t1}
  Nobody = Nobody
  NoTask = NoTask
PROPERTIES DestructorReturns
CHECK_DEADLOCK FALSE
