SPECIFICATION FairSpec
CONSTANTS
  Workers = {w1, w2, w3}
  Tasks = {t1, t2}
  Nobody = Nobody
  NoTask = NoTask
INVARIANTS TypeOK TaskConservation DrainedOnReturn QueuedTaskHasTaker NoSleeperNeeded
PROPERTIES EveryTaskRuns DestructorReturnsIfAllAwake ImplementsTaskExecutor
CHECK_DEADLOCK FALSE
