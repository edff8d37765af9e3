SPECIFICATION FairSpec
CONSTANTS
  Parallels = 3
  Tasks = {t1, t2, t3}
  None = None
  Loop = Loop
  MayDestroy = TRUE
INVARIANTS
  TypeOK
  WorkConserving
PROPERTIES
  ImplementsTaskQueue
  QueuedIsRun
CHECK_DEADLOCK FALSE
