SPECIFICATION FairSpec
CONSTANTS
  Parallels = 2
  Tasks = {t1}
  None = None
  Loop = Loop
  MayDestroy = TRUE
PROPERTY
  DestructorReturns
CHECK_DEADLOCK FALSE
