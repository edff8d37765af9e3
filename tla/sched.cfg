SPECIFICATION FairSpec
CONSTANTS
  Slaves = {s1, s2}
  Local = Local
  Prompt = {s1}
  Workers = {w1}
  None = None
  Loads = {0, 1}
  Unknown = 2
  MaxFaild = 2
INVARIANTS
  TypeOK
  ListedOpen
  Ordered
  PromptKept
PROPERTIES
  FitLeast
  SilentEvicted
  StopReturns
CHECK_DEADLOCK FALSE
