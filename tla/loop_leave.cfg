SPECIFICATION FairSpec
CONSTANTS
  Conns = {c1, c2}
  Fds = {f1, f2}
  Workers = {w1, w2}
  None = None
  Listener = Listener
  Awake = Awake
  Torn = Torn
  MaxReq = 1
  Window = 1
  Fragmenting = FALSE
  MayLeave = TRUE
  BufSize = 2
  DrainMsgs = 32
PROPERTIES
  CloseHitsOwner
  LeaverReleased
INVARIANTS
  DescriptorsAccounted
  RepliesStayHome
CHECK_DEADLOCK FALSE
