SPECIFICATION FairSpec
CONSTANTS
  Conns = {c1, c2}
  Fds = {f1, f2}
  Workers = {w1, w2}
  None = None
  Listener = Listener
  Awake = Awake
  Torn = Torn
  MaxReq = 2
  Window = 1
  Fragmenting = FALSE
  MayLeave = FALSE
  BufSize = 2
  DrainMsgs = 5
INVARIANTS
  TypeOK
  NoRace
  DrainReturns
PROPERTIES
  ImplementsExchange
  Answered
