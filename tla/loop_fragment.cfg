SPECIFICATION Spec
CONSTANTS
  Conns = {c1}
  Fds = {f1, f2}
  Workers = {w1, w2}
  None = None
  Listener = Listener
  Awake = Awake
  Torn = Torn
  MaxReq = 1
  Window = 1
  Fragmenting = TRUE
  MayLeave = FALSE
  BufSize = 2
  DrainMsgs = 32
INVARIANT
  TailPutBack
