SPECIFICATION FairSpec
CONSTANTS
  Clients = {a, b}
  Servers = {s1}
  None = None
  k1 = k1
  k2 = k2
  k3 = k3
  Conns = {k1, k2}
  Name <- Distinct
  Workers = {w1, w2}
  Empty = Empty
  MaxExecs = 2
  Cyclic = TRUE
  MaxTimeouts = 0
  MaxFaults = 1
  MaxRestarts = 0
  MaxMoves = 0
INVARIANTS
  TypeOK
  OwnScript
  
  UploadOnce
PROPERTIES
  Results
CHECK_DEADLOCK FALSE
