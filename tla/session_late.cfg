SPECIFICATION Spec
CONSTANTS
  Clients = {a}
  Servers = {s1, s2}
  None = None
  k1 = k1
  k2 = k2
  k3 = k3
  Conns = {k1, k2}
  Name <- Reused
  Workers = {w}
  Empty = Empty
  MaxExecs = 5
  Cyclic = FALSE
  MaxTimeouts = 1
  MaxFaults = 1
  MaxRestarts = 1
  MaxMoves = 1
INVARIANTS
  
  CacheServed
CHECK_DEADLOCK FALSE
