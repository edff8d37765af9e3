SPECIFICATION FairSpec
CONSTANTS
  Clients = {a}
  Servers = {s}
  None = None
  k1 = k1
  k2 = k2
  k3 = k3
  Conns = {k1, k2}
  Name <- Distinct
  Workers = {w}
  Empty = Empty
  MaxExecs = 1
  Cyclic = TRUE
  MaxTimeouts = 0
  MaxFaults = 0
  MaxRestarts = 1
  MaxMoves = 0
PROPERTIES
  Reconnects
CHECK_DEADLOCK FALSE
