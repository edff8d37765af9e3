SPECIFICATION FairSpec
CONSTANTS
  Base = 4
  PROTO_HEAD = 3
  Cmds = {0, 1}
  CrcStep <- Step4
  IfAck = TRUE
  Packets <- Answers
  MaxPackets = 2
  Half <- HalfSmall
  Grain = 3
  Floats <- FewFloats
  Texts = {hello, world}
  MaxItems = 1
INVARIANTS
  TypeOK
  InOrder
  NothingLost
  DamageSeen
PROPERTIES
  Returns
CHECK_DEADLOCK FALSE
