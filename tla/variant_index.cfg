SPECIFICATION Spec
CONSTANTS
  Vars = {a, b, com}
  ComVar = com
  Types = {int, bool}
  Summable = {int}
  Width = 2
  MaxLen = 2
  Empty = Empty
  Cells = {c1, c2, c3, c4, c5}
  Null = Null
  Free = Free
  IndexShared = TRUE
PROPERTIES
  CopyOnWrite
VIEW View
