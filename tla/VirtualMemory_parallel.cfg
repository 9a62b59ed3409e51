SPECIFICATION Spec
CONSTANTS
  a = a
  b = b
  Proc = {a, b}
  NoProc = none
  VPage = {1, 2, 3}
  Kind <- Kinds
  Top = 2
  Word = {1}
  Machines <- Parallel
PROPERTY MemoryKept
