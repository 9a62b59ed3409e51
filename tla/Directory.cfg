SPECIFICATION Spec
CONSTANTS
  a = a
  b = b
  Proc = {a, b}
  First = a
  Sector = {0, 1, 2}
  ROOT = 0
  Name <- Names
  MaxFd = 4
  MaxFiles = 1
  Machines <- SmallMachines
INVARIANTS TypeOK CountsExact
PROPERTY TreeKept
