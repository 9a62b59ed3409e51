SPECIFICATION Spec
CONSTANTS
  Main = main
  Idle = idle
  NoSema = none
  Thread = {main, idle, a, b, c}
  Sema <- Semaphores
  Projects = {4}
  MaxCalls = 2
  SpareBlocks = 1
SYMMETRY Symmetry
INVARIANTS TypeOK ExtendsAlone CountsExact WaitersAreOwed SomebodyMoves
