SPECIFICATION Spec
CONSTANTS
  Main = main
  Idle = idle
  NoSema = none
  Thread = {main, idle, a, b}
  Sema <- Semaphores
  Projects = {4}
INVARIANT NeverWaitsForDead
