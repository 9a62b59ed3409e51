SPECIFICATION FairSpec
CONSTANTS
  Main = main
  Idle = idle
  NoSema = none
  Thread = {main, idle, a, b}
  Sema <- Semaphores
  Projects = {2, 3, 4}
INVARIANTS TypeOK ExecHonestIn2And4 WaitHonestIn4 NeverWaitsForDeadIn2
PROPERTIES RunsOnThreads ExecReturns
