SPECIFICATION FairSpec
CONSTANTS
  Main = main
  Idle = idle
  NoSema = none
  Thread = {main, idle, a, b}
  Sema = {s1, s2}
  MaxValue = 2
  Projects = {2, 3, 4}
INVARIANTS TypeOK ListsAgree NoLostWakeup
PROPERTIES ReadyRuns SemaphoresKept AskersAreGranted
