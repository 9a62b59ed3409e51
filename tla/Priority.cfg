SPECIFICATION Spec
CONSTANTS
  Thread = {"a", "b", "c"}
  Idle = "idle"
  LockOrder <- Two
  None = None
  EndOfList = EndOfList
  Prios = {0, 1, 2}
  Machines <- SmallMachines
INVARIANTS TypeOK LocksExclude NoLostWakeup DonationPlain HighestRuns
PROPERTY AlarmsOnTime
CHECK_DEADLOCK FALSE
