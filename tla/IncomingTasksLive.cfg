SPECIFICATION FairSpec
CONSTANTS
  t1 = t1
  t2 = t2
  t3 = t3
  TaskId = {t1, t2}
  UI = UI
  Caps = {0, 2}
  DefaultCap = 1
  MaxRestarts = 0
  MaxCapChanges = 0
PROPERTIES CancelKills SlotReturns 
CHECK_DEADLOCK FALSE
