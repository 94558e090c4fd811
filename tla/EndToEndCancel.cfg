SPECIFICATION SystemSpec
CONSTANTS
  d1 = d1
  e1 = e1
  TaskId = {d1, e1}
  Elsewhere = {e1}
  UI = UI
  Caps = {0}
  DefaultCap = 1
  MaxRestarts = 0
  MaxCapChanges = 0
INVARIANT NoRefMeansOver
CHECK_DEADLOCK FALSE
