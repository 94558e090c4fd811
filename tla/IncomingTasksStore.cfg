SPECIFICATION Spec
CONSTANTS
  t1 = t1
  t2 = t2
  t3 = t3
  TaskId = {t1, t2}
  UI = UI
  Caps = {0}
  DefaultCap = 2
  MaxRestarts = 1
  MaxCapChanges = 1
INVARIANTS TypeOK ExecutedAtMostOnce OneOwner RunningIsExecuted QueuedIsOwned NothingLeaks
PROPERTIES KeepsLedger OutcomeIsFinal
SYMMETRY Symmetry
CHECK_DEADLOCK FALSE
