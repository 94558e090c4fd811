SPECIFICATION FairSpec
CONSTANTS
  d1 = d1
  Dispatches = {d1}
  MaxRestarts = 1
INVARIANTS TypeOK ReportedOutcomeIsTrue DoneIsSettled 
PROPERTIES  DispatchReturns
CHECK_DEADLOCK FALSE
