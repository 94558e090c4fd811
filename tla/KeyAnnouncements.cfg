SPECIFICATION Spec
CONSTANTS
  Configs <- MCConfigs
  None = None
  Rotation = 6
  Grace = 5
  Refresh = 2
  RateLimit = 1
  Delay = 1
  Transit = 1
  MaxUses = 2
  EndOfTime = 12
INVARIANTS TypeOK RequestsUnderstood 
CHECK_DEADLOCK FALSE
