SPECIFICATION Spec
CONSTANTS
  Posts = {q1, q2}
  Polls = {g1}
  Conns = {c1, c2}
  Rooms = {r1, r2}
  NoRoom = NoRoom
  None = None
  Workers = 1
  Second = 1
  Window = 1
  Retention = 2
  CacheMax = 2
  MaxAhead = 0
  MaxStall = 0
  EndOfTime = 2
  MaxMoves = 1
  MaxToggles = 1
SYMMETRY MCSymmetry
INVARIANTS TypeOK   
CHECK_DEADLOCK FALSE
