SPECIFICATION FairSpec
CONSTANTS
  p1 = p1
  p2 = p2
  a1 = a1
  a2 = a2
  Peers = {p1, p2}
  Hostnames = {h1}
  Addresses = {a1, a2}
  NoAddress = NoAddress
  Rooms = {r1}
  NoRoom = NoRoom
  MaxPeers = 2
  FirstProbes = {f1}
  Loop = Loop
  None = None
INVARIANTS TypeOK OneClaimant
PROPERTIES OutsiderIsDropped MemberIsVerified
CHECK_DEADLOCK FALSE
