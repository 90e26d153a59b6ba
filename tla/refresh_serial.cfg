SPECIFICATION FairSpec
CONSTANTS
  Requests = {r1, r2, r3, r4}
  Users = {u1}
  TTL = 1
  Grace = 1
  Overlap = FALSE
  NoRow = NoRow
  Null = Null
INVARIANTS
  SingleUse
PROPERTIES
  KilledFamilyEnds
  ImplementsUserSessions
  ExpiredRowsArePurged
