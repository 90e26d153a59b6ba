SPECIFICATION Spec
CONSTANTS
  Requests = {r1, r2, r3, r4, r5}
  Users = {u1, u2}
  TTL = 1
  Grace = 1
  Overlap = TRUE
  NoRow = NoRow
  Null = Null
SYMMETRY Symmetry
INVARIANTS
  ChainIntact
  CleanupNeverBlocked
  ClosedStaysClosed
PROPERTIES
  SessionsEndForAReason
