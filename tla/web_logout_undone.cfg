SPECIFICATION Spec
CONSTANTS
  b1 = b1
  b2 = b2
  d1 = d1
  d2 = d2
  Tabs = {b1}
  Stores = {d1}
  StoreOf <- OneDevice
  Slots = {s1, s2}
  Users = {u1}
  MaxToken = 3
  Overlap = TRUE
  Reloads = FALSE
  Offline = FALSE
  NoCall = NoCall
  Null = Null
INVARIANTS
  SignedOutHoldsNothing
CHECK_DEADLOCK FALSE
