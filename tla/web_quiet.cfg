SPECIFICATION Spec
CONSTANTS
  b1 = b1
  b2 = b2
  d1 = d1
  d2 = d2
  Tabs = {b1, b2}
  Stores = {d1, d2}
  StoreOf <- DeviceEach
  Slots = {s1, s2}
  Users = {u1}
  MaxToken = 3
  Overlap = FALSE
  Reloads = TRUE
  Offline = FALSE
  NoCall = NoCall
  Null = Null
SYMMETRY SlotSymmetry
INVARIANTS
  RefreshesAreLive
  SignedOutHoldsNothing
PROPERTIES
  OthersSurvive
CHECK_DEADLOCK FALSE
