SPECIFICATION Spec
CONSTANTS
  Requests = {r1, r2, r3, r4, r5}
  Emails = {ana, ben}
  Names = {home, hill}
  DefaultName = home
  Absent = Absent
  Null = Null
SYMMETRY Symmetry
INVARIANTS
  NamesAreUnique
  ActiveFarmIsOwned
PROPERTIES
  ImplementsAccounts
CHECK_DEADLOCK FALSE
