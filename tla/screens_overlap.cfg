SPECIFICATION Spec
CONSTANTS
  None = None
  Failed = Failed
  Default = Default
  Farms = {1, 2}
  Versions = {"v1", "v2"}
  Ids = {11, 12, 21}
  OwnerOf <- MCOwnerOf
  VersionOf <- MCVersionOf
  First = {11, 21}
  Pages = {"dashboard", "fields", "harvests", "stables", "machinery", "production", "herd", "speed"}
  Actions = {"reload", "manage", "write", "edit"}
  MaxActs = 3
  MaxRushed = 1
  MaxLost = 1
INVARIANTS
  StoresAreCoherent
  
  SavedInputsComeBack
PROPERTIES
  PinIsKept
CHECK_DEADLOCK FALSE
