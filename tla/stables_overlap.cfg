SPECIFICATION Spec
CONSTANTS
  Requests = {r1, r2, r3, r4}
  Versions <- MCVersions
  Slugs <- MCSlugs
  CropsOf <- MCCropsOf
  SilageOf <- MCSilageOf
  Species <- MCSpecies
  Configs <- MCConfigs
  Names <- MCNames
  Bodies <- MCBodies
  Patches <- MCPatches
  Absent = Absent
  Null = Null
  Keep = Keep
SYMMETRY Symmetry
INVARIANTS
  StablesAreSound
  ConfigFitsSpecies
PROPERTIES
  WritesNameKnownCrops
  PatchesChangeWhatTheyName
CHECK_DEADLOCK FALSE
