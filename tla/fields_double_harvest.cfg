SPECIFICATION Spec
CONSTANTS
  Requests = {r1, r2, r3, r4}
  Versions <- MCVersions
  Slugs <- MCSlugs
  Catalog <- MCCatalog
  Silage <- MCSilage
  Absent = Absent
  Null = Null
  Keep = Keep
SYMMETRY Symmetry
PROPERTIES
  SownIsHarvestedOnce
CHECK_DEADLOCK FALSE
