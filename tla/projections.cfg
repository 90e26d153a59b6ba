SPECIFICATION Spec
CONSTANTS
  None = None
  One = 4
  Crops <- MCCrops
  SilageCrops <- MCSilageCrops
  Silage <- MCSilage
  IncomeScalars <- MCIncomeScalars
  CropNames <- MCCropNames
  AnimalTypes <- MCAnimalTypes
  BuffaloSlurry = 3
  StrawBonus = 1
  MineralFeedPrice = 1
  GrassYield = 2
  StrawYield = 1
  MilkScalars <- MCMilkScalars
  FeedPrices <- MCFeedPrices
  CatalogChains <- MCCatalogChains
  Ids = {1, 2}
  Farms <- MCFarms
  Bonuses <- MCBonuses
  CropChoices <- MCCropChoices
  OwnChains <- MCOwnChains
  Machines <- MCMachines
  Numbers <- MCNumbers
  Areas <- MCAreas
  MaxNumber = 2
INVARIANTS
  TypeOK
  FieldsAreWorthTheirCrops
  TotalsAddUp
  HerdsAreFed
  TimesAreRight
