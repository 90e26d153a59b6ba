SPECIFICATION Spec
CONSTANTS
  t1 = t1
  t2 = t2
  farm = farm
  None = None
  Empty = Empty
  Client = Client
  Requests = {t1, t2, Client}
  Tabs = {t1, t2}
  Farms = {farm}
  Ids = {1, 2, 3, 4}
  KeysOf <- MCKeysOf
  Silage = {"c1"}
  TabsOn <- MCTabsOn
  MaxEdits <- MCMaxEdits
  MaxSaves <- MCMaxSaves
  MaxLost = 1
  MaxChains = 2
  ChainIds = {1, 2, 3, 4, 5, 6, 7, 8, 9}
  MaxIO = 1
  RowNames = {"mill", "still"}
  Numbers = {1, 2}
  RecipesOf <- MCRecipesOf
  SlugOf <- MCSlugOf
  ClientCalls <- MCClientCalls
  First <- MCFirst
SYMMETRY Symmetry
INVARIANTS
  RowsAreSound
  UntouchedFormsAreHarmless
  OnlyRecipesLeak
  DialogsFitTogether
  OneRowPerDialog
PROPERTIES
  PatchesKeepTheRest
CHECK_DEADLOCK FALSE
