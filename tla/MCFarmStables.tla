---------------------------- MODULE MCFarmStables ----------------------------
(* Model-checking instance of FarmStables: two versions, the second without  *)
(* maize, and the bodies that set the checks against one another.            *)
EXTENDS FarmStables, TLC

MCCropsOf == [fs22 |-> {"maize", "oat"}, fs25 |-> {"oat"}]
MCSilageOf == [fs22 |-> {"maize"}, fs25 |-> {}]
MCVersions == {"fs22", "fs25"}
MCSlugs == {"maize", "oat"}
MCSpecies == {"cow", "pig"}
Plain == [fits |-> MCSpecies, key |-> "component", crop |-> Null]
MaizeSilage == [fits |-> {"cow"}, key |-> "silageCrop", crop |-> "maize"]
OatSilage == [fits |-> {"cow"}, key |-> "silageCrop", crop |-> "oat"]
OatFeed == [fits |-> {"pig"}, key |-> "component", crop |-> "oat"]
MCConfigs == {Plain, MaizeSilage, OatSilage, OatFeed}
MCNames == {"barn", "shed"}

Barn(config) == [name |-> "barn", species |-> "cow", maxCapacity |-> 2,
                 currentCount |-> 1, config |-> config]
MCBodies == {Barn(Plain), Barn(MaizeSilage), Barn(OatSilage)}

Nothing == [name |-> Keep, species |-> Keep, maxCapacity |-> Keep,
            currentCount |-> Keep, config |-> Keep]
MCPatches ==
  {[Nothing EXCEPT !.name = "shed"], [Nothing EXCEPT !.species = "pig"],
   [Nothing EXCEPT !.maxCapacity = 1], [Nothing EXCEPT !.currentCount = 2],
   [Nothing EXCEPT !.config = MaizeSilage], Nothing,
   [Nothing EXCEPT !.species = "pig", !.config = OatFeed],
   [Nothing EXCEPT !.name = "barn", !.config = Plain]}

Symmetry == Permutations(Requests)
=============================================================================
