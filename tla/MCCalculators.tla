---------------------------- MODULE MCCalculators ----------------------------
(* Two crops, one of them also silage; a catalog with every kind of animal;  *)
(* one building recipe of the catalog, and one chain that outlived its own.  *)
EXTENDS Calculators, TLC

MCCrops ==
  [wheat |-> [yield |-> 1, price |-> 2, factor |-> 2, seed |-> 1, weight |-> 3],
   maize |-> [yield |-> 2, price |-> 1, factor |-> 3, seed |-> 1, weight |-> 2]]
MCSilageCrops == [maize |-> [yield |-> 1, chaff |-> 2]]
MCSilage == [price |-> 1, weight |-> 2]
MCIncomeScalars == [easy |-> 3, normal |-> 2, hard |-> 1]
MCCropChoices == {None, "wheat", "maize", "gone"}
MCBonuses == {0, 1}
MCFarms == {[difficulty |-> "easy", bonus |-> b, sell |-> s] :
              b \in MCBonuses, s \in SellPrices}
           \cup {[difficulty |-> "hard", bonus |-> 1, sell |-> "baseline"]}

Bare == [scalars |-> MCIncomeScalars, salePrice |-> 2, product |-> None,
         factors |-> None, ratios |-> None, silageCrops |-> <<>>,
         bought |-> <<>>, fieldwork |-> <<>>, components |-> [p \in {} |-> None]]
MCFactors == [tmr |-> 4, simple |-> 4, hay |-> 3, grass |-> 2]
MCRatios == [hay |-> 1, silage |-> 1, straw |-> 1, mineral |-> 1]

MCAnimalTypes ==
  [cow |-> [species |-> "cow", product |-> [slug |-> "milk", price |-> 1, scalar |-> None],
            rates |-> [milk |-> 2, slurry |-> 1, manure |-> 1, straw |-> -1, food |-> -1],
            factors |-> MCFactors, ratios |-> MCRatios, silageCrops |-> <<"maize">>] @@ Bare,
   buffalo |-> [species |-> "buffalo",
            product |-> [slug |-> "buffalo_milk", price |-> 2, scalar |-> None],
            rates |-> [milk |-> 1, slurry |-> 1, manure |-> 1, straw |-> -1, food |-> -1],
            factors |-> [tmr |-> 4, hay |-> 3, grass |-> 2], ratios |-> MCRatios,
            silageCrops |-> <<"maize">>] @@ Bare,
   chicken |-> [species |-> "chicken", product |-> [slug |-> "eggs", price |-> 1, scalar |-> 2],
            rates |-> [eggs |-> 2, food |-> -1], salePrice |-> None,
            bought |-> <<"wheat", "barley">>, fieldwork |-> <<"wheat", "maize">>] @@ Bare,
   sheep |-> [species |-> "sheep", product |-> [slug |-> "wool", price |-> 1, scalar |-> 2],
            rates |-> [wool |-> 1, food |-> -2]] @@ Bare,
   goat |-> [species |-> "goat", product |-> [slug |-> "goat_milk", price |-> 1, scalar |-> 2],
            rates |-> [milk |-> 1, food |-> -1]] @@ Bare,
   pig |-> [species |-> "pig",
            rates |-> [slurry |-> 1, manure |-> 1, straw |-> -1],
            components |-> [base |-> [liters |-> 2, crops |-> <<"maize">>],
                            grain |-> [liters |-> 1, crops |-> <<"wheat", "maize">>]]] @@ Bare,
   horse |-> [species |-> "horse",
            rates |-> [manure |-> 1, straw |-> -1],
            components |-> [hay |-> [liters |-> 2, crops |-> <<>>],
                            root |-> [liters |-> 0, crops |-> <<"wheat">>]]] @@ Bare]
MCCropNames == {"wheat", "barley", "maize", "grass", "straw", "mineralFeed"}
MCMilkScalars == [baseline |-> 1, max_seasonal |-> 2]
MCFeedPrices == [wheat |-> 1]

MCCatalogChains ==
  [mill |-> [active |-> FALSE, cycles |-> 3, inputs |-> [wheat |-> 2],
             outputs |-> [flour |-> 1]]]
FromCatalog(slug, active, cycles) ==
  [catalog |-> slug, active |-> active, cycles |-> cycles,
   inputs |-> None, outputs |-> None]
MCOwnChains ==
  {FromCatalog("mill", TRUE, None), FromCatalog("mill", TRUE, 0),
   FromCatalog("mill", FALSE, None), FromCatalog("gone", TRUE, None),
   [catalog |-> None, active |-> TRUE, cycles |-> 2, inputs |-> [flour |-> 1],
    outputs |-> [bread |-> 3]],
   [catalog |-> None, active |-> TRUE, cycles |-> None, inputs |-> None,
    outputs |-> None]}

\* Below -One nothing grows.
MCNumbers == {-5, -1, 0, 1, 2}
\* The plough works 12 ha in 59.5 minutes.
MCAreas == {None, 0, 1, 12}
MCMachines ==
  [plough |-> [width |-> 11, speed |-> 11], seeder |-> [width |-> 2, speed |-> 5],
   broken |-> [width |-> 3, speed |-> 0]]
=============================================================================
