----------------------------- MODULE CropEngine -----------------------------
(***************************************************************************)
(* Crop projections (web/app/shared/lib/engine/cropEngine.ts) and the      *)
(* summary of a farm's fields and stables built on them                    *)
(* (widgets/farm-summary/lib/summary.ts, stables-summary/lib/summarize.ts).*)
(*                                                                         *)
(* Names and the order of the rows are left out.  Volumes are in litres,   *)
(* tons in thousandths of the code's.                                      *)
(***************************************************************************)
EXTENDS Quantities

CONSTANTS
  Crops,          \* slug -> the crop, for the crops of the catalog
  SilageCrops,    \* slug -> its silage entry
  Silage,         \* price and weight of silage
  IncomeScalars   \* difficulty -> scalar

Difficulties == {"easy", "normal", "hard"}
SellPrices == {"baseline", "max_seasonal"}

EngineCrop == [yield : Nat, price : Nat, factor : Nat, seed : Nat, weight : Nat]
EngineSilageCrop == [yield : Nat, chaff : Nat]

ASSUME CropCatalogAssumption ==
  /\ \A c \in DOMAIN Crops : Crops[c] \in EngineCrop
  /\ \A c \in DOMAIN SilageCrops : SilageCrops[c] \in EngineSilageCrop
  /\ Silage \in [price : Nat, weight : Nat]
  /\ IncomeScalars \in [Difficulties -> Nat]

\* What a farm contributes to a projection.
FarmContext == [difficulty : Difficulties, bonus : Nat, sell : SellPrices]

\* A field as the projection reads it.
CropInput == [hectares : Nat, bonus : Nat \cup {None}, silage : BOOLEAN]

CropResult == [silage : BOOLEAN, bonus : Nat, liters : Nat, tons : Nat,
               price : Nat, gross : Nat, income : [Difficulties -> Nat],
               baseline : [Difficulties -> Nat],
               maxSeasonal : [Difficulties -> Nat], seed : Nat]
-----------------------------------------------------------------------------
AreaM2(hectares) == hectares * 10000

SlipZeroIsNoOverride(bonus, farm) ==
  IF bonus \in {None, 0} THEN farm.bonus ELSE bonus
EffectiveBonus(bonus, farm) == OrElse(bonus, farm.bonus)

PricePerLiter(c, sell) ==
  IF sell = "max_seasonal" THEN Crops[c].price * Crops[c].factor
                           ELSE Crops[c].price

SeedLiters(c, area) == area * Crops[c].seed
CropLiters(c, area, bonus) == area * Crops[c].yield * (One + bonus)
SilageLiters(c, area, bonus) ==
  area * SilageCrops[c].yield * SilageCrops[c].chaff * (One + bonus)

GrossByDifficulty(liters, price) ==
  [d \in Difficulties |-> liters * price * IncomeScalars[d]]

\* The comparison "income by difficulty" of a crop on an area.
IncomeByDifficulty(c, hectares, bonus, sell) ==
  GrossByDifficulty(CropLiters(c, AreaM2(hectares), bonus),
                    PricePerLiter(c, sell))

SlipSilageHasSeasons(c, silage, sell) ==
  IF silage /\ sell = "baseline" THEN Silage.price ELSE PricePerLiter(c, sell)
PriceOf(c, silage, sell) ==
  IF silage THEN Silage.price ELSE PricePerLiter(c, sell)

CropProjection(c, input, farm) ==
  LET silage == input.silage /\ c \in DOMAIN SilageCrops
      area   == AreaM2(input.hectares)
      bonus  == EffectiveBonus(input.bonus, farm)
      liters == IF silage THEN SilageLiters(c, area, bonus)
                          ELSE CropLiters(c, area, bonus)
      price  == PriceOf(c, silage, farm.sell)
      baseline    == GrossByDifficulty(liters, PriceOf(c, silage, "baseline"))
      maxSeasonal == GrossByDifficulty(liters, PriceOf(c, silage, "max_seasonal"))
  IN [silage |-> silage, bonus |-> bonus, liters |-> liters,
      tons |-> liters * (IF silage THEN Silage.weight ELSE Crops[c].weight),
      price |-> price, gross |-> liters * price * IncomeScalars[farm.difficulty],
      income |-> IF farm.sell = "max_seasonal" THEN maxSeasonal ELSE baseline,
      baseline |-> baseline, maxSeasonal |-> maxSeasonal,
      seed |-> SeedLiters(c, area)]

\* The comparison table: every crop on one area, no override, no silage.
CompareCrops(hectares, farm) ==
  [c \in DOMAIN Crops |->
     CropProjection(c, [hectares |-> hectares, bonus |-> None,
                        silage |-> FALSE], farm)]
-----------------------------------------------------------------------------
(* The summary of a farm.  fields: id -> [crop, hectares, bonus, silage],    *)
(* where crop is None or an id the catalog may not know (any more).          *)
Assigned(fields) == {f \in DOMAIN fields : fields[f].crop \in DOMAIN Crops}

Projected(fields, f, farm) ==
  CropProjection(fields[f].crop,
    [hectares |-> fields[f].hectares, bonus |-> fields[f].bonus,
     silage |-> fields[f].silage], farm)

SlipSilageIsACropOfItsOwn(fields, c) ==
  {f \in Assigned(fields) : fields[f].crop = c /\ ~fields[f].silage}
Growing(fields, c) == {f \in Assigned(fields) : fields[f].crop = c}

CropDistribution(fields, farm) ==
  LET Sum(c, Value(_)) == SumOver(Growing(fields, c), Value)
  IN [c \in {fields[f].crop : f \in Assigned(fields)} |->
       [fieldCount |-> Cardinality(Growing(fields, c)),
        hectares |-> Sum(c, LAMBDA f : fields[f].hectares),
        liters   |-> Sum(c, LAMBDA f : Projected(fields, f, farm).liters),
        gross    |-> Sum(c, LAMBDA f : Projected(fields, f, farm).gross)]]

FarmSummary(fields, farm) ==
  LET total    == SumOver(DOMAIN fields, LAMBDA f : fields[f].hectares)
      assigned == SumOver(Assigned(fields), LAMBDA f : fields[f].hectares)
  IN [fieldCount |-> Cardinality(DOMAIN fields), totalHectares |-> total,
      assignedHectares |-> assigned, fallowHectares |-> total - assigned,
      totalGross |-> SumOver(Assigned(fields),
                             LAMBDA f : Projected(fields, f, farm).gross),
      distribution |-> CropDistribution(fields, farm)]
-----------------------------------------------------------------------------
(* The summary of its stables.  stables: id -> [species, count, capacity].   *)
Utilization(animals, capacity) ==
  IF capacity <= 0 THEN Zero ELSE Ratio(animals, capacity)

HerdsOf(stables, S) ==
  LET animals  == SumOver(S, LAMBDA s : stables[s].count)
      capacity == SumOver(S, LAMBDA s : stables[s].capacity)
  IN [stableCount |-> Cardinality(S), animals |-> animals,
      capacity |-> capacity, utilization |-> Utilization(animals, capacity)]

SlipEmptyStablesLeftOut(stables, sp) ==
  {s \in DOMAIN stables : stables[s].species = sp /\ stables[s].count > 0}
Housing(stables, sp) == {s \in DOMAIN stables : stables[s].species = sp}

SummarizeBySpecies(stables) ==
  [sp \in {stables[s].species : s \in DOMAIN stables} |->
     HerdsOf(stables, Housing(stables, sp))]

TotalsOf(stables) == HerdsOf(stables, DOMAIN stables)
=============================================================================
