---------------------------- MODULE AnimalEngine ----------------------------
(***************************************************************************)
(* Herd projections (web/app/shared/lib/engine/animalEngine.ts) and the    *)
(* bridge from the calculator's inputs to them (useAnimalProjection.ts).   *)
(*                                                                         *)
(* An area of field is liters / yield in square metres (the code divides   *)
(* by 10000 once more).  Liters of feed carry one unit 1/One, liters of a  *)
(* product two.                                                            *)
(***************************************************************************)
EXTENDS CropEngine, Sequences

CONSTANTS
  CropNames,       \* the slugs of what animals are fed and bedded with
  AnimalTypes,     \* species -> the animal type of the catalog
  BuffaloSlurry,   \* the slurry rate of a buffalo without straw (5400)
  StrawBonus, MineralFeedPrice, GrassYield, StrawYield,
  MilkScalars,     \* sell price type -> scalar
  FeedPrices       \* slug of bought feed -> price

SpeciesAll == {"cow", "buffalo", "chicken", "sheep", "goat", "pig", "horse"}
Ruminants == {"cow", "buffalo"}
FeedTypes == {"tmr", "simple", "hay", "grass"}
MonthsPerYear == 12

Picks == {"feed", "grown", "base", "grain", "protein", "root"}
FieldworkKeys == {"hay", "grass", "silage", "tmr-straw", "mineralFeed",
                  "straw-bedding"} \cup Picks
RateKeys == {"milk", "eggs", "wool", "food", "slurry", "manure", "straw"}

IsAnimalType(a) ==
  LET IsAmounts(x) == x = None \/ \A k \in DOMAIN x : x[k] \in Nat
  IN /\ a.species \in SpeciesAll /\ a.scalars \in [Difficulties -> Nat]
     /\ a.salePrice \in Nat \cup {None}
     /\ a.product # None => /\ a.product.price \in Nat
                            /\ a.product.scalar \in Nat \cup {None}
     /\ DOMAIN a.rates \subseteq RateKeys
     /\ \A key \in DOMAIN a.rates : a.rates[key] \in Int
     /\ IsAmounts(a.factors) /\ IsAmounts(a.ratios)
     /\ {a.silageCrops, a.bought, a.fieldwork} \subseteq Seq(CropNames)
     /\ DOMAIN a.components \subseteq Picks \cup {"hay"}
     /\ \A p \in DOMAIN a.components : /\ a.components[p].liters \in Nat
                                       /\ a.components[p].crops \in Seq(CropNames)

ASSUME NamesAssumption ==
  /\ {"wheat", "grass", "straw", "mineralFeed"} \subseteq CropNames
  /\ None \notin CropNames \cup FeedTypes

ASSUME AnimalCatalogAssumption ==
  /\ \A sp \in DOMAIN AnimalTypes :
       IsAnimalType(AnimalTypes[sp]) /\ AnimalTypes[sp].species = sp
  /\ {BuffaloSlurry, StrawBonus, MineralFeedPrice, GrassYield, StrawYield}
       \subseteq Nat
  /\ MilkScalars \in [SellPrices -> Nat]
  /\ \A slug \in DOMAIN FeedPrices : FeedPrices[slug] \in Nat

\* What every animal type the seed writes has (api/src/db/seeds/animalTypes.ts),
\* and nothing in the schema asks for: food and straw are what animals use up,
\* the parts of a mixed ration add up to it, a product is not a residue; straw
\* is not a crop of its own (crops.ts, silageCrops.ts).
ASSUME RationsAssumption ==
  /\ \A sp \in DOMAIN AnimalTypes :
       LET a == AnimalTypes[sp]
       IN /\ \A key \in DOMAIN a.rates : a.rates[key] < 0 <=> key \in {"food", "straw"}
          /\ a.product # None =>
               a.product.slug \in {"milk", "buffalo_milk", "goat_milk", "eggs", "wool"}
          /\ sp \in Ruminants =>
               /\ a.silageCrops # <<>> /\ a.ratios # None
               /\ DOMAIN a.ratios = {"hay", "silage", "straw", "mineral"}
               /\ a.ratios.hay + a.ratios.silage + a.ratios.straw + a.ratios.mineral = One
  /\ "straw" \notin DOMAIN Crops \cup DOMAIN SilageCrops

\* The inputs of the calculator; each species reads only some of the keys.
\* pick holds the crops chosen for the parts of the feed.  Nothing keeps a user
\* from typing a negative number.
AnimalInputs ==
  [species : SpeciesAll, count : Int, bonus : Int \cup {None},
   feedType : FeedTypes \cup {None}, straw : BOOLEAN,
   grassHarvests : Int \cup {None}, silageCrop : CropNames \cup {None},
   sellCount : Int, boughtShare : Int \cup {None},
   pick : [Picks -> CropNames \cup {None}]]

FieldworkRequirement ==
  [key : FieldworkKeys, slug : CropNames \cup {None}, liters : Nat,
   area : [n : Nat, d : Nat \ {0}], cost : Nat]

IsAnimalResult(r) ==
  LET IsAmounts(x) == \A key \in DOMAIN x : key \in RateKeys /\ x[key] \in Int
  IN /\ IsAmounts(r.production) /\ IsAmounts(r.consumption)
     /\ {r.product, r.productRevenue, r.salesRevenue, r.net} \subseteq Int
     /\ r.feedCost \in Nat /\ r.needs \subseteq FieldworkRequirement
     /\ r.area.n \in Nat /\ r.area.d > 0

First(slugs) == IF slugs = <<>> THEN None ELSE slugs[1]
-----------------------------------------------------------------------------
FeedFactor(a, feedType) ==
  IF a.factors # None /\ feedType \in DOMAIN a.factors
  THEN a.factors[feedType] ELSE One

StrawFactor(straw) == IF straw THEN One + StrawBonus ELSE One

\* Residues and bedding follow the straw; a buffalo's slurry has two rates.
SlipBeddingWithoutStraw(species, key, rate, straw) ==
  IF species = "buffalo" /\ key = "slurry"
  THEN IF straw THEN rate ELSE BuffaloSlurry
  ELSE IF species \in {"cow", "buffalo", "pig", "horse"} /\ key = "manure"
       THEN IF straw THEN rate ELSE 0
       ELSE rate
GatedRate(species, key, rate, straw) ==
  IF species = "buffalo" /\ key = "slurry"
  THEN IF straw THEN rate ELSE BuffaloSlurry
  ELSE IF species \in {"cow", "buffalo", "pig", "horse"}
            /\ key \in {"manure", "straw"}
       THEN IF straw THEN rate ELSE 0
       ELSE rate

\* What multiplies the product line only, in units of One twice.
ProductMultiplier(a, in) ==
  CASE a.species = "cow" -> FeedFactor(a, in.feedType) * StrawFactor(in.straw)
    [] a.species = "buffalo" -> FeedFactor(a, in.feedType) * One
    [] OTHER -> One * One

\* The rate that is the sellable product: cow, buffalo and goat produce "milk".
ProductKeys(a) ==
  IF a.product = None THEN {"milk", "eggs", "wool"}
  ELSE IF a.product.slug \in {"milk", "buffalo_milk", "goat_milk"}
       THEN {"milk"} ELSE {a.product.slug}

Production(a, in, farm) ==
  [key \in {k \in DOMAIN a.rates : a.rates[k] >= 0} |->
     in.count * IF key \in ProductKeys(a)
                THEN a.rates[key] * ProductMultiplier(a, in)
                ELSE GatedRate(a.species, key, a.rates[key], in.straw) * One * One]

Consumption(a, in) ==
  [key \in {k \in DOMAIN a.rates : a.rates[k] < 0} |->
     -GatedRate(a.species, key, a.rates[key], in.straw) * in.count]

PerYear(amounts, key) ==
  IF key \in DOMAIN amounts THEN amounts[key] * MonthsPerYear ELSE 0

ProductPrice(a, farm) ==
  IF a.product = None THEN 0
  ELSE a.product.price * OrElse(a.product.scalar, MilkScalars[farm.sell])
-----------------------------------------------------------------------------
(* The fieldwork: what has to be grown or bought to feed the herd.           *)
AreaFor(liters, yield) == IF yield <= 0 THEN Zero ELSE Ratio(liters, yield)

Need(key, slug, liters, yield) ==
  [key |-> key, slug |-> slug, liters |-> liters,
   area |-> AreaFor(liters, yield), cost |-> 0]
Bought(key, slug, liters, price) ==
  [key |-> key, slug |-> slug, liters |-> liters, area |-> Zero,
   cost |-> liters * price]

CropYield(slug, bonus) ==
  IF slug \in DOMAIN Crops THEN Crops[slug].yield * (One + bonus) ELSE 0
SilageYield(slug, bonus) ==
  IF slug \in DOMAIN SilageCrops
  THEN SilageCrops[slug].yield * SilageCrops[slug].chaff * (One + bonus) ELSE 0

GrassNeed(key, in, bonus, liters) ==
  Need(key, "grass", liters,
       GrassYield * (One + bonus) * OrElse(in.grassHarvests, 1))

\* Straw bedding takes no bonus, and counts for a TMR only.
SlipBonusOnStraw(key, liters, bonus) ==
  Need(key, "straw", liters, StrawYield * (One + bonus))
StrawNeed(key, liters, bonus) == Need(key, "straw", liters, StrawYield * One)

RuminantFieldwork(a, in, bonus, food, bedding) ==
  LET feedType == OrElse(in.feedType, "tmr")
      slug     == OrElse(in.silageCrop, First(a.silageCrops))
      Silaged(liters) ==
        IF slug = None THEN {}
        ELSE {Need("silage", slug, liters, SilageYield(slug, bonus))}
  IN IF food <= 0 THEN {}
     ELSE CASE feedType = "tmr" /\ a.ratios # None ->
                 {GrassNeed("hay", in, bonus, food * a.ratios.hay),
                  StrawNeed("tmr-straw", food * a.ratios.straw, bonus),
                  Bought("mineralFeed", "mineralFeed", food * a.ratios.mineral,
                         MineralFeedPrice)}
                 \cup Silaged(food * a.ratios.silage)
                 \cup (IF bedding > 0
                       THEN {StrawNeed("straw-bedding", bedding * One, bonus)}
                       ELSE {})
            [] feedType = "simple" ->
                 {GrassNeed("grass", in, bonus, food * One)} \cup Silaged(food * One)
            [] feedType \in {"hay", "grass"} ->
                 {GrassNeed(feedType, in, bonus, food * One)}
            [] OTHER -> {}

SlipShareNotClamped(in) == OrElse(in.boughtShare, 0)
BoughtShare(in) == Clamp(OrElse(in.boughtShare, 0), 0, One)

ChickenFieldwork(a, in, bonus, food) ==
  LET bought == food * BoughtShare(in)
      grown  == food * (One - BoughtShare(in))
      feed   == OrElse(in.pick["feed"], First(a.bought))
      crop   == OrElse(in.pick["grown"], First(a.fieldwork))
  IN (IF bought > 0
      THEN {Bought("feed", feed, bought,
              IF feed \in DOMAIN FeedPrices THEN FeedPrices[feed] ELSE 0)}
      ELSE {})
     \cup (IF grown > 0
           THEN {Need("grown", crop, grown, CropYield(crop, bonus))} ELSE {})

\* Pigs and horses eat components; the calculator picks a crop for each.
ComponentFieldwork(a, in, bonus) ==
  LET Liters(c) == a.components[c].liters * MonthsPerYear * in.count * One
      Slug(c)   == OrElse(in.pick[c], First(a.components[c].crops))
  IN {IF c = "hay" THEN GrassNeed("hay", in, bonus, Liters(c))
      ELSE Need(c, Slug(c), Liters(c), CropYield(Slug(c), bonus)) :
        c \in {d \in DOMAIN a.components : Liters(d) > 0}}

Fieldwork(a, in, farm) ==
  LET bonus   == EffectiveBonus(in.bonus, farm)
      food    == PerYear(Consumption(a, in), "food")
      bedding == PerYear(Consumption(a, in), "straw")
  IN CASE a.species \in Ruminants -> RuminantFieldwork(a, in, bonus, food, bedding)
       [] a.species = "chicken" -> ChickenFieldwork(a, in, bonus, food)
       [] a.species \in {"pig", "horse"} -> ComponentFieldwork(a, in, bonus)
       [] a.species \in {"sheep", "goat"} ->
            IF food > 0 THEN {GrassNeed("grass", in, bonus, food * One)} ELSE {}
-----------------------------------------------------------------------------
AnimalProjection(in, farm) ==
  LET a == AnimalTypes[in.species]
      needs == Fieldwork(a, in, farm)
      production == Production(a, in, farm)
      product == SumOver(ProductKeys(a), LAMBDA k : PerYear(production, k))
      productRevenue == product * ProductPrice(a, farm)
                          * a.scalars[farm.difficulty]
      salesRevenue == OrElse(in.sellCount, 0) * OrElse(a.salePrice, 0)
      feedCost == SumOver(needs, LAMBDA r : r.cost)
  IN [production |-> production, consumption |-> Consumption(a, in),
      product |-> product, productRevenue |-> productRevenue,
      salesRevenue |-> salesRevenue, feedCost |-> feedCost,
      net |-> productRevenue + salesRevenue * One * One - feedCost * One,
      needs |-> needs, area |-> SumRatios(needs, LAMBDA r : r.area)]
=============================================================================
