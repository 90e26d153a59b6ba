----------------------------- MODULE Calculators -----------------------------
(***************************************************************************)
(* The screens that compute: the farm and stable summaries, the animal,    *)
(* production and speed calculators.  What a screen shows is recomputed    *)
(* from its inputs, the catalog and the farm after every edit, so its      *)
(* state is those inputs and a result is a state function.                 *)
(*                                                                         *)
(* Numbers are those a user types in the animal calculator, which takes    *)
(* negative ones too; None is an emptied or garbled field.  The hectares   *)
(* of a field and the heads of a stable are bounded by MaxNumber.          *)
(***************************************************************************)
EXTENDS AnimalEngine, ProductionEngine, WorkSpeedEngine

CONSTANTS
  Ids,          \* of fields, stables, buildings, chains and machines
  Farms,        \* the farms the user has
  Bonuses,      \* the bonuses a field can have of its own
  CropChoices,  \* what a field can hold: None, a crop, one the catalog lost
  OwnChains,    \* the chains a user has put together
  Machines,     \* the machines a user owns: id -> width and speed
  Numbers,
  Areas,        \* that can be typed in the speed calculator, None for no number
  MaxNumber

ASSUME FarmsAssumption == Farms \subseteq FarmContext
ASSUME RowsAssumption == IsFiniteSet(Ids) /\ Bonuses \subseteq Nat
ASSUME InputsAssumption ==
  MaxNumber \in Nat /\ Numbers \subseteq Int /\ Areas \subseteq Nat \cup {None}
ASSUME ChainsAssumption == \A chain \in OwnChains : IsUserChain(chain)
ASSUME MachinesAssumption ==
  /\ IsFiniteSet(DOMAIN Machines)
  /\ \A m \in DOMAIN Machines : Machines[m] \in SpeedMachineInput

VARIABLES
  screen,   \* the screen that is open
  farm,     \* the active farm, as the engine reads it
  shown     \* the inputs of that screen

vars == <<screen, farm, shown>>

Typed == Numbers \cup {None}
TypedShares == -1 .. One + 1 \cup {None}
TypedIn(key) == IF key = "boughtShare" THEN TypedShares ELSE Typed
Empty == [id \in {} |-> None]

Field == [crop : CropChoices, hectares : Nat, bonus : Nat \cup {None},
          silage : BOOLEAN]
Stable == [species : SpeciesAll, count : Nat, capacity : Nat]
-----------------------------------------------------------------------------
(* The inputs of the animal calculator (calculator-config/model/defaults.ts, *)
(* animal-calculator-panels: speciesMeta.ts and AnimalInputsPanel.vue).      *)
Visible(sp) ==
  {"count", "bonus"} \cup
  (CASE sp \in Ruminants ->
          {"feedType", "straw", "grassHarvests", "silageCrop", "sellCount"}
     [] sp = "chicken" -> {"boughtShare", "feed", "grown"}
     [] sp \in {"sheep", "goat"} -> {"grassHarvests", "sellCount"}
     [] sp = "pig" -> {"straw", "sellCount", "base", "grain", "protein", "root"}
     [] sp = "horse" -> {"straw", "grassHarvests", "sellCount", "base", "root"})

FirstPick(a, p) ==
  CASE p = "feed" -> IF a.bought = <<>> THEN "wheat" ELSE First(a.bought)
    [] p = "grown" -> First(a.fieldwork)
    [] OTHER -> IF p \in DOMAIN a.components THEN First(a.components[p].crops)
                                             ELSE None

DefaultInputs(sp) ==
  LET a == AnimalTypes[sp]
  IN [species |-> sp, count |-> 0, bonus |-> None,
      feedType |-> IF sp \in Ruminants THEN "tmr" ELSE None,
      straw |-> sp \in {"cow", "buffalo", "pig", "horse"},
      grassHarvests |-> IF sp \in {"chicken", "pig"} THEN None ELSE 2,
      silageCrop |-> IF sp \in Ruminants THEN First(a.silageCrops) ELSE None,
      sellCount |-> 0,
      boughtShare |-> IF sp = "chicken" THEN 0 ELSE None,
      pick |-> [p \in Picks |-> IF p \in Visible(sp) THEN FirstPick(a, p)
                                                     ELSE None]]

\* setNum: what is not a number is stored as 0.
Stored(text) == OrElse(text, 0)

FeedTypesOffered(sp) == IF sp = "cow" THEN FeedTypes ELSE FeedTypes \ {"simple"}

CropsOffered(a, p) ==
  CASE p = "feed" -> Range(a.bought)
    [] p = "grown" -> Range(a.fieldwork)
    [] OTHER -> IF p \in DOMAIN a.components THEN Range(a.components[p].crops)
                                             ELSE {}
-----------------------------------------------------------------------------
Init ==
  /\ farm \in Farms
  /\ \/ screen = "fields" /\ shown = Empty
     \/ screen = "stables" /\ shown = Empty
     \/ screen = "production" /\ shown = [b \in Ids |-> Empty]
     \/ screen = "herd" /\ \E sp \in DOMAIN AnimalTypes : shown = DefaultInputs(sp)
     \/ \E e \in MinEfficiency .. MaxEfficiency :
          screen = "speed" /\ shown = [team |-> {}, area |-> 0, efficiency |-> e]

\* Another farm is made active, or this one is edited.
ChangeFarm ==
  /\ farm' \in Farms \ {farm}
  /\ UNCHANGED <<screen, shown>>

Show(name, inputs) ==
  /\ screen = name
  /\ shown' = inputs
  /\ UNCHANGED <<screen, farm>>

With(rows, id, row) ==
  [x \in DOMAIN rows \cup {id} |-> IF x = id THEN row ELSE rows[x]]
Put(id, row) == With(shown, id, row)

EditField(f) ==
  \E crop \in CropChoices, hectares \in 1 .. MaxNumber,
     bonus \in Bonuses \cup {None}, silage \in BOOLEAN :
    Show("fields", Put(f, [crop |-> crop, hectares |-> hectares,
                           bonus |-> bonus, silage |-> silage]))

EditStable(s) ==
  \E sp \in DOMAIN AnimalTypes, capacity \in 0 .. MaxNumber :
    \E count \in 0 .. capacity :
      Show("stables", Put(s, [species |-> sp, count |-> count,
                              capacity |-> capacity]))

RemoveRow(id) ==
  /\ screen \in {"fields", "stables"}
  /\ id \in DOMAIN shown
  /\ shown' = Restrict(shown, DOMAIN shown \ {id})
  /\ UNCHANGED <<screen, farm>>

TypeNumber(key, text) ==
  /\ screen = "herd"
  /\ key \in Visible(shown.species)
  /\ Show("herd", [shown EXCEPT ![key] = Stored(text)])

PickFeedType ==
  /\ screen = "herd"
  /\ "feedType" \in Visible(shown.species)
  /\ \E type \in FeedTypesOffered(shown.species) :
       Show("herd", [shown EXCEPT !.feedType = type])

PickCrop ==
  /\ screen = "herd"
  /\ \E p \in Picks \cap Visible(shown.species) :
       \E crop \in CropsOffered(AnimalTypes[shown.species], p) :
         Show("herd", [shown EXCEPT !.pick[p] = crop])

PickSilage ==
  /\ screen = "herd"
  /\ "silageCrop" \in Visible(shown.species)
  /\ \E crop \in Range(AnimalTypes[shown.species].silageCrops) :
       Show("herd", [shown EXCEPT !.silageCrop = crop])

ToggleStraw ==
  /\ screen = "herd"
  /\ "straw" \in Visible(shown.species)
  /\ Show("herd", [shown EXCEPT !.straw = ~@])

\* The form of a production building: its chains, their state and overrides.
EditChain(b, c) ==
  \E chain \in OwnChains :
    Show("production", [shown EXCEPT ![b] = With(@, c, chain)])

RemoveChain(b, c) ==
  /\ screen = "production"
  /\ c \in DOMAIN shown[b]
  /\ Show("production", [shown EXCEPT ![b] = Restrict(@, DOMAIN @ \ {c})])

ToggleMachine(m) ==
  Show("speed", [shown EXCEPT !.team = IF m \in @ THEN @ \ {m} ELSE @ \cup {m}])

SetArea(text) == Show("speed", [shown EXCEPT !.area = text])

SetEfficiency(text) ==
  Show("speed", [shown EXCEPT !.efficiency = ClampEfficiency(text)])

Next ==
  \/ ChangeFarm
  \/ \E id \in Ids : EditField(id) \/ EditStable(id) \/ RemoveRow(id)
  \/ \E key \in {"count", "bonus", "grassHarvests", "sellCount", "boughtShare"} :
       \E text \in TypedIn(key) : TypeNumber(key, text)
  \/ PickFeedType \/ PickCrop \/ PickSilage \/ ToggleStraw
  \/ \E b, c \in Ids : EditChain(b, c) \/ RemoveChain(b, c)
  \/ \E m \in DOMAIN Machines : ToggleMachine(m)
  \/ \E text \in Areas : SetArea(text)
  \/ \E text \in TypedShares : SetEfficiency(text)

Spec == Init /\ [][Next]_vars
-----------------------------------------------------------------------------
(* What the screens show.                                                    *)
Summary == FarmSummary(shown, farm)
Herd == AnimalProjection(shown, farm)
Speed == WorkSpeedProjection(Restrict(Machines, shown.team), shown.area,
                             shown.efficiency)

\* The inputs are such as the program can hold, and every result is one the
\* engine declares: no projection is undefined (NaN) on any of them.
TypeOK ==
  /\ farm \in FarmContext
  /\ CASE screen = "fields" ->
            /\ \A f \in DOMAIN shown : shown[f] \in Field
            /\ \A f \in Assigned(shown) :
                 Projected(shown, f, farm) \in CropResult
       [] screen = "stables" -> \A s \in DOMAIN shown : shown[s] \in Stable
       [] screen = "production" ->
            \A b \in Ids :
              /\ \A c \in DOMAIN shown[b] : IsUserChain(shown[b][c])
              /\ IsProductionResult(ProductionProjection(shown[b]))
       [] screen = "herd" -> shown \in AnimalInputs /\ IsAnimalResult(Herd)
       [] screen = "speed" ->
            /\ shown.team \subseteq DOMAIN Machines
            /\ shown.efficiency \in MinEfficiency .. MaxEfficiency
            /\ IsWorkSpeedResult(Speed)

\* A field with a bonus of its own is worth what it would be, without one, on
\* a farm with that bonus -- also when that bonus is 0.
OverridesAreFarmsOfTheirOwn ==
  screen = "fields" => \A f \in Assigned(shown) :
    shown[f].bonus # None =>
      Projected(shown, f, farm) =
        CropProjection(shown[f].crop, [shown[f] EXCEPT !.bonus = None],
                       [farm EXCEPT !.bonus = shown[f].bonus])

\* A field that is harvested as what it grows is worth what the comparison
\* table says of its crop, and each line of the income table is the income the
\* field would show under that difficulty; silage has one price all year.
FieldAgreesWithTheTables ==
  screen = "fields" => \A f \in Assigned(shown) :
    LET p == Projected(shown, f, farm)
        c == shown[f].crop
    IN /\ p.gross = p.income[farm.difficulty]
       /\ ~p.silage => p.income = IncomeByDifficulty(c, shown[f].hectares,
                                    p.bonus, farm.sell)
       /\ ~p.silage /\ shown[f].bonus = None =>
            p.gross = CompareCrops(shown[f].hectares, farm)[c].gross
       /\ p.silage => p.baseline = p.maxSeasonal

\* The distribution by crop parts the farm: its rows add up to the totals, and
\* no field is in two rows, or in none although its crop is known.
SummaryAddsUp ==
  screen = "fields" =>
    LET rows == Summary.distribution
        Rows(value(_)) == SumOver(DOMAIN rows, value)
    IN /\ Rows(LAMBDA c : rows[c].hectares) = Summary.assignedHectares
       /\ Rows(LAMBDA c : rows[c].gross) = Summary.totalGross
       /\ Rows(LAMBDA c : rows[c].fieldCount) = Cardinality(Assigned(shown))

\* The totals of the stables are those of the species, empty stables included.
StablesAddUp ==
  screen = "stables" =>
    LET rows == SummarizeBySpecies(shown)
        Rows(value(_)) == SumOver(DOMAIN rows, value)
        all == TotalsOf(shown)
    IN /\ Rows(LAMBDA sp : rows[sp].animals) = all.animals
       /\ Rows(LAMBDA sp : rows[sp].capacity) = all.capacity
       /\ Rows(LAMBDA sp : rows[sp].stableCount) = all.stableCount
       /\ AtMost(all.utilization, Ratio(1, 1))

\* What a herd eats is accounted for, once: grown and bought feed together are
\* the food consumed, whatever share is typed; a herd of a negative count is fed
\* nothing.  "Simple" feed is the exception the code makes: grass and silage are
\* each listed for all of it.
FeedIsAccounted ==
  screen = "herd" /\ shown.species \in {"cow", "buffalo", "chicken", "sheep", "goat"} =>
    LET listed == SumOver({r \in Herd.needs : r.key # "straw-bedding"},
                          LAMBDA r : r.liters)
        food == PerYear(Herd.consumption, "food")
        times == IF shown.feedType = "simple" THEN 2 ELSE 1
    IN listed = IF food > 0 THEN food * One * times ELSE 0

\* The bonus of a herd is one of its fields: another bonus changes neither what
\* the animals give nor what they eat or earn, straw takes the same land, and a
\* higher one never asks for more land.  (With a bonus of -100 % or less nothing
\* grows, and the code asks for no land at all.)
SameAnimals(old, new) ==
  <<new.production, new.consumption, new.net>>
    = <<old.production, old.consumption, old.net>>
NoMoreLand(old, new) ==
  \A r \in old, s \in new :
    r.key = s.key => /\ AtMost(s.area, r.area)
                     /\ r.slug = "straw" => s.area = r.area
LandFollowsTheBonus ==
  screen = "herd" => \A b \in Bonuses :
    LET other == AnimalProjection([shown EXCEPT !.bonus = b], farm)
        bonus == EffectiveBonus(shown.bonus, farm)
    IN /\ SameAnimals(Herd, other)
       /\ One + bonus > 0 =>
            IF b >= bonus THEN NoMoreLand(Herd.needs, other.needs)
                          ELSE NoMoreLand(other.needs, Herd.needs)

\* Without straw there is neither bedding nor manure, and nothing is needed
\* that was not needed with it.
StrawOffAsksForNothing ==
  screen = "herd" /\ "straw" \in Visible(shown.species) =>
    LET bare == AnimalProjection([shown EXCEPT !.straw = FALSE], farm)
    IN /\ PerYear(bare.consumption, "straw") = 0
       /\ PerYear(bare.production, "manure") = 0
       /\ bare.needs \subseteq Herd.needs

\* The running chains of a building share one month among them, whatever idle,
\* incomplete or stale chains stand beside them; an override is honoured, 0 too.
ChainsShareTheMonth ==
  screen = "production" => \A b \in Ids :
    LET running == {c \in Resolvable(shown[b]) : shown[b][c].active}
    IN \A c \in Resolvable(shown[b]) :
         LET cycles == ChainCycles(shown[b], c)
         IN IF c \in running
            THEN /\ cycles.n = OrElse(shown[b][c].cycles,
                                      ResolveChain(shown[b][c]).cycles)
                 /\ cycles.d = Cardinality(running)
            ELSE cycles.n = 0

\* The farm's totals are the sums over every chain of every building, in and
\* out; the net of a slug may be negative.
ProductionAddsUp ==
  screen = "production" =>
    LET lines == {l \in Ids \X Ids : l[2] \in Resolvable(shown[l[1]])}
        items == ProductionFarmSummary(shown).items
        Out(s) == SumRatios(lines, LAMBDA l : ChainOutput(shown[l[1]], l[2], s))
        In(s)  == SumRatios(lines, LAMBDA l : ChainInput(shown[l[1]], l[2], s))
    IN \A s \in DOMAIN items :
         /\ Same(items[s].outputs, Out(s))
         /\ Same(items[s].inputs, In(s))
         /\ Same(items[s].net, Minus(Out(s), In(s)))

\* The clock of the speed calculator is the time to the nearest minute, and
\* never shows sixty of them.
ClockIsTheTime ==
  screen = "speed" /\ Speed.workHours # None =>
    LET t == Speed.workHours
        shownMinutes == 60 * Speed.hours + Speed.minutes
    IN /\ Speed.minutes \in 0 .. 59
       /\ 2 * (shownMinutes * t.d - 60 * t.n) \in -t.d .. t.d

\* A machine more in the team, or a better efficiency, never makes the work
\* longer, and the team is never slower than one of it alone.
TeamsGetFaster ==
  screen = "speed" /\ Speed.workHours # None =>
    /\ \A m \in DOMAIN Machines, e \in shown.efficiency .. MaxEfficiency :
         LET more == WorkSpeedProjection(Restrict(Machines, shown.team \cup {m}),
                                         shown.area, e)
         IN more.workHours # None /\ AtMost(more.workHours, Speed.workHours)
    /\ \A m \in shown.team :
         Speed.machines[m].soloHours # None =>
           AtMost(Speed.workHours, Speed.machines[m].soloHours)

(* What the runs check: the parts above, by subject.                         *)
\* A field is worth what it grows, under its own bonus or the farm's.
FieldsAreWorthTheirCrops == OverridesAreFarmsOfTheirOwn /\ FieldAgreesWithTheTables

\* Every total on a screen is the sum over the parts it is a total of: over
\* fields, stables and species, and the chains that share a month.
TotalsAddUp == /\ SummaryAddsUp /\ StablesAddUp
               /\ ChainsShareTheMonth /\ ProductionAddsUp

\* A herd is fed once, from the land its feed takes, and lies on straw or not.
HerdsAreFed == FeedIsAccounted /\ LandFollowsTheBonus /\ StrawOffAsksForNothing

\* The time a team takes is shown to the minute, and shrinks with the team.
TimesAreRight == ClockIsTheTime /\ TeamsGetFaster
=============================================================================
