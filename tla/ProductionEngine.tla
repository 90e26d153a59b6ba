-------------------------- MODULE ProductionEngine --------------------------
(***************************************************************************)
(* Monthly quantities of production buildings                              *)
(* (web/app/shared/lib/engine/productionEngine.ts) and of all buildings of *)
(* a farm (widgets/production-calculator-panel/model/*.ts).                *)
(*                                                                         *)
(* The active chains of a building share its month: each runs its cycles   *)
(* divided by their number.  Labels and the order of the lines are left    *)
(* out; a recipe lists a slug once on each side.                           *)
(***************************************************************************)
EXTENDS Quantities

CONSTANT CatalogChains    \* slug -> the chain of the catalog

\* A chain of the user: a catalog chain with overrides, or one of its own.
\* Each side of a recipe is a function from slugs to quantities per cycle.
IsUserChain(chain) ==
  LET IsRecipe(x) == x = None \/ \A slug \in DOMAIN x : x[slug] \in Nat
  IN /\ chain.catalog \in STRING \cup {None} /\ chain.active \in BOOLEAN
     /\ chain.cycles \in Nat \cup {None}
     /\ IsRecipe(chain.inputs) /\ IsRecipe(chain.outputs)

ASSUME ChainCatalogAssumption ==
  \A slug \in DOMAIN CatalogChains :
    LET cat == CatalogChains[slug]
    IN /\ cat.cycles \in Nat
       /\ \A x \in DOMAIN cat.inputs : cat.inputs[x] \in Nat
       /\ \A x \in DOMAIN cat.outputs : cat.outputs[x] \in Nat

Stale(chain) == chain.catalog # None /\ chain.catalog \notin DOMAIN CatalogChains
Incomplete(chain) ==
  chain.catalog = None /\ None \in {chain.cycles, chain.inputs, chain.outputs}

\* The chains that take part: a stale reference is skipped.
Resolvable(building) ==
  {c \in DOMAIN building : ~Stale(building[c]) /\ ~Incomplete(building[c])}

ResolveChain(chain) ==
  LET cat == IF chain.catalog = None THEN chain ELSE CatalogChains[chain.catalog]
  IN [active |-> chain.active, cycles |-> OrElse(chain.cycles, cat.cycles),
      inputs |-> OrElse(chain.inputs, cat.inputs),
      outputs |-> OrElse(chain.outputs, cat.outputs)]

SlipSharesWithTheIdle(building) == Resolvable(building)
ActiveChains(building) == {c \in Resolvable(building) : building[c].active}

EffectiveCycles(cycles, activeCount) ==
  IF activeCount = 0 THEN Zero ELSE Ratio(cycles, activeCount)

ChainCycles(building, c) ==
  IF building[c].active
  THEN EffectiveCycles(ResolveChain(building[c]).cycles,
                       Cardinality(ActiveChains(building)))
  ELSE Zero

QuantityPerMonth(recipe, slug, cycles) ==
  IF slug \in DOMAIN recipe THEN Ratio(recipe[slug] * cycles.n, cycles.d) ELSE Zero

\* chainProjection: what one chain takes and gives in a month.
ChainInput(building, c, slug) ==
  QuantityPerMonth(ResolveChain(building[c]).inputs, slug, ChainCycles(building, c))
ChainOutput(building, c, slug) ==
  QuantityPerMonth(ResolveChain(building[c]).outputs, slug, ChainCycles(building, c))

Slugs(building) ==
  UNION {DOMAIN ResolveChain(building[c]).inputs
           \cup DOMAIN ResolveChain(building[c]).outputs : c \in Resolvable(building)}

IsProductionResult(r) ==
  LET IsQuantity(q) == q.n \in Nat /\ q.d > 0
  IN /\ r.activeCount \in Nat
     /\ \A s \in DOMAIN r.inputs : IsQuantity(r.inputs[s])
     /\ \A s \in DOMAIN r.outputs : IsQuantity(r.outputs[s])

\* aggregateBySlug over the chains of one building.
ProductionProjection(building) ==
  [activeCount |-> Cardinality(ActiveChains(building)),
   inputs |-> [s \in Slugs(building) |->
      SumRatios(Resolvable(building), LAMBDA c : ChainInput(building, c, s))],
   outputs |-> [s \in Slugs(building) |->
      SumRatios(Resolvable(building), LAMBDA c : ChainOutput(building, c, s))]]

\* useProductionFarmSummary: the totals of all buildings, net per slug.
SlipCountsTheFirstOnly(buildings, s) ==
  LET Has == {b \in DOMAIN buildings : s \in Slugs(buildings[b])}
  IN IF Has = {} THEN {} ELSE {CHOOSE b \in Has : TRUE}
Handling(buildings, s) == {b \in DOMAIN buildings : s \in Slugs(buildings[b])}

ProductionFarmSummary(buildings) ==
  LET In(s)  == SumRatios(Handling(buildings, s),
                  LAMBDA b : ProductionProjection(buildings[b]).inputs[s])
      Out(s) == SumRatios(Handling(buildings, s),
                  LAMBDA b : ProductionProjection(buildings[b]).outputs[s])
  IN [items |-> [s \in UNION {Slugs(buildings[b]) : b \in DOMAIN buildings} |->
                   [inputs |-> In(s), outputs |-> Out(s),
                    net |-> Minus(Out(s), In(s))]],
      activeChains |-> SumOver(DOMAIN buildings,
                         LAMBDA b : ProductionProjection(buildings[b]).activeCount)]
=============================================================================
