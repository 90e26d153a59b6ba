-------------------------- MODULE MCManagementForms --------------------------
(* Model-checking instance of ManagementForms: two tabs and another client   *)
(* on one of the four pages, with one or two rows at first.                  *)
EXTENDS ManagementForms, TLC

CONSTANTS t1, t2, farm

Mill == [name |-> "mill", type |-> "mill", notes |-> None, chains |->
         <<[id |-> 1, slug |-> "flour", active |-> TRUE, cycles |-> 2,
            inputs |-> <<1>>, outputs |-> <<1>>]>>]
Barn == [name |-> "barn", species |-> "cow", max |-> 2, count |-> 1,
         config |-> [feedType |-> "set"]]

Field(number, crop, bonus, sown) ==
  [number |-> number, crop |-> crop, silage |-> TRUE, bonus |-> bonus, sown |-> sown]

MCFirst ==
  [buildings |-> 1 :> Mill,
   machinery |-> 1 :> [name |-> "plough", size |-> 1],
   stables |-> 1 :> Barn,
   \* one to be harvested, and one that a version change left with a flag and a
   \* crop that cannot be ensiled
   fields |-> 1 :> Field(1, "c1", None, TRUE) @@ 2 :> Field(2, "c2", 0, FALSE)]

Twice == [p \in DOMAIN MCFirst |-> 2]
MCKeysOf == [cow |-> {"feedType", "provideStraw"}, pig |-> {"provideStraw", "baseCrop"}]
MCRecipesOf == [mill |-> {"flour"}]
MCSlugOf == [c1 |-> "maize", c2 |-> "oat"]

Calls(op, kind, bodies) ==
  {[op |-> op, kind |-> kind, farm |-> farm, id |-> 1, body |-> b] : b \in bodies}
MCClientCalls ==
  Calls("update", "buildings", {[type |-> "still", name |-> "still"],
                                [chains |-> Mill.chains \o Mill.chains]})
    \cup Calls("update", "machinery", {[size |-> 2], [k \in {} |-> 1]})
    \cup Calls("update", "fields", {[bonus |-> 0]})
    \cup Calls("harvest", "fields", {None})
    \cup Calls("put", "state", {"saved"})

MCTabsOn == [Twice EXCEPT !.buildings = 1, !.fields = 1]
MCMaxEdits == [Twice EXCEPT !.buildings = 3]
MCMaxSaves == [Twice EXCEPT !.fields = 3]

Symmetry == Permutations(Tabs)
=============================================================================
