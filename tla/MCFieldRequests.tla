--------------------------- MODULE MCFieldRequests ---------------------------
(* Model-checking instance of FieldRequests: two game versions, a crop both  *)
(* have, which only the first can ensile, and a crop only the first has.     *)
EXTENDS FieldRequests, TLC

MCSlugs == {"maize", "oat"}
Maize1 == [slug |-> "maize", version |-> "fs22"]
Maize2 == [slug |-> "maize", version |-> "fs25"]
Oat1 == [slug |-> "oat", version |-> "fs22"]
MCVersions == {"fs22", "fs25"}
MCCatalog == {Maize1, Maize2, Oat1}
MCSilage == {Maize1}

Symmetry == Permutations(Requests)
=============================================================================
