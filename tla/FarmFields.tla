----------------------------- MODULE FarmFields -----------------------------
(***************************************************************************)
(* What the field endpoints of one farm promise, as operations that take   *)
(* effect at once: a field is planned with a crop of the farm's game       *)
(* version, sown, and harvested exactly once per sowing, which leaves an   *)
(* entry in the history for as long as the field exists; moving the farm   *)
(* to another game version takes the crops along; deleting the farm takes  *)
(* everything along.                                                       *)
(* FieldRequests implements it when requests do not overlap.               *)
(***************************************************************************)
CONSTANTS
  Fields,     \* ids a field can be given
  Catalog,    \* the crops of every game version: [slug, version]
  Versions,   \* the game versions
  Null

VARIABLES
  version,    \* the farm's game version, Null once the farm is deleted
  crop,       \* by existing field: the crop assigned to it, or Null
  sown,       \* the fields that are sown
  history     \* the harvests on record: [id, field, crop]

vars == <<version, crop, sown, history>>

CropsOf(v) == {c \in Catalog : c.version = v} \cup {Null}

Existing == DOMAIN crop

Init ==
  /\ version \in Versions
  /\ crop = [f \in {} |-> Null]
  /\ sown = {}
  /\ history = {}

\* Create a field, or assign another crop to it.
Plan(f, c) ==
  /\ version # Null
  /\ c \in CropsOf(version)
  /\ crop' = [g \in Existing \cup {f} |-> IF g = f THEN c ELSE crop[g]]
  /\ UNCHANGED <<version, sown, history>>

Drop(f) ==
  /\ f \in Existing
  /\ crop' = [g \in Existing \ {f} |-> crop[g]]
  /\ sown' = sown \ {f}
  /\ history' = {h \in history : h.field # f}
  /\ UNCHANGED version

Sow(f) ==
  /\ f \in Existing \ sown
  /\ crop[f] # Null
  /\ sown' = sown \cup {f}
  /\ UNCHANGED <<version, crop, history>>

CancelSow(f) ==
  /\ f \in sown
  /\ sown' = sown \ {f}
  /\ UNCHANGED <<version, crop, history>>

Harvest(f, id) ==
  /\ f \in sown
  /\ \A h \in history : h.id # id
  /\ history' = history \cup {[id |-> id, field |-> f, crop |-> crop[f]]}
  /\ sown' = sown \ {f}
  /\ crop' = [crop EXCEPT ![f] = Null]
  /\ UNCHANGED version

\* Each crop becomes the crop of the same slug, or none if there is none.
Move(v) ==
  /\ version \notin {v, Null}
  /\ version' = v
  /\ crop' \in [Existing -> CropsOf(v)]
  /\ \A f \in Existing :
       LET same == {c \in CropsOf(v) \ {Null} :
                      crop[f] # Null /\ c.slug = crop[f].slug}
       IN IF same = {} THEN crop'[f] = Null ELSE crop'[f] \in same
  /\ UNCHANGED <<sown, history>>

DropFarm ==
  /\ version # Null
  /\ version' = Null
  /\ crop' = [f \in {} |-> Null]
  /\ sown' = {}
  /\ history' = {}

Next ==
  \/ \E f \in Fields : \/ \E c \in Catalog \cup {Null} : Plan(f, c)
                       \/ Drop(f) \/ Sow(f) \/ CancelSow(f)
                       \/ \E id \in Fields : Harvest(f, id)
  \/ \E v \in Versions : Move(v)
  \/ DropFarm

Spec == Init /\ [][Next]_vars
=============================================================================
