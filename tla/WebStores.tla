------------------------------ MODULE WebStores ------------------------------
(***************************************************************************)
(* The stores of the browser (web/app/entities/*/model/*.store.ts) and the *)
(* API as they use it.                                                     *)
(*                                                                         *)
(* JavaScript runs a continuation to its end: everything a click or an     *)
(* answer sets off before the next await is one step.  So the state of the *)
(* page is one record, web, the functions of the stores are operators from *)
(* such a record to the next, and a request that was sent is a member of   *)
(* web.calls with what waits for its answer (for).  The page that sent it  *)
(* may be gone when the answer comes (mounted).                            *)
(*                                                                         *)
(* A row is its id and a number that stands for its columns.  The five     *)
(* stores of rows that belong to a farm are one text five times.           *)
(***************************************************************************)
EXTENDS Integers, FiniteSets, SequencesExt

CONSTANTS
  Farms,     \* farm ids, numbers: the API lists them in this order
  Versions,  \* game versions
  Ids,       \* ids of rows
  OwnerOf,   \* id -> the farm it is created for
  None,      \* null and undefined
  Failed     \* what a call that throws answers

Kinds == {"fields", "harvests", "stables", "machinery", "buildings"}
Active == "active"          \* ACTIVE_KEY
Keys == Versions \cup {Active}

ASSUME FarmsAssumption == Farms \subseteq Nat
ASSUME OwnerAssumption == OwnerOf \in [Ids -> Farms]

Without(f, S) == Restrict(f, DOMAIN f \ S)
Nothing == [x \in {} |-> None]
Single(x, value) == [y \in {x} |-> value]
\* What f says, and elsewhere what g says.
Over(f, g) ==
  [x \in DOMAIN f \cup DOMAIN g |-> IF x \in DOMAIN f THEN f[x] ELSE g[x]]
-----------------------------------------------------------------------------
(* The API, as far as the browser can tell.  Every request is carried out in *)
(* one step: s is what the API has, c a call.                                *)
RowsOf(s, k, f) == Restrict(s.rows[k], {id \in DOMAIN s.rows[k] : OwnerOf[id] = f})
\* Ids are UUIDs: what is deleted does not come back (s.gone).
FreeIds(s, k, f) ==
  {id \in Ids \ DOMAIN s.rows[k] : OwnerOf[id] = f /\ <<k, id>> \notin s.gone}
FreeFarms(s) == {f \in Farms \ DOMAIN s.farms : <<"farm", f>> \notin s.gone}

\* Answered with an error: not found, or no room in the model.
Refused(s, c) ==
  CASE c.op \in {"farms", "settings", "catalog"} -> FALSE
    [] c.op = "createFarm" -> FreeFarms(s) = {}
    [] c.op = "pin" -> c.farm # None /\ c.farm \notin DOMAIN s.farms
    [] OTHER -> \/ c.farm \notin DOMAIN s.farms
                \/ c.op = "create" /\ FreeIds(s, c.kind, c.farm) = {}
                \/ /\ c.op \in {"update", "remove", "harvest"}
                   /\ c.id \notin DOMAIN RowsOf(s, c.kind, c.farm)

NewRow(s, c) == Single(CHOOSE id \in FreeIds(s, c.kind, c.farm) : TRUE, 0)

CarriedOut(s, c) ==
  IF Refused(s, c) THEN s ELSE
  CASE c.op = "createFarm" ->
         [s EXCEPT !.farms = Over(Single(Min(FreeFarms(s)), c.body), @)]
    [] c.op = "updateFarm" -> [s EXCEPT !.farms[c.farm] = c.body]
    [] c.op = "deleteFarm" ->
         [farms |-> Without(s.farms, {c.farm}),
          pin |-> IF s.pin = c.farm THEN None ELSE s.pin,
          rows |-> [k \in Kinds |-> Without(s.rows[k], DOMAIN RowsOf(s, k, c.farm))],
          gone |-> s.gone \cup {<<"farm", c.farm>>},
          configs |-> [s.configs EXCEPT ![c.farm] = None],
          picks |-> [s.picks EXCEPT ![c.farm] = None]]
    [] c.op = "pin" -> [s EXCEPT !.pin = c.farm]
    [] c.op = "create" -> [s EXCEPT !.rows[c.kind] = Over(NewRow(s, c), @)]
    [] c.op = "update" -> [s EXCEPT !.rows[c.kind][c.id] = 1 - @]
    [] c.op = "remove" ->
         [s EXCEPT !.rows[c.kind] = Without(@, {c.id}),
                   !.gone = @ \cup {<<c.kind, c.id>>}]
    [] c.op = "harvest" ->
         [s EXCEPT !.rows["fields"][c.id] = 1 - @,
                   !.rows["harvests"] = IF FreeIds(s, "harvests", c.farm) = {} THEN @
                     ELSE Over(NewRow(s, [c EXCEPT !.kind = "harvests"]), @)]
    [] c.op \in {"saveConfig", "dropConfig"} -> [s EXCEPT !.configs[c.farm] = c.body]
    [] c.op = "saveState" -> [s EXCEPT !.picks[c.farm] = c.body]
    [] OTHER -> s

Answered(s, c) ==
  IF Refused(s, c) THEN Failed ELSE
  CASE c.op = "farms" -> s.farms
    [] c.op = "settings" -> s.pin
    [] c.op = "pin" -> c.farm
    [] c.op = "createFarm" -> Min(FreeFarms(s))
    [] c.op = "list" -> RowsOf(s, c.kind, c.farm)
    [] c.op = "create" -> NewRow(s, c)
    [] c.op \in {"update", "harvest"} ->
         Single(c.id, CarriedOut(s, c).rows[c.kind][c.id])
    [] c.op = "config" -> s.configs[c.farm]
    [] c.op = "state" -> s.picks[c.farm]
    [] c.op = "saveConfig" -> c.body
    [] OTHER -> None
-----------------------------------------------------------------------------
(* Requests.                                                                 *)
\* Who waits for an answer, and what is asked for them.
For(whom) == [for |-> whom, mounted |-> TRUE]
Call(c, op, kind, farm, id, body) ==
  [op |-> op, for |-> c.for, mounted |-> c.mounted, kind |-> kind,
   farm |-> farm, id |-> id, body |-> body]

Send(w, call) == [w EXCEPT !.calls = Append(@, call)]
InFlight(w, Test(_)) == \E i \in DOMAIN w.calls : Test(w.calls[i])
-----------------------------------------------------------------------------
(* The stores of a farm's rows: field, harvest-record, stable, machinery and *)
(* productionBuilding.                                                       *)
EmptyStore == [farm |-> None, rows |-> Nothing, loading |-> FALSE, failed |-> FALSE]

Load(w, k, f, c) ==
  Send([w EXCEPT !.store[k] = [farm |-> f, rows |-> w.store[k].rows,
                               loading |-> TRUE, failed |-> FALSE]],
       Call(c, "list", k, f, None, None))

SlipSpinsOn(w, c, answer) ==
  [w EXCEPT !.store[c.kind].loading = (answer = Failed),
            !.store[c.kind].failed = (answer = Failed),
            !.store[c.kind].rows = IF answer = Failed THEN @ ELSE answer]
Loaded(w, c, answer) ==
  LET store == w.store[c.kind]
  IN [w EXCEPT !.store[c.kind] =
       [farm |-> store.farm, rows |-> IF answer = Failed THEN store.rows ELSE answer,
        loading |-> FALSE, failed |-> (answer = Failed)]]

ResetRows(w, k) ==
  [w EXCEPT !.store[k].farm = None, !.store[k].rows = Nothing,
            !.store[k].failed = FALSE]

\* create, update, remove, sow, cancelSow, harvest: no flag but error matters.
Write(w, op, k, id) ==
  Send([w EXCEPT !.store[k].failed = FALSE],
       Call(For("page"), op, k, w.active, id, None))

SlipAppendsAnyRow(w, c, row) == Over(row, w.store[c.kind].rows)
Appended(w, c, row) ==
  IF w.store[c.kind].farm = c.farm THEN Over(row, w.store[c.kind].rows)
                                   ELSE w.store[c.kind].rows
Patched(w, c, row) ==
  IF c.id \in DOMAIN w.store[c.kind].rows THEN Over(row, w.store[c.kind].rows)
                                          ELSE w.store[c.kind].rows

Written(w, c, answer) ==
  IF answer = Failed THEN [w EXCEPT !.store[c.kind].failed = TRUE] ELSE
  CASE c.op = "create" -> [w EXCEPT !.store[c.kind].rows = Appended(w, c, answer)]
    [] c.op = "remove" -> [w EXCEPT !.store[c.kind].rows = Without(@, {c.id})]
    [] OTHER -> [w EXCEPT !.store[c.kind].rows = Patched(w, c, answer)]
-----------------------------------------------------------------------------
(* The catalog store: one fetch per version, kept for good; the version of   *)
(* the load that ends last is the current one.                               *)
SlipFetchesAgain(w, key) == FALSE
Fetching(w, key) ==
  InFlight(w, LAMBDA c : c.op = "catalog" /\ c.body = key /\ c.kind = "fetch")

SlipCurrentFromTheStart(w, key, c) ==
  Send([w EXCEPT !.current = key],
       Call(c, "catalog", IF Fetching(w, key) THEN "wait" ELSE "fetch",
            None, None, key))
FetchCatalog(w, key, c) ==
  Send(w, Call(c, "catalog", IF Fetching(w, key) THEN "wait" ELSE "fetch",
               None, None, key))

\* Those who wait for the fetch of a key, as the calls they are.
WaitingFor(w, key) ==
  {i \in DOMAIN w.calls : w.calls[i].op = "catalog" /\ w.calls[i].body = key}

Dropping(s, gone) ==
  LET kept[n \in 0..Len(s)] ==
        IF n = 0 THEN <<>>
        ELSE IF n \in gone THEN kept[n - 1] ELSE Append(kept[n - 1], s[n])
  IN kept[Len(s)]

Fetched(w, c, answer) ==
  LET w1 == [w EXCEPT !.calls = Dropping(@, WaitingFor(w, c.body))]
  IN IF answer = Failed THEN w1
     ELSE [w1 EXCEPT !.cached = @ \cup {c.body}, !.current = c.body]
-----------------------------------------------------------------------------
(* The farm store.                                                           *)
Version(w, f) == IF f \in DOMAIN w.farms THEN w.farms[f] ELSE None
FirstFarm(w) == IF w.farms = Nothing THEN None ELSE Min(DOMAIN w.farms)

LoadFarms(w, c) == Send(w, Call(c, "farms", None, None, None, None))
EnsureActive(w, c) == Send(w, Call(c, "settings", None, None, None, None))
SetActiveFarm(w, f, version, c) ==
  Send([w EXCEPT !.saving = TRUE],
       Call(c, "pin", None, f, None, version))
CreateFarm(w, v, c) ==
  Send([w EXCEPT !.saving = TRUE],
       Call(c, "createFarm", None, None, None, v))
UpdateFarm(w, f, v, c) ==
  Send([w EXCEPT !.saving = TRUE],
       Call(c, "updateFarm", None, f, None, v))
DeleteFarm(w, f, c) ==
  Send([w EXCEPT !.saving = TRUE],
       Call(c, "deleteFarm", None, f, None, None))
=============================================================================
