----------------------------- MODULE FarmRecords -----------------------------
(***************************************************************************)
(* The API of the records a farm owns: production buildings, machinery and *)
(* the saved states of the calculators, request by request                 *)
(* (api/src/services/productionBuildings.service.ts, machinery.service.ts, *)
(* calculatorStates.service.ts and their repositories).                    *)
(*                                                                         *)
(* Between two awaits of a handler any other request may run: it reads the *)
(* farm, the row and the names that are taken, and writes a step later.    *)
(* The rows of all kinds are one function of the id; fields and stables    *)
(* take the same path, as far as a page sees it: the version of the farm   *)
(* and the harvest records are in FieldRequests, the crops that a config   *)
(* names in FarmStables.                                                   *)
(***************************************************************************)
EXTENDS Integers, Sequences

CONSTANTS
  Requests,   \* whoever sends one request at a time
  Farms, Ids,
  None,       \* NULL
  Empty,      \* '', the text of an input that is blank
  KeysOf,     \* species -> the keys its config may have
  Silage      \* the crops that can be ensiled

VARIABLES
  farms,      \* the farms there are
  rows,       \* id -> [kind, farm, cols]
  used,       \* ids are UUIDs: none is given twice
  states,     \* farm -> what its speed calculator saved
  req         \* request -> [at, call, answer, got]: got is the row answered

data == <<farms, rows, used, states>>
recordVars == <<farms, rows, used, states, req>>

\* The column of a kind that is unique in its farm; machines may be equal.
KeyOf == [buildings |-> "name", stables |-> "name", fields |-> "number"]
Keyed == DOMAIN KeyOf

\* The kinds whose service asks for the name first.  A field's number is left to
\* the constraint.
Prechecked == {"buildings", "stables"}

\* The POSTs that move a field on.
Transitions == {"sow", "cancelSow", "harvest"}

Idle == [at |-> "idle", call |-> None, answer |-> None, got |-> None]
-----------------------------------------------------------------------------
(* What the schemas accept of the columns p.  A chain is a recipe in a       *)
(* building; an entry of inputs and outputs is a quantity, 0 if it has no    *)
(* product yet.                                                              *)
Filled(list) == \A i \in DOMAIN list : list[i] > 0

Usable(c) ==
  /\ "id" \in DOMAIN c
  /\ c.cycles # Empty
  /\ c.inputs # None => Filled(c.inputs)
  /\ c.outputs # None => Filled(c.outputs)
  /\ c.slug = None => /\ None \notin {c.cycles, c.inputs, c.outputs}
                      /\ c.inputs # <<>> /\ c.outputs # <<>>

AcceptsBuilding(p) ==
  /\ "type" \in DOMAIN p => p.type # Empty
  /\ "chains" \in DOMAIN p => \A i \in DOMAIN p.chains : Usable(p.chains[i])

AcceptsMachine(p) == "size" \in DOMAIN p => p.size # Empty

Accepts(kind, p) ==
  /\ "name" \in DOMAIN p => p.name # Empty
  /\ "number" \in DOMAIN p => p.number # Empty
  /\ kind = "buildings" => AcceptsBuilding(p)
  /\ kind = "machinery" => AcceptsMachine(p)

\* What the services ask of the row as it would be (assertCropRules;
\* validateConfig, assertWithinCapacity): a crop or a config that the body does
\* not touch is not looked at again.
Fits(kind, row, touched) ==
  /\ kind = "stables" =>
       /\ row.count <= row.max
       /\ {"species", "config"} \cap touched # {} =>
            DOMAIN row.config \subseteq KeysOf[row.species]
  /\ kind = "fields" /\ {"crop", "silage"} \cap touched # {} /\ row.silage =>
       row.crop \in Silage

\* validateChains: no two chains of a building have one id.
ChainIdsApart(p) == "chains" \in DOMAIN p =>
  \A i, j \in DOMAIN p.chains : p.chains[i].id = p.chains[j].id => i = j
-----------------------------------------------------------------------------
Found(c) == /\ c.id \in DOMAIN rows
            /\ rows[c.id].farm = c.farm /\ rows[c.id].kind = c.kind

Named(c) == c.kind \in Keyed /\ KeyOf[c.kind] \in DOMAIN c.body

\* A row of the farm, but c.id, has the name that c gives.
SlipCountsItself(c) == Named(c) /\ \E i \in DOMAIN rows :
  /\ rows[i].kind = c.kind /\ rows[i].farm = c.farm
  /\ rows[i].cols[KeyOf[c.kind]] = c.body[KeyOf[c.kind]]
NameTaken(c) == Named(c) /\ \E i \in DOMAIN rows \ {c.id} :
  /\ rows[i].kind = c.kind /\ rows[i].farm = c.farm
  /\ rows[i].cols[KeyOf[c.kind]] = c.body[KeyOf[c.kind]]

\* production_buildings_farm_name_unique and its likes
SlipTrustsTheCheck(c) == FALSE
Violates(c) == NameTaken(c)

Answer(r, a) == req' = [req EXCEPT ![r].at = "done", ![r].answer = a]
\* toDto
AnswerRow(r, id, row) ==
  req' = [req EXCEPT ![r].at = "done", ![r].answer = "ok",
                     ![r].got = [id |-> id, cols |-> row]]
Go(r, step) == req' = [req EXCEPT ![r].at = step]

\* The farm scope, then the schema of the route, then what the handler tells
\* before it asks the database.
Refusal(c) ==
  CASE c.farm \notin farms -> "no farm"
    [] c.op \in {"create", "update"} /\ ~Accepts(c.kind, c.body) -> "invalid"
    [] c.op = "create" /\ c.kind \in Keyed /\ ~Named(c) -> "invalid"
    [] c.op = "create" /\ ~(Fits(c.kind, c.body, DOMAIN c.body) /\ ChainIdsApart(c.body))
       -> "invalid"
    [] OTHER -> None

FirstStep(c) ==
  CASE c.op = "create" /\ c.kind \in Prechecked -> "names"
    [] c.op = "update" /\ (c.kind # "machinery" \/ DOMAIN c.body = {}) -> "find"
    [] c.op \in Transitions -> "find"
    [] OTHER -> "write"

Arrive(r, c) ==
  /\ req[r].at = "idle"
  /\ req' = [req EXCEPT ![r] =
       [at |-> IF Refusal(c) = None THEN FirstStep(c) ELSE "done",
        call |-> c, answer |-> Refusal(c), got |-> None]]
  /\ UNCHANGED data

SlipChecksOnCreateOnly(r) == Go(r, "write")
Checked(r) ==
  IF ChainIdsApart(req[r].call.body) THEN Go(r, "write") ELSE Answer(r, "invalid")

\* Only the columns of the body are written.
SlipClearsTheRest(cols, body) ==
  [k \in DOMAIN cols |-> IF k \in DOMAIN body THEN body[k] ELSE None]
Patched(cols, body) ==
  [k \in DOMAIN cols |-> IF k \in DOMAIN body THEN body[k] ELSE cols[k]]

\* A PATCH is judged by the row read.  One that names no column is answered with
\* that row, but for a field, whose updatedAt is written.
Judge(r, row) ==
  LET c == req[r].call
      fits == Fits(c.kind, Patched(row, c.body), DOMAIN c.body)
  IN CASE ~fits -> Answer(r, "invalid")
       [] fits /\ DOMAIN c.body = {} /\ c.kind # "fields" -> AnswerRow(r, c.id, row)
       [] fits /\ Named(c) /\ c.kind \in Prechecked -> Go(r, "names")
       [] OTHER -> Checked(r)

\* What becomes of the field is decided here: setStatusAndCrop writes the status
\* and the crop of the row read.  The silage flag stays, also without a crop.
Ready(op, row) == IF op = "sow" THEN ~row.sown /\ row.crop # None ELSE row.sown
Moved(op, row) == [sown |-> op = "sow", crop |-> IF op = "harvest" THEN None ELSE row.crop]
With(c, body) ==
  [op |-> c.op, kind |-> c.kind, farm |-> c.farm, id |-> c.id, body |-> body]
Move(r, row) ==
  LET c == req[r].call IN
  IF Ready(c.op, row)
  THEN req' = [req EXCEPT ![r].at = "write", ![r].call = With(c, Moved(c.op, row))]
  ELSE Answer(r, "invalid")

Find(r) ==
  LET c == req[r].call IN
  /\ req[r].at = "find"
  /\ CASE ~Found(c) -> Answer(r, "not found")
       [] Found(c) /\ c.op \in Transitions -> Move(r, rows[c.id].cols)
       [] OTHER -> Judge(r, rows[c.id].cols)
  /\ UNCHANGED data

Names(r) ==
  /\ req[r].at = "names"
  /\ IF NameTaken(req[r].call) THEN Answer(r, "taken") ELSE Checked(r)
  /\ UNCHANGED data
-----------------------------------------------------------------------------
At(r, op) == req[r].at = "write" /\ req[r].call.op = op

SlipForgetsTheFarm(r) == TRUE
FarmThere(r) == req[r].call.farm \in farms

\* A field starts fallow.
Completed(c) ==
  IF c.kind # "fields" THEN c.body
  ELSE [k \in DOMAIN c.body \cup {"sown"} |-> IF k = "sown" THEN FALSE ELSE c.body[k]]

Insert(r, id) ==
  LET c == req[r].call IN
  /\ At(r, "create")
  /\ id \in Ids \ used
  /\ IF FarmThere(r) /\ ~Violates(c)
     THEN /\ rows' = [i \in DOMAIN rows \cup {id} |->
                IF i = id THEN [kind |-> c.kind, farm |-> c.farm, cols |-> Completed(c)]
                          ELSE rows[i]]
          /\ used' = used \cup {id}
          /\ AnswerRow(r, id, Completed(c))
     ELSE /\ Answer(r, IF FarmThere(r) THEN "duplicate" ELSE "error")
          /\ UNCHANGED <<rows, used>>
  /\ UNCHANGED <<farms, states>>

\* A harvest is recorded first: of a field that is gone, an error.
Patching(r) == \E op \in {"update"} \cup Transitions : At(r, op)

Update(r) ==
  LET c == req[r].call IN
  /\ Patching(r)
  /\ IF Found(c) /\ ~Violates(c)
     THEN /\ rows' = [rows EXCEPT ![c.id].cols = Patched(@, c.body)]
          /\ AnswerRow(r, c.id, Patched(rows[c.id].cols, c.body))
     ELSE /\ Answer(r, CASE Found(c) -> "duplicate"
                         [] ~Found(c) /\ c.op = "harvest" -> "error"
                         [] OTHER -> "not found")
          /\ UNCHANGED rows
  /\ UNCHANGED <<farms, used, states>>

Erase(r) ==
  LET c == req[r].call IN
  /\ At(r, "remove")
  /\ rows' = [i \in {i \in DOMAIN rows : ~(Found(c) /\ i = c.id)} |-> rows[i]]
  /\ Answer(r, IF Found(c) THEN "ok" ELSE "not found")
  /\ UNCHANGED <<farms, used, states>>

\* INSERT ... ON CONFLICT DO UPDATE: at most one state of a farm.
PutState(r) ==
  LET c == req[r].call IN
  /\ At(r, "put")
  /\ states' = IF FarmThere(r) THEN [states EXCEPT ![c.farm] = c.body] ELSE states
  /\ Answer(r, IF FarmThere(r) THEN "ok" ELSE "error")
  /\ UNCHANGED <<farms, rows, used>>

Write(r) == \/ \E id \in Ids : Insert(r, id)
            \/ Update(r) \/ Erase(r) \/ PutState(r)

\* ON DELETE CASCADE
StatesWithout(f) == [g \in Farms |-> IF g = f THEN None ELSE states[g]]
DeleteFarm(f) ==
  /\ f \in farms
  /\ farms' = farms \ {f}
  /\ rows' = [i \in {i \in DOMAIN rows : rows[i].farm # f} |-> rows[i]]
  /\ states' = StatesWithout(f)
  /\ UNCHANGED <<used, req>>
-----------------------------------------------------------------------------
\* However requests overlap, no two buildings of a farm have one name (nor two
\* stables; nor two fields one number): the check is steps older than the
\* write, and the constraint of the table is what is left.
NamesAreUnique ==
  \A i, j \in DOMAIN rows :
    /\ rows[i].kind = rows[j].kind /\ rows[i].farm = rows[j].farm
    /\ rows[i].kind \in Keyed
    /\ rows[i].cols[KeyOf[rows[i].kind]] = rows[j].cols[KeyOf[rows[j].kind]]
    => i = j

\* Whatever was on its way when a farm was deleted: nothing is left of it.
NothingWithoutFarm ==
  /\ \A i \in DOMAIN rows : rows[i].farm \in farms
  /\ \A f \in Farms \ farms : states[f] = None

\* What is stored can be calculated with: every chain of a building has an id
\* of its own, and one that is in no catalog says what it takes and makes.
StoredChainsAreSound ==
  \A i \in DOMAIN rows : rows[i].kind = "buildings" =>
    AcceptsBuilding(rows[i].cols) /\ ChainIdsApart(rows[i].cols)

\* The three together: the rows of the farms are sound whatever overlaps.
RowsAreSound == NamesAreUnique /\ NothingWithoutFarm /\ StoredChainsAreSound

\* A row changes by an update, sowing or harvest only, and only in the columns
\* it names, whatever was written to the others since the handler read the row.
PatchesKeepTheRest ==
  [][\A i \in DOMAIN rows \cap DOMAIN rows' : rows'[i] # rows[i] =>
       \E r \in Requests : /\ Patching(r) /\ req[r].call.id = i
         /\ \A k \in DOMAIN rows[i].cols \ DOMAIN req[r].call.body :
              rows'[i].cols[k] = rows[i].cols[k]]_recordVars
=============================================================================
