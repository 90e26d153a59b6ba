---------------------------- MODULE FieldRequests ----------------------------
(***************************************************************************)
(* The field endpoints of one farm and the requests that change the farm   *)
(* under them (api/src/services/fields.service.ts, farms.service.ts and    *)
(* their repositories, plugins/farm-scope.ts).                             *)
(*                                                                         *)
(* A handler awaits the database several times, each time a step here:     *)
(* the farm-scope hook (or the farm service) reads the farm row; the       *)
(* handler reads the field row (a version change: the assigned fields) and *)
(* decides; the last statement or transaction writes.  Nothing is locked   *)
(* in between.  A transaction takes effect when it commits: its row locks  *)
(* let no other write slip between its writes and the commit.              *)
(*                                                                         *)
(* One farm is enough: every query filters on the id of one farm.  Field   *)
(* number, hectares and prices are left out: no rule below reads them.     *)
(***************************************************************************)
EXTENDS Naturals

CONSTANTS
  Requests,   \* the HTTP requests ever made; the field or harvest record
              \* that request r inserts is named r as well
  Versions,   \* the game versions
  Slugs,      \* the crop slugs
  Catalog,    \* the crops table: a slug in a version is one crop
  Silage,     \* the silage_crops table: crops that can be ensiled
  Absent,     \* no row has this id
  Null,       \* SQL NULL, and what a request has not read or been given
  Keep        \* a key the client left out of a PATCH body

Crop == [slug : Slugs, version : Versions]

FieldRow == [crop : Catalog \cup {Null}, silage : BOOLEAN,
             status : {"fallow", "sown"}]

HarvestRow == [field : Requests, crop : Catalog \cup {Null},
               silage : BOOLEAN]

ASSUME CatalogAssumption == Catalog \subseteq Crop /\ Silage \subseteq Catalog
ASSUME NullsAssumption ==
  /\ Null \notin Requests \cup Versions \cup Crop
  /\ Keep \notin Crop \cup BOOLEAN \cup {Null}
  /\ Absent \notin FieldRow \cup HarvestRow

VARIABLES
  version,    \* farms.game_version_id, Null once the farm row is deleted
  fields,     \* the fields table of the farm, by id
  records,    \* its harvest_records table, by id
  step,       \* where the handler of each request is
  job,        \* what the request asks for
  farmRead,   \* the game version of the farm row the request read
  rowsRead,   \* the field rows the request read
  orderly     \* one request at a time, from the start to the end

vars == <<version, fields, records, step, job, farmRead, rowsRead, orderly>>

Ops == {"create", "patch", "remove", "sow", "cancelSow", "harvest",
        "changeVersion", "removeFarm"}

Job == [op : Ops, field : Requests \cup {Null},
        crop : Catalog \cup {Null, Keep}, silage : BOOLEAN \cup {Keep},
        version : Versions \cup {Null}]

Steps == {"new", "scoped", "checked", "done"}

Nothing == [f \in Requests |-> Absent]      \* an empty table
-----------------------------------------------------------------------------
Rows == {f \in Requests : fields[f] # Absent}
Harvests == {h \in Requests : records[h] # Absent}
Assigned == {f \in Rows : fields[f].crop # Null}

Only(ids) == [f \in Requests |-> IF f \in ids THEN fields[f] ELSE Absent]

\* Operators named Slip... are wrong on purpose: each is the next operator with
\* one plausible mistake, and PROJECT.json names the property that notices it.

\* assertCropRules: does a farm of version v accept this crop and silage flag?
SlipAcceptsAnyVersion(v, c, silage) ==
  IF c = Null THEN ~silage ELSE silage => c \in Silage
Accepts(v, c, silage) ==
  IF c = Null THEN ~silage
  ELSE c.version = v /\ (silage => c \in Silage)

\* The columns a PATCH touches, over a row.
Patched(row, j) ==
  [row EXCEPT !.crop = IF j.crop = Keep THEN @ ELSE j.crop,
              !.silage = IF j.silage = Keep THEN @ ELSE j.silage]

\* A PATCH that touches neither the crop nor the flag is not held to the rules of
\* the row it leaves as it is.
Allowed(v, row, j) ==
  LET merged == Patched(row, j)
  IN \/ j.crop = Keep /\ j.silage = Keep
     \/ Accepts(v, merged.crop, merged.silage)

\* The checks of sow, cancelSow and harvest on the row that was read.
SlipHarvestsFallow(op, row) ==
  IF op = "sow" THEN row.status = "fallow" /\ row.crop # Null
  ELSE op = "cancelSow" => row.status = "sown"
Ready(op, row) ==
  IF op = "sow" THEN row.status = "fallow" /\ row.crop # Null
                ELSE row.status = "sown"

StatusAfter(op) == IF op = "sow" THEN "sown" ELSE "fallow"

SlipCancelClearsCrop(op, row) == IF op = "sow" THEN row.crop ELSE Null
CropAfter(op, row) == IF op = "harvest" THEN Null ELSE row.crop

SetStatusAndCrop(f, status, c) ==
  [fields EXCEPT ![f] = [@ EXCEPT !.status = status, !.crop = c]]

\* remapFieldCropsBySlug, for one crop: from version old to version new.
SlipKeepsUnmapped(c, old, new) ==
  LET same == [slug |-> c.slug, version |-> new]
  IN IF same \in Catalog THEN same ELSE c
Remapped(c, old, new) ==
  LET same == [slug |-> c.slug, version |-> new]
  IN IF c.version = old /\ same \in Catalog THEN same ELSE Null
-----------------------------------------------------------------------------
InFlight(r) == step[r] \in {"scoped", "checked"}

Admit(r) ==
  /\ step[r] = "new"
  /\ orderly => \A q \in Requests : ~InFlight(q)

\* The request is answered: its process keeps nothing.
Reply(r) ==
  /\ step' = [step EXCEPT ![r] = "done"]
  /\ job' = [job EXCEPT ![r] = Null]
  /\ farmRead' = [farmRead EXCEPT ![r] = Null]
  /\ rowsRead' = [rowsRead EXCEPT ![r] = Nothing]

Reject(r) == Reply(r) /\ UNCHANGED <<version, fields, records>>

At(r, s, ops) == step[r] = s /\ job[r].op \in ops

Init ==
  /\ version \in Versions
  /\ fields = Nothing
  /\ records = Nothing
  /\ step = [r \in Requests |-> "new"]
  /\ job = [r \in Requests |-> Null]
  /\ farmRead = [r \in Requests |-> Null]
  /\ rowsRead = [r \in Requests |-> Nothing]
  /\ orderly \in BOOLEAN
-----------------------------------------------------------------------------
(* farmScope, or findOwned in the farm service: the farm row is read.        *)
Scope(r, j) ==
  /\ Admit(r)
  /\ version # Null
  /\ step' = [step EXCEPT ![r] = "scoped"]
  /\ job' = [job EXCEPT ![r] = j]
  /\ farmRead' = [farmRead EXCEPT ![r] = version]
  /\ UNCHANGED <<version, fields, records, rowsRead>>

FarmNotFound(r) ==
  /\ Admit(r)
  /\ version = Null
  /\ Reject(r)

(* The read in the middle: what was read is remembered across the awaits.    *)
Remember(r, ids) ==
  /\ step' = [step EXCEPT ![r] = "checked"]
  /\ rowsRead' = [rowsRead EXCEPT ![r] = Only(ids)]
  /\ UNCHANGED <<version, fields, records, job, farmRead>>

ReadForPatch(r) ==
  /\ At(r, "scoped", {"patch"})
  /\ job[r].field \in Rows
  /\ Allowed(farmRead[r], fields[job[r].field], job[r])
  /\ Remember(r, {job[r].field})

ReadForTransition(r) ==
  /\ At(r, "scoped", {"sow", "cancelSow", "harvest"})
  /\ job[r].field \in Rows
  /\ Ready(job[r].op, fields[job[r].field])
  /\ Remember(r, {job[r].field})

\* The transaction of a version change starts: SELECT the assigned fields.
ReadAssigned(r) ==
  /\ At(r, "scoped", {"changeVersion"})
  /\ job[r].version # farmRead[r]
  /\ Remember(r, Assigned)

\* The 404s, the 422s, and a version change that changes nothing.
Refuse(r) ==
  /\ \/ At(r, "scoped", {"patch", "sow", "cancelSow", "harvest"})
        /\ job[r].field \notin Rows
     \/ At(r, "scoped", {"patch"}) /\ job[r].field \in Rows
        /\ ~Allowed(farmRead[r], fields[job[r].field], job[r])
     \/ At(r, "scoped", {"sow", "cancelSow", "harvest"})
        /\ job[r].field \in Rows /\ ~Ready(job[r].op, fields[job[r].field])
     \/ At(r, "scoped", {"create"})
        /\ ~Accepts(farmRead[r], job[r].crop, job[r].silage)
     \/ At(r, "scoped", {"changeVersion"}) /\ job[r].version = farmRead[r]
  /\ Reject(r)
-----------------------------------------------------------------------------
(* The writes.  A foreign key refuses an insert whose farm or field is gone. *)
CreateField(r) ==
  /\ At(r, "scoped", {"create"})
  /\ Accepts(farmRead[r], job[r].crop, job[r].silage)
  /\ version # Null
  /\ fields' = [fields EXCEPT ![r] = [crop |-> job[r].crop,
                  silage |-> job[r].silage, status |-> "fallow"]]
  /\ Reply(r)
  /\ UNCHANGED <<version, records>>

WritePatch(r) ==
  /\ At(r, "checked", {"patch"})
  /\ job[r].field \in Rows
  /\ fields' = [fields EXCEPT ![job[r].field] = Patched(@, job[r])]
  /\ Reply(r)
  /\ UNCHANGED <<version, records>>

SlipRecordsLatestOnly(id, f, row) ==
  [h \in Requests |->
     IF h = id THEN [field |-> f, crop |-> row.crop, silage |-> row.silage]
     ELSE IF h \in Harvests /\ records[h].field = f THEN Absent ELSE records[h]]
Recorded(id, f, row) ==
  [records EXCEPT ![id] = [field |-> f, crop |-> row.crop, silage |-> row.silage]]

WriteTransition(r) ==
  LET j == job[r]
      row == rowsRead[r][j.field]
  IN
  /\ At(r, "checked", {"sow", "cancelSow", "harvest"})
  /\ j.field \in Rows
  /\ fields' = SetStatusAndCrop(j.field, StatusAfter(j.op), CropAfter(j.op, row))
  /\ records' = IF j.op = "harvest" THEN Recorded(r, j.field, row) ELSE records
  /\ Reply(r)
  /\ UNCHANGED version

\* harvest_records.field_id is ON DELETE CASCADE.
SlipForgetsNothing(f) == records
Forgets(f) ==
  [h \in Requests |-> IF h \in Harvests /\ records[h].field = f
                      THEN Absent ELSE records[h]]

RemoveField(r) ==
  /\ At(r, "scoped", {"remove"})
  /\ fields' = [fields EXCEPT ![job[r].field] = Absent]
  /\ records' = Forgets(job[r].field)
  /\ Reply(r)
  /\ UNCHANGED version

ChangeVersion(r) ==
  /\ At(r, "checked", {"changeVersion"})
  /\ version # Null
  /\ version' = job[r].version
  /\ fields' = [f \in Requests |->
       IF f \in Rows /\ rowsRead[r][f] # Absent
       THEN [fields[f] EXCEPT !.crop =
               Remapped(rowsRead[r][f].crop, farmRead[r], job[r].version)]
       ELSE fields[f]]
  /\ Reply(r)
  /\ UNCHANGED records

\* DELETE FROM farms, with its cascades to fields and harvest_records.
RemoveFarm(r) ==
  /\ At(r, "scoped", {"removeFarm"})
  /\ version' = Null
  /\ fields' = Nothing
  /\ records' = Nothing
  /\ Reply(r)

\* A write that finds its row or its parent gone (404, or a foreign key), or
\* that the database aborts (a deadlock victim, a lost connection): nothing of
\* it stays.
Fail(r) == InFlight(r) /\ Reject(r)
-----------------------------------------------------------------------------
Ask(op, f, c, s, v) ==
  [op |-> op, field |-> f, crop |-> c, silage |-> s, version |-> v]

Asks ==
  {Ask("create", Null, c, s, Null) : c \in Catalog \cup {Null}, s \in BOOLEAN}
  \cup {Ask("patch", f, c, s, Null) : f \in Rows,
          c \in Catalog \cup {Null, Keep}, s \in BOOLEAN \cup {Keep}}
  \cup {Ask(op, f, Keep, Keep, Null) : f \in Rows,
          op \in {"remove", "sow", "cancelSow", "harvest"}}
  \cup {Ask("changeVersion", Null, Keep, Keep, v) : v \in Versions}
  \cup {Ask("removeFarm", Null, Keep, Keep, Null)}

Read(r) ==
  \/ ReadForPatch(r)
  \/ ReadForTransition(r)
  \/ ReadAssigned(r)

Write(r) ==
  \/ CreateField(r)
  \/ WritePatch(r)
  \/ WriteTransition(r)
  \/ RemoveField(r)
  \/ ChangeVersion(r)
  \/ RemoveFarm(r)

Next ==
  /\ \E r \in Requests :
       \/ \E j \in Asks : Scope(r, j)
       \/ FarmNotFound(r)
       \/ Read(r)
       \/ Refuse(r)
       \/ Write(r)
       \/ Fail(r)
  /\ UNCHANGED orderly

Spec == Init /\ [][Next]_vars
-----------------------------------------------------------------------------
(* Properties *)

\* Every variable holds values of the kind the schema and the handlers allow.
TypeOK ==
  /\ version \in Versions \cup {Null}
  /\ fields \in [Requests -> FieldRow \cup {Absent}]
  /\ records \in [Requests -> HarvestRow \cup {Absent}]
  /\ step \in [Requests -> Steps]
  /\ job \in [Requests -> Job \cup {Null}]
  /\ farmRead \in [Requests -> Versions \cup {Null}]
  /\ rowsRead \in [Requests -> [Requests -> FieldRow \cup {Absent}]]

\* No request in flight leaves rows behind a deleted farm, or a harvest record
\* that points at a deleted field.
NothingDangles ==
  /\ version = Null => Rows = {} /\ Harvests = {}
  /\ \A h \in Harvests : records[h].field \in Rows

\* A harvest stays on record, as it was recorded, as long as its field is there.
HistoryIsKept ==
  [][\A h \in Harvests : records[h].field \in Rows' =>
       h \in Harvests' /\ records'[h] = records[h]]_vars

\* As long as requests do not overlap, crop and farm agree on the game version.
CropsFit == \A f \in Assigned : fields[f].crop.version = version
CropBelongsToVersion == orderly => CropsFit

\* A harvest is recorded of a field that is sown, with the crop and the silage
\* flag the field has; so a sowing is harvested once.
RecordsWhatIsSown ==
  \A h \in Harvests' \ Harvests :
    LET f == records'[h].field IN
    /\ f \in Rows
    /\ fields[f].status = "sown"
    /\ records'[h].crop = fields[f].crop
    /\ records'[h].silage = fields[f].silage

\* As long as requests do not overlap, a sowing is harvested once.
HarvestMatchesField == [][orderly => RecordsWhatIsSown]_vars

\* Whatever overlaps, a sowing is harvested once: harvest() "rejects if the
\* field is not currently sown" (fields.service.ts:241).
SownIsHarvestedOnce == [][RecordsWhatIsSown]_vars

\* As long as requests do not overlap, sowing and cancelling a sowing leave the
\* crop of the field as it is.
CropIsKept ==
  \A f \in Rows \cap Rows' : fields'[f].status # fields[f].status =>
    \/ fields'[f].crop = fields[f].crop
    \/ \E h \in Harvests' \ Harvests : records'[h].field = f
TransitionsKeepCrop == [][orderly => CropIsKept]_vars

\* Without overlap the handlers implement the operations of FarmFields; the
\* mapping shows a farm without fields where requests overlap.
Farm == INSTANCE FarmFields WITH
  Fields <- Requests,
  version <- IF orderly THEN version ELSE CHOOSE v \in Versions : TRUE,
  crop <- [f \in (IF orderly THEN Rows ELSE {}) |-> fields[f].crop],
  sown <- {f \in Rows : orderly /\ fields[f].status = "sown"},
  history <- {[id |-> h, field |-> records[h].field, crop |-> records[h].crop] :
                h \in {r \in Harvests : orderly}}

ImplementsFarmFields == Farm!Spec

\* As long as requests do not overlap, the crop of a field goes where it should:
\* unchanged into what is sown, and from there, once, into a harvest.
CropsAreAccountedFor == HarvestMatchesField /\ TransitionsKeepCrop
=============================================================================
