----------------------------- MODULE FarmStables -----------------------------
(***************************************************************************)
(* The stables and the saved animal-calculator inputs of one farm          *)
(* (api/src/services/stables.service.ts, animalConfigs.service.ts, their   *)
(* repositories, plugins/farm-scope.ts).                                   *)
(*                                                                         *)
(* A handler validates against rows it read a few awaits earlier: the farm *)
(* row of the scope hook, the stable it patches, the names that are taken. *)
(* The database checks again, at the write, only what it has a constraint  *)
(* for.  The catalog does not change while the program runs.               *)
(***************************************************************************)
EXTENDS Naturals

CONSTANTS
  Requests,     \* the requests ever made; the stable request r inserts is named r
  Versions,     \* the game versions
  Slugs,        \* the crop slugs
  CropsOf,      \* by version: the crops it has
  SilageOf,     \* by version: the crops that can be ensiled
  Species,      \* the animal species
  Configs,      \* stable configs: [fits, key, crop], the species whose schema
                \* accepts it and the crop it names, as silageCrop or not
  Names,        \* the names stables are given
  Bodies,       \* the POST bodies of clients: whole stables
  Patches,      \* the PATCH bodies of clients: a key left out is Keep
  Absent,       \* no row has this id
  Null,         \* SQL NULL, and what a request has not read or been given
  Keep

StableRow == [name : Names, species : Species, maxCapacity : Nat,
              currentCount : Nat, config : Configs]

Patch == [name : Names \cup {Keep}, species : Species \cup {Keep},
          maxCapacity : Nat \cup {Keep}, currentCount : Nat \cup {Keep},
          config : Configs \cup {Keep}]

ASSUME CatalogAssumption ==
  \A v \in Versions : SilageOf[v] \subseteq CropsOf[v] /\ CropsOf[v] \subseteq Slugs
ASSUME ConfigsAssumption ==
  \A c \in Configs : /\ c.fits \subseteq Species
                     /\ c.key \in {"silageCrop", "component"}
                     /\ c.crop \in Slugs \cup {Null}
ASSUME NullAssumption == Null \notin Versions \cup Slugs /\ Absent \notin Slugs
ASSUME BodiesAssumption == Bodies \subseteq StableRow /\ Patches \subseteq Patch

VARIABLES
  orderly,      \* TRUE: the client waits for an answer before it asks again
  version,      \* farms.game_version_id, Null once the farm row is deleted
  stables,      \* the stables of the farm, by id
  animals,      \* animal_calculator_configs: by species, the crop its inputs name
  step,         \* where the handler of each request is
  job,          \* what the request asks for
  farmRead,     \* the game version of the farm row the request read
  rowRead       \* the stable the request read

tables == <<version, stables, animals>>
vars == <<orderly, version, stables, animals, step, job, farmRead, rowRead>>

Rows == {s \in Requests : stables[s] # Absent}
-----------------------------------------------------------------------------
\* Operators named Slip... are wrong on purpose: each is the next operator with
\* one plausible mistake, and PROJECT.json names the property that notices it.

\* validateConfigSlugs: the crop, if any, is one of the version.
SlugsKnown(v, config) == config.crop # Null =>
  config.crop \in IF config.key = "silageCrop" THEN SilageOf[v] ELSE CropsOf[v]

\* validateConfig and validateConfigSlugs
SlipChecksCropsOnly(v, species, config) ==
  species \in config.fits /\ (config.crop # Null => config.crop \in CropsOf[v])
ConfigAccepted(v, species, config) ==
  species \in config.fits /\ SlugsKnown(v, config)

Given(value, otherwise) == IF value = Keep THEN otherwise ELSE value

Merged(row, p) ==
  [name |-> Given(p.name, row.name), species |-> Given(p.species, row.species),
   maxCapacity |-> Given(p.maxCapacity, row.maxCapacity),
   currentCount |-> Given(p.currentCount, row.currentCount),
   config |-> Given(p.config, row.config)]

\* The columns a PATCH writes, over the row it is applied to.  A new species
\* writes the config that was validated for it, which may be the one read.
SlipCountDefaults(row, p, read) ==
  [Merged(row, p) EXCEPT !.currentCount = Given(p.currentCount, 0)]
Patched(row, p, read) ==
  [Merged(row, p) EXCEPT
     !.config = IF p.species = Keep THEN @ ELSE Given(p.config, read.config)]

WithinCapacity(row) == row.currentCount <= row.maxCapacity

\* The checks of update on the row it read.
SlipRevalidatesOnlyConfig(v, p, row) ==
  LET new == Patched(row, p, row) IN
  /\ p.config # Keep => ConfigAccepted(v, new.species, new.config)
  /\ WithinCapacity(new)
PatchAccepted(v, p, row) ==
  LET new == Patched(row, p, row) IN
  /\ p.config # Keep \/ p.species # Keep => ConfigAccepted(v, new.species, new.config)
  /\ WithinCapacity(new)

BodyAccepted(v, b) ==
  ConfigAccepted(v, b.species, b.config) /\ WithinCapacity(b)

\* assertNameAvailable: no stable but id has the name.
NameFree(name, id) == \A s \in Rows \ {id} : stables[s].name # name

\* What the table accepts: stables_farm_name_unique, stables_count_within_capacity.
SlipTrustsThePreCheck(id, row) == WithinCapacity(row)
SlipTrustsTheService(id, row) == NameFree(row.name, id)
Stored(id, row) == NameFree(row.name, id) /\ WithinCapacity(row)
-----------------------------------------------------------------------------
InFlight(r) == step[r] \in {"scoped", "read", "checked"}

At(r, s, ops) == step[r] = s /\ job[r].op \in ops

Reply(r) ==
  /\ step' = [step EXCEPT ![r] = "done"]
  /\ job' = [job EXCEPT ![r] = Null]
  /\ farmRead' = [farmRead EXCEPT ![r] = Null]
  /\ rowRead' = [rowRead EXCEPT ![r] = Absent]
  /\ UNCHANGED orderly

Reject(r) == Reply(r) /\ UNCHANGED tables

Init ==
  /\ orderly \in BOOLEAN
  /\ version \in Versions
  /\ stables = [r \in Requests |-> Absent]
  /\ animals = [s \in Species |-> Absent]
  /\ step = [r \in Requests |-> "new"]
  /\ job = [r \in Requests |-> Null]
  /\ farmRead = [r \in Requests |-> Null]
  /\ rowRead = [r \in Requests |-> Absent]

(* farmScope, or findOwned in the farm service.                              *)
Scope(r, j) ==
  /\ step[r] = "new"
  /\ orderly => \A q \in Requests : ~InFlight(q)
  /\ version # Null
  /\ step' = [step EXCEPT ![r] = "scoped"]
  /\ job' = [job EXCEPT ![r] = j]
  /\ farmRead' = [farmRead EXCEPT ![r] = version]
  /\ UNCHANGED <<orderly, version, stables, animals, rowRead>>

Goto(r, s, row) ==
  /\ step' = [step EXCEPT ![r] = s]
  /\ rowRead' = [rowRead EXCEPT ![r] = row]
  /\ UNCHANGED <<orderly, version, stables, animals, job, farmRead>>

\* update: findById, and the checks on what it returned.
ReadStable(r) ==
  /\ At(r, "scoped", {"patch"})
  /\ job[r].stable \in Rows
  /\ LET row == stables[job[r].stable]
         p == job[r].body
     IN /\ PatchAccepted(farmRead[r], p, row)
        /\ \E column \in DOMAIN p : p[column] # Keep
        /\ Goto(r, IF p.name = Keep THEN "checked" ELSE "read", row)

\* assertNameAvailable, in create and update.
FindName(r) ==
  /\ \/ At(r, "scoped", {"create"}) /\ BodyAccepted(farmRead[r], job[r].body)
     \/ At(r, "read", {"patch"})
  /\ NameFree(job[r].body.name, job[r].stable)
  /\ Goto(r, "checked", rowRead[r])

\* upsert of an animal config: validateCropSlugs.
CheckAnimal(r) ==
  /\ At(r, "scoped", {"putAnimal"})
  /\ SlugsKnown(farmRead[r], [key |-> "component", crop |-> job[r].body])
  /\ Goto(r, "checked", Absent)

CreateStable(r) ==
  /\ At(r, "checked", {"create"})
  /\ version # Null
  /\ Stored(r, job[r].body)
  /\ stables' = [stables EXCEPT ![r] = job[r].body]
  /\ Reply(r)
  /\ UNCHANGED <<version, animals>>

WriteStable(r) ==
  LET s == job[r].stable
      new == Patched(stables[s], job[r].body, rowRead[r])
  IN
  /\ At(r, "checked", {"patch"})
  /\ s \in Rows
  /\ Stored(s, new)
  /\ stables' = [stables EXCEPT ![s] = new]
  /\ Reply(r)
  /\ UNCHANGED <<version, animals>>

RemoveStable(r) ==
  /\ At(r, "scoped", {"remove"})
  /\ stables' = [stables EXCEPT ![job[r].stable] = Absent]
  /\ Reply(r)
  /\ UNCHANGED <<version, animals>>

\* INSERT ... ON CONFLICT DO UPDATE.
PutAnimal(r) ==
  /\ At(r, "checked", {"putAnimal"})
  /\ version # Null
  /\ animals' = [animals EXCEPT ![job[r].species] = job[r].body]
  /\ Reply(r)
  /\ UNCHANGED <<version, stables>>

RemoveAnimal(r) ==
  /\ At(r, "scoped", {"removeAnimal"})
  /\ animals' = [animals EXCEPT ![job[r].species] = Absent]
  /\ Reply(r)
  /\ UNCHANGED <<version, stables>>

\* A version change takes the crops of the fields along, and nothing else.
ChangeVersion(r) ==
  /\ At(r, "scoped", {"changeVersion"})
  /\ version # Null
  /\ version' = job[r].body
  /\ Reply(r)
  /\ UNCHANGED <<stables, animals>>

\* DELETE FROM farms: stables and animal configs are ON DELETE CASCADE.
SlipKeepsAnimals == animals
AnimalsAfterFarm == [s \in Species |-> Absent]

RemoveFarm(r) ==
  /\ At(r, "scoped", {"removeFarm"})
  /\ version' = Null
  /\ stables' = [s \in Requests |-> Absent]
  /\ animals' = AnimalsAfterFarm
  /\ Reply(r)

\* The 404s, 409s and 422s, an empty PATCH, a write the constraints refuse, and
\* one the database aborts or never gets: nothing of the request stays.
Refuse(r) == InFlight(r) /\ Reject(r)
-----------------------------------------------------------------------------
Asking(op, stable, species, body) ==
  [op |-> op, stable |-> stable, species |-> species, body |-> body]

Asks ==
  {Asking("create", Null, Null, b) : b \in Bodies}
  \cup {Asking("patch", s, Null, p) : s \in Rows, p \in Patches}
  \cup {Asking("remove", s, Null, Null) : s \in Rows}
  \cup {Asking("putAnimal", Null, a, c) : a \in Species, c \in Slugs \cup {Null}}
  \cup {Asking("removeAnimal", Null, a, Null) : a \in Species}
  \cup {Asking("changeVersion", Null, Null, v) : v \in Versions}
  \cup {Asking("removeFarm", Null, Null, Null)}

Write(r) ==
  \/ CreateStable(r) \/ WriteStable(r) \/ RemoveStable(r)
  \/ PutAnimal(r) \/ RemoveAnimal(r)
  \/ ChangeVersion(r) \/ RemoveFarm(r)

Next == \E r \in Requests :
  \/ \E j \in Asks : Scope(r, j)
  \/ ReadStable(r) \/ FindName(r) \/ CheckAnimal(r)
  \/ Write(r)
  \/ Refuse(r)

Spec == Init /\ [][Next]_vars
-----------------------------------------------------------------------------
(* Properties *)

\* Every variable holds values of the kind the schema and the handlers allow.
TypeOK ==
  /\ orderly \in BOOLEAN
  /\ version \in Versions \cup {Null}
  /\ stables \in [Requests -> StableRow \cup {Absent}]
  /\ animals \in [Species -> Slugs \cup {Null, Absent}]
  /\ step \in [Requests -> {"new", "scoped", "read", "checked", "done"}]
  /\ farmRead \in [Requests -> Versions \cup {Null}]
  /\ rowRead \in [Requests -> StableRow \cup {Absent}]

\* Two stables of the farm never get one name, however the checks overlap.
StablesAreNamedApart ==
  \A s, t \in Rows : stables[s].name = stables[t].name => s = t

\* A stable never holds more animals than it has room for, even when one
\* request raises the count while another lowers the capacity.
NeverOverfull == \A s \in Rows : WithinCapacity(stables[s])

\* A deleted farm leaves nothing behind, whatever was being written to it.
FarmTakesAll ==
  version = Null => Rows = {} /\ \A a \in Species : animals[a] = Absent

\* The three together: the stables are sound whatever overlaps.
StablesAreSound == StablesAreNamedApart /\ NeverOverfull /\ FarmTakesAll

\* From a client that waits for its answers: the config of a stable is one
\* that its species understands.
ConfigFitsSpecies ==
  orderly => \A s \in Rows : stables[s].species \in stables[s].config.fits

\* From a client that waits for its answers: a config that is written names a
\* crop of the farm's game version, and as silage one that can be ensiled.
WritesNameKnownCrops ==
  [][orderly =>
       /\ \A s \in Requests :
            stables'[s] # Absent /\ (stables[s] # Absent =>
                stables'[s].config # stables[s].config) =>
              SlugsKnown(version, stables'[s].config)
       /\ \A a \in Species :
            animals'[a] \in Slugs \ {animals[a]} => animals'[a] \in CropsOf[version]]_vars

\* From a client that waits for its answers: a PATCH changes the columns it
\* names and no other.
PatchesChangeWhatTheyName ==
  [][orderly => \A s \in Rows : stables'[s] \notin {stables[s], Absent} =>
       \E r \in Requests :
         /\ step[r] = "checked" /\ step'[r] = "done"
         /\ job[r].op = "patch" /\ job[r].stable = s
         /\ \A column \in DOMAIN job[r].body :
              stables'[s][column] = Given(job[r].body[column], stables[s][column])]_vars
=============================================================================
