# FS25 Farm Planner: a TLA+ model

This directory holds a formal model of the Farm Planner: what the API promises
about sessions and farms, how its handlers carry it out when requests overlap,
what the browser does with the answers, and what its calculators make of them.
TLC checks each module on small instances; TLAPS proves the most important
results for instances of any size.

To run a check: `tlc -config refresh_overlap.cfg MCRefreshTokens`, and to run a
proof: `tlapm RefreshTokens_proofs.tla`, in this directory.

## 1. The system

| Part | State it keeps | Operations |
|---|---|---|
| Session and token services (`api/src/services/session.service.ts`, `token.service.ts`, `auth.service.ts`) | table `refresh_tokens` | login, register (insert a row), refresh (look up, then rotate or punish reuse), logout |
| Worker (`api/src/worker.ts`, `queues/`) | a repeatable job in Redis | delete refresh tokens expired for more than seven days |
| Accounts and settings (`auth.service.ts`, `userSettings.service.ts`) | `users`, `user_settings` | register with a default farm, update profile, pin the active farm |
| Farms (`farms.service.ts`) | `farms` | create, rename, change game version (remaps the crops of all fields), delete |
| Fields and harvests (`fields.service.ts`) | `fields`, `harvest_records` | create, patch, delete, sow, cancel sowing, harvest |
| Stables, animal configurations (`stables.service.ts`, `animalConfigs.service.ts`) | a table each | create, update, delete; upsert, with rules against the catalog |
| Production buildings, machinery, calculator states | a table each | create, update, delete; upsert of the calculator's state |
| Catalog (`catalog.repository.ts`, `db/seed.ts`) | crops, animals, chains per game version | read only at run time; written by the seed |
| HTTP shell (`app.ts`, `plugins/`) | none | authentication gate, farm scope, rate limit, error mapping |
| Browser session (`web/app/shared/api/client.ts`, `entities/user`) | tokens in memory, refresh token in localStorage, the refresh in flight | bootstrap, login, logout, request with one refresh and one retry |
| Browser stores (`web/app/entities/*`, `features/calculator-config`) | copies of server rows, keyed by farm or game version | load, create, update, remove |
| Dialogs (`web/app/features/*-manage`) | the inputs of one row | open, edit, save, cancel |
| Calculation engines (`web/app/shared/lib/engine`) | none | pure functions |
| Pages, widgets | inputs and selections of the calculators | load on mount and on a change of farm, edit, save |

**Interaction.** Browser and API talk HTTP; the API keeps no state of its own
between requests, everything lives in PostgreSQL; the worker shares only the
database with the API. Inside the API a request passes the authentication gate
and the farm scope, then a controller, a service and the repositories. Each
repository call is one SQL statement; a few services wrap several of them in a
transaction, under PostgreSQL's default isolation, without explicit locks.

**What is hard.** Every service decides on rows it read in earlier statements,
outside of any lock: between the read and the write any other request, the
worker, or a crash can come in. In the browser each `await` is such a gap:
answers come back in any order, to a store that has moved on. The hazards, each
at its line, are listed in `PROJECT.json`.

**What makes each part correct.**

* Sessions: one live token per session; a rotated token never works again and
  its reuse ends the family; the chain of rotations stays intact; the cleanup
  never blocks and loses nothing that is alive.
* Farms and fields: a crop belongs to the game version of its farm; a sowing is
  harvested once; nothing dangles off a deleted farm or field; history stays.
* Accounts: an e-mail address and a farm name are unique; whoever has an account
  has settings and, unless he deleted it, a farm; the pinned farm is his own.
* Farm resources: no stable holds more than its capacity; configurations match
  species and game version; the last accepted write wins as a whole.
* Browser session: one refresh at a time; whoever waits for it goes on; signing
  out leaves nothing behind; a tab acts for the user it shows.
* Browser stores: what is shown belongs to the farm and the version selected;
  nothing is fetched twice, and no flag stays up without a request behind it.
* Calculators: what is shown is what was saved for the farm, and what is saved is
  what was typed for it.
* Dialogs: an untouched one changes nothing but a silage flag that its row should not
  have, a cancelled one leaves nothing behind but recipes, and what is sent fits together.
* Engines: totals are the sums of their parts; an override is honoured, 0 included;
  feed is counted once; nothing is undefined or divided by zero.

## 2. The modules

| Module | What it is | Code |
|---|---|---|
| `UserSessions` | abstract: what the session endpoints promise | |
| `RefreshTokens` | the token table, the handlers statement by statement, and the worker | session, auth and token services, refresh token repository, maintenance processor |
| `FarmFields` | abstract: what the field endpoints of one farm promise | |
| `FieldRequests` | the field tables of one farm and the handlers, read by read and write by write | fields and farms services, repositories, farm scope |
| `Accounts` | abstract: accounts, farms and active farms whose every request takes effect at one moment | |
| `UserFarms` | the users, farms and user_settings tables and the handlers, check by check and write by write | auth, farms and userSettings services, repositories, unique and foreign keys |
| `FarmStables` | the stables and saved animal-calculator inputs of one farm, and the handlers | stables and animalConfigs services, repositories, CHECKs, farm scope |
| `WebSession` | tabs and devices, composed with `UserSessions` as their server | session store, HTTP client, auth bootstrap |
| `Quantities` | exact numbers: factors as fractions of `One`, quotients as pairs | |
| `CropEngine`, `AnimalEngine`, `ProductionEngine`, `WorkSpeedEngine` | the calculation engines and the summaries built on them, as operators | `shared/lib/engine`, `widgets/*-summary`, `production-calculator-panel`, `animal-calculator-panels` |
| `Calculators` | the screens that compute, composed of the four engines | dashboard, stables, production, animal and speed pages and panels |
| `WebStores` | the entity stores, the catalog cache and the API as they use it | `entities/*/model/*.store.ts` |
| `FarmScreens` | the pages over those stores, the farm switcher, the calculators that save | `pages/`, `features/farm-switcher`, `features/calculator-config` |
| `FarmRecords` | the API of buildings, machinery and calculator states, await by await | productionBuildings, machinery and calculatorStates services and repositories, error handler |
| `ManagementForms` | the dialogs in the tabs of a user, over `FarmRecords` | `features/*-manage/ui/*FormModal.vue` |
| `..._proofs` | the theorems about the module of that name | |
| `MC...` | instances for TLC: constants with structure, and symmetry sets | |

Operators named `Slip...` stand in front of the operator they resemble. They are
that operator with one plausible mistake; no specification uses them. Put in
place of the original, each makes the property that `PROJECT.json` pairs it with
fail: that is how we know the property looks at the code. Where a property is a
conjunction of named parts, there is a slip for each part.

### RefreshTokens

`tokens` is the table, from row id to row; a row holds owner, age, `revoked` and
`replacedBy`. Ids need no generator: a login or a rotation inserts exactly one
row, so the row is named after the request. `step`, `presented` and `owner` are
the local variables of the handlers, `answer` is what the client was told.
`killed` and `closed` are history variables.

`findByHash` and the write that follows are separate actions (`RefreshRead` then
`Rotate`, `ReuseKill` or `ExpireRevoke`; `LogoutRead` then `LogoutRevoke`), since the
code awaits in between and takes no lock. The rotation itself, insert plus
update, is one transaction and one action. A handler that never takes its second
step is a crashed API process. Time is the age of a row in ticks, which is exact
because all rows have the same time to live. `Tick` carries one assumption: no
rotation stays in flight for the whole grace period of seven days.

### FieldRequests

One farm: `version` is its row, `fields` and `records` are its tables. A request is
read in (`Scope` with its job), may read again (`ReadForPatch`, `ReadForTransition`,
`ReadAssigned`: the rows read are remembered in `rowsRead`, the farm version in
`farmRead`), and ends with a write or a refusal. A transaction is one action at its
commit, since its row locks let no other write in between. A PATCH is judged by the
crop rules only if it names the crop or the silage flag (`Allowed`). A refusal is also the
database aborting a statement, or the process going away. Foreign keys and their
cascades are part of the writes. The name, size and prices of a field do not
appear: no rule reads them. `orderly`, here and in `FarmStables`, is chosen at the
start and never changes: in an orderly behaviour a request begins only when the
one before has been answered. Properties that hold for such clients only say so.

### UserFarms and Accounts

`users`, `userSettings` and `farms` are the tables; what request r inserts is named
r. A handler checks (`FindByEmail`, `FindOwned`, `FindByName`) and later writes
(`Register`, `CreateFarm`, `RenameFarm`, `RemoveFarm`, `SetActiveFarm`). The code never
repeats a check: at the write only the unique keys and the foreign key of
`active_farm_id` speak. Registration is a transaction that becomes visible at its
commit. `nameRead` is the name the farm had when a rename read it: a rename to
the name read skips the second check, and the key has to do its work.

`Accounts` has no steps: a request is pending, then it takes effect and is answered
in one step, or is refused because of what holds at that moment ("error" stands
for a 500 and may come at any time). `UserFarms` implements it with the tables as
the refinement mapping: the write is the step, every check is a stutter or a
refusal. That is the linearizability of these endpoints, and it rests on the keys.

### FarmStables

`version`, `stables` and `animals` are the farm's rows; `farmRead` and `rowRead` are what
a handler has read. `ReadStable` evaluates the checks of `update` on the row it
read, `WriteStable` applies the patch to the row there is by then. The database
repeats two of the checks (unique name, count within capacity), not the config
against the species and not its crop slugs. A config is reduced to what the rules
look at: the species whose schema accepts it, and the crop it names.

### WebSession

`mem` is the Pinia store of each tab, `stored` the localStorage of each device,
`call` the HTTP calls in flight by tab and lane. Lane `"auth"` is
`refreshInFlight` of the client (or the refresh of `init`): it is occupied exactly
while the promise is pending, and the requests that await it are at `"joined"`.
One action is one turn of the event loop: the handling of one answer with all
continuations it sets off. `live` and `given` belong to `UserSessions`, whose actions
`Open`, `Refresh`, `Close` and `Reuse` are what the API does on login, refresh and logout.
A reload (`Load`) drops all calls of the page; a refresh it had sent may still
arrive (`orphans`). A token pair is one value.

### The engines and Calculators

Each function of an engine is an operator of the same name. Numbers are whole
numbers of small units and quotients are kept as pairs (`Quantities`), so sums are
compared exactly and rounding is where the code rounds (`HoursAndMinutes`, with its
`Math.round`), and nowhere else. `None` is `null`, a missing key, and `NaN`. Catalogs
are constants; the run has a small one with every kind of animal, and with a crop and
a chain that are missing from it although a field or a building names them.

What a screen shows is computed from its inputs, so `Calculators` has the inputs as
its state (`shown`, of the `screen` that is open, on a `farm`), one action per input a
user can edit, with the text fields' conversions, and the results as state functions.
A property is about a result on whatever can be typed. The fields of the animal
calculator have no minimum, so that includes negative numbers: a herd of a negative count
has a negative yield and is fed nothing, and with a bonus of -100 % or less nothing grows
and no land is asked for. The speed calculator turns a negative area into none.

### WebStores and FarmScreens

JavaScript runs a continuation to its end, so the page is one record `web`, a function
of a store is an operator from one such record to the next, and one step is one click
or one answer with everything it sets off. `web.calls` are the requests under way, each
with the continuation that waits for it (`for`) and whether the component that awaits
it is still mounted. `server` is the API as a tab can tell: each request takes effect
in one step, in the order of its answers (`FarmRecords`, `FieldRequests` and
`FarmStables` say what happens inside one). Answers come in any order; `Lose` fails a
call. The five stores of farm rows are one text in the code, and one in the module.

`patient` is chosen at the start: a patient user acts only when nothing is loading or
saving; the other one clicks at any moment. What holds for both is said of both
(`StoresAreCoherent`); what needs the patient one says so.

### FarmRecords and ManagementForms

A request of `FarmRecords` finds the farm and the row, asks which names are taken and
writes, a step for each await (`at`). Which of these a kind of row goes through differs:
fields have no look at the numbers before the write (`Prechecked`), machinery has no
rules on a row it would have to read. A missing row is told before a rule is judged
(`Judge`). The unique keys and the foreign key act at the write, and the answer tells
what the client can: `taken`, `duplicate`, `no farm`. A PATCH writes the columns of its
body on the row there is by then, and chains, which no constraint looks into, are checked
as the service does. Sowing, harvesting and cancelling a sowing (`Transitions`) decide on
the row they read and write status and crop (`Moved`); the silage flag stays, also where
the crop goes. The records of the harvests are in `FieldRequests`.

`ManagementForms` adds the dialogs, one page per behaviour. A tab has the rows it was
told (`rows`) and what it was told last (`heard`), which differ only if the page has
changed a row in the store by itself. Opening turns a row into inputs, saving turns
all inputs into a body; `Client` sends partial bodies meanwhile. The dialog for
buildings copies the chains of its row one level deep, so editing a recipe that is not
the catalog's writes through to `rows`; `OnlyRecipesLeak` says exactly how far that goes.

The dialog for fields stays mounted and watches the crop of its form (`CropWatched`), so
opening it is a change of crop whenever it held another one last (`slug`; none after the
page was loaded). A harvest, or a change of version, leaves rows that have the silage flag
and no crop, or one that cannot be ensiled (`Stranded`). Opened where the watcher sees a
change, the dialog clears that flag; where it sees none (the crop was empty before, too),
it shows the flag beside a disabled switch, and saving it untouched is refused with 422.
`UntouchedFormsAreHarmless` allows these two outcomes for such rows and nothing
else for any row; `SilageFollowsCrop` says that a dialog cannot make such a state itself.

## 3. What the runs check

| Run | Question | Bounds |
|---|---|---|
| `refresh_overlap` | chains, cleanup and closed sessions under any overlap | 5 requests, 2 users, life and grace of one tick |
| `refresh_serial` | single use, reuse kills, refinement of `UserSessions`, expired rows are deleted in the end, one request at a time | 4 requests, 1 user |
| `fields` | nothing dangles and history stays, whatever overlaps; for an orderly client crops belong to the version, a sowing is harvested once, and the handlers implement `FarmFields` | 4 requests, 2 versions, 2 crop slugs |
| `fields_double_harvest` | *violation*: two overlapping harvests of one sowing | 4 requests |
| `accounts_overlap` | unique names, active farm is one's own, refinement of `Accounts`, under any overlap | 5 requests, 2 e-mail addresses, 2 farm names |
| `stables_overlap` | names apart, never overfull, gone with the farm, whatever overlaps; fitting configs, known crops and exact patches for an orderly client | 4 requests, 2 versions, 2 species, 3 bodies, 8 patches |
| `records` | names, owners and chains of the rows; exact patches; untouched, cancelled and refused dialogs; stranded silage flags; one row per dialog | 2 tabs (1 for buildings and for fields) and a client, 2 edits (3 for buildings), 2 requests (3 for fields), 1 lost answer, 4 ids, 2 chains per dialog (`MaxChains`) with ids from 9 (`ChainIds`), 1 product per side of a recipe |
| `web_overlap` | waiters, storage and settling calls, whatever overlaps, is reloaded or lost | 1 tab, 2 requests beside the refresh, 3 token pairs |
| `web_quiet` | no self-inflicted reuse; signed out means empty; devices do not disturb each other | 2 devices of one user, 2 requests each, 3 token pairs |
| `web_logout_undone` | *violation*: a refresh in flight undoes a sign-out | 1 tab |
| `screens_overlap` | one fetch per version, no flag without a request; for a patient user rows, catalog, pin, configuration and selection are those of the active farm | 2 farms, 2 versions, 3 rows of a kind, 8 pages, 3 acts of a patient user, 1 of a hasty one, 1 lost call |
| `projections` | totals, overrides, feed, land, straw, cycles and times for every edit of every calculator | 2 ids, typed numbers -5, -1, 0, 1 and 2, hectares and heads up to 2, factors in quarters, a catalog of 2 crops and 7 animals |

**Bounds.** Five token requests are a login, two rotations of its token and two
more that collide with them; the disagreements found need four. Four field
requests are create, sow and two that race; two versions and two slugs give a
crop that exists in both versions and one that does not. Five account requests
are a registration and four that work on its farms, or two registrations and three
that race; two names are what a clash needs. Four stable requests are a creation,
two patches that read the same row and a farm request between them; the bodies
and patches are chosen so that each check is met by one that passes and one that
fails it. Two tabs that save twice are what two creations of one name, or two
updates of one row, need; three edits are a chain, its recipe and a field beside
it; four ids are two rows there at first and two created. Three requests on a field are a
harvest and two saves of its dialog; of the two fields there at first one is sown for
silage, and the other has a flag that a change of version left beside a crop without
silage. A chain's id stands for a random UUID: nine are more than a behaviour can use. Three acts are a switch,
a write and a switch back, or an edit, a save and a reset; one act of the hasty user
meets every call a page makes when it opens. Two ids are two fields, stables,
buildings or machines, the least a total can be wrong about; numbers up to two, and down
to a bonus below -100 %, with factors up to a quarter more than one reach every clamp and every zero. Three
token pairs are a login, a refresh and a second refresh, or two
logins and a refresh. One tick of life and one of grace tell fresh, expired and
purgeable apart.

`Overlap` (a constant of `RefreshTokens` and `WebSession`), `orderly` and `patient` separate
what holds always from what holds when nothing overlaps. Runs with `CHECK_DEADLOCK
FALSE` are those whose requests, acts or token pairs are finite in number: the model
stops when they are spent.

The violation runs show real behaviour of the code against a sentence in its own
comments; `PROJECT.json` quotes each of them under `findings`. More of what the
code does could be seen by dropping the condition from a property that has one:

* a rotation in flight survives the kill of its family (`KilledFamilyEnds`), and two
  refreshes of one token can both succeed (`SingleUse`), with `Overlap`;
* a PATCH of a field against a version change, a cancelled sowing against a PATCH, a
  species against a config of a stable, without `orderly`;
* a hasty user is shown the rows of one farm under the name of another, loses the
  pinned farm to a late answer, or saves the configuration of the farm before, and so
  does a patient one after a lost call, without `patient` and `lost = 0`;
* a machine is created twice when the first answer was lost (`OneRowPerDialog`).

More divergences are in the model as the code has them, without a run of their own: the
watcher of the dialog for fields is there "so we never submit an invalid (isSilage +
unsupported crop) combination" (`FieldFormModal.vue:130-131`), but an untouched dialog of a
field that lost its crop submits one; the API skips the crop rules for other
columns since "otherwise the existing values already satisfy the rules"
(`fields.service.ts:128`), which those fields do not; a
raced building name is answered `duplicate` although the comment of its repository
says the error handler maps it to the specific code
(`productionBuildings.repository.ts:60`), and an emptied bonus of a herd is 0, not the
default its help text promises (`AnimalInputsPanel.vue:106`, `TypeNumber`).

**Fairness.** `refresh_serial` assumes that a handler that has read its row goes on,
that the repeatable job keeps being run (BullMQ schedules it as long as the worker
lives) and that time passes. `web_overlap` assumes that a call is answered or fails
and that the event loop gets round to every answer; it does not assume that
messages arrive, nor that the user does anything. The other runs check safety only
and assume no fairness. That a page stops loading is stated as safety instead
(`FlagsComeDown`): a flag that is up has a request under way, and that every request
is answered or fails is what `CallsSettle` shows of the client below the stores.

**Assumptions of `web_quiet`.** The user waits for the page before signing in or
out or reloading; no refresh, with the retry after it, takes as long as the
fifteen minutes an access token lives; and nothing is lost on the network. With
two tabs of one device, or a page reloaded during a refresh, the code does present
a used token: nothing tells a tab what another one has stored.

## 4. What is proved

All results hold for any number of requests, users, names, crops and so on, and
rest only on the assumptions stated with the constants: null values are not ids, the
default name is a name, the silage crops are crops, life and grace are natural
numbers, what clients send has the shape the request schemas enforce, the catalog has
the shape the schemas and the seed give it. TLC evaluates each of them on the runs.

`RefreshTokens_proofs`: `TypeCorrect`, `ChainStaysIntact`, `CleanupIsNeverBlocked` and
`ClosedIsFinal`, with and without overlap. `ChainIntact` is not inductive alone. The
strengthening `IInv` adds what a handler between its two steps knows of the row it
read (`PendingOK`), that a row belongs to a request that has been answered
(`RowsIssued`), and the key fact `SuccessorsAreYounger`: a successor is at most as old
as the row that names it, so the cleanup can never delete it first.
For one request at a time, `SerialSingleUse`, `NoSessionEndsByItself`, `SerialKillIsFinal`
and `SerialRefinesUserSessions`, which is `~Overlap => (Spec => ImplementsUserSessions)`.
`SerialInv` adds that a handler is alone (`Alone`), that the row a rotation decided on
still lives (`RotatesWhatLives`) and that a token which was traded in is closed
(`SpentIsClosed`); with overlap the second is false, which is the reported race.

`FieldRequests_proofs`: `TypeCorrect`, `NothingEverDangles` and `HistoryStaysOnRecord`
under any overlap; `SerialCropsBelong` and `SerialCropsAccounted`, which say of
orderly clients that crops fit the version and go where they should. The strengthening
says what shape a pending job has (`PendingOK`) and that ids are fresh until used
(`IdsFresh`); the serial results add that at most one request is in flight (`Alone`) and
that what it read is still so (`ReadsHold`), which is precisely what overlap destroys.
`SerialRefinesFarmFields` is the refinement for orderly clients: reads are stutters, each
write is the action of `FarmFields` of its name, whose guard `ReadsHold` provides.

`UserFarms_proofs`: `TypeCorrect`, `NamesStayUnique`, `ActiveFarmStaysOwned` and
`HandlersAreAtomic`, which is `Spec => ImplementsAccounts`: the refinement itself, with
every request overlapping every other. The invariant behind it (`IInv`)
says what shape a pending job has (`RequestsOK`), that a request which has not
written owns no row (`IdsFresh`), and that the owner of a farm has an account
(`OwnersAreUsers`), since accounts are never deleted. Each write then maps to the
abstract action of its name, because the key that lets it through is the abstract
guard; each check maps to a stutter.

`FarmStables_proofs`: `TypeCorrect` and `StablesStaySound` under any overlap;
`ConfigsKeepFitting`, `WrittenCropsAreKnown` and `PatchesStayInTheirColumns` for an orderly
client. These rest on `OrderlyInv`: at most one request is in flight (`Alone`), and what
it checked, on the row it read, still holds of the row there is (`ChecksStillHold`).

`WebSession_proofs`: about devices that show the application in one tab
(`OneTabPerDevice`), since the tabs of a device share a localStorage and nothing tells a
tab what another one stored. Whatever overlaps, is lost or reloaded: `TabsStayConsistent`,
no request waits for a refresh that is not under way and a device remembers what
its tab holds. For tabs that wait for their requests (`~Overlap`): `QuietRefreshesAreLive`,
`QuietSignedOutHoldsNothing` and `QuietOthersSurvive`. The invariant `IInv` says which
calls each lane of a tab carries and that tokens come from the API; `QuietInv` adds who may
be in flight with whom, and that a token a tab holds or is about to get is live and
held by nobody else. That ownership is what makes reuse impossible, and it is what a
second tab or a lost refresh breaks.

`ManagementForms_proofs`: `RowsStaySound` (names unique, nothing left of a deleted
farm, chains complete and with ids apart) and `OnlyTheNamedColumns`, for any number of
tabs and any dialogs. The tabs drop out of the argument: `IInv` speaks of the rows and
of the requests only, and holds whatever is sent. Its part `PendingOK` says what the
handler has checked of a body by the time it writes: that is what carries soundness of
the chains, which no constraint repeats, over the gap between check and write.
`OneRowPerSave` is about the tabs: `DialogInv` follows a dialog together with the
request its tab sent last, so a dialog that was answered every time made one row at most.
`OnlyRecipesGetOut` (`OnlyRecipesLeak`) follows the arrays a dialog shares with the store:
`LeakInv` says that a chain is shared only if it had a recipe of its own when the API told
of it, that rows and answers have chains with ids apart (which is how an edit finds the
chain it writes through to), and that nothing but recipes then differs (`LeakedRow`).
The assumptions are that rows there at first are such as the API accepts
(`FirstAssumption`), that the other client sends no creations (`ClientAssumption`), that
requests are those of the tabs and the client (`RequestsAssumption`), that there is a
farm (`FarmsAssumption`) and that `None` is not an answer (`NoneAssumption`).

`Calculators_proofs`: all five invariants of the run `projections`, for any catalog, any
number of fields, stables, buildings, chains and machines, and any numbers typed:
`ResultsStayDefined` (`TypeOK`), `FieldsKeepTheirWorth`, `TotalsStayTheSums`,
`HerdsStayFed` and `TimesStayRight`. Numbers are whole ones, negative ones included;
hectares, heads and areas are not negative, as the schemas and the speed page ask. A result is a state function, so the induction is about
the inputs only (`Inputs`, `HerdInputs`: an animal has a feed type exactly when it is a
ruminant, `ScreenIsKnown`); the rest are lemmas about the engines' operators. The totals
are folds over finite sets. Their laws (`SumTake`, `SumSplit`, `SumByRows`, `SumRenamed`,
`SideAddsUp`, ...) are proved by induction over the finite set, with the statement as a
set of subsets (`SetInduction`, from the library's well-founded subset order), because the
library's own induction theorems take the statement as an operator, which the provers
cannot instantiate. A sum of quotients is compared over the common number of parts a
building cuts its month in (`InParts`, `CommonMonth`). A herd is followed through its plan:
the same needs whatever the bonus, and only the land of each depends on it (`HerdPlan`).
What the catalog has to give for that is `RationsAssumption`: rates are negative
for food and straw only, the parts of a mixed ration add up to it, every ruminant has a
silage crop, a product is not a residue. The seed satisfies it and no schema asks for it.

`FarmScreens_proofs`: all four properties of the run `screens_overlap`, for any farms,
versions, rows and pages, and any number of acts. A step runs a whole continuation,
which calls the functions of several stores in turn, so the invariants are stated of
a tab record, a lemma for each function says what it makes of them, and the action
of a click or an answer puts the lemmas together. It has two parts.

*Any user, any network:* `StoresStayCoherent`. `Coherent(w, due)` says that the flags that
are up have a call in flight which takes them down (`Flags`, `SpeedFlag`) and that a version
is fetched by one call or is there (`Fetches`). In the middle of a continuation this is
not so: the answer has been taken out and its flag is still up. `due` names what the rest
of the continuation still has to do, and `Owes` ties that to the call that was answered.

*A user who waits, while nothing is lost:* `ScreenStaysOfOneFarm`, `SavedInputsKeepComingBack`
and `PinStaysKept`, from the invariant `PatientInv` (`PatientTabIsFine`). None of the three is
inductive: they speak of a page at rest or of one step, and between two rests come the
answers to every call a page makes, in any order. `Fine(s, w)` relates the API s to the tab w at every moment in between:

* `Orderly`, `Sound`: a call that writes is in flight alone, and was sent by what is still
  on the page; calls that read may be many, and each asks for the active farm or for the
  catalog of its version (`ReadOf`). That is why the order of the answers does not matter.
* `FarmsFit`, `RowsFit`, `ConfigsFit`, `SpeedFits`: the tab knows no farm the API has not;
  the active farm is the pinned one unless the call that pins it is in flight; rows are
  those the API has or are asked for; what is saved is of the farm it is saved for.
* `Shown`: a page that follows the active farm shows it, its catalog and its inputs, or
  has the call in flight that will make it so, or the active farm is changing (`Moving`).

A call that reads is answered, or sent, in one of a dozen functions, and one relation,
`ReadsOn`, says of all of them what they leave alone; `Nearly` is the invariant before
the step's last function has settled `initializing`; `Resting` is what a page at rest
satisfies, from where a user's action starts (`Waited`). `PatientInv` claims
nothing of the user who does not wait, nor of what follows a lost call; the run has
both, and section 3 says what the screen may show then.

The module assumes what `FarmScreens` states of its constants: the pages are among the
application's (`PagesAssumption`), there is a farm, with a version (`OpenedAssumption`),
farms have numbers and rows an owner (`FarmsAssumption`, `OwnerAssumption`),
and what stands for null, for a failed call and for the default inputs stands for nothing
else (`MarksAssumption`). The recursive functions of the stores are followed by
induction over the numbers up to N, with the statement as a set (`CountInduction`).

The type invariants `TypeOK` of `RefreshTokens`, `FieldRequests`, `UserFarms` and
`FarmStables` are part of the inductive invariants and proved; the runs leave them out.

**Only model-checked:** what the dialogs hold while they are open (`DialogsFitTogether`,
`UntouchedFormsAreHarmless`), and every liveness property (liveness under fairness is
outside what the prover supports): `ExpiredRowsArePurged` of `refresh_serial` and
`CallsSettle` of `web_overlap`.
The two dialog properties make an exception for stranded flags, which is
what the code does (section 2). For the rest they depend on what the farm's other client
sends: the API
takes a production with a recipe's inputs and no cycles, and notes that are the empty
string (`productionBuildings.ts`), and the form gives back neither as it was. They hold
of the client in the run's constants, which saves what this form would save, and not of
every client the schemas allow, so a theorem would need an assumption the code does not
justify.

## 5. What is not modelled

* Rendering, styles, formatting, translation, the OpenAPI generation, logging, the rate
  limit and deployment have no state a property could be about; the server shell is
  wiring. `FarmScreens` has what pages load and keep, not how they lay it out.
* The seed and the migrations run before the system does. The queries behind the
  catalog are reads of tables that never change while it runs; the catalog is a
  constant wherever it is used. `loadGameVersions` fills one select.
* Passwords and profile data (`updateMe`), locale and theme: the plan takes them up.
  Password hashing and token generation are taken to be collision free.
* Starting and stopping the worker, and BullMQ's scheduling: an assumption.
* What is typed into the dialog for farms. The dialogs for harvesting and for cancelling
  a sowing are the request they send (`Transition`, and `FarmScreens`); the crop that the
  comparison table passes to the dialog for a new field is not modelled.
* Floating-point error in the engines: quantities are exact in the model.
* Two tabs over one set of stores, and a change of user in one tab: `FarmScreens` has
  one tab of one user, `WebSession` has the sessions of several.

Two consequences of the code that no property forbids, because no document does:
a version change leaves the crop slugs in stable configs and in saved
animal-calculator inputs as they are, even if the new version has no such crop;
and of a raced `currentCount`/`maxCapacity` the loser is answered with a 500, since
the error handler has no mapping for a CHECK violation.

The hazards in `PROJECT.json` without a property are of two kinds. Either the code does
go wrong there and nothing says it should not (a page reloaded while its refresh is
under way, two tabs of one device), or the part is not modelled yet (passwords). A
hazard of overlap may have a property that is checked for waiting clients only: its note
says so and what the code does to the others, and such a property does not catch the
hazard, but a mistake that would hurt a client who does nothing unusual.

## 6. Plan

In this order:

1. Passwords and profile in `UserFarms`: a change of password against a second one and
   against a login; then the lazy creation of settings.
2. What the two dialog properties say of every client, once the form gives back what the
   API accepts.
3. Two tabs of one device in `WebSession`, with what the second one may still promise.
4. One run for `RefreshTokens` with the choice between overlapping and waiting clients
   in the initial state, which leaves room for runs that show the code a raced building
   name is answered with, and the untouched dialog that is refused.
5. The worker's start and stop, and an idempotent re-run of the seed.
