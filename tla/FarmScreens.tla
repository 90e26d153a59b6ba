----------------------------- MODULE FarmScreens -----------------------------
(***************************************************************************)
(* The pages over the stores of WebStores: what each loads when it opens   *)
(* and when the active farm changes, the farm switcher, the animal         *)
(* calculators with their saved configuration, and the speed calculator    *)
(* with its automatic save (web/app/pages, features/farm-switcher,         *)
(* features/calculator-config, widgets/animal-calculator-panels).          *)
(*                                                                         *)
(* The inputs of a calculator are the farm that was active when they were  *)
(* typed, or Default; a selection is a set of pairs of a kind and an id.   *)
(***************************************************************************)
EXTENDS WebStores

CONSTANTS
  Pages,      \* the pages that can be opened
  Actions,    \* what the user can do on them, besides
  MaxActs,    \* how often the user acts who waits until the page is quiet
  MaxRushed,  \* and how often the one who does not
  MaxLost,    \* how many calls the network loses
  Default,    \* the inputs a calculator starts from
  VersionOf,  \* the versions of the farms there are when the tab is opened
  First       \* the ids of the rows there are then

\* The pages of the farm there are; a tab is opened on a user who has a farm.
ASSUME PagesAssumption ==
  Pages \subseteq {"dashboard", "fields", "harvests", "stables", "machinery",
                   "production", "herd", "speed"}
ASSUME OpenedAssumption ==
  Farms # {} /\ VersionOf \in [Farms -> Versions] /\ First \subseteq Ids
\* What stands for null, for the answer of a call that fails and for the inputs a
\* calculator starts from stands for nothing else.
ASSUME MarksAssumption ==
  /\ None \notin Farms /\ None \notin Versions /\ None # Default
  /\ Failed \notin Farms /\ Failed \notin {None, Default}
  /\ \A F \in SUBSET Farms : Failed \notin [F -> Versions]
  /\ \A D \in SUBSET Ids : Failed \notin [D -> Int]
  /\ \A picks \in SUBSET (Kinds \X Ids) : picks \notin {None, Failed}

OrElse(x, y) == IF x = None THEN y ELSE x

VARIABLES
  server,    \* what the API has
  web,       \* what the tab has
  patient,   \* the user waits until nothing is loading or saving
  acts,      \* what the user did so far
  lost       \* calls that failed on the way

vars == <<server, web, patient, acts, lost>>

\* The kinds a page shows, and those it keeps to the active farm.
KindsOf(page) ==
  CASE page = "dashboard" -> {"fields", "stables"}
    [] page = "speed" -> {"fields", "machinery"}
    [] page = "herd" -> {"stables"}
    [] page = "production" -> {"buildings"}
    [] OTHER -> {page}
Following == {"dashboard", "stables", "machinery", "production", "herd"}
\* The pages that look for an active farm when there is none.
Bootstrapping == {"dashboard", "fields", "harvests", "speed", "herd"}
-----------------------------------------------------------------------------
(* The animal calculators: useCalculatorConfig.                              *)
NewConfig == [inputs |-> Default, saved |-> FALSE, dirty |-> FALSE,
              loading |-> FALSE, saving |-> FALSE]

Applied(w, inputs, saved) ==
  [w EXCEPT !.config.inputs = inputs, !.config.saved = saved,
            !.config.dirty = FALSE]

LoadConfig(w) ==
  IF w.active = None THEN Applied(w, Default, FALSE)
  ELSE Send([w EXCEPT !.config.loading = TRUE],
            Call(For("herd"), "config", None, w.active, None, None))

SlipNoConfigApplied(w, answer) ==
  LET w1 == [w EXCEPT !.config.loading = FALSE]
  IN IF answer = Failed THEN Applied(w1, Default, FALSE) ELSE Applied(w1, answer, TRUE)
ConfigLoaded(w, answer) ==
  LET w1 == [w EXCEPT !.config.loading = FALSE]
  IN IF answer \in {Failed, None} THEN Applied(w1, Default, FALSE)
                                  ELSE Applied(w1, answer, TRUE)

ConfigSaved(w, c, answer) ==
  LET w1 == [w EXCEPT !.config.saving = FALSE]
  IN IF answer = Failed THEN w1
     ELSE IF c.op = "saveConfig" THEN Applied(w1, answer, TRUE)
     ELSE Applied(w1, Default, FALSE)
-----------------------------------------------------------------------------
(* The speed calculator: bootstrap, applyState, persist, scheduleSave.       *)
NewSpeed == [farm |-> None, picks |-> {}, hydrating |-> TRUE, timer |-> FALSE]

SlipKeepsOrphans(w, picks) == picks
StillThere(w, picks) == {p \in picks : p[2] \in DOMAIN w.store[p[1]].rows}

StateLoaded(w, answer) ==
  [w EXCEPT !.speed.hydrating = FALSE,
            !.speed.picks = IF answer \in {Failed, None} THEN @
                            ELSE StillThere(w, answer)]

\* Both stores are there: ask for the saved state.
LoadState(w, c) ==
  IF \/ ~c.mounted \/ ~w.speed.hydrating
     \/ InFlight(w, LAMBDA d : d.op = "list" /\ d.for = "speed" /\ d.mounted)
  THEN w
  ELSE Send(w, Call(c, "state", None, w.speed.farm, None, None))

Persist(w, picks) ==
  IF w.active = None THEN w
  ELSE Send(w, Call(For("page"), "saveState", None, w.active, None, picks))
-----------------------------------------------------------------------------
(* What a page loads.                                                        *)
LoadMissing(w, k, c) ==
  IF w.store[k].farm = w.active THEN w ELSE Load(w, k, w.active, c)

\* stables.vue and machinery.vue: not again what is there already.
SlipKeepsWhatItHas(w, k) ==
  IF w.active = None \/ (w.store[k].rows # Nothing /\ ~w.store[k].failed) THEN w
  ELSE Load(w, k, w.active, For("page"))
Reload(w, k) ==
  IF w.active = None \/ (w.store[k].farm = w.active /\ ~w.store[k].failed) THEN w
  ELSE Load(w, k, w.active, For("page"))

\* The chain of useAnimalCalculatorScreen: catalog, stables, configuration.
HerdConfig(w, c) == IF c.mounted THEN LoadConfig(w) ELSE w
HerdStables(w, c) ==
  IF w.active # None /\ w.store["stables"].farm # w.active
  THEN Load(w, "stables", w.active, c) ELSE HerdConfig(w, c)

LoadCatalog(w, key, c) ==
  IF key \notin w.cached THEN FetchCatalog(w, key, c)
  ELSE LET w1 == [w EXCEPT !.current = key]
       IN IF c.for = "herd" THEN HerdStables(w1, c) ELSE w1

LoadCatalogOf(w, f, c) ==
  IF Version(w, f) = None THEN w ELSE LoadCatalog(w, Version(w, f), c)
HerdCatalog(w, c) ==
  LoadCatalog(w, IF Version(w, w.active) = None THEN Active ELSE Version(w, w.active), c)

LoadFarmData(w, c) ==
  Load(Load(LoadCatalogOf(w, w.active, c), "fields", w.active, c),
       "stables", w.active, c)
ResetFarmData(w) == ResetRows(ResetRows(w, "fields"), "stables")

LoadProduction(w) ==
  LoadCatalog(Load(w, "buildings", w.active, For("page")), Active, For("page"))

\* What follows when the bootstrap of page c.for has settled the active farm.
Bootstrapped(w, c) ==
  CASE c.for = "dashboard" ->
         IF w.active = None THEN ResetFarmData(w) ELSE LoadFarmData(w, c)
    [] c.for \in {"fields", "harvests"} ->
         IF w.active \notin DOMAIN w.farms THEN w
         ELSE Load(LoadCatalogOf(w, w.active, c), c.for, w.active, c)
    [] c.for = "herd" -> HerdCatalog(w, c)
    [] c.for = "speed" ->
         IF w.active = None THEN [w EXCEPT !.speed.hydrating = @ /\ ~c.mounted]
         ELSE LET w1 == IF c.mounted THEN [w EXCEPT !.speed.farm = w.active] ELSE w
              IN LoadState(LoadMissing(LoadMissing(w1, "fields", c), "machinery", c), c)

\* A bootstrap that throws ends there; the calculators swallow the error.
Aborted(w, c) ==
  IF c.mounted /\ c.for = "speed" THEN [w EXCEPT !.speed.hydrating = FALSE]
  ELSE IF c.mounted /\ c.for = "dashboard" THEN [w EXCEPT !.initializing = FALSE]
  ELSE w
-----------------------------------------------------------------------------
(* The active farm.                                                          *)
\* The watchers on activeFarmId of the page that is open.
SlipConfigStays(w) ==
  CASE w.page \in {"stables", "machinery"} -> Reload(w, w.page)
    [] w.page = "herd" /\ w.active # None ->
         LoadMissing(HerdCatalog(w, For("page")), "stables", For("page"))
    [] OTHER -> w
ActiveFarmChanged(w) ==
  CASE w.page = "dashboard" /\ ~w.initializing ->
         IF w.active = None THEN ResetFarmData(w)
                            ELSE LoadFarmData(w, For("page"))
    [] w.page \in {"stables", "machinery"} -> Reload(w, w.page)
    [] w.page = "production" ->
         IF w.active = None THEN ResetRows(w, "buildings") ELSE LoadProduction(w)
    [] w.page = "herd" ->
         LET w1 == LoadConfig(w)
         IN IF w.active = None THEN w1
            ELSE LoadMissing(HerdCatalog(w1, For("page")), "stables", For("page"))
    [] OTHER -> w

Activate(w, f) ==
  IF w.active = f THEN w ELSE ActiveFarmChanged([w EXCEPT !.active = f])

\* ensureActive: the pinned farm, or else the first one, which is then pinned.
SlipFallsBackLocally(w, pin, c) ==
  Bootstrapped(Activate(w, IF pin \in DOMAIN w.farms THEN pin ELSE FirstFarm(w)), c)
Adopted(w, pin, c) ==
  LET first == FirstFarm(w)
  IN IF pin \in DOMAIN w.farms THEN Bootstrapped(Activate(w, pin), c)
     ELSE IF first # pin THEN SetActiveFarm(w, first, None, c)
     ELSE Bootstrapped(Activate(w, first), c)

Pinned(w, c, answer) ==
  LET w1 == [w EXCEPT !.saving = FALSE]
      w2 == IF answer = Failed THEN w1 ELSE Activate(w1, answer)
  IN CASE c.for \in Bootstrapping ->
            IF answer = Failed /\ c.for # "herd" THEN Aborted(w1, c)
                                                ELSE Bootstrapped(w2, c)
       [] c.for = "switcher" /\ answer # Failed /\ c.body # None ->
            LoadCatalog(w2, c.body, For("page"))
       [] OTHER -> w2

\* FarmManageModal and FarmSwitcher (or the dashboard that has no farm yet).
FarmCreated(w, c, answer) ==
  LET w1 == [w EXCEPT !.farms = Over(Single(answer, c.body), @), !.saving = FALSE]
  IN IF answer = Failed THEN [w EXCEPT !.saving = FALSE]
     ELSE IF c.for = "dashboard-new"
     THEN SetActiveFarm(w1, answer, None, c)
     ELSE SetActiveFarm(w1, answer, c.body, c)

\* onUpdated, onDeleted: the catalog of the farm that is active now.
SlipUpdateKeepsCatalog(w) == w
CatalogOfActive(w) == LoadCatalogOf(w, w.active, For("page"))

FarmUpdated(w, c, answer) ==
  LET w1 == [w EXCEPT !.saving = FALSE]
  IN IF answer = Failed THEN w1
     ELSE CatalogOfActive([w1 EXCEPT !.farms = Over(Single(c.farm, c.body), @)])

SlipDeleteClearsThePin(w, f) == SetActiveFarm(w, None, None, For("deleted"))
FarmGone(w, f) ==
  IF w.active = f THEN SetActiveFarm(w, None, None, For("deleted"))
  ELSE CatalogOfActive([w EXCEPT !.saving = FALSE])

FarmDeleted(w, c, answer) ==
  IF answer = Failed THEN [w EXCEPT !.saving = FALSE]
  ELSE FarmGone([w EXCEPT !.farms = Without(@, {c.farm})], c.farm)
-----------------------------------------------------------------------------
(* What an answer sets off.                                                  *)
FarmsLoaded(w, c, answer) ==
  LET w1 == IF answer = Failed THEN w ELSE [w EXCEPT !.farms = answer]
  IN IF answer = Failed /\ c.for # "herd" THEN Aborted(w, c)
     ELSE IF c.for \in {"fields", "harvests"} /\ w.active # None
     THEN Bootstrapped(w1, c) ELSE EnsureActive(w1, c)

SettingsLoaded(w, c, answer) ==
  IF answer # Failed THEN Adopted(w, answer, c)
  ELSE IF c.for = "herd" THEN Bootstrapped(w, c) ELSE Aborted(w, c)

\* A chain goes on where its load has ended, well or badly.
Continued(w, c, answer) ==
  IF c.for = "herd"
  THEN IF c.op = "catalog" THEN HerdStables(w, c) ELSE HerdConfig(w, c)
  ELSE IF answer = Failed THEN Aborted(w, c)
  ELSE IF c.for = "speed" /\ c.op = "list" THEN LoadState(w, c) ELSE w

RowsLoaded(w, c, answer) == Continued(Loaded(w, c, answer), c, answer)
\* Who fetched goes on first, then those who wait for it, in their order.
CatalogLoaded(w, c, answer) ==
  LET after[n \in 0..Len(w.calls)] ==
        IF n = 0 THEN Continued(Fetched(w, c, answer), c, answer)
        ELSE IF n \in WaitingFor(w, c.body)
        THEN Continued(after[n - 1], w.calls[n], answer) ELSE after[n - 1]
  IN after[Len(w.calls)]

RowWritten(w, c, answer) ==
  LET w1 == Written(w, c, answer)
  IN IF c.op = "harvest" /\ answer # Failed /\ w.active # None
     THEN Load(w1, "harvests", w.active, For("page")) ELSE w1

Effect(w, c, answer) ==
  CASE c.op = "farms" -> FarmsLoaded(w, c, answer)
    [] c.op = "settings" -> SettingsLoaded(w, c, answer)
    [] c.op = "pin" -> Pinned(w, c, answer)
    [] c.op = "createFarm" -> FarmCreated(w, c, answer)
    [] c.op = "updateFarm" -> FarmUpdated(w, c, answer)
    [] c.op = "deleteFarm" -> FarmDeleted(w, c, answer)
    [] c.op = "list" -> RowsLoaded(w, c, answer)
    [] c.op = "catalog" -> CatalogLoaded(w, c, answer)
    [] c.op \in {"create", "update", "remove", "harvest"} -> RowWritten(w, c, answer)
    [] c.op = "config" /\ c.mounted -> ConfigLoaded(w, answer)
    [] c.op \in {"saveConfig", "dropConfig"} /\ c.mounted -> ConfigSaved(w, c, answer)
    [] c.op = "state" /\ c.mounted -> StateLoaded(w, answer)
    [] c.op = "timer" -> Persist(w, c.body)
    [] OTHER -> w

\* initialize() of the dashboard ends with the last of its loads.
Settle(w) ==
  [w EXCEPT !.initializing =
     @ /\ InFlight(w, LAMBDA c : c.for = "dashboard" /\ c.mounted)]

\* A call that is answered; of a catalog, only the one who fetches.
Answerable == {i \in DOMAIN web.calls : web.calls[i].kind # "wait"}
After(i, answer) ==
  Settle(Effect([web EXCEPT !.calls = RemoveAt(@, i)], web.calls[i], answer))

Answer ==
  /\ \E i \in Answerable :
       /\ web' = After(i, Answered(server, web.calls[i]))
       /\ server' = CarriedOut(server, web.calls[i])
  /\ UNCHANGED <<patient, acts, lost>>

\* The network fails before or after the API has done its part.
Lose ==
  /\ lost < MaxLost
  /\ lost' = lost + 1
  /\ \E i \in Answerable :
       /\ web.calls[i].op # "timer"
       /\ web' = After(i, Failed)
       /\ server' \in {server, CarriedOut(server, web.calls[i])}
  /\ UNCHANGED <<patient, acts>>

SaveTimer ==
  /\ web.speed.timer
  /\ web' = Persist([web EXCEPT !.speed.timer = FALSE], web.speed.picks)
  /\ UNCHANGED <<server, patient, acts, lost>>
-----------------------------------------------------------------------------
(* The user.                                                                 *)
Quiet == web.calls = <<>> /\ ~web.speed.timer

Act(w) ==
  /\ acts < IF patient THEN MaxActs ELSE MaxRushed
  /\ acts' = acts + 1
  /\ patient => Quiet
  /\ web' = w
  /\ UNCHANGED <<server, patient, lost>>

Mounted(w, page) ==
  LET w1 == [w EXCEPT !.page = page, !.initializing = (page = "dashboard"),
                      !.config = NewConfig, !.speed = NewSpeed]
      c == For(page)
  IN CASE page \in {"stables", "machinery"} -> Reload(w1, page)
       [] page = "production" -> IF w1.active = None THEN w1 ELSE LoadProduction(w1)
       [] page \in Bootstrapping ->
            IF \/ page = "dashboard"
               \/ w1.farms = Nothing /\ (page # "speed" \/ w1.active = None)
            THEN LoadFarms(w1, c)
            ELSE IF w1.active = None THEN EnsureActive(w1, c) ELSE Bootstrapped(w1, c)

\* A page that is left goes on by itself, but is no longer seen.
Left(w) ==
  LET late == Call(For("page"), "timer", None, None, None, w.speed.picks)
      calls == IF w.speed.timer THEN Append(w.calls, late) ELSE w.calls
  IN [w EXCEPT !.calls = [i \in DOMAIN calls |-> [calls[i] EXCEPT !.mounted = FALSE]]]

NewTab ==
  [farms |-> Nothing, active |-> None, saving |-> FALSE, cached |-> {},
   current |-> None, store |-> [k \in Kinds |-> EmptyStore], page |-> None,
   initializing |-> FALSE, config |-> NewConfig, speed |-> NewSpeed, calls |-> <<>>]

OpenPage == \E page \in Pages \ {web.page} : Act(Mounted(Left(web), page))
ReloadTab == "reload" \in Actions /\ \E page \in Pages : Act(Mounted(NewTab, page))

SelectFarm ==
  /\ ~web.saving
  /\ \E f \in DOMAIN web.farms \ {web.active} :
       Act(SetActiveFarm(web, f, web.farms[f], For("switcher")))

ManageFarm ==
  /\ "manage" \in Actions /\ ~web.saving
  /\ \E v \in Versions :
       \/ Act(CreateFarm(web, v, For("switcher")))
       \/ /\ web.page = "dashboard" /\ ~web.initializing
          /\ web.active \notin DOMAIN web.farms
          /\ Act(CreateFarm(web, v, For("dashboard-new")))
       \/ \E f \in DOMAIN web.farms : Act(UpdateFarm(web, f, v, For("switcher")))
       \/ \E f \in DOMAIN web.farms : Act(DeleteFarm(web, f, For("switcher")))

\* The lists and their forms: whatever row is shown, for the active farm.
WriteRow ==
  /\ "write" \in Actions
  /\ web.page \in {"fields", "stables", "machinery", "production"}
  /\ web.active # None
  /\ web.page = "fields" => web.active \in DOMAIN web.farms
  /\ \E k \in KindsOf(web.page) :
       \/ Act(Write(web, "create", k, None))
       \/ \E id \in DOMAIN web.store[k].rows, op \in {"update", "remove"} :
            Act(Write(web, op, k, id))
       \/ /\ k = "fields"
          /\ \E id \in DOMAIN web.store[k].rows : Act(Write(web, "harvest", k, id))

EditConfig ==
  /\ web.page = "herd" /\ "edit" \in Actions
  /\ Act([web EXCEPT !.config.inputs = OrElse(web.active, Default),
                     !.config.dirty = (OrElse(web.active, Default) # web.config.inputs) \/ @])

\* linkStable copies the head count of one of the stables that are shown.
LinkStable ==
  /\ web.page = "herd" /\ "edit" \in Actions
  /\ ~web.config.saving /\ ~web.config.loading
  /\ \E id \in DOMAIN web.store["stables"].rows :
       Act([web EXCEPT !.config.inputs = OwnerOf[id], !.config.dirty = TRUE])

Configuring == web.page = "herd" /\ web.active # None
               /\ ~web.config.loading /\ ~web.config.saving
SaveConfig ==
  /\ Configuring
  /\ Act(Send([web EXCEPT !.config.saving = TRUE],
              Call(For("herd"), "saveConfig", None, web.active, None,
                   web.config.inputs)))

SlipResetForgetsOnly(w) == Applied(w, Default, FALSE)
Reset(w) ==
  IF w.config.saved
  THEN Send([w EXCEPT !.config.saving = TRUE],
            Call(For("herd"), "dropConfig", None, w.active, None, None))
  ELSE Applied(w, Default, FALSE)
ResetConfig == Configuring /\ Act(Reset(web))

Toggle ==
  /\ web.page = "speed" /\ "edit" \in Actions
  /\ \E k \in {"fields", "machinery"} : \E id \in DOMAIN web.store[k].rows :
       LET picks == web.speed.picks
           others == IF k = "fields" THEN {p \in picks : p[1] # k} ELSE picks
       IN Act([web EXCEPT
            !.speed.picks = IF <<k, id>> \in picks THEN picks \ {<<k, id>>}
                                                   ELSE others \cup {<<k, id>>},
            !.speed.timer = @ \/ ~web.speed.hydrating])

\* The API has farms with rows, perhaps a pin, configurations and selections;
\* a tab is opened on it.
InitServer ==
  \E farms \in {Farms, {Min(Farms)}} : \E pin \in farms \cup {None} :
    LET there(f) == {i \in First : OwnerOf[i] = f /\ f \in farms}
    IN server = [farms |-> Restrict(VersionOf, farms), pin |-> pin, gone |-> {},
                 rows |-> [k \in Kinds |->
                             [id \in UNION {there(f) : f \in farms} |-> 0]],
                 configs |-> [f \in Farms |-> IF f \in farms THEN f ELSE None],
                 picks |-> [f \in Farms |-> IF f \notin farms THEN None
                              ELSE {<<"machinery", i>> : i \in there(f)}]]

Init ==
  /\ InitServer
  /\ \E page \in Pages : web = Mounted(NewTab, page)
  /\ patient \in BOOLEAN
  /\ acts = 0 /\ lost = 0

Next ==
  \/ Answer \/ Lose \/ SaveTimer
  \/ OpenPage \/ ReloadTab \/ SelectFarm \/ ManageFarm \/ WriteRow
  \/ EditConfig \/ LinkStable \/ SaveConfig \/ ResetConfig \/ Toggle

Spec == Init /\ [][Next]_vars
-----------------------------------------------------------------------------
TypeOK ==
  /\ web.active \in Farms \cup {None} /\ web.page \in Pages
  /\ DOMAIN web.farms \subseteq Farms /\ web.cached \subseteq Keys
  /\ web.current \in Keys \cup {None}
  /\ \A k \in Kinds : /\ web.store[k].farm \in Farms \cup {None}
                       /\ DOMAIN web.store[k].rows \subseteq Ids
  /\ web.config.inputs \in Farms \cup {Default}
  /\ \A f \in Farms : server.picks[f] # None => server.picks[f] \subseteq Kinds \X Ids

\* The catalog of a version is fetched once: never twice at a time, and never
\* again when it is there; the current catalog is always one that is there, and
\* who waits for a fetch waits for one that is under way.
OneFetchPerVersion ==
  \A key \in Keys :
    LET asking(kind) == {i \in DOMAIN web.calls : /\ web.calls[i].op = "catalog"
                                                 /\ web.calls[i].body = key
                                                 /\ web.calls[i].kind = kind}
    IN /\ Cardinality(asking("fetch")) <= 1
       /\ key \in web.cached => asking("fetch") = {}
       /\ asking("wait") # {} => asking("fetch") # {}
CurrentIsCached == web.current # None => web.current \in web.cached

\* Nothing spins, or stays disabled, for a call that is not there: whatever fails
\* or overlaps, a flag that is up has a request in flight to take it down.
FlagsComeDown ==
  LET pending(ops, Test(_)) == InFlight(web, LAMBDA c : c.op \in ops /\ Test(c))
      any(c) == TRUE
  IN /\ \A k \in Kinds : web.store[k].loading =>
                          pending({"list"}, LAMBDA c : c.kind = k)
     /\ web.saving => pending({"pin", "createFarm", "updateFarm", "deleteFarm"}, any)
     /\ web.config.loading => pending({"config"}, LAMBDA c : c.mounted)
     /\ web.config.saving => pending({"saveConfig", "dropConfig"}, LAMBDA c : c.mounted)
     /\ web.speed.hydrating /\ web.page = "speed" =>
          pending({"farms", "settings", "pin", "list", "state"},
                  LAMBDA c : c.for = "speed" /\ c.mounted)

\* The following are about a user who waits for the page: other users can be
\* shown anything (see the README).
Settled == patient /\ Quiet /\ lost = 0

\* What a store shows is what the API has for the farm the store names.
StoresMirrorTheirFarm ==
  Settled => \A k \in Kinds :
    web.store[k].farm \in DOMAIN server.farms =>
      web.store[k].rows = RowsOf(server, k, web.store[k].farm)

\* The pages that follow the active farm show its rows and nothing else.
FollowersFollow ==
  Settled /\ web.page \in Following /\ web.active # None =>
    \A k \in KindsOf(web.page) : web.store[k].farm = web.active

\* Projections are made with the catalog of the version the active farm has.
CatalogFitsTheFarm ==
  Settled /\ web.page \in {"dashboard", "fields", "harvests", "herd"}
          /\ web.active # None =>
    web.current = server.farms[web.active]

\* The farm that is active is the one the API has pinned, and a user who has
\* farms is shown one.
PinIsTheActiveFarm ==
  Settled =>
    /\ web.active # None => web.active = server.pin
    /\ web.page \in Bootstrapping => web.active = server.pin

\* As long as no call is lost, the pin is only cleared when its farm is deleted.
PinIsKept ==
  [][patient /\ lost = 0 /\ server.pin' = None =>
       server.pin \notin DOMAIN server.farms']_vars

\* The configuration saved for a farm was typed, or copied from a stable, while
\* this farm was the active one.  (Rows of another farm stay when a load fails.)
ConfigsAreTheFarmsOwn ==
  patient /\ lost = 0 =>
    \A f \in Farms : server.configs[f] \in {None, Default, f}

\* A calculator that has not been touched shows what is saved for the farm.
CalculatorShowsWhatIsSaved ==
  Settled /\ web.page = "herd" /\ ~web.config.dirty /\ web.active # None =>
    web.config.inputs = OrElse(server.configs[web.active], Default)

\* The speed calculator shows a saved selection without what has been deleted
\* since, and what the user picks is saved: for the farm it was opened for or,
\* as the page does not follow the switcher, for the one that is active by now.
SelectionIsTheSavedOne ==
  Settled /\ web.page = "speed" /\ web.speed.farm = web.active /\ web.active # None
          /\ server.gone \cap ({"farm"} \X Farms) = {} =>
    LET own == {p \in Kinds \X Ids :
                  p[2] \in DOMAIN RowsOf(server, p[1], web.active)}
    IN \E f \in Farms :
         web.speed.picks = OrElse(server.picks[f], {}) \cap own

(* What the run checks, beside PinIsKept: the parts above, by subject.       *)
\* Every store, at any moment and for any user: one fetch per version, a
\* current catalog that is there, no flag without a request behind it.
StoresAreCoherent == /\ TypeOK /\ OneFetchPerVersion
                     /\ CurrentIsCached /\ FlagsComeDown

\* For the user who waits, rows, catalog and pin are those of one farm: the one
\* that is active, as the API has it.
ScreenIsOfOneFarm == /\ StoresMirrorTheirFarm /\ FollowersFollow
                     /\ CatalogFitsTheFarm /\ PinIsTheActiveFarm

\* For the user who waits, what a calculator shows is what was saved for the
\* farm, and what is saved for a farm is the farm's.
SavedInputsComeBack == /\ ConfigsAreTheFarmsOwn /\ CalculatorShowsWhatIsSaved
                       /\ SelectionIsTheSavedOne
=============================================================================
