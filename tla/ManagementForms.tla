--------------------------- MODULE ManagementForms ---------------------------
(***************************************************************************)
(* The dialogs in which a farm's rows are created and edited               *)
(* (web/app/features/*-manage/ui/*FormModal.vue), in the tabs of a user,   *)
(* over the API of FarmRecords.                                            *)
(*                                                                         *)
(* A tab keeps the rows it was told (rows, and heard: what the API told    *)
(* last).  A dialog turns a row into what its inputs hold, the user edits, *)
(* and saving turns all of the inputs into a body again.  The dialog for   *)
(* buildings copies the chains of the row one level deep: a recipe that is *)
(* not the catalog's is the very array of the row in the store.  The dialog *)
(* for fields is one component that stays: it remembers the crop it held   *)
(* last, and watches for another one.                                      *)
(***************************************************************************)
EXTENDS FarmRecords, FiniteSets, SequencesExt

CONSTANTS
  Tabs,       \* requests: a tab has one under way at a time
  Client,     \* another program with partial bodies
  TabsOn, MaxEdits, MaxSaves,   \* page -> how many tabs are on it, how many edits
              \* and requests are made
  MaxLost,
  MaxChains, ChainIds,   \* of a dialog
  MaxIO,      \* products on one side of a recipe
  RowNames, Numbers,
  RecipesOf,  \* type of building -> the recipes the catalog has for it
  SlugOf,     \* crop id -> slug: the crops of the catalog
  ClientCalls,
  First       \* what each page shows at first: page -> (id -> columns)

ASSUME RequestsAssumption == Requests = Tabs \cup {Client} /\ Client \notin Tabs
ASSUME FarmsAssumption == Farms # {} /\ None \notin Ids
ASSUME NoneAssumption == None \notin {"no farm", "invalid"}
ASSUME ClientAssumption == \A c \in ClientCalls :
  c.op # "create" /\ (c.op \in Transitions => c.kind = "fields")
\* What there is at first is what the API accepts.
ASSUME FirstAssumption ==
  \A p \in DOMAIN First :
    /\ DOMAIN First[p] \subseteq Ids
    /\ p \in Keyed => \A i, j \in DOMAIN First[p] :
         /\ KeyOf[p] \in DOMAIN First[p][i]
         /\ First[p][i][KeyOf[p]] = First[p][j][KeyOf[p]] => i = j
    /\ p = "buildings" => \A i \in DOMAIN First[p] :
         /\ "chains" \in DOMAIN First[p][i]
         /\ AcceptsBuilding(First[p][i]) /\ ChainIdsApart(First[p][i])

VARIABLES
  page,       \* the page all tabs are on: a kind
  tabs,       \* tab that is open -> [rows, heard, form, slug]: slug is the crop
              \* its dialog for fields held last
  edits, saves, lost

vars == <<recordVars, page, tabs, edits, saves, lost>>

Farm == CHOOSE f \in Farms : TRUE
Form(t) == tabs[t].form
Saving(t) == req[t].at # "idle"
-----------------------------------------------------------------------------
(* From a row to what the inputs hold, and back.                             *)
Shown(x) == IF x = None THEN Empty ELSE x
Given(x) == IF x = Empty THEN None ELSE x

KnownTypes == DOMAIN RecipesOf
Custom == "__custom__"

SlipNoCustomText(row) ==
  [name |-> row.name, custom |-> Empty,
   selection |-> IF row.type \in KnownTypes THEN row.type ELSE Custom,
   notes |-> Shown(row.notes), chains |-> row.chains]
BuildingInputs(row) ==
  [name |-> row.name,
   selection |-> IF row.type \in KnownTypes THEN row.type ELSE Custom,
   custom |-> IF row.type \in KnownTypes THEN Empty ELSE row.type,
   notes |-> Shown(row.notes), chains |-> row.chains]
TypeOf(in) == IF in.selection = Custom THEN in.custom ELSE in.selection
BuildingBody(in) == [name |-> in.name, type |-> TypeOf(in),
                     notes |-> Given(in.notes), chains |-> in.chains]

\* slugForCropId, cropIdForSlug.  The form is reset to this; what the watcher of
\* the crop does then is CropWatched.
SlipZeroIsBlank(row) ==
  [number |-> row.number, silage |-> row.silage,
   bonus |-> IF row.bonus = 0 THEN Empty ELSE Shown(row.bonus),
   slug |-> IF row.crop \in DOMAIN SlugOf THEN SlugOf[row.crop] ELSE Empty]
FieldInputs(row) ==
  [number |-> row.number, silage |-> row.silage, bonus |-> Shown(row.bonus),
   slug |-> IF row.crop \in DOMAIN SlugOf THEN SlugOf[row.crop] ELSE Empty]
CropOf(slug) ==
  IF \E c \in DOMAIN SlugOf : SlugOf[c] = slug
  THEN CHOOSE c \in DOMAIN SlugOf : SlugOf[c] = slug ELSE None
FieldBody(in) == [number |-> in.number, crop |-> CropOf(in.slug),
                  silage |-> in.silage, bonus |-> Given(in.bonus)]

\* The inputs of a stable keep the keys of every species that was selected.
ConfigInputs(config) ==
  [k \in UNION {KeysOf[s] : s \in DOMAIN KeysOf} |->
     IF k \in DOMAIN config THEN config[k] ELSE None]
StableInputs(row) == [row EXCEPT !.config = ConfigInputs(@)]
SlipSendsHiddenKeys(in) ==
  [k \in {k \in DOMAIN in.config : in.config[k] # None} |-> in.config[k]]
BuildConfig(in) ==
  [k \in {k \in KeysOf[in.species] : in.config[k] # None} |-> in.config[k]]
StableBody(in) == [in EXCEPT !.config = BuildConfig(in)]

Hydrated(row) ==
  CASE page = "buildings" -> BuildingInputs(row)
    [] page = "fields" -> FieldInputs(row)
    [] page = "stables" -> StableInputs(row)
    [] OTHER -> row
Body(in) ==
  CASE page = "buildings" -> BuildingBody(in)
    [] page = "fields" -> FieldBody(in)
    [] page = "stables" -> StableBody(in)
    [] OTHER -> in

NoConfig == [k \in {} |-> None]
Blank ==
  CASE page = "buildings" -> [name |-> Empty, selection |-> Empty, custom |-> Empty,
                              notes |-> Empty, chains |-> <<>>]
    [] page = "fields" -> [number |-> Empty, silage |-> FALSE, bonus |-> Empty,
                           slug |-> Empty]
    [] page = "stables" -> [name |-> Empty, species |-> "cow", max |-> 0, count |-> 0,
                            config |-> ConfigInputs(NoConfig)]
    [] OTHER -> [name |-> Empty, size |-> Empty]

\* What the dialog itself refuses to send.
HasSilage(slug) == CropOf(slug) \in Silage
Submittable(in) ==
  CASE page = "buildings" -> in.selection = Custom => in.custom # Empty
    [] page = "fields" -> in.number # Empty /\ (in.silage /\ in.slug # Empty => HasSilage(in.slug))
    [] page = "stables" -> in.name # Empty /\ in.max >= 1 /\ in.count <= in.max
    [] OTHER -> in.name # Empty /\ in.size # Empty
-----------------------------------------------------------------------------
\* The watcher of the crop clears the flag when the crop is another than before,
\* by an edit or by opening the dialog -- and only then.
SlipSilageStays(in, before) == in
CropWatched(in, before) ==
  IF in.slug # before THEN [in EXCEPT !.silage = @ /\ HasSilage(in.slug)] ELSE in

Opened(t, id) ==
  IF id = None THEN Blank
  ELSE IF page = "fields" THEN CropWatched(FieldInputs(tabs[t].rows[id]), tabs[t].slug)
  ELSE Hydrated(tabs[t].rows[id])

\* Status "sown": the page offers neither to edit nor to delete the row.
Sown(row) == page = "fields" /\ row.sown
-----------------------------------------------------------------------------
(* What one edit can make of the inputs.                                     *)
FieldEdits(in) ==
  {[in EXCEPT !.number = n] : n \in Numbers \cup {Empty}}
    \cup {CropWatched([in EXCEPT !.slug = s], in.slug) : s \in Range(SlugOf) \cup {Empty}}
    \cup {[in EXCEPT !.bonus = b] : b \in {Empty, 0}}
    \cup IF HasSilage(in.slug) THEN {[in EXCEPT !.silage = ~@]} ELSE {}

StableEdits(in) ==
  {[in EXCEPT !.name = n] : n \in RowNames} \cup {[in EXCEPT !.max = 2]}
    \cup {[in EXCEPT !.count = n] : n \in {1, 3}}
    \cup {[in EXCEPT !.species = s] : s \in DOMAIN KeysOf}
    \cup {[in EXCEPT !.config[k] = v] : k \in KeysOf[in.species], v \in {None, "set"}}

MachineEdits(in) ==
  {[in EXCEPT !.name = n] : n \in RowNames} \cup {[in EXCEPT !.size = n] : n \in {1, 2}}

BuildingEdits(in) ==
  {[in EXCEPT !.name = n] : n \in RowNames}
    \cup {[in EXCEPT !.selection = s] : s \in KnownTypes \cup {Custom}}
    \cup {[in EXCEPT !.custom = "still"]}
    \cup {[in EXCEPT !.notes = n] : n \in {Empty, "note"}}

InputEdits(in) ==
  CASE page = "buildings" -> BuildingEdits(in)
    [] page = "fields" -> FieldEdits(in)
    [] page = "stables" -> StableEdits(in)
    [] OTHER -> MachineEdits(in)

\* A chain gets a UUID of its own.
SlipOneId(chains) == 1
NewId(chains) == CHOOSE n \in ChainIds : \A c \in Range(chains) : c.id # n
CatalogChain(id, slug) ==
  [id |-> id, slug |-> slug, active |-> TRUE,
   cycles |-> None, inputs |-> None, outputs |-> None]
CustomChain(id) ==
  [id |-> id, slug |-> None, active |-> TRUE,
   cycles |-> 1, inputs |-> <<0>>, outputs |-> <<0>>]

Added(in, id) ==
  LET known == IF TypeOf(in) \in KnownTypes THEN RecipesOf[TypeOf(in)] ELSE {}
      there == {c.slug : c \in Range(in.chains)}
  IN {Append(in.chains, c) :
        c \in {CatalogChain(id, s) : s \in known \ there} \cup {CustomChain(id)}}

\* toggleOverrideRecipe: the catalog's recipe as a start, or none of one's own.
SlipKeepsCycles(c) ==
  IF c.inputs = None THEN [c EXCEPT !.cycles = 2, !.inputs = <<1>>, !.outputs = <<1>>]
  ELSE [c EXCEPT !.inputs = None, !.outputs = None]
Toggled(c) ==
  IF c.inputs = None THEN [c EXCEPT !.cycles = 2, !.inputs = <<1>>, !.outputs = <<1>>]
  ELSE [c EXCEPT !.cycles = None, !.inputs = None, !.outputs = None]

\* The edits of a chain that leave the arrays of its recipe alone.
ChainEdits(c) ==
  {[c EXCEPT !.active = ~@]}
    \cup IF c.inputs = None THEN {} ELSE {[c EXCEPT !.cycles = n] : n \in {Empty, 1}}

\* addIO, removeIO, and the two inputs of an entry.  The product of a catalog's
\* chain is a label: what is added to one stays without a product.
Filling(c, n) == IF n = 0 THEN IF c.slug = None THEN {1} ELSE {} ELSE {1, 2}
ListEdits(c, list) ==
  (IF Len(list) < MaxIO THEN {Append(list, 0)} ELSE {})
    \cup {RemoveAt(list, i) : i \in DOMAIN list}
    \cup UNION {{[list EXCEPT ![i] = n] : n \in Filling(c, list[i])} : i \in DOMAIN list}

RecipeEdits(c) ==
  IF c.inputs = None THEN {}
  ELSE {[c EXCEPT !.inputs = l] : l \in ListEdits(c, c.inputs)}
         \cup {[c EXCEPT !.outputs = l] : l \in ListEdits(c, c.outputs)}

\* An edited recipe is also that of the row in the store, as long as the chain
\* of the dialog has the arrays of the row (form.shared).
WithRecipe(chains, c) ==
  [i \in DOMAIN chains |->
     IF chains[i].id # c.id THEN chains[i]
     ELSE [chains[i] EXCEPT !.inputs = c.inputs, !.outputs = c.outputs]]

SlipSharesTheChain(row, c) ==
  [row EXCEPT !.chains = [i \in DOMAIN @ |-> IF @[i].id = c.id THEN c ELSE @[i]]]
Leaked(row, c) == [row EXCEPT !.chains = WithRecipe(@, c)]
LeakedTo(m, form, c) ==
  IF c.id \in form.shared /\ form.id \in DOMAIN m
  THEN [m EXCEPT ![form.id] = Leaked(@, c)] ELSE m
-----------------------------------------------------------------------------
Open(t, id) ==
  /\ Form(t) = None /\ ~Saving(t)
  /\ id # None => ~Sown(tabs[t].rows[id])
  /\ LET row == tabs[t].rows[id] IN
     tabs' = [tabs EXCEPT ![t].form =
       [id |-> id,
        inputs |-> Opened(t, id),
        shared |-> IF id = None \/ page # "buildings" THEN {}
                   ELSE {c.id : c \in {c \in Range(row.chains) : c.inputs # None}},
        \* for the properties:
        edited |-> FALSE,   \* the user changed something
        stale |-> id # None /\ ~(id \in DOMAIN rows /\ rows[id].cols = tabs[t].heard[id]),
        made |-> 0,         \* rows its requests created
        missed |-> FALSE]]  \* an answer was lost
  /\ UNCHANGED <<recordVars, page, edits, saves, lost>>

Edit(t) ==
  /\ Form(t) # None /\ edits < MaxEdits[page]
  /\ edits' = edits + 1
  /\ UNCHANGED <<recordVars, page, saves, lost>>

\* These inputs are disabled while the dialog saves.
EditInputs(t) ==
  /\ Edit(t) /\ ~Saving(t)
  /\ \E in \in InputEdits(Form(t).inputs) \ {Form(t).inputs} :
       tabs' = [tabs EXCEPT ![t].form.inputs = in, ![t].form.edited = TRUE]

\* The inputs of the chains are not.
Rechained(t, chains) ==
  tabs' = [tabs EXCEPT ![t].form.inputs.chains = chains, ![t].form.edited = TRUE]

AddChain(t) ==
  /\ Edit(t) /\ page = "buildings" /\ Form(t).inputs.selection # Empty
  /\ Len(Form(t).inputs.chains) < MaxChains
  /\ LET in == Form(t).inputs
         old == IF Form(t).id = None THEN <<>> ELSE tabs[t].rows[Form(t).id].chains
     IN \E chains \in Added(in, NewId(in.chains \o old)) : Rechained(t, chains)

EditChain(t) ==
  /\ Edit(t) /\ page = "buildings"
  /\ LET chains == Form(t).inputs.chains IN
     \E i \in DOMAIN chains :
       \/ Rechained(t, RemoveAt(chains, i))
       \/ \E c \in ChainEdits(chains[i]) : Rechained(t, [chains EXCEPT ![i] = c])

ToggleRecipe(t) ==
  /\ Edit(t) /\ page = "buildings"
  /\ LET chains == Form(t).inputs.chains IN
     \E i \in DOMAIN chains :
       /\ chains[i].slug # None
       /\ tabs' = [tabs EXCEPT ![t].form.inputs.chains[i] = Toggled(@),
                               ![t].form.shared = @ \ {chains[i].id},
                               ![t].form.edited = TRUE]

EditRecipe(t) ==
  /\ Edit(t) /\ page = "buildings"
  /\ LET form == Form(t) IN
     \E i \in DOMAIN form.inputs.chains : \E c \in RecipeEdits(form.inputs.chains[i]) :
       tabs' = [tabs EXCEPT ![t].form.inputs.chains[i] = c, ![t].form.edited = TRUE,
                              ![t].rows = LeakedTo(@, form, c)]

\* What a dialog for fields leaves behind when it closes.
LastSlug(t) ==
  IF page = "fields" /\ Form(t) # None THEN Form(t).inputs.slug ELSE tabs[t].slug

Cancel(t) ==
  /\ Form(t) # None /\ ~Saving(t)
  /\ tabs' = [tabs EXCEPT ![t].form = None, ![t].slug = LastSlug(t)]
  /\ UNCHANGED <<recordVars, page, edits, saves, lost>>
-----------------------------------------------------------------------------
Ask(t, op, id, body) ==
  /\ saves < MaxSaves[page]
  /\ saves' = saves + 1
  /\ Arrive(t, [op |-> op, kind |-> page, farm |-> Farm, id |-> id, body |-> body])
  /\ UNCHANGED <<page, tabs, edits, lost>>

Submit(t) ==
  /\ Form(t) # None /\ Submittable(Form(t).inputs)
  /\ Ask(t, IF Form(t).id = None THEN "create" ELSE "update",
         Form(t).id, Body(Form(t).inputs))

Delete(t) ==
  /\ Form(t) = None
  /\ \E id \in DOMAIN tabs[t].rows :
       ~Sown(tabs[t].rows[id]) /\ Ask(t, "remove", id, None)

\* Sow, harvest, cancel: what the row offers.
Transition(t) ==
  /\ Form(t) = None /\ page = "fields"
  /\ \E id \in DOMAIN tabs[t].rows, op \in Transitions :
       Ready(op, tabs[t].rows[id]) /\ Ask(t, op, id, None)

ClientAsks ==
  /\ \E c \in ClientCalls : c.kind \in {page, "state"} /\ Arrive(Client, c)
  /\ saves < MaxSaves[page] /\ saves' = saves + 1
  /\ UNCHANGED <<page, tabs, edits, lost>>

Read(r) == (Find(r) \/ Names(r)) /\ UNCHANGED <<page, tabs, edits, saves, lost>>

\* For the properties: what the dialogs of the tabs do not know of yet.
Noted(r, t) ==
  IF Form(t) = None THEN tabs[t]
  ELSE [tabs[t] EXCEPT
          !.form.stale = @ \/ (t # r /\ req[r].call.id = Form(t).id),
          !.form.made = IF t = r /\ req[r].call.op = "create" /\ req'[r].answer = "ok"
                        THEN @ + 1 ELSE @]
Writes(r) ==
  /\ Write(r)
  /\ tabs' = [t \in DOMAIN tabs |-> Noted(r, t)]
  /\ UNCHANGED <<page, edits, saves, lost>>

FarmDeleted ==
  /\ \E f \in farms : DeleteFarm(f)
  /\ tabs' = [t \in DOMAIN tabs |-> IF Form(t) = None THEN tabs[t]
                             ELSE [tabs[t] EXCEPT !.form.stale = TRUE]]
  /\ UNCHANGED <<page, edits, saves, lost>>

-----------------------------------------------------------------------------
Settle(r) == /\ req' = [req EXCEPT ![r] = Idle]
             /\ UNCHANGED <<data, page, edits, saves>>

\* The stores: create appends, update replaces the row there is, remove drops it.
Stored(t, m) ==
  LET c == req[t].call
      got == req[t].got
  IN CASE c.op = "remove" -> [i \in DOMAIN m \ {c.id} |-> m[i]]
       [] c.op = "create" ->
            [i \in DOMAIN m \cup {got.id} |-> IF i = got.id THEN got.cols ELSE m[i]]
       [] OTHER -> [i \in DOMAIN m |-> IF i = got.id THEN got.cols ELSE m[i]]

\* The dialog closes when its save is answered; after an error it stays.
SlipStaysOpen(t) == Form(t)
Closed(t) == None

Hear(t) ==
  /\ req[t].at = "done"
  /\ tabs' = IF req[t].answer # "ok" THEN tabs
             ELSE [tabs EXCEPT ![t] = [rows |-> Stored(t, @.rows),
                     heard |-> Stored(t, @.heard), form |-> Closed(t),
                     slug |-> LastSlug(t)]]
  /\ Settle(t) /\ UNCHANGED lost

\* The answer is lost: to the dialog that is an error like any other.
Miss(t) ==
  /\ req[t].at = "done" /\ lost < MaxLost
  /\ lost' = lost + 1
  /\ tabs' = IF Form(t) = None THEN tabs ELSE [tabs EXCEPT ![t].form.missed = TRUE]
  /\ Settle(t)

ClientHears ==
  /\ req[Client].at = "done"
  /\ Settle(Client) /\ UNCHANGED <<tabs, lost>>

\* The page is opened anew: the store loads what there is.
Listed == [i \in DOMAIN rows |-> rows[i].cols]
Reload(t) ==
  /\ Form(t) = None /\ ~Saving(t) /\ Farm \in farms
  /\ tabs' = [tabs EXCEPT ![t].rows = Listed, ![t].heard = Listed,
                          ![t].slug = Empty]
  /\ UNCHANGED <<recordVars, page, edits, saves, lost>>

Init ==
  /\ page \in DOMAIN First
  /\ farms = Farms
  /\ rows = [i \in DOMAIN First[page] |->
               [kind |-> page, farm |-> Farm, cols |-> First[page][i]]]
  /\ used = DOMAIN rows
  /\ states = [f \in Farms |-> None]
  /\ req = [r \in Requests |-> Idle]
  /\ \E there \in SUBSET Tabs :
       /\ Cardinality(there) = TabsOn[page]
       /\ tabs = [t \in there |->
                    [rows |-> First[page], heard |-> First[page], form |-> None,
                     slug |-> Empty]]
  /\ edits = 0 /\ saves = 0 /\ lost = 0

Next ==
  \/ \E t \in DOMAIN tabs :
       \/ \E id \in DOMAIN tabs[t].rows \cup {None} : Open(t, id)
       \/ EditInputs(t) \/ AddChain(t) \/ EditChain(t)
       \/ ToggleRecipe(t) \/ EditRecipe(t) \/ Cancel(t)
       \/ Submit(t) \/ Delete(t) \/ Transition(t) \/ Hear(t) \/ Miss(t) \/ Reload(t)
  \/ \E r \in Requests : Read(r) \/ Writes(r)
  \/ ClientAsks \/ ClientHears
  \/ FarmDeleted

Spec == Init /\ [][Next]_vars
-----------------------------------------------------------------------------
Chain == [id : ChainIds, slug : {None} \cup UNION Range(RecipesOf), active : BOOLEAN,
          cycles : {None, Empty, 1, 2}, inputs : {None} \cup Seq(0..2),
          outputs : {None} \cup Seq(0..2)]

\* The bookkeeping of rows, requests and dialogs; the chains of a dialog have an
\* id each, by which it finds the one that is edited.
TypeOK ==
  /\ DOMAIN rows \subseteq used /\ used \subseteq Ids
  /\ \A i \in DOMAIN rows : rows[i].kind = page /\ rows[i].farm \in Farms
  /\ \A r \in Requests : req[r].at \in {"idle", "find", "names", "write", "done"}
  /\ \A t \in DOMAIN tabs :
       /\ DOMAIN tabs[t].rows = DOMAIN tabs[t].heard
       /\ Form(t) # None =>
            /\ Form(t).id \in DOMAIN tabs[t].rows \cup {None}
            /\ page = "buildings" =>
                 /\ Range(Form(t).inputs.chains) \subseteq Chain
                 /\ ChainIdsApart(Form(t).inputs)

\* A harvest, or a farm that changes its version, takes the crop of a field and
\* leaves the silage flag: a row that the rules of a PATCH would refuse.
Stranded(row) == page = "fields" /\ row.silage /\ row.crop \notin Silage

\* A dialog in which nothing was changed holds the row it was opened on: saving
\* it changes no crop, type, bonus or note on the way through the inputs.  The one
\* thing it may change is to clear a flag that is stranded.
UntouchedFormIsItsRow ==
  \A t \in DOMAIN tabs :
    Form(t) # None /\ Form(t).id # None /\ ~Form(t).edited =>
      LET row == tabs[t].rows[Form(t).id]
          saved == Patched(row, Body(Form(t).inputs))
      IN \/ saved = row
         \/ Stranded(row) /\ saved = [row EXCEPT !.silage = FALSE]

\* Saving such a dialog is never refused, unless somebody else wrote the row or
\* the farm went, or a recipe that was edited and cancelled had got out -- or it
\* sends the stranded flag of its row back, which is always refused.
UntouchedSaveIsNotRefused ==
  \A t \in DOMAIN tabs :
    /\ req[t].at = "done" /\ req[t].call.op = "update"
    /\ ~Form(t).edited /\ ~Form(t).stale
    /\ tabs[t].rows[Form(t).id] = tabs[t].heard[Form(t).id]
    => req[t].answer = IF Stranded(tabs[t].rows[Form(t).id]) /\ req[t].call.body.silage
                       THEN "invalid" ELSE "ok"

OnlyRecipes(row, heard) ==
  /\ [row EXCEPT !.chains = <<>>] = [heard EXCEPT !.chains = <<>>]
  /\ DOMAIN row.chains = DOMAIN heard.chains
  /\ \A i \in DOMAIN row.chains :
       LET c == row.chains[i]
           d == heard.chains[i]
       IN c = d \/ (d.inputs # None /\ c = [d EXCEPT !.inputs = c.inputs,
                                                     !.outputs = c.outputs])

\* What the user does in a dialog and cancels does not show on the page, and is
\* not saved the next time, except for the recipes of chains that have their own.
OnlyRecipesLeak ==
  \A t \in DOMAIN tabs : \A id \in DOMAIN tabs[t].rows :
    IF page = "buildings" THEN OnlyRecipes(tabs[t].rows[id], tabs[t].heard[id])
    ELSE tabs[t].rows[id] = tabs[t].heard[id]

\* A chain has a recipe of its own or the catalog's, never half of each: the
\* engine takes each of the three from the catalog when it is null.
RecipesAreWhole ==
  LET Whole(c) == (c.inputs = None) = (c.outputs = None)
                  /\ (c.inputs = None) = (c.cycles = None)
  IN page = "buildings" =>
       /\ \A i \in DOMAIN rows : \A c \in Range(rows[i].cols.chains) : Whole(c)
       /\ \A t \in DOMAIN tabs : Form(t) # None =>
            \A c \in Range(Form(t).inputs.chains) : Whole(c)

\* Whatever crops are tried in a dialog, it does not come to hold the flag without
\* a crop that can be ensiled: the switch is disabled then and the user could not
\* take it back.  A dialog holds such a flag only if its row had it already, and
\* only as long as the crop is still that of the row.
SilageFollowsCrop ==
  page = "fields" => \A t \in DOMAIN tabs :
    Form(t) # None /\ Form(t).inputs.silage /\ ~HasSilage(Form(t).inputs.slug) =>
      /\ Form(t).id # None
      /\ LET row == tabs[t].rows[Form(t).id] IN
           Stranded(row) /\ Form(t).inputs.slug = FieldInputs(row).slug

\* The config of a stable is sent with the keys of its species, whatever other
\* species had been selected and configured before.
SentConfigsFit ==
  page = "stables" => \A t \in DOMAIN tabs :
    req[t].at # "idle" /\ req[t].call.op # "remove" =>
      DOMAIN req[t].call.body.config \subseteq KeysOf[req[t].call.body.species]

\* A dialog creates one row, however often it is saved, unless an answer is lost
\* and the user saves again.
OneRowPerDialog ==
  \A t \in DOMAIN tabs : Form(t) # None /\ Form(t).made > 1 => Form(t).missed

(* What the run checks beside these: the parts above, by subject.            *)
\* Opening a dialog and saving it as it is does no harm.
UntouchedFormsAreHarmless == UntouchedFormIsItsRow /\ UntouchedSaveIsNotRefused

\* What a dialog holds, and what it sends, fits together: recipe and cycles of
\* a chain, crop and silage flag, species and config.
DialogsFitTogether == /\ TypeOK /\ RecipesAreWhole
                      /\ SilageFollowsCrop /\ SentConfigsFit
=============================================================================
