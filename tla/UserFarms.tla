------------------------------ MODULE UserFarms ------------------------------
(***************************************************************************)
(* Accounts, their farms and their settings (api/src/services/auth,        *)
(* farms and userSettings.service.ts, their repositories and the unique    *)
(* and foreign keys of api/src/db).                                        *)
(*                                                                         *)
(* A handler checks with one query and writes with a later one; any other  *)
(* request may come in between.  Registration is one transaction: what it  *)
(* writes appears when it commits, or not at all.                          *)
(*                                                                         *)
(* Passwords, profile data and the farm's other columns are left out; the  *)
(* game version of a farm is the subject of FieldRequests.                 *)
(***************************************************************************)
EXTENDS Naturals

CONSTANTS
  Requests,     \* the requests ever made; the rows request r inserts are named r
  Emails,       \* the emails people register with
  Names,        \* the names farms are given
  DefaultName,  \* the name of the farm every account starts with
  Absent,       \* no row has this id
  Null          \* SQL NULL, and what a request has not read or been given

Answers == {"ok", "taken", "notFound", "error"}

UserRow == [email : Emails]
FarmRow == [owner : Requests, name : Names]
SettingsRow == [activeFarm : Requests \cup {Null}]

Ops == {"register", "createFarm", "renameFarm", "removeFarm", "setActiveFarm"}

Job == [op : Ops, user : Requests \cup {Null}, farm : Requests \cup {Null},
        name : Emails \cup Names \cup {Null}]

ASSUME DefaultNameAssumption == DefaultName \in Names
ASSUME NullsAssumption ==
  /\ Null \notin Requests \cup Emails \cup Names \cup Answers
  /\ Absent \notin UserRow \cup FarmRow \cup SettingsRow
ASSUME JobsAssumption == Null \notin Job

VARIABLES
  users,        \* the users table, by id
  userSettings, \* the user_settings table, by user id
  farms,        \* the farms table, by id
  step,         \* where the handler of each request is
  job,          \* what the request asks for
  nameRead,     \* a rename: the name the farm had when it was read
  answer        \* what the request was answered

tables == <<users, userSettings, farms>>
vars == <<users, userSettings, farms, step, job, nameRead, answer>>

Users == {u \in Requests : users[u] # Absent}
Farms == {f \in Requests : farms[f] # Absent}

Steps == {"new", "asked", "owned", "checked", "done"}
-----------------------------------------------------------------------------
\* Operators named Slip... are wrong on purpose: each is the next operator with
\* one plausible mistake, and PROJECT.json names the property that notices it.

\* findByEmail and findByName find nothing; a farm does not clash with itself.
EmailFree(email) == \A u \in Users : users[u].email # email
NameFree(user, name, id) ==
  \A f \in Farms \ {id} : ~(farms[f].owner = user /\ farms[f].name = name)

\* The unique keys, users_email_unique and farms_user_name_unique, at the write.
EmailKey(email) == EmailFree(email)
SlipNoNameKey(user, name, id) == TRUE
NameKey(user, name, id) == NameFree(user, name, id)

\* farms.findOwned
Owned(farm, user) == farm \in Farms /\ farms[farm].owner = user

\* user_settings.active_farm_id is ON DELETE SET NULL.
Unpinned(farm) ==
  [u \in Requests |->
     IF u \in Users /\ userSettings[u].activeFarm = farm
     THEN [activeFarm |-> Null] ELSE userSettings[u]]

Init ==
  /\ users = [r \in Requests |-> Absent]
  /\ userSettings = [r \in Requests |-> Absent]
  /\ farms = [r \in Requests |-> Absent]
  /\ step = [r \in Requests |-> "new"]
  /\ job = [r \in Requests |-> Null]
  /\ nameRead = [r \in Requests |-> Null]
  /\ answer = [r \in Requests |-> Null]
-----------------------------------------------------------------------------
At(r, s, ops) == step[r] = s /\ job[r] # Null /\ job[r].op \in ops

Ask(r, j) ==
  /\ step[r] = "new"
  /\ step' = [step EXCEPT ![r] = "asked"]
  /\ job' = [job EXCEPT ![r] = j]
  /\ UNCHANGED <<users, userSettings, farms, nameRead, answer>>

Proceed(r, s, name) ==
  /\ step' = [step EXCEPT ![r] = s]
  /\ nameRead' = [nameRead EXCEPT ![r] = name]
  /\ UNCHANGED <<users, userSettings, farms, job, answer>>

Reply(r, what) ==
  /\ step' = [step EXCEPT ![r] = "done"]
  /\ job' = [job EXCEPT ![r] = Null]
  /\ nameRead' = [nameRead EXCEPT ![r] = Null]
  /\ answer' = [answer EXCEPT ![r] = what]

Reject(r, what) == Reply(r, what) /\ UNCHANGED tables
-----------------------------------------------------------------------------
(* The checks.                                                               *)

\* register: findByEmail, as the transaction begins.
FindByEmail(r) ==
  /\ At(r, "asked", {"register"})
  /\ IF EmailFree(job[r].name) THEN Proceed(r, "checked", Null)
                               ELSE Reject(r, "taken")

\* farms.update, farms.remove and updateSettings: findOwned.  A rename to the
\* name the farm has needs no further check, clearing the active farm none.
FindOwned(r) ==
  /\ At(r, "asked", {"renameFarm", "removeFarm", "setActiveFarm"})
  /\ IF job[r].farm = Null \/ Owned(job[r].farm, job[r].user)
     THEN IF job[r].op = "renameFarm" /\ farms[job[r].farm].name # job[r].name
          THEN Proceed(r, "owned", farms[job[r].farm].name)
          ELSE Proceed(r, "checked", Null)
     ELSE Reject(r, "notFound")

\* farms.create and farms.update: findByName; finding the farm itself is no clash.
FindByName(r) ==
  /\ At(r, "asked", {"createFarm"}) \/ At(r, "owned", {"renameFarm"})
  /\ IF NameFree(job[r].user, job[r].name, job[r].farm)
     THEN Proceed(r, "checked", nameRead[r])
     ELSE Reject(r, "taken")
-----------------------------------------------------------------------------
(* The writes.  A unique key that refuses one becomes a 409 (error-handler). *)

SlipActivatesNothing(r) == Null
FirstActive(r) == r

Register(r) ==
  /\ At(r, "checked", {"register"})
  /\ IF EmailKey(job[r].name)
     THEN /\ users' = [users EXCEPT ![r] = [email |-> job[r].name]]
          /\ farms' = [farms EXCEPT ![r] = [owner |-> r, name |-> DefaultName]]
          /\ userSettings' =
               [userSettings EXCEPT ![r] = [activeFarm |-> FirstActive(r)]]
          /\ Reply(r, "ok")
     ELSE Reject(r, "taken")

CreateFarm(r) ==
  /\ At(r, "checked", {"createFarm"})
  /\ IF NameKey(job[r].user, job[r].name, Null)
     THEN /\ farms' = [farms EXCEPT ![r] =
                         [owner |-> job[r].user, name |-> job[r].name]]
          /\ Reply(r, "ok")
          /\ UNCHANGED <<users, userSettings>>
     ELSE Reject(r, "taken")

RenameFarm(r) ==
  LET f == job[r].farm IN
  /\ At(r, "checked", {"renameFarm"})
  /\ IF f \notin Farms THEN Reject(r, "notFound")
     ELSE IF NameKey(farms[f].owner, job[r].name, f)
     THEN /\ farms' = [farms EXCEPT ![f] = [@ EXCEPT !.name = job[r].name]]
          /\ Reply(r, "ok")
          /\ UNCHANGED <<users, userSettings>>
     ELSE Reject(r, "taken")

\* Answered with success even if another request deleted the farm first.
RemoveFarm(r) ==
  /\ At(r, "checked", {"removeFarm"})
  /\ farms' = [farms EXCEPT ![job[r].farm] = Absent]
  /\ userSettings' = Unpinned(job[r].farm)
  /\ Reply(r, "ok")
  /\ UNCHANGED users

\* The foreign key refuses a farm that was deleted since the check (500).
SlipNoForeignKey(farm) == TRUE
Refers(farm) == farm = Null \/ farm \in Farms

SetActiveFarm(r) ==
  /\ At(r, "checked", {"setActiveFarm"})
  /\ IF Refers(job[r].farm)
     THEN /\ userSettings' =
               [userSettings EXCEPT ![job[r].user] = [activeFarm |-> job[r].farm]]
          /\ Reply(r, "ok")
          /\ UNCHANGED <<users, farms>>
     ELSE Reject(r, "error")

\* A lost connection, a game version that does not exist: nothing is kept.
Fail(r) == step[r] \in {"asked", "owned", "checked"} /\ Reject(r, "error")
-----------------------------------------------------------------------------
Asking(op, u, f, n) == [op |-> op, user |-> u, farm |-> f, name |-> n]

Asks ==
  {Asking("register", Null, Null, e) : e \in Emails}
  \cup {Asking("createFarm", u, Null, n) : u \in Users, n \in Names}
  \cup {Asking("renameFarm", u, f, n) : u \in Users, f \in Farms, n \in Names}
  \cup {Asking("removeFarm", u, f, Null) : u \in Users, f \in Farms}
  \cup {Asking("setActiveFarm", u, f, Null) : u \in Users, f \in Farms \cup {Null}}

Next == \E r \in Requests :
  \/ \E j \in Asks : Ask(r, j)
  \/ FindByEmail(r) \/ FindOwned(r) \/ FindByName(r)
  \/ Register(r) \/ CreateFarm(r) \/ RenameFarm(r) \/ RemoveFarm(r)
  \/ SetActiveFarm(r)
  \/ Fail(r)

Spec == Init /\ [][Next]_vars
-----------------------------------------------------------------------------
(* Properties *)

\* Every variable holds values of the kind the schema and the handlers allow.
TypeOK ==
  /\ users \in [Requests -> UserRow \cup {Absent}]
  /\ userSettings \in [Requests -> SettingsRow \cup {Absent}]
  /\ farms \in [Requests -> FarmRow \cup {Absent}]
  /\ step \in [Requests -> Steps]
  /\ job \in [Requests -> Job \cup {Null}]
  /\ nameRead \in [Requests -> Names \cup {Null}]
  /\ answer \in [Requests -> Answers \cup {Null}]

\* An email has one account and a user one farm of a name, however requests
\* that checked for it overlap.
NamesAreUnique ==
  /\ \A u, v \in Users : users[u].email = users[v].email => u = v
  /\ \A f, g \in Farms :
       farms[f].owner = farms[g].owner /\ farms[f].name = farms[g].name => f = g

\* The active farm of a user is a farm there is, and the user's own, even if it
\* is deleted while it is being chosen; every user has settings.
ActiveFarmIsOwned ==
  \A u \in Users :
    /\ userSettings[u] # Absent
    /\ userSettings[u].activeFarm # Null => Owned(userSettings[u].activeFarm, u)

\* Each request takes effect at one moment, and is told so: see Accounts.
Promise == INSTANCE Accounts WITH
  Labels <- Emails \cup Names,
  accounts <- [u \in Users |-> users[u].email],
  farms <- [f \in Farms |-> farms[f]],
  active <- [u \in Users |-> userSettings[u].activeFarm]

ImplementsAccounts == Promise!Spec
=============================================================================
