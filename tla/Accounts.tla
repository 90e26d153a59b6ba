------------------------------- MODULE Accounts -------------------------------
(***************************************************************************)
(* What the accounts, farms and settings endpoints promise, whatever       *)
(* overlaps: every request takes effect at one moment between being asked  *)
(* and being answered, an account appears whole, and a name is taken only  *)
(* when it is.  UserFarms implements it.                                   *)
(***************************************************************************)
CONSTANTS
  Requests,     \* the requests ever made; what request r creates is named r
  Labels,       \* the emails and the farm names a request can give
  DefaultName,  \* the name of the farm every account starts with
  Null

VARIABLES
  accounts,     \* by account: its email
  farms,        \* by farm: its [owner, name]
  active,       \* by account: its active farm, or Null
  job,          \* by request: what it asks for while it is pending, or Null
  answer        \* by request: Null until it is answered

vars == <<accounts, farms, active, job, answer>>

Jobs == [op : {"register", "createFarm", "renameFarm", "removeFarm", "setActiveFarm"},
         user : Requests \cup {Null}, farm : Requests \cup {Null},
         name : Labels \cup {Null}]

Init ==
  /\ accounts = [u \in {} |-> Null]
  /\ farms = [f \in {} |-> Null]
  /\ active = [u \in {} |-> Null]
  /\ job = [r \in Requests |-> Null]
  /\ answer = [r \in Requests |-> Null]

EmailTaken(j) == \E u \in DOMAIN accounts : accounts[u] = j.name
NameTaken(j) == \E f \in DOMAIN farms \ {j.farm} :
  farms[f].owner = j.user /\ farms[f].name = j.name
Mine(j) == j.farm \in DOMAIN farms /\ farms[j.farm].owner = j.user

With(table, id, row) ==
  [x \in DOMAIN table \cup {id} |-> IF x = id THEN row ELSE table[x]]

Ask(r) ==
  /\ job[r] = Null /\ answer[r] = Null
  /\ job'[r] \in Jobs
  /\ job' = [job EXCEPT ![r] = job'[r]]
  /\ UNCHANGED <<accounts, farms, active, answer>>

Answer(r, what) ==
  /\ job[r] # Null
  /\ job' = [job EXCEPT ![r] = Null]
  /\ answer' = [answer EXCEPT ![r] = what]

\* The account, its settings and its first farm, which is the active one.
Register(r) ==
  /\ job[r].op = "register"
  /\ ~EmailTaken(job[r])
  /\ accounts' = With(accounts, r, job[r].name)
  /\ farms' = With(farms, r, [owner |-> r, name |-> DefaultName])
  /\ active' = With(active, r, r)
  /\ Answer(r, "ok")

CreateFarm(r) ==
  /\ job[r].op = "createFarm"
  /\ ~NameTaken(job[r])
  /\ farms' = With(farms, r, [owner |-> job[r].user, name |-> job[r].name])
  /\ Answer(r, "ok")
  /\ UNCHANGED <<accounts, active>>

RenameFarm(r) ==
  /\ job[r].op = "renameFarm"
  /\ Mine(job[r])
  /\ ~NameTaken(job[r])
  /\ farms' = With(farms, job[r].farm, [owner |-> job[r].user, name |-> job[r].name])
  /\ Answer(r, "ok")
  /\ UNCHANGED <<accounts, active>>

\* Nobody's active farm is a farm that is gone.
RemoveFarm(r) ==
  /\ job[r].op = "removeFarm"
  /\ farms' = [f \in DOMAIN farms \ {job[r].farm} |-> farms[f]]
  /\ active' = [u \in DOMAIN active |->
                  IF active[u] = job[r].farm THEN Null ELSE active[u]]
  /\ Answer(r, "ok")
  /\ UNCHANGED accounts

SetActiveFarm(r) ==
  /\ job[r].op = "setActiveFarm"
  /\ job[r].farm # Null => Mine(job[r])
  /\ active' = [active EXCEPT ![job[r].user] = job[r].farm]
  /\ Answer(r, "ok")
  /\ UNCHANGED <<accounts, farms>>

Refuse(r) ==
  /\ \/ job[r].op = "register" /\ EmailTaken(job[r]) /\ Answer(r, "taken")
     \/ job[r].op \in {"createFarm", "renameFarm"} /\ NameTaken(job[r])
        /\ Answer(r, "taken")
     \/ job[r].op \in {"renameFarm", "removeFarm", "setActiveFarm"}
        /\ ~Mine(job[r]) /\ Answer(r, "notFound")
     \/ Answer(r, "error")
  /\ UNCHANGED <<accounts, farms, active>>

Do(r) ==
  \/ Register(r) \/ CreateFarm(r) \/ RenameFarm(r) \/ RemoveFarm(r)
  \/ SetActiveFarm(r) \/ Refuse(r)

Next == \E r \in Requests :
  \/ Ask(r)
  \/ job[r] # Null /\ Do(r)

Spec == Init /\ [][Next]_vars
=============================================================================
