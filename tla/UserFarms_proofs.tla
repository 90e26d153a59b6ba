-------------------------- MODULE UserFarms_proofs --------------------------
(***************************************************************************)
(* Proofs about UserFarms, for any number of requests, emails and names.   *)
(* IInv adds to the safety invariants what a handler knows across its      *)
(* awaits: a farm it found to be the user's stays the user's, or goes.     *)
(***************************************************************************)
EXTENDS UserFarms, TLAPS

Pending == {"asked", "owned", "checked"}

\* What the schemas of the routes and the authentication hook let through; a
\* client knows the id of a farm from the answer that made it.
WellFormed(j) ==
  /\ j \in Job
  /\ j.op = "register" => j.name \in Emails
  /\ j.op \in {"createFarm", "renameFarm"} => j.name \in Names
  /\ j.op = "createFarm" => j.farm = Null
  /\ j.op \in {"renameFarm", "removeFarm"} => j.farm \in Requests
  /\ j.op \in Ops \ {"register"} => j.user \in Users
  /\ j.farm # Null => step[j.farm] = "done"

\* Once findOwned has answered, the farm is the user's or no longer there.
KeepsOwner(r) ==
  step[r] \in {"owned", "checked"}
  /\ job[r].op \in {"renameFarm", "removeFarm", "setActiveFarm"}
  /\ job[r].farm \in Farms => farms[job[r].farm].owner = job[r].user

RequestsOK ==
  \A r \in Requests :
    /\ step[r] \in Pending <=> job[r] # Null
    /\ step[r] = "done" <=> answer[r] # Null
    /\ step[r] \in Pending => WellFormed(job[r]) /\ KeepsOwner(r)

\* A request inserts rows of its own id, with its last step.
IdsFresh ==
  \A r \in Requests : step[r] # "done" => users[r] = Absent /\ farms[r] = Absent

OwnersAreUsers == \A f \in Farms : farms[f].owner \in Users

IInv == /\ TypeOK /\ RequestsOK /\ IdsFresh /\ OwnersAreUsers
        /\ NamesAreUnique /\ ActiveFarmIsOwned
-----------------------------------------------------------------------------
LEMMA InitIInv == Init => IInv
<1> SUFFICES ASSUME Init PROVE IInv
  OBVIOUS
<1>1. TypeOK
  BY DEF Init, TypeOK, Steps
<1>2. Users = {} /\ Farms = {}
  BY DEF Init, Users, Farms
<1>3. RequestsOK
  BY DEF Init, RequestsOK, Pending
<1>4. IdsFresh
  BY DEF Init, IdsFresh
<1>5. NamesAreUnique /\ ActiveFarmIsOwned /\ OwnersAreUsers
  BY <1>2 DEF NamesAreUnique, ActiveFarmIsOwned, OwnersAreUsers
<1>6. QED
  BY <1>1, <1>3, <1>4, <1>5 DEF IInv

LEMMA AsksWellFormed ==
  ASSUME TypeOK, IdsFresh, NEW j \in Asks
  PROVE  WellFormed(j)
<1>1. /\ Users \subseteq Requests /\ Farms \subseteq Requests
      /\ \A f \in Farms : step[f] = "done"
  BY DEF Users, Farms, IdsFresh
<1>2. CASE \E e \in Emails : j = Asking("register", Null, Null, e)
  BY <1>2 DEF Asking, WellFormed, Job, Ops
<1>3. CASE \E u \in Users, n \in Names : j = Asking("createFarm", u, Null, n)
  BY <1>1, <1>3 DEF Asking, WellFormed, Job, Ops
<1>4. CASE \E u \in Users, f \in Farms, n \in Names :
             j = Asking("renameFarm", u, f, n)
  BY <1>1, <1>4 DEF Asking, WellFormed, Job, Ops
<1>5. CASE \E u \in Users, f \in Farms : j = Asking("removeFarm", u, f, Null)
  BY <1>1, <1>5 DEF Asking, WellFormed, Job, Ops
<1>6. CASE \E u \in Users, f \in Farms \cup {Null} :
             j = Asking("setActiveFarm", u, f, Null)
  BY <1>1, <1>6 DEF Asking, WellFormed, Job, Ops
<1>7. QED
  BY <1>2, <1>3, <1>4, <1>5, <1>6 DEF Asks

\* The tables as a write leaves them: only r's own rows are new, users stay,
\* and a farm that stays keeps its owner.
Grows(r) ==
  /\ Users \subseteq Users'
  /\ \A q \in Requests : q # r =>
       /\ users[q] = Absent => users'[q] = Absent
       /\ farms[q] = Absent => farms'[q] = Absent
  /\ \A f \in Farms' : f # r => farms'[f].owner = farms[f].owner

\* What is left to check of an answered request: the tables.
LEMMA ReplyStep ==
  ASSUME IInv, NEW r \in Requests, step[r] \in Pending,
         NEW what \in Answers, Reply(r, what),
         users' \in [Requests -> UserRow \cup {Absent}],
         userSettings' \in [Requests -> SettingsRow \cup {Absent}],
         farms' \in [Requests -> FarmRow \cup {Absent}],
         Grows(r), NamesAreUnique', ActiveFarmIsOwned', OwnersAreUsers'
  PROVE  IInv'
<1>1. /\ step'[r] = "done" /\ job'[r] = Null /\ answer'[r] = what
      /\ \A q \in Requests : q # r =>
           step'[q] = step[q] /\ job'[q] = job[q] /\ answer'[q] = answer[q]
  BY DEF IInv, TypeOK, Reply
<1>2. TypeOK'
  BY DEF IInv, TypeOK, Reply, Steps
<1>3. what # Null
  BY NullsAssumption DEF Answers
<1>4. IdsFresh'
  BY <1>1 DEF IInv, IdsFresh, Grows
<1>5. ASSUME NEW q \in Requests, q # r, step[q] \in Pending
      PROVE  WellFormed(job[q])' /\ KeepsOwner(q)'
  <2>1. job'[q] = job[q] /\ step'[q] = step[q]
    BY <1>1, <1>5
  <2>2. WellFormed(job[q]) /\ KeepsOwner(q)
    BY <1>5 DEF IInv, RequestsOK
  <2>3. job[q].farm # Null => job[q].farm # r /\ step'[job[q].farm] = "done"
    BY <1>1, <2>2 DEF WellFormed, Pending, Job
  <2>4. WellFormed(job[q])'
    BY <2>1, <2>2, <2>3 DEF WellFormed, Grows
  <2>5. KeepsOwner(q)'
    <3> SUFFICES ASSUME step[q] \in {"owned", "checked"},
                        job[q].op \in {"renameFarm", "removeFarm", "setActiveFarm"},
                        job[q].farm \in Farms'
                 PROVE  farms'[job[q].farm].owner = job[q].user
      BY <2>1 DEF KeepsOwner
    <3>1. job[q].farm # r /\ job[q].farm \in Requests
      BY <2>3, NullsAssumption DEF Farms
    <3>2. job[q].farm \in Farms
      BY <3>1 DEF Grows, Farms
    <3>3. QED
      BY <2>2, <3>1, <3>2 DEF KeepsOwner, Grows
  <2>6. QED
    BY <2>4, <2>5
<1>6. RequestsOK'
  BY <1>1, <1>3, <1>5 DEF IInv, RequestsOK, Pending
<1>7. QED
  BY <1>2, <1>4, <1>6 DEF IInv

LEMMA RejectStep ==
  ASSUME IInv, NEW r \in Requests, step[r] \in Pending,
         NEW what \in Answers, Reject(r, what)
  PROVE  IInv'
<1>1. Reply(r, what) /\ UNCHANGED <<users, userSettings, farms>>
  BY DEF Reject, tables
<1>2. Users' = Users /\ Farms' = Farms
  BY <1>1 DEF Users, Farms
<1>3. Grows(r)
  BY <1>1, <1>2 DEF Grows
<1>4. NamesAreUnique' /\ ActiveFarmIsOwned' /\ OwnersAreUsers'
  BY <1>1, <1>2 DEF IInv, NamesAreUnique, ActiveFarmIsOwned, Owned,
     OwnersAreUsers
<1>5. QED
  BY <1>1, <1>3, <1>4, ReplyStep DEF IInv, TypeOK

LEMMA ProceedStep ==
  ASSUME IInv, NEW r \in Requests, step[r] \in Pending,
         NEW s \in {"owned", "checked"}, NEW name \in Names \cup {Null},
         Proceed(r, s, name),
         job[r].op \in {"renameFarm", "removeFarm", "setActiveFarm"} =>
           (job[r].farm = Null \/ Owned(job[r].farm, job[r].user)
            \/ step[r] = "owned")
  PROVE  IInv'
<1>1. /\ step'[r] = s /\ \A q \in Requests : q # r => step'[q] = step[q]
      /\ UNCHANGED <<users, userSettings, farms, job, answer>>
  BY DEF IInv, TypeOK, Proceed
<1>2. TypeOK'
  BY DEF IInv, TypeOK, Proceed, Steps
<1>3. Users' = Users /\ Farms' = Farms
  BY <1>1 DEF Users, Farms
<1>4. IdsFresh'
  BY <1>1 DEF IInv, IdsFresh, Pending
<1>5. \A q \in Requests : step[q] \in Pending =>
        WellFormed(job[q])' /\ KeepsOwner(q)'
  <2> TAKE q \in Requests
  <2> HAVE step[q] \in Pending
  <2>1. WellFormed(job[q]) /\ KeepsOwner(q)
    BY DEF IInv, RequestsOK
  <2>2. WellFormed(job[q])'
    BY <1>1, <1>3, <2>1 DEF WellFormed, Pending, Job
  <2>3. KeepsOwner(q)'
    <3>1. CASE q # r
      BY <1>1, <1>3, <2>1, <3>1 DEF KeepsOwner
    <3>2. CASE q = r
      BY <1>1, <1>3, <2>1, <3>2, NullsAssumption DEF KeepsOwner, Owned, Farms
    <3>3. QED
      BY <3>1, <3>2
  <2>4. QED
    BY <2>2, <2>3
<1>6. RequestsOK'
  BY <1>1, <1>5 DEF IInv, RequestsOK, Pending
<1>7. NamesAreUnique' /\ ActiveFarmIsOwned' /\ OwnersAreUsers'
  BY <1>1, <1>3 DEF IInv, NamesAreUnique, ActiveFarmIsOwned, Owned,
     OwnersAreUsers
<1>8. QED
  BY <1>2, <1>4, <1>6, <1>7 DEF IInv

LEMMA AskStep ==
  ASSUME IInv, NEW r \in Requests, NEW j \in Asks, Ask(r, j)
  PROVE  IInv'
<1>1. WellFormed(j) /\ j \in Job /\ j # Null
  BY AsksWellFormed, JobsAssumption DEF IInv, WellFormed
<1>2. /\ step[r] = "new" /\ step'[r] = "asked" /\ job'[r] = j
      /\ \A q \in Requests : q # r => step'[q] = step[q] /\ job'[q] = job[q]
      /\ UNCHANGED <<users, userSettings, farms, answer>>
  BY DEF IInv, TypeOK, Ask
<1>3. TypeOK'
  BY <1>1 DEF IInv, TypeOK, Ask, Steps
<1>4. Users' = Users /\ Farms' = Farms
  BY <1>2 DEF Users, Farms
<1>5. IdsFresh'
  BY <1>2 DEF IInv, IdsFresh
<1>6. \A q \in Requests : step'[q] \in Pending =>
        WellFormed(job[q])' /\ KeepsOwner(q)'
  <2> TAKE q \in Requests
  <2> HAVE step'[q] \in Pending
  <2>1. CASE q = r
    BY <1>1, <1>2, <1>4, <2>1 DEF WellFormed, KeepsOwner, Job
  <2>2. CASE q # r
    <3>1. WellFormed(job[q]) /\ KeepsOwner(q)
      BY <1>2, <2>2 DEF IInv, RequestsOK
    <3>2. WellFormed(job[q])'
      BY <1>2, <1>4, <2>2, <3>1 DEF WellFormed, Job
    <3>3. QED
      BY <1>2, <1>4, <2>2, <3>1, <3>2 DEF KeepsOwner
  <2>3. QED
    BY <2>1, <2>2
<1>7. RequestsOK'
  BY <1>1, <1>2, <1>6 DEF IInv, RequestsOK, Pending
<1>8. NamesAreUnique' /\ ActiveFarmIsOwned' /\ OwnersAreUsers'
  BY <1>2, <1>4 DEF IInv, NamesAreUnique, ActiveFarmIsOwned, Owned,
     OwnersAreUsers
<1>9. QED
  BY <1>3, <1>5, <1>7, <1>8 DEF IInv

LEMMA CheckStep ==
  ASSUME IInv, NEW r \in Requests,
         FindByEmail(r) \/ FindOwned(r) \/ FindByName(r)
  PROVE  IInv'
<1>1. step[r] \in Pending /\ WellFormed(job[r])
  BY DEF IInv, RequestsOK, FindByEmail, FindOwned, FindByName, At, Pending
<1>2. "taken" \in Answers /\ "notFound" \in Answers
  BY DEF Answers
<1>3. CASE FindByEmail(r)
  BY <1>1, <1>2, <1>3, RejectStep, ProceedStep DEF FindByEmail, At
<1>4. CASE FindOwned(r)
  <2>1. job[r].farm = Null => job[r].op = "setActiveFarm"
    BY <1>1, <1>4, NullsAssumption DEF FindOwned, At, WellFormed
  <2>2. Owned(job[r].farm, job[r].user) =>
          farms[job[r].farm].name \in Names
    BY NullsAssumption DEF IInv, TypeOK, Owned, Farms, FarmRow
  <2>3. QED
    BY <1>1, <1>2, <1>4, <2>1, <2>2, RejectStep, ProceedStep DEF FindOwned, At
<1>5. CASE FindByName(r)
  <2>1. nameRead[r] \in Names \cup {Null}
    BY DEF IInv, TypeOK
  <2>2. QED
    BY <1>1, <1>2, <1>5, <2>1, RejectStep, ProceedStep DEF FindByName, At
<1>6. QED
  BY <1>3, <1>4, <1>5
-----------------------------------------------------------------------------
LEMMA RegisterStep ==
  ASSUME IInv, NEW r \in Requests, Register(r)
  PROVE  IInv'
<1>1. step[r] \in Pending /\ WellFormed(job[r]) /\ job[r].name \in Emails
      /\ step[r] = "checked"
  BY DEF IInv, RequestsOK, Register, At, Pending, WellFormed
<1>2. CASE ~EmailKey(job[r].name)
  BY <1>1, <1>2, RejectStep DEF Register, Answers
<1>3. CASE EmailKey(job[r].name)
  <2>1. /\ users' = [users EXCEPT ![r] = [email |-> job[r].name]]
        /\ farms' = [farms EXCEPT ![r] = [owner |-> r, name |-> DefaultName]]
        /\ userSettings' = [userSettings EXCEPT ![r] = [activeFarm |-> r]]
        /\ Reply(r, "ok")
    BY <1>3 DEF Register, FirstActive
  <2>2. /\ [email |-> job[r].name] \in UserRow
        /\ [owner |-> r, name |-> DefaultName] \in FarmRow
        /\ [activeFarm |-> r] \in SettingsRow
    BY <1>1, DefaultNameAssumption DEF UserRow, FarmRow, SettingsRow
  <2>3. /\ users' \in [Requests -> UserRow \cup {Absent}]
        /\ farms' \in [Requests -> FarmRow \cup {Absent}]
        /\ userSettings' \in [Requests -> SettingsRow \cup {Absent}]
    BY <2>1, <2>2 DEF IInv, TypeOK
  <2>4. r \notin Users /\ r \notin Farms
    BY <1>1 DEF IInv, IdsFresh, Users, Farms
  <2>5. /\ users'[r] = [email |-> job[r].name]
        /\ farms'[r] = [owner |-> r, name |-> DefaultName]
        /\ userSettings'[r] = [activeFarm |-> r]
        /\ \A q \in Requests : q # r => /\ users'[q] = users[q]
                                       /\ farms'[q] = farms[q]
                                       /\ userSettings'[q] = userSettings[q]
    BY <2>1 DEF IInv, TypeOK
  <2>6. Users' = Users \cup {r} /\ Farms' = Farms \cup {r}
    BY <2>2, <2>5, NullsAssumption DEF Users, Farms
  <2>7. Grows(r)
    BY <2>5, <2>6 DEF Grows, Users, Farms
  <2>8. \A f \in Farms : farms[f].owner # r
    BY <2>4 DEF IInv, OwnersAreUsers
  <2>9. NamesAreUnique'
    BY <1>3, <2>4, <2>5, <2>6, <2>8 DEF IInv, NamesAreUnique, EmailKey,
       EmailFree, Users, Farms
  <2>10. ActiveFarmIsOwned'
    <3> SUFFICES ASSUME NEW u \in Users'
                 PROVE  /\ userSettings'[u] # Absent
                        /\ userSettings'[u].activeFarm # Null =>
                             Owned(userSettings[u].activeFarm, u)'
      BY DEF ActiveFarmIsOwned
    <3>1. CASE u = r
      BY <2>2, <2>5, <2>6, <3>1, NullsAssumption DEF Owned
    <3>2. CASE u # r
      BY <2>4, <2>5, <2>6, <3>2 DEF IInv, ActiveFarmIsOwned, Owned, Users, Farms
    <3>3. QED
      BY <3>1, <3>2
  <2>11. OwnersAreUsers'
    BY <2>5, <2>6 DEF IInv, OwnersAreUsers, Farms
  <2>12. QED
    BY <1>1, <2>1, <2>3, <2>7, <2>9, <2>10, <2>11, ReplyStep DEF Answers
<1>4. QED
  BY <1>2, <1>3

\* A farm is created, or renamed by its owner, to a name that is free.
LEMMA NameWritten ==
  ASSUME IInv, NEW r \in Requests, NEW f \in Requests,
         step[r] = "checked", job[r].name \in Names, job[r].user \in Users,
         farms' = [farms EXCEPT ![f] =
                     [owner |-> job[r].user, name |-> job[r].name]],
         NameFree(job[r].user, job[r].name, f),
         f \in Farms \cup {r}, f \in Farms => farms[f].owner = job[r].user,
         Reply(r, "ok"), users' = users, userSettings' = userSettings
  PROVE  IInv'
<1>1. step[r] \in Pending
  BY DEF Pending
<1>2. [owner |-> job[r].user, name |-> job[r].name] \in FarmRow
  BY <1>1 DEF FarmRow, Users
<1>3. /\ farms' \in [Requests -> FarmRow \cup {Absent}]
      /\ farms'[f] = [owner |-> job[r].user, name |-> job[r].name]
      /\ \A q \in Requests : q # f => farms'[q] = farms[q]
  BY <1>2 DEF IInv, TypeOK
<1>4. Farms' = Farms \cup {f} /\ Users' = Users
  BY <1>2, <1>3, NullsAssumption DEF Farms, Users
<1>5. \A g \in Farms : farms'[g].owner = farms[g].owner
  BY <1>3 DEF Farms
<1>6. Grows(r)
  BY <1>3, <1>4, <1>5 DEF Grows, Farms, Users
<1>7. NamesAreUnique'
  BY <1>3, <1>4 DEF IInv, NamesAreUnique, NameFree, Farms, Users
<1>8. ActiveFarmIsOwned'
  BY <1>4, <1>5 DEF IInv, ActiveFarmIsOwned, Owned
<1>9. OwnersAreUsers'
  BY <1>1, <1>3, <1>4, <1>5 DEF IInv, OwnersAreUsers
<1>10. QED
  BY <1>1, <1>3, <1>6, <1>7, <1>8, <1>9, ReplyStep
     DEF IInv, TypeOK, Answers

LEMMA NamingStep ==
  ASSUME IInv, NEW r \in Requests, CreateFarm(r) \/ RenameFarm(r)
  PROVE  IInv'
<1>1. /\ step[r] = "checked" /\ step[r] \in Pending
      /\ WellFormed(job[r]) /\ KeepsOwner(r)
      /\ job[r].name \in Names /\ job[r].user \in Users
  BY DEF IInv, RequestsOK, CreateFarm, RenameFarm, At, Pending, WellFormed, Ops
<1>2. CASE \E what \in Answers : Reject(r, what)
  BY <1>1, <1>2, RejectStep
<1>3. CASE CreateFarm(r)
  <2>1. NameKey(job[r].user, job[r].name, Null) =>
          NameFree(job[r].user, job[r].name, r)
    BY NullsAssumption DEF NameKey, NameFree, Farms
  <2>2. CASE NameKey(job[r].user, job[r].name, Null)
    <3>1. /\ farms' = [farms EXCEPT ![r] =
                          [owner |-> job[r].user, name |-> job[r].name]]
          /\ Reply(r, "ok")
          /\ users' = users /\ userSettings' = userSettings
      BY <1>3, <2>2 DEF CreateFarm
    <3>2. NameFree(job[r].user, job[r].name, r)
      BY <2>1, <2>2
    <3>3. r \notin Farms
      BY <1>1 DEF IInv, IdsFresh, Farms
    <3>4. QED
      BY <1>1, <3>1, <3>2, <3>3, NameWritten
  <2>3. CASE ~NameKey(job[r].user, job[r].name, Null)
    BY <1>2, <1>3, <2>3 DEF CreateFarm, Answers
  <2>4. QED
    BY <2>2, <2>3
<1>4. CASE RenameFarm(r)
  <2> DEFINE f == job[r].farm
  <2>1. CASE f \notin Farms
    BY <1>2, <1>4, <2>1 DEF RenameFarm, Answers
  <2>2. CASE f \in Farms
    <3>1. farms[f].owner = job[r].user /\ farms[f] \in FarmRow /\ f \in Requests
      BY <1>1, <1>4, <2>2 DEF KeepsOwner, RenameFarm, At, IInv, TypeOK, Farms
    <3>2. [farms[f] EXCEPT !.name = job[r].name] =
            [owner |-> job[r].user, name |-> job[r].name]
      BY <3>1 DEF FarmRow
    <3>3. QED
      BY <1>1, <1>2, <1>4, <2>2, <3>1, <3>2, NameWritten
         DEF RenameFarm, Answers, NameKey
  <2>3. QED
    BY <2>1, <2>2
<1>5. QED
  BY <1>3, <1>4

LEMMA RemoveFarmStep ==
  ASSUME IInv, NEW r \in Requests, RemoveFarm(r)
  PROVE  IInv'
<1> DEFINE f == job[r].farm
<1>1. /\ step[r] = "checked" /\ step[r] \in Pending /\ f \in Requests
      /\ farms' = [farms EXCEPT ![f] = Absent] /\ userSettings' = Unpinned(f)
      /\ Reply(r, "ok") /\ users' = users
  BY DEF IInv, RequestsOK, RemoveFarm, At, Pending, WellFormed
<1>2. /\ farms' \in [Requests -> FarmRow \cup {Absent}]
      /\ farms'[f] = Absent /\ \A q \in Requests : q # f => farms'[q] = farms[q]
  BY <1>1 DEF IInv, TypeOK
<1>3. Farms' = Farms \ {f} /\ Users' = Users
  BY <1>1, <1>2 DEF Farms, Users
<1>4. [activeFarm |-> Null] \in SettingsRow /\ Absent # [activeFarm |-> Null]
  BY NullsAssumption DEF SettingsRow
<1>5. userSettings' \in [Requests -> SettingsRow \cup {Absent}]
  BY <1>1, <1>4 DEF IInv, TypeOK, Unpinned
<1>6. Grows(r)
  BY <1>1, <1>2, <1>3 DEF Grows, Farms
<1>7. NamesAreUnique' /\ OwnersAreUsers'
  BY <1>1, <1>2, <1>3 DEF IInv, NamesAreUnique, OwnersAreUsers, Farms
<1>8. ActiveFarmIsOwned'
  <2> SUFFICES ASSUME NEW u \in Users
               PROVE  /\ userSettings'[u] # Absent
                      /\ userSettings'[u].activeFarm # Null =>
                           Owned(userSettings[u].activeFarm, u)'
    BY <1>3 DEF ActiveFarmIsOwned
  <2>1. userSettings'[u] = IF userSettings[u].activeFarm = f
                           THEN [activeFarm |-> Null] ELSE userSettings[u]
    BY <1>1 DEF Unpinned, Users
  <2>2. QED
    BY <1>2, <1>3, <1>4, <2>1 DEF IInv, ActiveFarmIsOwned, Owned, Farms
<1>9. QED
  BY <1>1, <1>2, <1>5, <1>6, <1>7, <1>8, ReplyStep DEF IInv, TypeOK, Answers

LEMMA SetActiveFarmStep ==
  ASSUME IInv, NEW r \in Requests, SetActiveFarm(r)
  PROVE  IInv'
<1> DEFINE f == job[r].farm
           u == job[r].user
<1>1. /\ step[r] = "checked" /\ step[r] \in Pending
      /\ job[r].op = "setActiveFarm" /\ u \in Users
      /\ f \in Requests \cup {Null} /\ KeepsOwner(r)
  BY DEF IInv, RequestsOK, SetActiveFarm, At, Pending, WellFormed, Job, Ops
<1>2. CASE ~Refers(f)
  BY <1>1, <1>2, RejectStep DEF SetActiveFarm, Answers
<1>3. CASE Refers(f)
  <2>1. /\ userSettings' = [userSettings EXCEPT ![u] = [activeFarm |-> f]]
        /\ Reply(r, "ok") /\ users' = users /\ farms' = farms
    BY <1>3 DEF SetActiveFarm
  <2>2. [activeFarm |-> f] \in SettingsRow /\ Absent # [activeFarm |-> f]
    BY <1>1, NullsAssumption DEF SettingsRow
  <2>3. userSettings' \in [Requests -> SettingsRow \cup {Absent}]
    BY <2>1, <2>2 DEF IInv, TypeOK
  <2>4. Users' = Users /\ Farms' = Farms
    BY <2>1 DEF Users, Farms
  <2>5. Grows(r) /\ NamesAreUnique' /\ OwnersAreUsers'
    BY <2>1, <2>4 DEF IInv, Grows, NamesAreUnique, OwnersAreUsers
  <2>6. f # Null => Owned(f, u)
    BY <1>1, <1>3 DEF Refers, Owned, KeepsOwner
  <2>7. ActiveFarmIsOwned'
    <3> SUFFICES ASSUME NEW v \in Users
                 PROVE  /\ userSettings'[v] # Absent
                        /\ userSettings'[v].activeFarm # Null =>
                             Owned(userSettings'[v].activeFarm, v)
      BY <2>1, <2>4 DEF ActiveFarmIsOwned, Owned
    <3>1. userSettings'[v] = IF v = u THEN [activeFarm |-> f] ELSE userSettings[v]
      BY <2>1 DEF IInv, TypeOK, Users
    <3>2. QED
      BY <2>2, <2>6, <3>1 DEF IInv, ActiveFarmIsOwned
  <2>8. QED
    BY <1>1, <2>1, <2>3, <2>5, <2>7, ReplyStep DEF IInv, TypeOK, Answers
<1>4. QED
  BY <1>2, <1>3

LEMMA StepIInv == IInv /\ [Next]_vars => IInv'
<1> SUFFICES ASSUME IInv, [Next]_vars PROVE IInv'
  OBVIOUS
<1>1. ASSUME NEW r \in Requests, NEW j \in Asks, Ask(r, j) PROVE IInv'
  BY <1>1, AskStep
<1>2. ASSUME NEW r \in Requests, FindByEmail(r) \/ FindOwned(r) \/ FindByName(r)
      PROVE  IInv'
  BY <1>2, CheckStep
<1>3. ASSUME NEW r \in Requests, Register(r) PROVE IInv'
  BY <1>3, RegisterStep
<1>4. ASSUME NEW r \in Requests, CreateFarm(r) \/ RenameFarm(r) PROVE IInv'
  BY <1>4, NamingStep
<1>5. ASSUME NEW r \in Requests, RemoveFarm(r) PROVE IInv'
  BY <1>5, RemoveFarmStep
<1>6. ASSUME NEW r \in Requests, SetActiveFarm(r) PROVE IInv'
  BY <1>6, SetActiveFarmStep
<1>7. ASSUME NEW r \in Requests, Fail(r) PROVE IInv'
  BY <1>7, RejectStep DEF Fail, Pending, Answers
<1>8. CASE UNCHANGED vars
  BY <1>8 DEF vars, IInv, TypeOK, RequestsOK, WellFormed, KeepsOwner, IdsFresh,
     OwnersAreUsers, NamesAreUnique, ActiveFarmIsOwned, Owned, Users, Farms
<1>9. QED
  BY <1>1, <1>2, <1>3, <1>4, <1>5, <1>6, <1>7, <1>8 DEF Next

\* The tables and the requests keep their types.
THEOREM TypeCorrect == Spec => []TypeOK
<1>1. IInv => TypeOK
  BY DEF IInv
<1>2. QED
  BY <1>1, InitIInv, StepIInv, PTL DEF Spec

\* Pre-checks that overlap never let a name through twice.
THEOREM NamesStayUnique == Spec => []NamesAreUnique
<1>1. IInv => NamesAreUnique
  BY DEF IInv
<1>2. QED
  BY <1>1, InitIInv, StepIInv, PTL DEF Spec

\* A farm that is checked, deleted and then chosen is never the active one.
THEOREM ActiveFarmStaysOwned == Spec => []ActiveFarmIsOwned
<1>1. IInv => ActiveFarmIsOwned
  BY DEF IInv
<1>2. QED
  BY <1>1, InitIInv, StepIInv, PTL DEF Spec
-----------------------------------------------------------------------------
(* UserFarms implements Accounts.                                            *)

LEMMA PromiseInit == Init => Promise!Init
<1> SUFFICES ASSUME Init PROVE Promise!Init
  OBVIOUS
<1>1. Users = {} /\ Farms = {}
  BY DEF Init, Users, Farms
<1>2. QED
  BY <1>1 DEF Init, Promise!Init

LEMMA SameChecks ==
  ASSUME IInv, NEW j \in Job
  PROVE  /\ Promise!EmailTaken(j) <=> ~EmailFree(j.name)
         /\ Promise!NameTaken(j) <=> ~NameFree(j.user, j.name, j.farm)
         /\ Promise!Mine(j) <=> Owned(j.farm, j.user)
<1>1. Promise!EmailTaken(j) <=> ~EmailFree(j.name)
  BY DEF Promise!EmailTaken, EmailFree
<1>2. Promise!NameTaken(j) <=> ~NameFree(j.user, j.name, j.farm)
  BY DEF Promise!NameTaken, NameFree
<1>3. Promise!Mine(j) <=> Owned(j.farm, j.user)
  BY DEF Promise!Mine, Owned
<1>4. QED
  BY <1>1, <1>2, <1>3

\* A request that is refused is refused for a reason that holds at that moment.
LEMMA RefusalIsTrue ==
  ASSUME IInv, NEW r \in Requests, step[r] \in Pending,
         NEW what \in Answers, Reject(r, what),
         what = "taken" =>
           \/ job[r].op = "register" /\ ~EmailFree(job[r].name)
           \/ job[r].op \in {"createFarm", "renameFarm"}
              /\ ~NameFree(job[r].user, job[r].name, job[r].farm),
         what = "notFound" =>
           /\ job[r].op \in {"renameFarm", "removeFarm", "setActiveFarm"}
           /\ ~Owned(job[r].farm, job[r].user),
         what # "ok"
  PROVE  Promise!Next
<1>1. job[r] # Null /\ job[r] \in Job
  BY DEF IInv, RequestsOK, WellFormed
<1>2. /\ job' = [job EXCEPT ![r] = Null]
      /\ answer' = [answer EXCEPT ![r] = what]
      /\ users' = users /\ userSettings' = userSettings /\ farms' = farms
  BY DEF Reject, Reply, tables
<1>3. Users' = Users /\ Farms' = Farms
  BY <1>2 DEF Users, Farms
<1>4. Promise!Refuse(r)
  BY <1>1, <1>2, <1>3, SameChecks DEF Promise!Refuse, Promise!Answer, Answers
<1>5. QED
  BY <1>1, <1>4 DEF Promise!Next, Promise!Do

LEMMA AskIsAsk ==
  ASSUME IInv, NEW r \in Requests, NEW j \in Asks, Ask(r, j)
  PROVE  Promise!Next
<1>1. j \in Job /\ Job = Promise!Jobs
  BY AsksWellFormed DEF IInv, WellFormed, Job, Ops, Promise!Jobs
<1>2. /\ step[r] = "new" /\ job' = [job EXCEPT ![r] = j] /\ job'[r] = j
      /\ users' = users /\ userSettings' = userSettings /\ farms' = farms
      /\ answer' = answer
  BY DEF Ask, IInv, TypeOK
<1>3. job[r] = Null /\ answer[r] = Null
  BY <1>2 DEF IInv, RequestsOK, Pending
<1>4. Users' = Users /\ Farms' = Farms
  BY <1>2 DEF Users, Farms
<1>5. Promise!Ask(r)
  BY <1>1, <1>2, <1>3, <1>4 DEF Promise!Ask
<1>6. QED
  BY <1>5 DEF Promise!Next

LEMMA CheckRefines ==
  ASSUME IInv, NEW r \in Requests,
         FindByEmail(r) \/ FindOwned(r) \/ FindByName(r)
  PROVE  Promise!Next \/ UNCHANGED Promise!vars
<1>1. step[r] \in Pending /\ WellFormed(job[r])
  BY DEF IInv, RequestsOK, FindByEmail, FindOwned, FindByName, At, Pending
<1>2. ASSUME NEW s, NEW name, Proceed(r, s, name)
      PROVE  UNCHANGED Promise!vars
  <2>1. /\ users' = users /\ userSettings' = userSettings /\ farms' = farms
        /\ job' = job /\ answer' = answer
    BY <1>2 DEF Proceed
  <2>2. Users' = Users /\ Farms' = Farms
    BY <2>1 DEF Users, Farms
  <2>3. QED
    BY <2>1, <2>2 DEF Promise!vars
<1>3. "taken" \in Answers /\ "notFound" \in Answers
  BY DEF Answers
<1>4. CASE FindByEmail(r)
  BY <1>1, <1>2, <1>3, <1>4, RefusalIsTrue DEF FindByEmail, At
<1>5. CASE FindOwned(r)
  BY <1>1, <1>2, <1>3, <1>5, RefusalIsTrue DEF FindOwned, At
<1>6. CASE FindByName(r)
  BY <1>1, <1>2, <1>3, <1>6, RefusalIsTrue DEF FindByName, At
<1>7. QED
  BY <1>4, <1>5, <1>6

LEMMA RegisterRefines ==
  ASSUME IInv, NEW r \in Requests, Register(r)
  PROVE  Promise!Next
<1>1. /\ step[r] = "checked" /\ step[r] \in Pending
      /\ job[r].op = "register" /\ job[r] # Null /\ job[r] \in Job
  BY DEF IInv, RequestsOK, Register, At, Pending, WellFormed
<1>2. CASE ~EmailKey(job[r].name)
  BY <1>1, <1>2, RefusalIsTrue DEF Register, Answers, EmailKey
<1>3. CASE EmailKey(job[r].name)
  <2>1. /\ users' = [users EXCEPT ![r] = [email |-> job[r].name]]
        /\ farms' = [farms EXCEPT ![r] = [owner |-> r, name |-> DefaultName]]
        /\ userSettings' = [userSettings EXCEPT ![r] = [activeFarm |-> r]]
        /\ job' = [job EXCEPT ![r] = Null]
        /\ answer' = [answer EXCEPT ![r] = "ok"]
    BY <1>3 DEF Register, FirstActive, Reply
  <2>2. /\ users'[r] = [email |-> job[r].name] /\ users'[r] # Absent
        /\ farms'[r] = [owner |-> r, name |-> DefaultName] /\ farms'[r] # Absent
        /\ userSettings'[r] = [activeFarm |-> r]
        /\ \A q \in Requests : q # r => /\ users'[q] = users[q]
                                       /\ farms'[q] = farms[q]
                                       /\ userSettings'[q] = userSettings[q]
    <3>1. [email |-> job[r].name] \in UserRow
      BY <1>1 DEF UserRow, IInv, RequestsOK, WellFormed
    <3>2. [owner |-> r, name |-> DefaultName] \in FarmRow
      BY DefaultNameAssumption DEF FarmRow
    <3>3. QED
      BY <2>1, <3>1, <3>2, NullsAssumption DEF IInv, TypeOK
  <2>3. Users' = Users \cup {r} /\ Farms' = Farms \cup {r}
    BY <2>2 DEF Users, Farms
  <2>4. ~Promise!EmailTaken(job[r])
    BY <1>1, <1>3, SameChecks DEF EmailKey
  <2>5. Promise!Register(r)
    BY <1>1, <2>1, <2>2, <2>3, <2>4
       DEF Promise!Register, Promise!With, Promise!Answer, Users, Farms
  <2>6. QED
    BY <1>1, <2>5 DEF Promise!Next, Promise!Do
<1>4. QED
  BY <1>2, <1>3

LEMMA CreateFarmRefines ==
  ASSUME IInv, NEW r \in Requests, CreateFarm(r)
  PROVE  Promise!Next
<1>1. /\ step[r] = "checked" /\ step[r] \in Pending /\ job[r].op = "createFarm"
      /\ job[r] # Null /\ job[r] \in Job /\ job[r].farm = Null
      /\ [owner |-> job[r].user, name |-> job[r].name] \in FarmRow
  BY DEF IInv, RequestsOK, CreateFarm, At, Pending, WellFormed, FarmRow, Ops, Users
<1>2. CASE ~NameKey(job[r].user, job[r].name, Null)
  BY <1>1, <1>2, RefusalIsTrue DEF CreateFarm, Answers, NameKey
<1>3. CASE NameKey(job[r].user, job[r].name, Null)
  <2>1. /\ farms' = [farms EXCEPT ![r] =
                        [owner |-> job[r].user, name |-> job[r].name]]
        /\ users' = users /\ userSettings' = userSettings
        /\ job' = [job EXCEPT ![r] = Null]
        /\ answer' = [answer EXCEPT ![r] = "ok"]
    BY <1>3 DEF CreateFarm, Reply
  <2>2. /\ farms'[r] = [owner |-> job[r].user, name |-> job[r].name]
        /\ farms'[r] # Absent
        /\ \A q \in Requests : q # r => farms'[q] = farms[q]
    BY <1>1, <2>1, NullsAssumption DEF IInv, TypeOK
  <2>3. Users' = Users /\ Farms' = Farms \cup {r}
    BY <2>1, <2>2 DEF Users, Farms
  <2>4. ~Promise!NameTaken(job[r])
    BY <1>1, <1>3, SameChecks DEF NameKey
  <2>5. Promise!CreateFarm(r)
    BY <1>1, <2>1, <2>2, <2>3, <2>4
       DEF Promise!CreateFarm, Promise!With, Promise!Answer, Users, Farms
  <2>6. QED
    BY <1>1, <2>5 DEF Promise!Next, Promise!Do
<1>4. QED
  BY <1>2, <1>3

LEMMA RenameFarmRefines ==
  ASSUME IInv, NEW r \in Requests, RenameFarm(r)
  PROVE  Promise!Next
<1> DEFINE f == job[r].farm
<1>1. /\ step[r] = "checked" /\ step[r] \in Pending /\ job[r].op = "renameFarm"
      /\ job[r] # Null /\ job[r] \in Job /\ KeepsOwner(r)
  BY DEF IInv, RequestsOK, RenameFarm, At, Pending, WellFormed
<1>2. CASE f \notin Farms
  BY <1>1, <1>2, RefusalIsTrue DEF RenameFarm, Answers, Owned
<1>3. CASE f \in Farms
  <2>1. farms[f].owner = job[r].user /\ farms[f] \in FarmRow /\ f \in Requests
    BY <1>1, <1>3 DEF KeepsOwner, IInv, TypeOK, Farms
  <2>2. CASE ~NameKey(farms[f].owner, job[r].name, f)
    BY <1>1, <1>3, <2>1, <2>2, RefusalIsTrue DEF RenameFarm, Answers, NameKey
  <2>3. CASE NameKey(farms[f].owner, job[r].name, f)
    <3>1. /\ farms' = [farms EXCEPT ![f] = [@ EXCEPT !.name = job[r].name]]
          /\ users' = users /\ userSettings' = userSettings
          /\ job' = [job EXCEPT ![r] = Null]
          /\ answer' = [answer EXCEPT ![r] = "ok"]
      BY <1>3, <2>3 DEF RenameFarm, Reply
    <3>2. /\ farms'[f] = [owner |-> job[r].user, name |-> job[r].name]
          /\ \A q \in Requests : q # f => farms'[q] = farms[q]
      BY <2>1, <3>1 DEF IInv, TypeOK, FarmRow
    <3>3. farms'[f] # Absent
      <4>1. job[r].name \in Names
        BY <1>1 DEF IInv, RequestsOK, WellFormed
      <4>2. farms'[f] \in FarmRow
        BY <2>1, <3>2, <4>1 DEF FarmRow
      <4>3. QED
        BY <4>2, NullsAssumption
    <3>4. Users' = Users /\ Farms' = Farms
      BY <1>3, <3>1, <3>2, <3>3 DEF Users, Farms
    <3>5. ~Promise!NameTaken(job[r]) /\ Promise!Mine(job[r])
      BY <1>1, <1>3, <2>1, <2>3, SameChecks DEF NameKey, Owned
    <3>6. Promise!RenameFarm(r)
      BY <1>1, <1>3, <3>1, <3>2, <3>4, <3>5
         DEF Promise!RenameFarm, Promise!With, Promise!Answer, Users, Farms
    <3>7. QED
      BY <1>1, <3>6 DEF Promise!Next, Promise!Do
  <2>4. QED
    BY <2>2, <2>3
<1>4. QED
  BY <1>2, <1>3

LEMMA RemoveFarmRefines ==
  ASSUME IInv, NEW r \in Requests, RemoveFarm(r)
  PROVE  Promise!Next
<1> DEFINE f == job[r].farm
<1>1. /\ job[r].op = "removeFarm" /\ job[r] # Null /\ f \in Requests
      /\ farms' = [farms EXCEPT ![f] = Absent] /\ userSettings' = Unpinned(f)
      /\ users' = users
      /\ job' = [job EXCEPT ![r] = Null]
      /\ answer' = [answer EXCEPT ![r] = "ok"]
  BY DEF IInv, RequestsOK, RemoveFarm, At, Pending, WellFormed, Reply
<1>2. farms'[f] = Absent /\ \A q \in Requests : q # f => farms'[q] = farms[q]
  BY <1>1 DEF IInv, TypeOK
<1>3. Farms' = Farms \ {f} /\ Users' = Users
  BY <1>1, <1>2 DEF Farms, Users
<1>4. \A u \in Users : userSettings'[u].activeFarm =
        IF userSettings[u].activeFarm = f THEN Null ELSE userSettings[u].activeFarm
  BY <1>1 DEF Unpinned, Users
<1>5. Promise!RemoveFarm(r)
  BY <1>1, <1>2, <1>3, <1>4
     DEF Promise!RemoveFarm, Promise!Answer, Users, Farms
<1>6. QED
  BY <1>1, <1>5 DEF Promise!Next, Promise!Do

LEMMA SetActiveFarmRefines ==
  ASSUME IInv, NEW r \in Requests, SetActiveFarm(r)
  PROVE  Promise!Next
<1> DEFINE f == job[r].farm
           u == job[r].user
<1>1. /\ step[r] = "checked" /\ step[r] \in Pending
      /\ job[r].op = "setActiveFarm" /\ u \in Users
      /\ job[r] # Null /\ job[r] \in Job /\ KeepsOwner(r)
  BY DEF IInv, RequestsOK, SetActiveFarm, At, Pending, WellFormed, Ops
<1>2. CASE ~Refers(f)
  BY <1>1, <1>2, RefusalIsTrue DEF SetActiveFarm, Answers
<1>3. CASE Refers(f)
  <2>1. /\ userSettings' = [userSettings EXCEPT ![u] = [activeFarm |-> f]]
        /\ users' = users /\ farms' = farms
        /\ job' = [job EXCEPT ![r] = Null]
        /\ answer' = [answer EXCEPT ![r] = "ok"]
    BY <1>3 DEF SetActiveFarm, Reply
  <2>2. Users' = Users /\ Farms' = Farms
    BY <2>1 DEF Users, Farms
  <2>3. f # Null => Promise!Mine(job[r])
    BY <1>1, <1>3, SameChecks DEF Refers, Owned, KeepsOwner
  <2>4. \A v \in Users : userSettings'[v].activeFarm =
          IF v = u THEN f ELSE userSettings[v].activeFarm
    BY <2>1 DEF IInv, TypeOK, Users
  <2>5. Promise!SetActiveFarm(r)
    BY <1>1, <2>1, <2>2, <2>3, <2>4 DEF Promise!SetActiveFarm, Promise!Answer
  <2>6. QED
    BY <1>1, <2>5 DEF Promise!Next, Promise!Do
<1>4. QED
  BY <1>2, <1>3

\* Every handler, whatever overlaps with it, takes effect at one moment, and
\* answers what is true at that moment.
THEOREM HandlersAreAtomic == Spec => ImplementsAccounts
<1>1. ASSUME IInv, [Next]_vars
      PROVE  Promise!Next \/ UNCHANGED Promise!vars
  <2>1. ASSUME NEW r \in Requests, NEW j \in Asks, Ask(r, j)
        PROVE  Promise!Next
    BY <1>1, <2>1, AskIsAsk
  <2>2. ASSUME NEW r \in Requests,
               FindByEmail(r) \/ FindOwned(r) \/ FindByName(r)
        PROVE  Promise!Next \/ UNCHANGED Promise!vars
    BY <1>1, <2>2, CheckRefines
  <2>3. ASSUME NEW r \in Requests, Register(r) \/ CreateFarm(r) \/ RenameFarm(r)
                                  \/ RemoveFarm(r) \/ SetActiveFarm(r)
        PROVE  Promise!Next
    BY <1>1, <2>3, RegisterRefines, CreateFarmRefines, RenameFarmRefines,
       RemoveFarmRefines, SetActiveFarmRefines
  <2>4. ASSUME NEW r \in Requests, Fail(r)
        PROVE  Promise!Next
    BY <1>1, <2>4, RefusalIsTrue DEF Fail, Pending, Answers
  <2>5. CASE UNCHANGED vars
    BY <2>5 DEF vars, Promise!vars, Users, Farms
  <2>6. QED
    BY <1>1, <2>1, <2>2, <2>3, <2>4, <2>5 DEF Next
<1>2. QED
  BY <1>1, PromiseInit, InitIInv, StepIInv, PTL
     DEF Spec, ImplementsAccounts, Promise!Spec
=============================================================================
