------------------------- MODULE FarmStables_proofs -------------------------
(***************************************************************************)
(* Proofs about FarmStables, for any catalog, any bodies and any number of *)
(* requests.  IInv holds whatever overlaps; OrderlyInv is what a client    *)
(* that waits adds: what a handler checked is still so when it writes, so  *)
(* every write is the one the checks allowed.                              *)
(***************************************************************************)
EXTENDS FarmStables, TLAPS

WellFormed(j) ==
  /\ j.op = "create" => j.body \in Bodies /\ j.stable = Null
  /\ j.op = "patch" => j.body \in Patches /\ j.stable \in Requests
  /\ j.op = "remove" => j.stable \in Requests
  /\ j.op = "putAnimal" => j.species \in Species /\ j.body \in Slugs \cup {Null}
  /\ j.op = "removeAnimal" => j.species \in Species
  /\ j.op = "changeVersion" => j.body \in Versions

PendingOK ==
  \A r \in Requests : InFlight(r) =>
    /\ WellFormed(job[r])
    /\ farmRead[r] \in Versions
    /\ step[r] # "scoped" /\ job[r].op = "patch" => rowRead[r] \in StableRow

JobsByRequest == job = [r \in Requests |-> job[r]]

IInv == TypeOK /\ JobsByRequest /\ PendingOK /\ StablesAreNamedApart /\ NeverOverfull /\ FarmTakesAll
-----------------------------------------------------------------------------
LEMMA PatchedRow ==
  ASSUME NEW row \in StableRow, NEW p \in Patches, NEW read,
         p.species # Keep => read \in StableRow
  PROVE  Patched(row, p, read) \in StableRow
<1>1. p \in Patch
  BY BodiesAssumption
<1>2. Merged(row, p) \in StableRow
  BY <1>1 DEF Merged, Given, Patch, StableRow
<1> DEFINE c == IF p.species = Keep THEN Merged(row, p).config
                                    ELSE Given(p.config, read.config)
<1>3. c \in Configs
  BY <1>1, <1>2 DEF Given, Patch, StableRow
<1>4. Patched(row, p, read) = [Merged(row, p) EXCEPT !.config = c]
  BY DEF Patched
<1> HIDE DEF c
<1>5. QED
  BY <1>2, <1>3, <1>4 DEF StableRow

LEMMA InitIInv == Init => IInv
<1> SUFFICES ASSUME Init PROVE IInv
  OBVIOUS
<1>1. Rows = {}
  BY DEF Init, Rows
<1>2. TypeOK
  BY DEF Init, TypeOK
<1>3. PendingOK
  BY DEF Init, PendingOK, InFlight
<1>4. JobsByRequest
  BY DEF Init, JobsByRequest
<1>5. QED
  BY <1>1, <1>2, <1>3, <1>4 DEF Init, IInv, StablesAreNamedApart, NeverOverfull, FarmTakesAll

LEMMA AsksWellFormed ==
  ASSUME NEW j \in Asks
  PROVE  WellFormed(j)
<1>1. Rows \subseteq Requests
  BY DEF Rows
<1>2. CASE \E b \in Bodies : j = Asking("create", Null, Null, b)
  BY <1>2 DEF Asking, WellFormed
<1>3. CASE \E s \in Rows, p \in Patches : j = Asking("patch", s, Null, p)
  BY <1>1, <1>3 DEF Asking, WellFormed
<1>4. CASE \E s \in Rows : j = Asking("remove", s, Null, Null)
  BY <1>1, <1>4 DEF Asking, WellFormed
<1>5. CASE \E a \in Species, c \in Slugs \cup {Null} :
             j = Asking("putAnimal", Null, a, c)
  BY <1>5 DEF Asking, WellFormed
<1>6. CASE \E a \in Species : j = Asking("removeAnimal", Null, a, Null)
  BY <1>6 DEF Asking, WellFormed
<1>7. CASE \E v \in Versions : j = Asking("changeVersion", Null, Null, v)
  BY <1>7 DEF Asking, WellFormed
<1>8. CASE j = Asking("removeFarm", Null, Null, Null)
  BY <1>8 DEF Asking, WellFormed
<1>9. QED
  BY <1>2, <1>3, <1>4, <1>5, <1>6, <1>7, <1>8 DEF Asks

\* Other requests are where they were; the tables are left to check.
LEMMA ReplyStep ==
  ASSUME IInv, NEW r \in Requests, InFlight(r), Reply(r),
         version' \in Versions \cup {Null},
         stables' \in [Requests -> StableRow \cup {Absent}],
         animals' \in [Species -> Slugs \cup {Null, Absent}],
         StablesAreNamedApart', NeverOverfull', FarmTakesAll'
  PROVE  IInv'
<1>1. TypeOK'
  BY DEF IInv, TypeOK, Reply
<1>2. /\ step'[r] = "done"
      /\ \A q \in Requests : q # r =>
           /\ step'[q] = step[q] /\ job'[q] = job[q]
           /\ farmRead'[q] = farmRead[q] /\ rowRead'[q] = rowRead[q]
  BY DEF IInv, TypeOK, JobsByRequest, Reply
<1>3. PendingOK'
  BY <1>2 DEF IInv, PendingOK, InFlight, WellFormed
<1>4. JobsByRequest'
  BY DEF IInv, JobsByRequest, Reply
<1>5. QED
  BY <1>1, <1>3, <1>4 DEF IInv

LEMMA RefuseStep ==
  ASSUME IInv, NEW r \in Requests, Refuse(r)
  PROVE  IInv'
<1>1. InFlight(r) /\ Reply(r)
      /\ version' = version /\ stables' = stables /\ animals' = animals
  BY DEF Refuse, Reject, tables
<1>2. StablesAreNamedApart' /\ NeverOverfull' /\ FarmTakesAll'
  BY <1>1 DEF IInv, StablesAreNamedApart, NeverOverfull, FarmTakesAll, Rows
<1>3. QED
  BY <1>1, <1>2, ReplyStep DEF IInv, TypeOK

LEMMA ScopeStep ==
  ASSUME IInv, NEW r \in Requests, NEW j \in Asks, Scope(r, j)
  PROVE  IInv'
<1>1. WellFormed(j) /\ version \in Versions
  BY AsksWellFormed DEF IInv, TypeOK, Scope
<1>2. TypeOK'
  BY <1>1 DEF IInv, TypeOK, Scope
<1>3. PendingOK'
  BY <1>1 DEF IInv, TypeOK, JobsByRequest, PendingOK, Scope, InFlight, WellFormed
<1>4. StablesAreNamedApart' /\ NeverOverfull' /\ FarmTakesAll'
  BY DEF IInv, StablesAreNamedApart, NeverOverfull, FarmTakesAll, Rows, Scope
<1>5. JobsByRequest'
  BY DEF IInv, JobsByRequest, Scope
<1>6. QED
  BY <1>2, <1>3, <1>4, <1>5 DEF IInv

LEMMA CheckStep ==
  ASSUME IInv, NEW r \in Requests, ReadStable(r) \/ FindName(r) \/ CheckAnimal(r)
  PROVE  IInv'
<1>1. PICK s \in {"read", "checked"}, row \in StableRow \cup {Absent} :
        /\ Goto(r, s, row) /\ InFlight(r)
        /\ job[r].op = "patch" => row \in StableRow
  <2>1. CASE ReadStable(r)
    <3>1. stables[job[r].stable] \in StableRow
      BY <2>1 DEF ReadStable, Rows, IInv, TypeOK
    <3>2. QED
      BY <2>1, <3>1 DEF ReadStable, At, InFlight
  <2>2. CASE FindName(r)
    BY <2>2 DEF FindName, At, InFlight, IInv, TypeOK, PendingOK
  <2>3. CASE CheckAnimal(r)
    BY <2>3 DEF CheckAnimal, At, InFlight
  <2>4. QED
    BY <2>1, <2>2, <2>3
<1>2. TypeOK'
  BY <1>1 DEF IInv, TypeOK, Goto
<1>3. /\ step'[r] = s /\ rowRead'[r] = row
      /\ \A q \in Requests : q # r => step'[q] = step[q] /\ rowRead'[q] = rowRead[q]
      /\ UNCHANGED <<version, stables, animals, job, farmRead>>
  BY <1>1 DEF IInv, TypeOK, Goto
<1>4. PendingOK'
  BY <1>1, <1>3 DEF IInv, PendingOK, InFlight, WellFormed
<1>5. StablesAreNamedApart' /\ NeverOverfull' /\ FarmTakesAll'
  BY <1>3 DEF IInv, StablesAreNamedApart, NeverOverfull, FarmTakesAll, Rows
<1>6. JobsByRequest'
  BY <1>3 DEF IInv, JobsByRequest
<1>7. QED
  BY <1>2, <1>4, <1>5, <1>6 DEF IInv

\* One row is written, and the constraints of the table let it in.
LEMMA RowStored ==
  ASSUME IInv, NEW r \in Requests, InFlight(r), Reply(r),
         NEW s \in Requests, NEW row \in StableRow, Stored(s, row), version # Null,
         stables' = [stables EXCEPT ![s] = row],
         version' = version, animals' = animals
  PROVE  IInv'
<1>1. /\ stables' \in [Requests -> StableRow \cup {Absent}]
      /\ stables'[s] = row /\ \A t \in Requests : t # s => stables'[t] = stables[t]
  BY DEF IInv, TypeOK
<1>2. \A t \in Rows' : t = s \/ t \in Rows
  BY <1>1 DEF Rows
<1>3. StablesAreNamedApart'
  BY <1>1, <1>2 DEF IInv, StablesAreNamedApart, Stored, NameFree, Rows
<1>4. NeverOverfull'
  BY <1>1, <1>2 DEF IInv, NeverOverfull, Stored, Rows
<1>5. FarmTakesAll'
  BY DEF FarmTakesAll
<1>6. QED
  BY <1>1, <1>3, <1>4, <1>5, ReplyStep DEF IInv, TypeOK

LEMMA WriteStep ==
  ASSUME IInv, NEW r \in Requests, Write(r)
  PROVE  IInv'
<1>1. InFlight(r) /\ WellFormed(job[r])
  BY DEF IInv, PendingOK, InFlight, Write, At, CreateStable, WriteStable,
     RemoveStable, PutAnimal, RemoveAnimal, ChangeVersion, RemoveFarm
<1>2. CASE CreateStable(r)
  <2>1. job[r].body \in StableRow
    BY <1>1, <1>2, BodiesAssumption DEF CreateStable, At, WellFormed
  <2>2. QED
    BY <1>1, <1>2, <2>1, RowStored DEF CreateStable
<1>3. CASE WriteStable(r)
  <2> DEFINE s == job[r].stable
             new == Patched(stables[s], job[r].body, rowRead[r])
  <2>1. s \in Rows /\ s \in Requests /\ stables[s] \in StableRow
    BY <1>3 DEF WriteStable, Rows, IInv, TypeOK
  <2>2. job[r].body \in Patches /\ rowRead[r] \in StableRow
    BY <1>1, <1>3 DEF WriteStable, At, WellFormed, IInv, PendingOK
  <2>3. new \in StableRow
    BY <2>1, <2>2, PatchedRow
  <2>4. version # Null
    BY <2>1 DEF IInv, FarmTakesAll
  <2>5. Stored(s, new) /\ stables' = [stables EXCEPT ![s] = new] /\ Reply(r)
        /\ version' = version /\ animals' = animals
    BY <1>3 DEF WriteStable
  <2> HIDE DEF new, s
  <2>6. QED
    BY <1>1, <2>1, <2>3, <2>4, <2>5, RowStored
<1>4. CASE RemoveStable(r)
  <2> DEFINE s == job[r].stable
  <2>1. /\ stables' \in [Requests -> StableRow \cup {Absent}]
        /\ \A t \in Requests : stables'[t] \in {stables[t], Absent}
        /\ version' = version /\ animals' = animals /\ Reply(r)
    BY <1>1, <1>4 DEF RemoveStable, IInv, TypeOK, At, WellFormed
  <2>2. \A t \in Rows' : t \in Rows /\ stables'[t] = stables[t]
    BY <2>1 DEF Rows
  <2>3. StablesAreNamedApart' /\ NeverOverfull' /\ FarmTakesAll'
    BY <2>1, <2>2 DEF IInv, StablesAreNamedApart, NeverOverfull, FarmTakesAll
  <2>4. QED
    BY <1>1, <2>1, <2>3, ReplyStep DEF IInv, TypeOK
<1>5. CASE PutAnimal(r) \/ RemoveAnimal(r)
  <2>1. /\ animals' \in [Species -> Slugs \cup {Null, Absent}]
        /\ version' = version /\ stables' = stables /\ Reply(r)
        /\ version = Null => \A a \in Species : animals'[a] \in {animals[a], Absent}
    BY <1>1, <1>5 DEF PutAnimal, RemoveAnimal, IInv, TypeOK, At, WellFormed
  <2>2. StablesAreNamedApart' /\ NeverOverfull' /\ FarmTakesAll'
    BY <2>1 DEF IInv, StablesAreNamedApart, NeverOverfull, FarmTakesAll, Rows
  <2>3. QED
    BY <1>1, <2>1, <2>2, ReplyStep DEF IInv, TypeOK
<1>6. CASE ChangeVersion(r)
  <2>1. /\ version' \in Versions /\ version # Null
        /\ stables' = stables /\ animals' = animals /\ Reply(r)
    BY <1>1, <1>6 DEF ChangeVersion, At, WellFormed
  <2>2. version' # Null
    BY <2>1, NullAssumption
  <2>3. StablesAreNamedApart' /\ NeverOverfull' /\ FarmTakesAll'
    BY <2>1, <2>2 DEF IInv, StablesAreNamedApart, NeverOverfull, FarmTakesAll, Rows
  <2>4. QED
    BY <1>1, <2>1, <2>3, ReplyStep DEF IInv, TypeOK
<1>7. CASE RemoveFarm(r)
  <2>1. /\ version' = Null /\ Reply(r)
        /\ stables' \in [Requests -> StableRow \cup {Absent}]
        /\ animals' \in [Species -> Slugs \cup {Null, Absent}]
        /\ \A a \in Species : animals'[a] = Absent
        /\ Rows' = {}
    BY <1>7 DEF RemoveFarm, AnimalsAfterFarm, Rows
  <2>2. StablesAreNamedApart' /\ NeverOverfull' /\ FarmTakesAll'
    BY <2>1 DEF StablesAreNamedApart, NeverOverfull, FarmTakesAll
  <2>3. QED
    BY <1>1, <2>1, <2>2, ReplyStep
<1>8. QED
  BY <1>2, <1>3, <1>4, <1>5, <1>6, <1>7 DEF Write

LEMMA StepIInv == IInv /\ [Next]_vars => IInv'
<1> SUFFICES ASSUME IInv, [Next]_vars PROVE IInv'
  OBVIOUS
<1>1. ASSUME NEW r \in Requests, NEW j \in Asks, Scope(r, j) PROVE IInv'
  BY <1>1, ScopeStep
<1>2. ASSUME NEW r \in Requests, ReadStable(r) \/ FindName(r) \/ CheckAnimal(r)
      PROVE  IInv'
  BY <1>2, CheckStep
<1>3. ASSUME NEW r \in Requests, Write(r) PROVE IInv'
  BY <1>3, WriteStep
<1>4. ASSUME NEW r \in Requests, Refuse(r) PROVE IInv'
  BY <1>4, RefuseStep
<1>5. CASE UNCHANGED vars
  BY <1>5 DEF vars, IInv, TypeOK, JobsByRequest, PendingOK, InFlight, WellFormed,
     StablesAreNamedApart, NeverOverfull, FarmTakesAll, Rows
<1>6. QED
  BY <1>1, <1>2, <1>3, <1>4, <1>5 DEF Next

LEMMA Inductive == Spec => []IInv
  BY InitIInv, StepIInv, PTL DEF Spec

\* The tables and the requests keep their types.
THEOREM TypeCorrect == Spec => []TypeOK
<1>1. IInv => TypeOK
  BY DEF IInv
<1>2. QED
  BY <1>1, Inductive, PTL

\* Whatever overlaps, two stables of a farm never get one name, none holds more
\* than it has room for, and a deleted farm takes stables and configs along.
THEOREM StablesStaySound == Spec => []StablesAreSound
<1>1. IInv => StablesAreSound
  BY DEF IInv, StablesAreSound
<1>2. QED
  BY <1>1, Inductive, PTL
-----------------------------------------------------------------------------
(* A client that waits for its answers.                                      *)

Alone == \A q, r \in Requests : InFlight(q) /\ InFlight(r) => q = r

ChecksStillHold ==
  \A r \in Requests : InFlight(r) =>
    /\ version = farmRead[r]
    /\ job[r].op = "create" /\ step[r] = "checked" =>
         BodyAccepted(version, job[r].body)
    /\ job[r].op = "putAnimal" /\ step[r] = "checked" =>
         SlugsKnown(version, [key |-> "component", crop |-> job[r].body])
    /\ job[r].op = "patch" /\ step[r] # "scoped" =>
         /\ rowRead[r] = stables[job[r].stable]
         /\ PatchAccepted(version, job[r].body, rowRead[r])

OrderlyInv == orderly => Alone /\ ChecksStillHold /\ ConfigFitsSpecies

LEMMA InitOrderly == Init => OrderlyInv
<1> SUFFICES ASSUME Init PROVE OrderlyInv
  OBVIOUS
<1>1. Rows = {} /\ \A r \in Requests : ~InFlight(r)
  BY DEF Init, Rows, InFlight
<1>2. QED
  BY <1>1 DEF OrderlyInv, Alone, ChecksStillHold, ConfigFitsSpecies

\* Once the only request is answered, no request is pending.
LEMMA NobodyLeft ==
  ASSUME IInv, OrderlyInv, NEW r \in Requests, InFlight(r), Reply(r),
         orderly => ConfigFitsSpecies'
  PROVE  OrderlyInv'
<1>1. orderly => \A q \in Requests : ~InFlight(q)'
  BY DEF OrderlyInv, Alone, InFlight, Reply, IInv, TypeOK
<1>2. QED
  BY <1>1 DEF OrderlyInv, Alone, ChecksStillHold, Reply

LEMMA PatchFits ==
  ASSUME NEW v, NEW row \in StableRow, NEW p \in Patches,
         PatchAccepted(v, p, row), row.species \in row.config.fits
  PROVE  Patched(row, p, row).species \in Patched(row, p, row).config.fits
<1>1. p \in Patch
  BY BodiesAssumption
<1>2. CASE p.config # Keep \/ p.species # Keep
  BY <1>2 DEF PatchAccepted, ConfigAccepted
<1>3. CASE p.config = Keep /\ p.species = Keep
  BY <1>3 DEF Patched, Merged, Given
<1>4. QED
  BY <1>2, <1>3

LEMMA OrderlyWrite ==
  ASSUME IInv, OrderlyInv, NEW r \in Requests, Write(r)
  PROVE  OrderlyInv'
<1>1. InFlight(r) /\ WellFormed(job[r]) /\ Reply(r) /\ orderly' = orderly
  BY DEF IInv, PendingOK, InFlight, Write, At, CreateStable, WriteStable,
     RemoveStable, PutAnimal, RemoveAnimal, ChangeVersion, RemoveFarm, Reply
<1> SUFFICES ASSUME orderly PROVE ConfigFitsSpecies'
  BY <1>1, NobodyLeft
<1>2. ConfigFitsSpecies /\ ChecksStillHold
  BY DEF OrderlyInv
<1>3. CASE CreateStable(r)
  <2>1. stables' = [stables EXCEPT ![r] = job[r].body]
        /\ job[r].body.species \in job[r].body.config.fits
    BY <1>1, <1>2, <1>3 DEF CreateStable, At, ChecksStillHold,
       BodyAccepted, ConfigAccepted
  <2>2. QED
    BY <1>2, <2>1 DEF ConfigFitsSpecies, Rows, IInv, TypeOK
<1>4. CASE WriteStable(r)
  <2> DEFINE s == job[r].stable
             new == Patched(stables[s], job[r].body, rowRead[r])
  <2>1. s \in Rows /\ stables[s] \in StableRow /\ job[r].body \in Patches
    BY <1>1, <1>4 DEF WriteStable, Rows, IInv, TypeOK, At, WellFormed
  <2>2. rowRead[r] = stables[s] /\ PatchAccepted(version, job[r].body, stables[s])
    BY <1>1, <1>2, <1>4 DEF WriteStable, At, ChecksStillHold
  <2>3. new.species \in new.config.fits
    BY <1>2, <2>1, <2>2, PatchFits DEF ConfigFitsSpecies
  <2>4. stables' = [stables EXCEPT ![s] = new]
    BY <1>4 DEF WriteStable
  <2> HIDE DEF new
  <2>5. QED
    BY <1>2, <2>1, <2>3, <2>4 DEF ConfigFitsSpecies, Rows, IInv, TypeOK
<1>5. CASE RemoveStable(r)
  BY <1>2, <1>5 DEF RemoveStable, ConfigFitsSpecies, Rows, IInv, TypeOK
<1>6. CASE PutAnimal(r) \/ RemoveAnimal(r) \/ ChangeVersion(r)
  BY <1>2, <1>6 DEF PutAnimal, RemoveAnimal, ChangeVersion, ConfigFitsSpecies, Rows
<1>7. CASE RemoveFarm(r)
  BY <1>7 DEF RemoveFarm, ConfigFitsSpecies, Rows
<1>8. QED
  BY <1>3, <1>4, <1>5, <1>6, <1>7 DEF Write

LEMMA OrderlyCheck ==
  ASSUME IInv, OrderlyInv, NEW r \in Requests,
         ReadStable(r) \/ FindName(r) \/ CheckAnimal(r)
  PROVE  OrderlyInv'
<1>1. PICK s \in {"read", "checked"}, row \in StableRow \cup {Absent} :
        Goto(r, s, row) /\ InFlight(r)
  BY DEF ReadStable, FindName, CheckAnimal, At, InFlight, Rows, IInv, TypeOK
<1>2. /\ step'[r] = s /\ rowRead'[r] = row
      /\ \A q \in Requests : q # r => step'[q] = step[q] /\ rowRead'[q] = rowRead[q]
      /\ UNCHANGED <<orderly, version, stables, animals, job, farmRead>>
  BY <1>1 DEF IInv, TypeOK, Goto
<1> SUFFICES ASSUME orderly PROVE Alone' /\ ChecksStillHold' /\ ConfigFitsSpecies'
  BY <1>2 DEF OrderlyInv
<1>3. Alone /\ ChecksStillHold /\ ConfigFitsSpecies
  BY DEF OrderlyInv
<1>4. ConfigFitsSpecies'
  BY <1>2, <1>3 DEF ConfigFitsSpecies, Rows
<1>5. \A q \in Requests : InFlight(q)' => q = r
  BY <1>1, <1>2, <1>3 DEF Alone, InFlight
<1>6. version = farmRead[r]
  BY <1>1, <1>3 DEF ChecksStillHold
<1>7. CASE ReadStable(r)
  <2>1. job[r].op = "patch" /\ rowRead'[r] = stables[job[r].stable]
        /\ PatchAccepted(version, job[r].body, stables[job[r].stable])
    <3>1. rowRead' = [rowRead EXCEPT ![r] = stables[job[r].stable]]
      BY <1>7 DEF ReadStable, Goto
    <3>2. QED
      BY <1>6, <1>7, <3>1 DEF ReadStable, At, IInv, TypeOK
  <2>2. QED
    BY <1>2, <1>4, <1>5, <1>6, <2>1 DEF Alone, ChecksStillHold
<1>8. CASE FindName(r)
  <2>1. rowRead'[r] = rowRead[r]
    BY <1>8 DEF FindName, Goto, IInv, TypeOK
  <2>2. CASE job[r].op = "create"
    BY <1>2, <1>4, <1>5, <1>6, <1>8, <2>1, <2>2
       DEF Alone, ChecksStillHold, FindName, At
  <2>3. CASE job[r].op = "patch"
    BY <1>1, <1>2, <1>3, <1>4, <1>5, <1>6, <1>8, <2>1, <2>3
       DEF Alone, ChecksStillHold, FindName, At
  <2>4. QED
    BY <1>8, <2>2, <2>3 DEF FindName, At
<1>9. CASE CheckAnimal(r)
  BY <1>2, <1>4, <1>5, <1>6, <1>9 DEF Alone, ChecksStillHold, CheckAnimal, At
<1>10. QED
  BY <1>7, <1>8, <1>9

LEMMA StepOrderly == IInv /\ OrderlyInv /\ [Next]_vars => OrderlyInv'
<1> SUFFICES ASSUME IInv, OrderlyInv, [Next]_vars PROVE OrderlyInv'
  OBVIOUS
<1>1. ASSUME NEW r \in Requests, NEW j \in Asks, Scope(r, j) PROVE OrderlyInv'
  <2>1. /\ step'[r] = "scoped" /\ farmRead'[r] = version
        /\ \A q \in Requests : q # r => step'[q] = step[q]
        /\ UNCHANGED <<orderly, version, stables>>
        /\ orderly => \A q \in Requests : ~InFlight(q)
    BY <1>1 DEF Scope, IInv, TypeOK
  <2>2. orderly => \A q \in Requests : InFlight(q)' => q = r
    BY <2>1 DEF InFlight
  <2>3. QED
    BY <2>1, <2>2 DEF OrderlyInv, Alone, ChecksStillHold, ConfigFitsSpecies, Rows
<1>2. ASSUME NEW r \in Requests, ReadStable(r) \/ FindName(r) \/ CheckAnimal(r)
      PROVE  OrderlyInv'
  BY <1>2, OrderlyCheck
<1>3. ASSUME NEW r \in Requests, Write(r) PROVE OrderlyInv'
  BY <1>3, OrderlyWrite
<1>4. ASSUME NEW r \in Requests, Refuse(r) PROVE OrderlyInv'
  <2>1. InFlight(r) /\ Reply(r) /\ stables' = stables /\ orderly' = orderly
    BY <1>4 DEF Refuse, Reject, tables, Reply
  <2>2. QED
    BY <2>1, NobodyLeft DEF OrderlyInv, ConfigFitsSpecies, Rows
<1>5. CASE UNCHANGED vars
  BY <1>5 DEF vars, OrderlyInv, Alone, ChecksStillHold, ConfigFitsSpecies, Rows,
     InFlight
<1>6. QED
  BY <1>1, <1>2, <1>3, <1>4, <1>5 DEF Next

\* A client that waits never sees a stable whose config its species rejects.
THEOREM ConfigsKeepFitting == Spec => []ConfigFitsSpecies
<1>1. OrderlyInv => ConfigFitsSpecies
  BY DEF OrderlyInv, ConfigFitsSpecies
<1>2. QED
  BY <1>1, InitIInv, StepIInv, InitOrderly, StepOrderly, PTL DEF Spec
-----------------------------------------------------------------------------
(* What a write changes, from a client that waits.                           *)

\* A request inserts at most one stable, with its last step.
IdsFresh == \A r \in Requests : step[r] # "done" => stables[r] = Absent

LEMMA StepFresh == IInv /\ IdsFresh /\ [Next]_vars => IdsFresh'
<1> SUFFICES ASSUME IInv, IdsFresh, [Next]_vars PROVE IdsFresh'
  OBVIOUS
<1>1. CASE stables' = stables
  <2>1. \A q \in Requests : step'[q] # "done" => step[q] # "done"
    BY DEF Next, vars, Write, Scope, ReadStable, FindName, CheckAnimal, Goto,
       Refuse, Reject, Reply, CreateStable, WriteStable, RemoveStable,
       PutAnimal, RemoveAnimal, ChangeVersion, RemoveFarm, InFlight, At,
       IInv, TypeOK
  <2>2. QED
    BY <1>1, <2>1 DEF IdsFresh
<1>2. ASSUME NEW r \in Requests, Write(r) PROVE IdsFresh'
  <2>1. \A q \in Requests : q # r => step'[q] = step[q]
    BY <1>2 DEF Write, Reply, CreateStable, WriteStable, RemoveStable,
       PutAnimal, RemoveAnimal, ChangeVersion, RemoveFarm, IInv, TypeOK
  <2>2. step'[r] = "done"
    BY <1>2 DEF Write, Reply, CreateStable, WriteStable, RemoveStable,
       PutAnimal, RemoveAnimal, ChangeVersion, RemoveFarm, IInv, TypeOK
  <2>3. \A q \in Requests : q # r /\ stables[q] = Absent => stables'[q] = Absent
    BY <1>2 DEF Write, CreateStable, WriteStable, RemoveStable,
       PutAnimal, RemoveAnimal, ChangeVersion, RemoveFarm, Rows, IInv, TypeOK
  <2>4. QED
    BY <2>1, <2>2, <2>3 DEF IdsFresh
<1>3. stables' = stables \/ \E r \in Requests : Write(r)
  BY DEF Next, vars, Scope, ReadStable, FindName, CheckAnimal, Goto,
     Refuse, Reject, tables
<1>4. QED
  BY <1>1, <1>2, <1>3

LEMMA OrderlyInvariance == Spec => [](IInv /\ OrderlyInv /\ IdsFresh)
<1>1. Init => IdsFresh
  BY DEF Init, IdsFresh
<1>2. QED
  BY <1>1, InitIInv, StepIInv, InitOrderly, StepOrderly, StepFresh, PTL DEF Spec

\* What reaches the table, column by column.
LEMMA PatchedColumns ==
  ASSUME NEW row \in StableRow, NEW p \in Patches
  PROVE  LET new == Patched(row, p, row)
         IN \A column \in DOMAIN p : new[column] = Given(p[column], row[column])
<1> DEFINE new == Patched(row, p, row)
           config == IF p.species = Keep THEN Merged(row, p).config
                                         ELSE Given(p.config, row.config)
<1>1. p \in Patch
  BY BodiesAssumption
<1>2. config = Given(p.config, row.config)
  BY DEF Merged
<1>3. new = [Merged(row, p) EXCEPT !.config = config]
  BY DEF Patched
<1> HIDE DEF config
<1>4. /\ new.name = Given(p.name, row.name)
      /\ new.species = Given(p.species, row.species)
      /\ new.maxCapacity = Given(p.maxCapacity, row.maxCapacity)
      /\ new.currentCount = Given(p.currentCount, row.currentCount)
      /\ new.config = Given(p.config, row.config)
  BY <1>2, <1>3 DEF Merged
<1>5. DOMAIN p = {"name", "species", "maxCapacity", "currentCount", "config"}
  BY <1>1 DEF Patch
<1> HIDE DEF new
<1>6. \A column \in DOMAIN p : new[column] = Given(p[column], row[column])
  BY <1>4, <1>5
<1>7. QED
  BY <1>6 DEF new

\* Every change of a stable, and what was accepted before.
LEMMA WhatIsWritten ==
  ASSUME IInv, OrderlyInv, IdsFresh, orderly, NEW r \in Requests, Write(r),
         NEW s \in Requests, stables'[s] \notin {stables[s], Absent}
  PROVE  \/ /\ stables[s] = Absent
            /\ BodyAccepted(version, stables'[s])
         \/ /\ s \in Rows /\ stables[s] \in StableRow
            /\ step[r] = "checked" /\ step'[r] = "done"
            /\ job[r].op = "patch" /\ job[r].stable = s
            /\ job[r].body \in Patches
            /\ PatchAccepted(version, job[r].body, stables[s])
            /\ stables'[s] = Patched(stables[s], job[r].body, stables[s])
<1>1. ChecksStillHold
  BY DEF OrderlyInv
<1>2. CASE CreateStable(r)
  <2>1. /\ stables' = [stables EXCEPT ![r] = job[r].body]
        /\ InFlight(r) /\ job[r].op = "create" /\ step[r] = "checked"
    BY <1>2 DEF CreateStable, At, InFlight
  <2>2. s = r /\ stables'[s] = job[r].body
    BY <2>1 DEF IInv, TypeOK
  <2>3. BodyAccepted(version, job[r].body) /\ stables[s] = Absent
    BY <1>1, <2>1, <2>2 DEF ChecksStillHold, IdsFresh
  <2>4. QED
    BY <2>2, <2>3
<1>3. CASE WriteStable(r)
  <2> DEFINE t == job[r].stable
             new == Patched(stables[t], job[r].body, rowRead[r])
  <2>1. /\ stables' = [stables EXCEPT ![t] = new] /\ t \in Rows
        /\ InFlight(r) /\ job[r].op = "patch" /\ step[r] = "checked"
        /\ Reply(r)
    BY <1>3 DEF WriteStable, At, InFlight
  <2>2. /\ rowRead[r] = stables[t]
        /\ PatchAccepted(version, job[r].body, rowRead[r])
    BY <1>1, <2>1 DEF ChecksStillHold
  <2>3. job[r].body \in Patches /\ t \in Requests
    BY <2>1 DEF IInv, PendingOK, WellFormed
  <2>4. step'[r] = "done"
    BY <2>1 DEF Reply, IInv, TypeOK
  <2> HIDE DEF new
  <2>5. s = t /\ stables'[s] = new
    BY <2>1, <2>3 DEF IInv, TypeOK
  <2>6. stables[s] \in StableRow
    BY <2>1, <2>5 DEF Rows, IInv, TypeOK
  <2>7. new = Patched(stables[s], job[r].body, stables[s])
    BY <2>2, <2>5 DEF new
  <2>8. QED
    BY <2>1, <2>2, <2>3, <2>4, <2>5, <2>6, <2>7
<1>4. CASE RemoveStable(r) \/ RemoveFarm(r)
  BY <1>4 DEF RemoveStable, RemoveFarm, IInv, TypeOK
<1>5. CASE PutAnimal(r) \/ RemoveAnimal(r) \/ ChangeVersion(r)
  BY <1>5 DEF PutAnimal, RemoveAnimal, ChangeVersion
<1>6. QED
  BY <1>2, <1>3, <1>4, <1>5 DEF Write

LEMMA WriteOrKeep ==
  [Next]_vars => \/ UNCHANGED <<stables, animals>>
                 \/ \E r \in Requests : Write(r)
  BY DEF Next, vars, Scope, ReadStable, FindName, CheckAnimal, Goto,
     Refuse, Reject, tables

LEMMA PatchStep ==
  ASSUME IInv, OrderlyInv, IdsFresh, orderly, [Next]_vars,
         NEW s \in Rows, stables'[s] \notin {stables[s], Absent}
  PROVE  \E r \in Requests :
           /\ step[r] = "checked" /\ step'[r] = "done"
           /\ job[r].op = "patch" /\ job[r].stable = s
           /\ \A column \in DOMAIN job[r].body :
                stables'[s][column] = Given(job[r].body[column], stables[s][column])
<1>1. s \in Requests /\ stables[s] # Absent
  BY DEF Rows
<1>2. PICK r \in Requests : Write(r)
  BY WriteOrKeep
<1>3. /\ stables[s] \in StableRow
      /\ step[r] = "checked" /\ step'[r] = "done"
      /\ job[r].op = "patch" /\ job[r].stable = s
      /\ job[r].body \in Patches
      /\ stables'[s] = Patched(stables[s], job[r].body, stables[s])
  BY <1>1, <1>2, WhatIsWritten
<1>4. PICK row \in StableRow, p \in Patches : row = stables[s] /\ p = job[r].body
  BY <1>3
<1>5. \A column \in DOMAIN p :
        Patched(row, p, row)[column] = Given(p[column], row[column])
  BY PatchedColumns
<1>6. QED
  BY <1>3, <1>4, <1>5

\* From a client that waits for its answers: a PATCH changes the columns it
\* names and no other.
THEOREM PatchesStayInTheirColumns == Spec => PatchesChangeWhatTheyName
<1>1. IInv /\ OrderlyInv /\ IdsFresh /\ [Next]_vars =>
        [orderly => \A s \in Rows : stables'[s] \notin {stables[s], Absent} =>
           \E r \in Requests :
             /\ step[r] = "checked" /\ step'[r] = "done"
             /\ job[r].op = "patch" /\ job[r].stable = s
             /\ \A column \in DOMAIN job[r].body :
                  stables'[s][column] = Given(job[r].body[column], stables[s][column])]_vars
  BY PatchStep
<1>2. QED
  BY <1>1, OrderlyInvariance, PTL DEF Spec, PatchesChangeWhatTheyName

LEMMA ConfigWritten ==
  ASSUME IInv, OrderlyInv, IdsFresh, orderly, [Next]_vars, NEW s \in Requests,
         stables'[s] # Absent,
         stables[s] # Absent => stables'[s].config # stables[s].config
  PROVE  SlugsKnown(version, stables'[s].config)
<1>1. stables'[s] # stables[s]
  OBVIOUS
<1>2. PICK r \in Requests : Write(r)
  BY <1>1, WriteOrKeep
<1>3. CASE stables[s] = Absent /\ BodyAccepted(version, stables'[s])
  BY <1>3 DEF BodyAccepted, ConfigAccepted
<1>4. CASE /\ s \in Rows /\ stables[s] \in StableRow
           /\ job[r].body \in Patches
           /\ PatchAccepted(version, job[r].body, stables[s])
           /\ stables'[s] = Patched(stables[s], job[r].body, stables[s])
  <2>1. PICK row \in StableRow, p \in Patches : row = stables[s] /\ p = job[r].body
    BY <1>4
  <2>2. PICK new : new = Patched(row, p, row)
    OBVIOUS
  <2>3. new.config = Given(p.config, row.config)
    <3>1. \A column \in DOMAIN p :
            Patched(row, p, row)[column] = Given(p[column], row[column])
      BY PatchedColumns
    <3>2. "config" \in DOMAIN p
      BY BodiesAssumption DEF Patch
    <3>3. QED
      BY <2>2, <3>1, <3>2
  <2>4. stables'[s] = new /\ new.config # row.config
    BY <1>4, <2>1, <2>2 DEF Rows
  <2>5. p.config # Keep
    BY <2>3, <2>4 DEF Given
  <2>6. SlugsKnown(version, new.config)
    BY <1>4, <2>1, <2>2, <2>5 DEF PatchAccepted, ConfigAccepted
  <2>7. QED
    BY <2>4, <2>6
<1>5. QED
  BY <1>1, <1>2, <1>3, <1>4, WhatIsWritten

LEMMA AnimalWritten ==
  ASSUME IInv, OrderlyInv, orderly, [Next]_vars, NEW a \in Species,
         animals'[a] \in Slugs \ {animals[a]}
  PROVE  animals'[a] \in CropsOf[version]
<1>1. PICK r \in Requests : Write(r)
  BY WriteOrKeep
<1>2. animals'[a] # Absent /\ animals'[a] # Null /\ animals'[a] # animals[a]
  BY NullAssumption
<1>3. CASE PutAnimal(r)
  <2>1. /\ animals' = [animals EXCEPT ![job[r].species] = job[r].body]
        /\ InFlight(r) /\ job[r].op = "putAnimal" /\ step[r] = "checked"
    BY <1>3 DEF PutAnimal, At, InFlight
  <2>2. animals'[a] = job[r].body
    BY <1>2, <2>1 DEF IInv, TypeOK
  <2>3. SlugsKnown(version, [key |-> "component", crop |-> job[r].body])
    BY <2>1 DEF OrderlyInv, ChecksStillHold
  <2>4. QED
    BY <1>2, <2>2, <2>3 DEF SlugsKnown
<1>4. CASE RemoveAnimal(r) \/ RemoveFarm(r)
  BY <1>2, <1>4 DEF RemoveAnimal, RemoveFarm, AnimalsAfterFarm, IInv, TypeOK
<1>5. CASE CreateStable(r) \/ WriteStable(r) \/ RemoveStable(r) \/ ChangeVersion(r)
  BY <1>2, <1>5 DEF CreateStable, WriteStable, RemoveStable, ChangeVersion
<1>6. QED
  BY <1>1, <1>3, <1>4, <1>5 DEF Write

\* From a client that waits for its answers: a config that is written names a
\* crop of the farm's version, and as silage one that can be ensiled.
THEOREM WrittenCropsAreKnown == Spec => WritesNameKnownCrops
<1>1. IInv /\ OrderlyInv /\ IdsFresh /\ [Next]_vars =>
        [orderly =>
           /\ \A s \in Requests :
                stables'[s] # Absent /\ (stables[s] # Absent =>
                    stables'[s].config # stables[s].config) =>
                  SlugsKnown(version, stables'[s].config)
           /\ \A a \in Species :
                animals'[a] \in Slugs \ {animals[a]} =>
                  animals'[a] \in CropsOf[version]]_vars
  BY ConfigWritten, AnimalWritten
<1>2. QED
  BY <1>1, OrderlyInvariance, PTL DEF Spec, WritesNameKnownCrops
=============================================================================
