------------------------ MODULE FieldRequests_proofs ------------------------
(***************************************************************************)
(* Proofs about FieldRequests, for any number of requests, versions and    *)
(* crops.  IInv holds whatever overlaps; SerialInv is what one request at  *)
(* a time adds: what a handler read is still so when it writes.  With it   *)
(* the last step of every request is an operation of FarmFields.           *)
(***************************************************************************)
EXTENDS FieldRequests, TLAPS

FieldTable == [Requests -> FieldRow \cup {Absent}]
RecordTable == [Requests -> HarvestRow \cup {Absent}]

Transitions == {"sow", "cancelSow", "harvest"}

\* What the schemas of the routes let through.
WellFormed(j) ==
  /\ j \in Job
  /\ j.op \in {"patch", "remove"} \cup Transitions => j.field \in Requests
  /\ j.op = "create" => j.crop # Keep /\ j.silage # Keep
  /\ j.op = "changeVersion" => j.version \in Versions

PendingOK ==
  \A r \in Requests : InFlight(r) =>
    /\ WellFormed(job[r])
    /\ farmRead[r] \in Versions
    /\ step[r] = "checked" /\ job[r].op \in Transitions =>
         rowsRead[r][job[r].field] # Absent

\* A request inserts at most one row, with its last step.
IdsFresh ==
  \A r \in Requests : step[r] # "done" =>
    fields[r] = Absent /\ records[r] = Absent

IInv == TypeOK /\ PendingOK /\ IdsFresh /\ NothingDangles
-----------------------------------------------------------------------------
LEMMA AsksWellFormed ==
  ASSUME TypeOK, NEW j \in Asks
  PROVE  WellFormed(j)
<1>1. Rows \subseteq Requests
  BY DEF Rows
<1>2. Keep \notin Catalog \cup {Null} /\ Keep \notin BOOLEAN
  BY CatalogAssumption, NullsAssumption
<1>3. CASE \E c \in Catalog \cup {Null}, s \in BOOLEAN :
             j = Ask("create", Null, c, s, Null)
  BY <1>2, <1>3 DEF Ask, WellFormed, Job, Ops, Transitions
<1>4. CASE \E f \in Rows, c \in Catalog \cup {Null, Keep},
               s \in BOOLEAN \cup {Keep} : j = Ask("patch", f, c, s, Null)
  BY <1>1, <1>4 DEF Ask, WellFormed, Job, Ops, Transitions
<1>5. CASE \E f \in Rows, op \in {"remove", "sow", "cancelSow", "harvest"} :
             j = Ask(op, f, Keep, Keep, Null)
  BY <1>1, <1>5 DEF Ask, WellFormed, Job, Ops, Transitions
<1>6. CASE \E v \in Versions : j = Ask("changeVersion", Null, Keep, Keep, v)
  BY <1>6 DEF Ask, WellFormed, Job, Ops, Transitions
<1>7. CASE j = Ask("removeFarm", Null, Keep, Keep, Null)
  BY <1>7 DEF Ask, WellFormed, Job, Ops, Transitions
<1>8. QED
  BY <1>3, <1>4, <1>5, <1>6, <1>7 DEF Asks

LEMMA PatchedRow ==
  ASSUME NEW row \in FieldRow, NEW j \in Job
  PROVE  /\ Patched(row, j) \in FieldRow
         /\ Patched(row, j).status = row.status
  BY DEF Patched, FieldRow, Job

LEMMA AbsentIsNoRow == Absent \notin FieldRow /\ Absent \notin HarvestRow
  BY NullsAssumption

\* What an answered request leaves of the invariant: every other request is
\* where it was, so only the tables are left to check.
LEMMA ReplyStep ==
  ASSUME IInv, NEW r \in Requests, InFlight(r) \/ step[r] = "new", Reply(r),
         version' \in Versions \cup {Null},
         fields' \in FieldTable, records' \in RecordTable,
         \A q \in Requests : q # r =>
           /\ fields[q] = Absent => fields'[q] = Absent
           /\ records[q] = Absent => records'[q] = Absent,
         NothingDangles'
  PROVE  IInv'
<1>1. TypeOK'
  BY DEF IInv, TypeOK, Reply, FieldTable, RecordTable, Nothing, Steps
<1>2. /\ step'[r] = "done"
      /\ \A q \in Requests : q # r =>
           /\ step'[q] = step[q] /\ job'[q] = job[q]
           /\ farmRead'[q] = farmRead[q] /\ rowsRead'[q] = rowsRead[q]
  BY DEF IInv, TypeOK, Reply
<1>3. PendingOK'
  BY <1>2 DEF IInv, PendingOK, InFlight
<1>4. IdsFresh'
  BY <1>2 DEF IInv, IdsFresh
<1>5. QED
  BY <1>1, <1>3, <1>4 DEF IInv

LEMMA RejectStep ==
  ASSUME IInv, NEW r \in Requests, InFlight(r) \/ step[r] = "new", Reject(r)
  PROVE  IInv'
<1>1. /\ Reply(r)
      /\ UNCHANGED <<version, fields, records>>
  BY DEF Reject
<1>2. NothingDangles'
  BY <1>1 DEF IInv, NothingDangles, Rows, Harvests
<1>3. version \in Versions \cup {Null} /\ fields \in FieldTable
      /\ records \in RecordTable
  BY DEF IInv, TypeOK, FieldTable, RecordTable
<1>4. QED
  BY <1>1, <1>2, <1>3, ReplyStep

LEMMA ScopeStep ==
  ASSUME IInv, NEW r \in Requests, NEW j \in Asks, Scope(r, j)
  PROVE  IInv'
<1>1. WellFormed(j) /\ j \in Job /\ version \in Versions
  BY AsksWellFormed DEF IInv, WellFormed, Scope, TypeOK
<1>2. TypeOK'
  BY <1>1 DEF IInv, TypeOK, Scope, Steps
<1>3. PendingOK'
  BY <1>1 DEF IInv, TypeOK, PendingOK, Scope, InFlight
<1>4. IdsFresh'
  BY DEF IInv, TypeOK, IdsFresh, Scope, Admit
<1>5. NothingDangles'
  BY DEF IInv, NothingDangles, Scope, Rows, Harvests
<1>6. QED
  BY <1>2, <1>3, <1>4, <1>5 DEF IInv

LEMMA ReadStep ==
  ASSUME IInv, NEW r \in Requests, Read(r)
  PROVE  IInv'
<1>1. PICK ids \in SUBSET Rows :
        /\ Remember(r, ids)
        /\ step[r] = "scoped"
        /\ job[r].op \in Transitions => job[r].field \in ids
  <2>1. Assigned \subseteq Rows
    BY DEF Assigned
  <2>2. CASE ReadForPatch(r)
    BY <2>2 DEF ReadForPatch, At, Transitions
  <2>3. CASE ReadForTransition(r)
    BY <2>3 DEF ReadForTransition, At, Transitions
  <2>4. CASE ReadAssigned(r)
    BY <2>1, <2>4 DEF ReadAssigned, At, Transitions
  <2>5. QED
    BY <2>2, <2>3, <2>4 DEF Read
<1>2. /\ UNCHANGED <<version, fields, records, job, farmRead>>
      /\ step' = [step EXCEPT ![r] = "checked"]
      /\ rowsRead' = [rowsRead EXCEPT ![r] = Only(ids)]
  BY <1>1 DEF Remember
<1>3. Only(ids) \in FieldTable /\ \A f \in ids : Only(ids)[f] # Absent
  BY <1>1 DEF IInv, TypeOK, Only, FieldTable, Rows
<1>4. TypeOK'
  BY <1>2, <1>3 DEF IInv, TypeOK, FieldTable, Steps
<1>5. PendingOK'
  <2> SUFFICES ASSUME NEW q \in Requests, InFlight(q)'
               PROVE  /\ WellFormed(job[q])
                      /\ farmRead[q] \in Versions
                      /\ step'[q] = "checked" /\ job[q].op \in Transitions =>
                           rowsRead'[q][job[q].field] # Absent
    BY <1>2 DEF PendingOK
  <2>1. CASE q = r
    BY <1>1, <1>2, <1>3, <2>1 DEF IInv, TypeOK, PendingOK, InFlight
  <2>2. CASE q # r
    BY <1>2, <2>2 DEF IInv, TypeOK, PendingOK, InFlight
  <2>3. QED
    BY <2>1, <2>2
<1>6. IdsFresh'
  BY <1>1, <1>2 DEF IInv, TypeOK, IdsFresh
<1>7. NothingDangles'
  BY <1>2 DEF IInv, NothingDangles, Rows, Harvests
<1>8. QED
  BY <1>4, <1>5, <1>6, <1>7 DEF IInv

LEMMA CreateFieldStep ==
  ASSUME IInv, NEW r \in Requests, CreateField(r)
  PROVE  IInv'
<1> DEFINE row == [crop |-> job[r].crop, silage |-> job[r].silage,
                   status |-> "fallow"]
<1>1. /\ InFlight(r) /\ Reply(r) /\ job[r].op = "create" /\ version # Null
      /\ UNCHANGED <<version, records>>
      /\ fields' = [fields EXCEPT ![r] = row]
  BY DEF CreateField, At, InFlight
<1>2. row \in FieldRow
  BY <1>1 DEF IInv, PendingOK, WellFormed, Job, FieldRow
<1>3. /\ fields' \in FieldTable /\ records' \in RecordTable
      /\ version' \in Versions \cup {Null}
      /\ \A q \in Requests : q # r => fields'[q] = fields[q]
      /\ fields'[r] # Absent
  BY <1>1, <1>2, AbsentIsNoRow DEF IInv, TypeOK, FieldTable, RecordTable
<1>4. NothingDangles'
  BY <1>1, <1>3 DEF IInv, NothingDangles, Rows, Harvests
<1>5. QED
  BY <1>1, <1>3, <1>4, ReplyStep

LEMMA WritePatchStep ==
  ASSUME IInv, NEW r \in Requests, WritePatch(r)
  PROVE  IInv'
<1> DEFINE f == job[r].field
<1>1. /\ InFlight(r) /\ Reply(r) /\ f \in Rows
      /\ UNCHANGED <<version, records>>
      /\ fields' = [fields EXCEPT ![f] = Patched(fields[f], job[r])]
  BY DEF WritePatch, At, InFlight
<1>2. f \in Requests /\ fields[f] \in FieldRow /\ job[r] \in Job
  BY <1>1 DEF IInv, TypeOK, PendingOK, WellFormed, Rows
<1>3. Patched(fields[f], job[r]) \in FieldRow
  BY <1>2, PatchedRow
<1>4. /\ fields' \in FieldTable /\ records' \in RecordTable
      /\ version' \in Versions \cup {Null}
  BY <1>1, <1>2, <1>3 DEF IInv, TypeOK, FieldTable, RecordTable
<1>5. Rows' = Rows
  BY <1>1, <1>2, <1>3, <1>4, AbsentIsNoRow DEF IInv, TypeOK, Rows
<1>6. NothingDangles'
  BY <1>1, <1>5 DEF IInv, NothingDangles, Harvests
<1>7. \A q \in Requests : fields[q] = Absent => fields'[q] = Absent
  BY <1>5 DEF Rows
<1>8. QED
  BY <1>1, <1>4, <1>6, <1>7, ReplyStep

\* What a transition writes, for the record of the harvest as well.
LEMMA TransitionWrites ==
  ASSUME IInv, NEW r \in Requests, WriteTransition(r)
  PROVE  LET j == job[r]
             row == rowsRead[r][j.field]
         IN /\ InFlight(r) /\ j.op \in Transitions /\ j.field \in Rows
            /\ row \in FieldRow /\ fields[j.field] \in FieldRow
            /\ Rows' = Rows
            /\ fields' \in FieldTable
            /\ \A g \in Requests : g # j.field => fields'[g] = fields[g]
            /\ fields'[j.field] = [fields[j.field] EXCEPT
                 !.status = StatusAfter(j.op), !.crop = CropAfter(j.op, row)]
            /\ j.op # "harvest" => records' = records
            /\ j.op = "harvest" =>
                 records' = [records EXCEPT ![r] =
                   [field |-> j.field, crop |-> row.crop, silage |-> row.silage]]
<1> DEFINE f == job[r].field
           row == rowsRead[r][f]
           written == [fields[f] EXCEPT !.status = StatusAfter(job[r].op),
                                        !.crop = CropAfter(job[r].op, row)]
<1>1. /\ InFlight(r) /\ step[r] = "checked" /\ job[r].op \in Transitions
      /\ f \in Rows
      /\ fields' = [fields EXCEPT ![f] = written]
      /\ job[r].op # "harvest" => records' = records
      /\ job[r].op = "harvest" =>
           records' = [records EXCEPT ![r] =
             [field |-> f, crop |-> row.crop, silage |-> row.silage]]
  BY DEF WriteTransition, Recorded, At, InFlight, SetStatusAndCrop, Transitions
<1>2. f \in Requests /\ fields[f] \in FieldRow
  BY <1>1 DEF IInv, TypeOK, Rows
<1>3. row \in FieldRow
  BY <1>1, <1>2 DEF IInv, TypeOK, PendingOK
<1>4. written \in FieldRow
  <2>1. CropAfter(job[r].op, row) \in Catalog \cup {Null}
    BY <1>3 DEF CropAfter, FieldRow
  <2>2. StatusAfter(job[r].op) \in {"fallow", "sown"}
    BY DEF StatusAfter
  <2>3. QED
    BY <1>2, <2>1, <2>2 DEF FieldRow
<1>5. fields' \in FieldTable /\ fields'[f] = written
      /\ \A g \in Requests : g # f => fields'[g] = fields[g]
  BY <1>1, <1>2, <1>4 DEF IInv, TypeOK, FieldTable
<1>6. Rows' = Rows
  BY <1>1, <1>4, <1>5, AbsentIsNoRow DEF Rows
<1>7. QED
  BY <1>1, <1>2, <1>3, <1>5, <1>6

LEMMA WriteTransitionStep ==
  ASSUME IInv, NEW r \in Requests, WriteTransition(r)
  PROVE  IInv'
<1> DEFINE f == job[r].field
           row == rowsRead[r][f]
           rec == [field |-> f, crop |-> row.crop, silage |-> row.silage]
<1>1. /\ InFlight(r) /\ f \in Rows /\ f \in Requests /\ row \in FieldRow
      /\ Rows' = Rows /\ fields' \in FieldTable
      /\ records' = records \/ records' = [records EXCEPT ![r] = rec]
  BY TransitionWrites DEF Rows
<1>2. Reply(r) /\ version' = version
  BY DEF WriteTransition
<1>3. rec \in HarvestRow
  BY <1>1 DEF HarvestRow, FieldRow
<1>4. /\ records' \in RecordTable
      /\ \A h \in Requests : \/ records'[h] = records[h]
                             \/ h = r /\ records'[h] = rec
  BY <1>1, <1>3 DEF IInv, TypeOK, RecordTable
<1>5. version # Null
  BY <1>1 DEF IInv, NothingDangles
<1>6. NothingDangles'
  BY <1>1, <1>2, <1>4, <1>5 DEF IInv, NothingDangles, Harvests
<1>7. \A q \in Requests : fields[q] = Absent => fields'[q] = Absent
  BY <1>1 DEF Rows
<1>8. version' \in Versions \cup {Null}
  BY <1>2 DEF IInv, TypeOK
<1>9. QED
  BY <1>1, <1>2, <1>4, <1>6, <1>7, <1>8, ReplyStep

LEMMA RemoveFieldWrites ==
  ASSUME IInv, NEW r \in Requests, RemoveField(r)
  PROVE  LET f == job[r].field
         IN /\ InFlight(r) /\ f \in Requests /\ version' = version
            /\ fields' = [fields EXCEPT ![f] = Absent]
            /\ Rows' = Rows \ {f}
            /\ records' \in RecordTable
            /\ \A h \in Harvests' : h \in Harvests /\ records'[h] = records[h]
                                   /\ records[h].field # f
            /\ \A h \in Harvests : records[h].field # f =>
                 h \in Harvests' /\ records'[h] = records[h]
<1> DEFINE f == job[r].field
<1>1. /\ InFlight(r) /\ f \in Requests /\ version' = version
      /\ fields' = [fields EXCEPT ![f] = Absent]
      /\ records' = Forgets(f)
  BY DEF RemoveField, At, InFlight, IInv, PendingOK, WellFormed
<1>2. Rows' = Rows \ {f}
  BY <1>1 DEF IInv, TypeOK, Rows
<1>3. records' \in RecordTable
  BY <1>1 DEF IInv, TypeOK, Forgets, RecordTable
<1>4. \A h \in Requests :
        records'[h] = IF h \in Harvests /\ records[h].field = f
                      THEN Absent ELSE records[h]
  BY <1>1 DEF Forgets
<1>5. QED
  BY <1>1, <1>2, <1>3, <1>4 DEF Harvests

LEMMA RemoveFieldStep ==
  ASSUME IInv, NEW r \in Requests, RemoveField(r)
  PROVE  IInv'
<1> DEFINE f == job[r].field
<1>1. /\ InFlight(r) /\ f \in Requests /\ version' = version
      /\ fields' = [fields EXCEPT ![f] = Absent]
      /\ Rows' = Rows \ {f}
      /\ records' \in RecordTable
      /\ \A h \in Harvests' : h \in Harvests /\ records'[h] = records[h]
                             /\ records[h].field # f
  BY RemoveFieldWrites
<1>2. Reply(r)
  BY DEF RemoveField
<1>3. fields' \in FieldTable
  BY <1>1 DEF IInv, TypeOK, FieldTable
<1>4. NothingDangles'
  BY <1>1 DEF IInv, NothingDangles
<1>5. /\ version' \in Versions \cup {Null}
      /\ \A q \in Requests : /\ fields[q] = Absent => fields'[q] = Absent
                             /\ records[q] = Absent => records'[q] = Absent
  BY <1>1 DEF IInv, TypeOK, Rows, Harvests
<1>6. QED
  BY <1>1, <1>2, <1>3, <1>4, <1>5, ReplyStep

LEMMA RemappedCrop ==
  ASSUME NEW c \in Crop, NEW old, NEW new \in Versions
  PROVE  LET d == Remapped(c, old, new)
         IN d = Null \/ (d \in Catalog /\ d.version = new)
  BY DEF Remapped

\* Every field row after the transaction: remapped if it was read as assigned.
LEMMA ChangeVersionWrites ==
  ASSUME IInv, NEW r \in Requests, ChangeVersion(r)
  PROVE  /\ job[r].version \in Versions
         /\ fields' \in FieldTable
         /\ Rows' = Rows
         /\ \A f \in Rows :
              /\ fields'[f].status = fields[f].status
              /\ IF rowsRead[r][f] # Absent
                 THEN LET row == rowsRead[r][f]
                      IN row.crop \in Crop =>
                           \/ fields'[f].crop = Null
                           \/ fields'[f].crop.version = job[r].version
                 ELSE fields'[f] = fields[f]
<1> DEFINE to == job[r].version
           row(f) == rowsRead[r][f]
           mapped(f) == Remapped(row(f).crop, farmRead[r], to)
<1>1. to \in Versions
  BY DEF ChangeVersion, At, IInv, PendingOK, InFlight, WellFormed
<1>2. fields' = [f \in Requests |->
                   IF f \in Rows /\ row(f) # Absent
                   THEN [fields[f] EXCEPT !.crop = mapped(f)]
                   ELSE fields[f]]
  BY DEF ChangeVersion
<1>3. \A f \in Requests : f \in Rows => fields[f] \in FieldRow
  BY DEF Rows, IInv, TypeOK
<1>4. \A f \in Requests : mapped(f) \in Catalog \cup {Null}
  BY DEF Remapped
<1>5. \A f \in Rows :
        /\ [fields[f] EXCEPT !.crop = mapped(f)] \in FieldRow
        /\ [fields[f] EXCEPT !.crop = mapped(f)].crop = mapped(f)
        /\ [fields[f] EXCEPT !.crop = mapped(f)].status = fields[f].status
  BY <1>3, <1>4 DEF FieldRow, Rows
<1>6. fields' \in FieldTable
  BY <1>2, <1>5 DEF FieldTable, IInv, TypeOK
<1>7. Rows' = Rows
  BY <1>2, <1>5, AbsentIsNoRow DEF Rows
<1>8. \A f \in Requests : row(f).crop \in Crop =>
        mapped(f) = Null \/ mapped(f).version = to
  BY <1>1, RemappedCrop
<1>9. QED
  BY <1>1, <1>2, <1>5, <1>6, <1>7, <1>8 DEF Rows

LEMMA ChangeVersionStep ==
  ASSUME IInv, NEW r \in Requests, ChangeVersion(r)
  PROVE  IInv'
<1>1. /\ InFlight(r) /\ Reply(r) /\ version # Null
      /\ version' = job[r].version /\ records' = records
  BY DEF ChangeVersion, At, InFlight
<1>2. version' \in Versions /\ fields' \in FieldTable /\ Rows' = Rows
  BY <1>1, ChangeVersionWrites
<1>3. version' # Null
  BY <1>2, NullsAssumption
<1>4. NothingDangles'
  BY <1>1, <1>2, <1>3 DEF IInv, NothingDangles, Harvests
<1>5. /\ records' \in RecordTable
      /\ \A q \in Requests : fields[q] = Absent => fields'[q] = Absent
  BY <1>1, <1>2 DEF IInv, TypeOK, RecordTable, Rows
<1>6. QED
  BY <1>1, <1>2, <1>4, <1>5, ReplyStep

LEMMA RemoveFarmStep ==
  ASSUME IInv, NEW r \in Requests, RemoveFarm(r)
  PROVE  IInv'
<1>1. /\ InFlight(r) /\ Reply(r) /\ version' = Null
      /\ fields' = Nothing /\ records' = Nothing
  BY DEF RemoveFarm, At, InFlight
<1>2. Rows' = {} /\ Harvests' = {}
  BY <1>1 DEF Rows, Harvests, Nothing
<1>3. NothingDangles'
  BY <1>2 DEF NothingDangles
<1>4. fields' \in FieldTable /\ records' \in RecordTable
      /\ \A q \in Requests : fields'[q] = Absent /\ records'[q] = Absent
  BY <1>1 DEF Nothing, FieldTable, RecordTable
<1>5. QED
  BY <1>1, <1>3, <1>4, ReplyStep
-----------------------------------------------------------------------------
LEMMA InitIInv == Init => IInv
  BY DEF Init, IInv, TypeOK, PendingOK, IdsFresh, NothingDangles, Nothing,
     InFlight, Steps, Rows, Harvests

LEMMA StepIInv == IInv /\ [Next]_vars => IInv'
<1> SUFFICES ASSUME IInv, [Next]_vars PROVE IInv'
  OBVIOUS
<1>1. ASSUME NEW r \in Requests, NEW j \in Asks, Scope(r, j) PROVE IInv'
  BY <1>1, ScopeStep
<1>2. ASSUME NEW r \in Requests, FarmNotFound(r) \/ Refuse(r) \/ Fail(r)
      PROVE  IInv'
  <2>1. Reject(r) /\ (InFlight(r) \/ step[r] = "new")
    BY <1>2 DEF FarmNotFound, Refuse, Fail, Admit, At, InFlight
  <2>2. QED
    BY <2>1, RejectStep
<1>3. ASSUME NEW r \in Requests, Read(r) PROVE IInv'
  BY <1>3, ReadStep
<1>4. ASSUME NEW r \in Requests, Write(r) PROVE IInv'
  BY <1>4, CreateFieldStep, WritePatchStep, WriteTransitionStep,
     RemoveFieldStep, ChangeVersionStep, RemoveFarmStep DEF Write
<1>5. CASE UNCHANGED vars
  BY <1>5 DEF vars, IInv, TypeOK, PendingOK, IdsFresh, NothingDangles,
     InFlight, Rows, Harvests
<1>6. QED
  BY <1>1, <1>2, <1>3, <1>4, <1>5 DEF Next

LEMMA Invariance == Spec => []IInv
  BY InitIInv, StepIInv, PTL DEF Spec

\* The tables and the requests keep their types in every behaviour.
THEOREM TypeCorrect == Spec => []TypeOK
<1>1. IInv => TypeOK
  BY DEF IInv
<1>2. QED
  BY <1>1, Invariance, PTL

\* Whatever overlaps, a deleted farm leaves no rows, and no harvest record
\* points at a deleted field.
THEOREM NothingEverDangles == Spec => []NothingDangles
<1>1. IInv => NothingDangles
  BY DEF IInv
<1>2. QED
  BY <1>1, Invariance, PTL
-----------------------------------------------------------------------------
(* One request at a time: no write comes between a read and the write it     *)
(* decided.                                                                  *)
Alone == \A q, r \in Requests : InFlight(q) /\ InFlight(r) => q = r

\* The crop of the row as it would be is one of the farm's version.
PatchFits(row, j) ==
  LET c == Patched(row, j).crop IN c # Null => c.version = version

ReadsHold ==
  \A r \in Requests : InFlight(r) =>
    LET j == job[r]
        now == fields[j.field]
    IN
    /\ farmRead[r] = version
    /\ step[r] = "checked" =>
         /\ j.op = "patch" => PatchFits(now, j)
         /\ j.op \in Transitions => /\ rowsRead[r][j.field] = now
                                    /\ Ready(j.op, now)
         /\ j.op = "changeVersion" =>
              /\ j.version # version
              /\ \A f \in Rows : IF f \in Assigned THEN rowsRead[r][f] = fields[f]
                                                 ELSE rowsRead[r][f] = Absent

SerialInv == Alone /\ ReadsHold /\ CropsFit

LEMMA ReplyAlone ==
  ASSUME IInv, Alone, NEW r \in Requests, Reply(r),
         InFlight(r) \/ \A q \in Requests : ~InFlight(q)
  PROVE  Alone' /\ ReadsHold'
<1>1. \A q \in Requests : step'[q] = IF q = r THEN "done" ELSE step[q]
  BY DEF Reply, IInv, TypeOK
<1>2. \A q \in Requests : ~InFlight(q)'
  BY <1>1 DEF Alone, InFlight
<1>3. QED
  BY <1>2 DEF Alone, ReadsHold

LEMMA SerialScope ==
  ASSUME orderly, IInv, SerialInv, NEW r \in Requests, NEW j \in Asks,
         Scope(r, j)
  PROVE  SerialInv'
<1>1. \A q \in Requests : ~InFlight(q)
  BY DEF Scope, Admit
<1>2. /\ UNCHANGED <<version, fields>>
      /\ step' = [step EXCEPT ![r] = "scoped"]
      /\ farmRead' = [farmRead EXCEPT ![r] = version]
  BY DEF Scope
<1>3. \A q \in Requests : InFlight(q)' => q = r
  BY <1>1, <1>2 DEF InFlight, IInv, TypeOK
<1>4. step'[r] = "scoped" /\ farmRead'[r] = version
  BY <1>2 DEF IInv, TypeOK
<1>5. Alone' /\ ReadsHold'
  BY <1>2, <1>3, <1>4 DEF Alone, ReadsHold
<1>6. CropsFit'
  BY <1>2 DEF SerialInv, CropsFit, Assigned, Rows
<1>7. QED
  BY <1>5, <1>6 DEF SerialInv

LEMMA SerialRead ==
  ASSUME IInv, SerialInv, NEW r \in Requests, Read(r)
  PROVE  SerialInv'
<1> DEFINE j == job[r]
           f == j.field
<1>1. PICK ids \in SUBSET Rows :
        /\ Remember(r, ids)
        /\ step[r] = "scoped"
        /\ j.op = "patch" =>
             /\ ids = {f}
             /\ Allowed(farmRead[r], fields[f], j)
        /\ j.op \in Transitions => ids = {f} /\ Ready(j.op, fields[f])
        /\ j.op = "changeVersion" => ids = Assigned /\ j.version # farmRead[r]
  <2>1. Assigned \subseteq Rows
    BY DEF Assigned
  <2>2. CASE ReadForPatch(r)
    BY <2>2 DEF ReadForPatch, At, Transitions
  <2>3. CASE ReadForTransition(r)
    BY <2>3 DEF ReadForTransition, At, Transitions
  <2>4. CASE ReadAssigned(r)
    BY <2>1, <2>4 DEF ReadAssigned, At, Transitions
  <2>5. QED
    BY <2>2, <2>3, <2>4 DEF Read
<1>2. /\ UNCHANGED <<version, fields, job, farmRead>>
      /\ step' = [step EXCEPT ![r] = "checked"]
      /\ rowsRead' = [rowsRead EXCEPT ![r] = Only(ids)]
  BY <1>1 DEF Remember
<1>3. InFlight(r) /\ Rows' = Rows /\ Assigned' = Assigned
  BY <1>1, <1>2 DEF InFlight, Rows, Assigned
<1>4. \A q \in Requests : InFlight(q)' => q = r
  BY <1>2, <1>3 DEF InFlight, IInv, TypeOK, SerialInv, Alone
<1>5. \A g \in Requests :
        rowsRead'[r][g] = IF g \in ids THEN fields[g] ELSE Absent
  BY <1>2 DEF IInv, TypeOK, Only
<1>6. farmRead[r] = version
  BY <1>3 DEF SerialInv, ReadsHold
<1>7. j.op = "patch" => PatchFits(fields[f], j)
  <2>1. ASSUME j.op = "patch"
        PROVE  f \in Rows /\ Allowed(version, fields[f], j)
    BY <1>1, <1>6, <2>1
  <2>2. ASSUME j.op = "patch", Patched(fields[f], j).crop # Null
        PROVE  Patched(fields[f], j).crop.version = version
    <3>1. CASE Accepts(version, Patched(fields[f], j).crop,
                                Patched(fields[f], j).silage)
      BY <2>2, <3>1 DEF Accepts
    <3>2. CASE j.crop = Keep
      <4>1. fields[f] \in FieldRow
        BY <2>1, <2>2 DEF Rows, IInv, TypeOK
      <4>2. Patched(fields[f], j).crop = fields[f].crop
        BY <3>2, <4>1 DEF Patched, FieldRow
      <4>3. QED
        BY <2>1, <2>2, <4>2 DEF SerialInv, CropsFit, Assigned
    <3>3. QED
      BY <2>1, <2>2, <3>1, <3>2 DEF Allowed
  <2>3. QED
    BY <2>2 DEF PatchFits
<1>8. j.op \in Transitions =>
        rowsRead'[r][f] = fields[f] /\ Ready(j.op, fields[f])
  BY <1>1, <1>5 DEF Rows
<1>9. j.op = "changeVersion" =>
        /\ j.version # version
        /\ \A g \in Rows : IF g \in Assigned THEN rowsRead'[r][g] = fields[g]
                                           ELSE rowsRead'[r][g] = Absent
  BY <1>1, <1>5, <1>6 DEF Rows
<1>10. ReadsHold'
  BY <1>2, <1>3, <1>4, <1>6, <1>7, <1>8, <1>9 DEF ReadsHold, PatchFits
<1>11. Alone'
  BY <1>4 DEF Alone
<1>12. CropsFit'
  BY <1>2, <1>3 DEF SerialInv, CropsFit
<1>13. QED
  BY <1>10, <1>11, <1>12 DEF SerialInv

\* The writes keep crop and farm on one version, because what was read holds.
LEMMA SerialWrite ==
  ASSUME IInv, SerialInv, NEW r \in Requests, Write(r)
  PROVE  CropsFit'
<1> DEFINE j == job[r]
           f == j.field
<1>0. InFlight(r) /\ farmRead[r] = version
  BY DEF Write, CreateField, WritePatch, WriteTransition, RemoveField,
     ChangeVersion, RemoveFarm, At, InFlight, SerialInv, ReadsHold
<1>1. CASE CreateField(r)
  <2>1. /\ version' = version /\ Accepts(version, j.crop, j.silage)
        /\ \A g \in Requests : g # r => fields'[g] = fields[g]
        /\ fields'[r].crop = j.crop
    BY <1>0, <1>1 DEF CreateField, IInv, TypeOK
  <2>2. QED
    BY <2>1 DEF CropsFit, Assigned, Rows, Accepts, SerialInv
<1>2. CASE WritePatch(r)
  <2>1. /\ version' = version
        /\ \A g \in Requests : g # f => fields'[g] = fields[g]
        /\ f \in Requests => fields'[f] = Patched(fields[f], j)
        /\ PatchFits(fields[f], j)
    BY <1>0, <1>2 DEF WritePatch, At, IInv, TypeOK, SerialInv, ReadsHold
  <2>2. QED
    BY <2>1 DEF CropsFit, Assigned, Rows, PatchFits, SerialInv
<1>3. CASE WriteTransition(r)
  <2>1. /\ version' = version
        /\ f \in Rows /\ fields[f] \in FieldRow
        /\ rowsRead[r][f] = fields[f]
    BY <1>0, <1>3, TransitionWrites DEF WriteTransition, At, SerialInv,
       ReadsHold, Transitions
  <2>2. /\ \A g \in Requests : g # f => fields'[g] = fields[g]
        /\ fields'[f] = [fields[f] EXCEPT !.status = StatusAfter(j.op),
                                          !.crop = CropAfter(j.op, rowsRead[r][f])]
        /\ Rows' = Rows
    BY <1>3, TransitionWrites
  <2>3. fields'[f].crop = CropAfter(j.op, fields[f])
    BY <2>1, <2>2 DEF FieldRow
  <2>4. CropsFit
    BY DEF SerialInv
  <2>5. ASSUME NEW g \in Assigned'
        PROVE  g \in Assigned /\ fields'[g].crop = fields[g].crop
    <3>1. g \in Rows /\ fields'[g].crop # Null
      BY <2>2 DEF Assigned
    <3>2. CASE g = f
      BY <2>3, <3>1, <3>2 DEF Assigned, CropAfter
    <3>3. CASE g # f
      BY <2>2, <3>1, <3>3 DEF Assigned, Rows
    <3>4. QED
      BY <3>2, <3>3
  <2>6. QED
    BY <2>1, <2>4, <2>5 DEF CropsFit
<1>4. CASE RemoveField(r)
  <2>1. /\ version' = version
        /\ fields' = [fields EXCEPT ![f] = Absent]
    BY <1>4 DEF RemoveField
  <2>2. \A g \in Rows' : g \in Rows /\ fields'[g] = fields[g]
    BY <2>1 DEF Rows, IInv, TypeOK
  <2>3. QED
    BY <2>1, <2>2 DEF CropsFit, Assigned, SerialInv
<1>5. CASE ChangeVersion(r)
  <2>1. /\ version' = j.version /\ Rows' = Rows
        /\ \A g \in Rows : IF g \in Assigned THEN rowsRead[r][g] = fields[g]
                                            ELSE rowsRead[r][g] = Absent
    BY <1>0, <1>5, ChangeVersionWrites DEF ChangeVersion, At, SerialInv, ReadsHold
  <2>2. \A g \in Rows : fields[g].crop \in Catalog \cup {Null}
    BY DEF Rows, IInv, TypeOK, FieldRow
  <2>3. \A g \in Rows : fields'[g].crop # Null =>
          fields'[g].crop.version = j.version
    <3> SUFFICES ASSUME NEW g \in Rows, fields'[g].crop # Null
                 PROVE  fields'[g].crop.version = j.version
      OBVIOUS
    <3>1. CASE g \in Assigned
      <4>1. rowsRead[r][g] = fields[g] /\ rowsRead[r][g] # Absent
            /\ fields[g].crop \in Crop
        BY <3>1, <2>1, <2>2, CatalogAssumption DEF Assigned, Rows
      <4>2. QED
        BY <1>5, <4>1, ChangeVersionWrites
    <3>2. CASE g \notin Assigned
      BY <1>5, <2>1, <3>2, ChangeVersionWrites DEF Assigned
    <3>3. QED
      BY <3>1, <3>2
  <2>4. QED
    BY <2>1, <2>3 DEF CropsFit, Assigned
<1>6. CASE RemoveFarm(r)
  BY <1>6 DEF RemoveFarm, Nothing, CropsFit, Assigned, Rows
<1>7. QED
  BY <1>1, <1>2, <1>3, <1>4, <1>5, <1>6 DEF Write

LEMMA SerialStep ==
  ASSUME orderly, IInv, SerialInv, [Next]_vars
  PROVE  SerialInv'
<1>1. ASSUME NEW r \in Requests, NEW j \in Asks, Scope(r, j) PROVE SerialInv'
  BY <1>1, SerialScope
<1>2. ASSUME NEW r \in Requests, FarmNotFound(r) \/ Refuse(r) \/ Fail(r)
      PROVE  SerialInv'
  <2>1. /\ Reply(r) /\ UNCHANGED <<version, fields>>
        /\ InFlight(r) \/ \A q \in Requests : ~InFlight(q)
    BY <1>2 DEF FarmNotFound, Refuse, Fail, Admit, At, InFlight, Reject
  <2>2. CropsFit'
    BY <2>1 DEF SerialInv, CropsFit, Assigned, Rows
  <2>3. QED
    BY <2>1, <2>2, ReplyAlone DEF SerialInv
<1>3. ASSUME NEW r \in Requests, Read(r) PROVE SerialInv'
  BY <1>3, SerialRead
<1>4. ASSUME NEW r \in Requests, Write(r) PROVE SerialInv'
  <2>1. Reply(r) /\ InFlight(r)
    BY <1>4 DEF Write, CreateField, WritePatch, WriteTransition, RemoveField,
       ChangeVersion, RemoveFarm, At, InFlight
  <2>2. QED
    BY <1>4, <2>1, ReplyAlone, SerialWrite DEF SerialInv
<1>5. CASE UNCHANGED vars
  BY <1>5 DEF vars, SerialInv, Alone, ReadsHold, PatchFits, CropsFit,
     Assigned, Rows, InFlight
<1>6. QED
  BY <1>1, <1>2, <1>3, <1>4, <1>5 DEF Next

LEMMA InitSerialInv == Init => SerialInv
  BY DEF Init, SerialInv, Alone, ReadsHold, CropsFit, Assigned,
     Rows, Nothing, InFlight

LEMMA SerialInvariance == Spec => [](IInv /\ (orderly => SerialInv))
<1>1. Init => IInv /\ (orderly => SerialInv)
  BY InitIInv, InitSerialInv
<1>2. IInv /\ (orderly => SerialInv) /\ [Next]_vars
        => (IInv /\ (orderly => SerialInv))'
  <2>1. [Next]_vars => orderly' = orderly
    BY DEF Next, vars
  <2>2. QED
    BY <2>1, StepIInv, SerialStep
<1>3. QED
  BY <1>1, <1>2, PTL DEF Spec

\* As long as requests do not overlap, crop and farm agree on the version.
THEOREM SerialCropsBelong == Spec => []CropBelongsToVersion
<1>1. IInv /\ (orderly => SerialInv) => CropBelongsToVersion
  BY DEF SerialInv, CropBelongsToVersion
<1>2. QED
  BY <1>1, SerialInvariance, PTL

\* What a write does to the history, whatever overlaps.
LEMMA HistoryStep == IInv /\ [Next]_vars =>
  \A h \in Harvests : records[h].field \in Rows' =>
    h \in Harvests' /\ records'[h] = records[h]
<1> SUFFICES ASSUME IInv, [Next]_vars, NEW h \in Harvests,
                    records[h].field \in Rows'
             PROVE  h \in Harvests' /\ records'[h] = records[h]
  OBVIOUS
<1>0. h \in Requests /\ records[h] # Absent
  BY DEF Harvests, IInv, TypeOK
<1>1. CASE records' = records
  BY <1>0, <1>1 DEF Harvests
<1>2. ASSUME NEW r \in Requests, WriteTransition(r)
      PROVE  records'[h] = records[h]
  <2>1. records[r] = Absent
    BY <1>2 DEF WriteTransition, At, IInv, IdsFresh
  <2>2. h # r
    BY <1>0, <2>1
  <2>3. QED
    BY <1>0, <1>2, <2>2, TransitionWrites DEF IInv, TypeOK
<1>3. ASSUME NEW r \in Requests, RemoveField(r)
      PROVE  records'[h] = records[h]
  <2>1. records[h].field # job[r].field
    BY <1>3, RemoveFieldWrites
  <2>2. QED
    BY <1>3, <2>1, RemoveFieldWrites
<1>4. ASSUME NEW r \in Requests, RemoveFarm(r)
      PROVE  FALSE
  BY <1>4 DEF RemoveFarm, Rows, Nothing
<1>5. \/ records' = records
      \/ \E r \in Requests : WriteTransition(r) \/ RemoveField(r) \/ RemoveFarm(r)
  BY DEF Next, vars, Scope, FarmNotFound, Refuse, Fail, Reject, Read,
     ReadForPatch, ReadForTransition, ReadAssigned, Remember, Write,
     CreateField, WritePatch, ChangeVersion
<1>6. QED
  BY <1>0, <1>1, <1>2, <1>3, <1>4, <1>5 DEF Harvests

\* A harvest stays on record, as it was recorded, as long as its field is there.
THEOREM HistoryStaysOnRecord == Spec => HistoryIsKept
  BY Invariance, HistoryStep, PTL DEF Spec, HistoryIsKept

\* What a write records and changes when the row read still stands.
LEMMA SerialTransitions ==
  IInv /\ SerialInv /\ [Next]_vars => RecordsWhatIsSown /\ CropIsKept
<1> DEFINE Faithful == \A h \in Harvests' \ Harvests :
             LET f == records'[h].field IN
             /\ f \in Rows
             /\ fields[f].status = "sown"
             /\ records'[h].crop = fields[f].crop
             /\ records'[h].silage = fields[f].silage
           Kept == \A f \in Rows \cap Rows' :
             fields'[f].status # fields[f].status =>
               \/ fields'[f].crop = fields[f].crop
               \/ \E h \in Harvests' \ Harvests : records'[h].field = f
<1> SUFFICES ASSUME IInv, SerialInv, [Next]_vars PROVE Faithful /\ Kept
  BY DEF RecordsWhatIsSown, CropIsKept
<1>1. ASSUME NEW r \in Requests, WriteTransition(r)
      PROVE  Faithful /\ Kept
  <2> DEFINE j == job[r]
             f == j.field
             row == rowsRead[r][f]
             rec == [field |-> f, crop |-> row.crop, silage |-> row.silage]
  <2>1. /\ f \in Rows /\ row = fields[f] /\ row \in FieldRow
        /\ Ready(j.op, row) /\ j.op \in Transitions
    BY <1>1, TransitionWrites DEF WriteTransition, At, SerialInv, ReadsHold
  <2>2. /\ \A g \in Requests : g # f => fields'[g] = fields[g]
        /\ fields'[f] = [fields[f] EXCEPT !.status = StatusAfter(j.op),
                                          !.crop = CropAfter(j.op, row)]
        /\ j.op # "harvest" => records' = records
        /\ j.op = "harvest" => records' = [records EXCEPT ![r] = rec]
    BY <1>1, TransitionWrites
  <2>3. records[r] = Absent
    BY <1>1 DEF WriteTransition, At, IInv, IdsFresh
  <2>4. CASE j.op = "harvest"
    <3>1. records' = [records EXCEPT ![r] = rec]
      BY <2>2, <2>4
    <3>2. rec \in HarvestRow
      BY <2>1 DEF HarvestRow, FieldRow, Rows
    <3>3. Harvests' \ Harvests = {r} /\ records'[r] = rec
      BY <2>3, <3>1, <3>2, AbsentIsNoRow DEF Harvests, IInv, TypeOK
    <3>4. row.status = "sown"
      BY <2>1, <2>4 DEF Ready
    <3>5. Faithful
      BY <2>1, <3>3, <3>4
    <3>6. Kept
      BY <2>2, <3>3 DEF Rows
    <3>7. QED
      BY <3>5, <3>6
  <2>5. CASE j.op # "harvest"
    <3>1. Harvests' = Harvests
      BY <2>2, <2>5 DEF Harvests
    <3>2. fields'[f].crop = fields[f].crop
      BY <2>1, <2>2, <2>5 DEF CropAfter, FieldRow
    <3>3. QED
      BY <2>2, <3>1, <3>2 DEF Rows
  <2>6. QED
    BY <2>4, <2>5
<1>2. ASSUME NEW r \in Requests, WritePatch(r)
      PROVE  Faithful /\ Kept
  <2>1. records' = records /\ job[r].field \in Rows
        /\ fields' = [fields EXCEPT ![job[r].field] =
                        Patched(fields[job[r].field], job[r])]
    BY <1>2 DEF WritePatch
  <2>2. fields[job[r].field] \in FieldRow /\ job[r] \in Job
    BY <1>2, <2>1 DEF WritePatch, At, InFlight, IInv, TypeOK, PendingOK,
       WellFormed, Rows
  <2>3. \A f \in Rows : fields'[f].status = fields[f].status
    BY <2>1, <2>2, PatchedRow DEF IInv, TypeOK, Rows
  <2>4. QED
    BY <2>1, <2>3 DEF Harvests
<1>3. ASSUME NEW r \in Requests, ChangeVersion(r)
      PROVE  Faithful /\ Kept
  <2>1. records' = records /\ \A f \in Rows : fields'[f].status = fields[f].status
    BY <1>3, ChangeVersionWrites DEF ChangeVersion
  <2>2. QED
    BY <2>1 DEF Harvests
<1>4. ASSUME NEW r \in Requests, CreateField(r) \/ RemoveField(r)
      PROVE  Faithful /\ Kept
  <2>1. Harvests' \subseteq Harvests
    BY <1>4, RemoveFieldWrites DEF CreateField, Harvests
  <2>2. \A f \in Rows \cap Rows' : fields'[f] = fields[f]
    <3>1. CASE CreateField(r)
      <4>1. fields[r] = Absent
        BY <3>1 DEF CreateField, At, IInv, IdsFresh
      <4>2. QED
        BY <3>1, <4>1 DEF CreateField, Rows, IInv, TypeOK
    <3>2. CASE RemoveField(r)
      BY <3>2 DEF RemoveField, Rows, IInv, TypeOK
    <3>3. QED
      BY <1>4, <3>1, <3>2
  <2>3. QED
    BY <2>1, <2>2
<1>5. ASSUME NEW r \in Requests, RemoveFarm(r)
      PROVE  Faithful /\ Kept
  BY <1>5 DEF RemoveFarm, Nothing, Rows, Harvests
<1>6. CASE fields' = fields /\ records' = records
  BY <1>6 DEF Harvests
<1>7. \/ fields' = fields /\ records' = records
      \/ \E r \in Requests : Write(r)
  BY DEF Next, vars, Scope, FarmNotFound, Refuse, Fail, Reject, Read,
     ReadForPatch, ReadForTransition, ReadAssigned, Remember
<1>8. QED
  BY <1>1, <1>2, <1>3, <1>4, <1>5, <1>6, <1>7 DEF Write

\* As long as requests do not overlap, a sowing is harvested once, with what
\* the field has.
THEOREM SerialHarvestsMatch == Spec => HarvestMatchesField
<1>1. IInv /\ (orderly => SerialInv) /\ [Next]_vars
        => [orderly => RecordsWhatIsSown]_vars
  BY SerialTransitions
<1>2. QED
  BY <1>1, SerialInvariance, PTL DEF Spec, HarvestMatchesField

\* As long as requests do not overlap, no transition changes a crop.
THEOREM SerialTransitionsKeep == Spec => TransitionsKeepCrop
<1>1. IInv /\ (orderly => SerialInv) /\ [Next]_vars
        => [orderly => CropIsKept]_vars
  BY SerialTransitions
<1>2. QED
  BY <1>1, SerialInvariance, PTL DEF Spec, TransitionsKeepCrop

\* The two together: what is sown is harvested once, as what it is.
THEOREM SerialCropsAccounted == Spec => CropsAreAccountedFor
  BY SerialHarvestsMatch, SerialTransitionsKeep DEF CropsAreAccountedFor
-----------------------------------------------------------------------------
(* One request at a time implements FarmFields: the last step of a request   *)
(* is the operation, every other step stutters.                              *)
LEMMA MapsQuiet ==
  ASSUME orderly' = orderly,
         orderly => UNCHANGED <<version, fields, records>>
  PROVE  UNCHANGED Farm!vars
<1>1. CASE orderly
  BY <1>1 DEF Farm!vars, Rows, Harvests
<1>2. CASE ~orderly
  BY <1>2 DEF Farm!vars
<1>3. QED
  BY <1>1, <1>2

LEMMA MapsInit == Init => Farm!Init
<1> SUFFICES ASSUME Init PROVE Farm!Init
  OBVIOUS
<1>1. Rows = {} /\ Harvests = {}
  BY DEF Init, Nothing, Rows, Harvests
<1>2. (CHOOSE v \in Versions : TRUE) \in Versions /\ version \in Versions
  BY DEF Init
<1>3. QED
  BY <1>1, <1>2 DEF Farm!Init

\* A row is inserted, or its crop is set: the rest of the table stays.
LEMMA MapsPlan ==
  ASSUME orderly, orderly', NEW f \in Requests, NEW c \in Catalog \cup {Null},
         version # Null, c # Null => c.version = version,
         UNCHANGED <<version, records>>,
         Rows' = Rows \cup {f},
         \A g \in Requests : g # f => fields'[g] = fields[g],
         fields'[f].crop = c,
         fields'[f].status = "sown" <=> f \in Rows /\ fields[f].status = "sown"
  PROVE  Farm!Plan(f, c)
<1>1. [g \in Rows' |-> fields'[g].crop] =
        [g \in Rows \cup {f} |-> IF g = f THEN c ELSE fields[g].crop]
  BY DEF Rows
<1>2. {g \in Rows' : fields'[g].status = "sown"} =
        {g \in Rows : fields[g].status = "sown"}
  BY DEF Rows
<1>3. [g \in Rows \cup {f} |-> IF g = f THEN c ELSE fields[g].crop] =
        [g \in Rows \cup {f} |-> IF g = f THEN c
                                 ELSE [h \in Rows |-> fields[h].crop][g]]
  OBVIOUS
<1>4. Harvests' = Harvests
  BY DEF Harvests
<1>5. QED
  BY <1>1, <1>2, <1>3, <1>4 DEF Farm!Plan, Farm!CropsOf, Farm!Existing

LEMMA MapsCreate ==
  ASSUME orderly, orderly', IInv, SerialInv, NEW r \in Requests, CreateField(r)
  PROVE  Farm!Next
<1> DEFINE c == job[r].crop
           row == [crop |-> c, silage |-> job[r].silage, status |-> "fallow"]
<1>1. /\ InFlight(r) /\ job[r].op = "create" /\ version # Null
      /\ Accepts(farmRead[r], c, job[r].silage)
      /\ UNCHANGED <<version, records>>
      /\ fields' = [fields EXCEPT ![r] = row]
      /\ fields[r] = Absent
  BY DEF CreateField, At, InFlight, IInv, IdsFresh
<1>2. c \in Catalog \cup {Null} /\ row \in FieldRow
  BY <1>1 DEF IInv, PendingOK, WellFormed, Job, FieldRow
<1>3. farmRead[r] = version
  BY <1>1 DEF SerialInv, ReadsHold
<1>4. /\ \A g \in Requests : g # r => fields'[g] = fields[g]
      /\ fields'[r] = row
  BY <1>1 DEF IInv, TypeOK
<1>5. Rows' = Rows \cup {r} /\ r \notin Rows
  BY <1>1, <1>2, <1>4, AbsentIsNoRow DEF Rows
<1>6. c # Null => c.version = version
  BY <1>1, <1>3 DEF Accepts
<1>7. fields'[r].crop = c /\ fields'[r].status # "sown"
  BY <1>4
<1>8. PICK d \in Catalog \cup {Null} : d = c
  BY <1>2
<1>9. Farm!Plan(r, d)
  <2>1. /\ fields'[r].crop = d /\ (d # Null => d.version = version)
        /\ fields'[r].status = "sown" <=> r \in Rows /\ fields[r].status = "sown"
    BY <1>5, <1>6, <1>7, <1>8
  <2>2. QED
    BY <1>1, <1>4, <1>5, <2>1, MapsPlan
<1>10. QED
  BY <1>9 DEF Farm!Next

LEMMA MapsPatch ==
  ASSUME orderly, orderly', IInv, SerialInv, NEW r \in Requests, WritePatch(r)
  PROVE  Farm!Next
<1>1. PICK f \in Requests, j \in Job, row \in FieldRow :
        /\ f = job[r].field /\ j = job[r] /\ row = Patched(fields[f], j)
        /\ f \in Rows /\ fields[f] \in FieldRow
        /\ row.status = fields[f].status
  <2>1. job[r].field \in Rows /\ InFlight(r)
    BY DEF WritePatch, At, InFlight
  <2>2. /\ job[r].field \in Requests /\ job[r] \in Job
        /\ fields[job[r].field] \in FieldRow
    BY <2>1 DEF IInv, TypeOK, PendingOK, WellFormed, Rows
  <2>3. QED
    BY <2>1, <2>2, PatchedRow
<1>2. /\ UNCHANGED <<version, records>> /\ InFlight(r)
      /\ fields' = [fields EXCEPT ![f] = row]
      /\ step[r] = "checked" /\ j.op = "patch"
  BY <1>1 DEF WritePatch, At, InFlight
<1>3. /\ \A g \in Requests : g # f => fields'[g] = fields[g]
      /\ fields'[f] = row
  BY <1>2 DEF IInv, TypeOK
<1>4. Rows' = Rows \cup {f}
  BY <1>1, <1>3, AbsentIsNoRow DEF Rows
<1>5. PatchFits(fields[f], j)
  BY <1>1, <1>2 DEF SerialInv, ReadsHold
<1>6. row.crop \in Catalog \cup {Null} /\ (row.crop # Null => row.crop.version = version)
  BY <1>1, <1>5 DEF PatchFits, FieldRow
<1>7. version # Null
  BY <1>1 DEF IInv, NothingDangles
<1>8. PICK c \in Catalog \cup {Null} : c = row.crop
  BY <1>6
<1>9. Farm!Plan(f, c)
  <2>1. /\ fields'[f].crop = c
        /\ fields'[f].status = "sown" <=> f \in Rows /\ fields[f].status = "sown"
        /\ c # Null => c.version = version
    BY <1>1, <1>3, <1>6, <1>8
  <2>2. QED
    BY <1>2, <1>3, <1>4, <1>7, <2>1, MapsPlan
<1>10. QED
  BY <1>9 DEF Farm!Next

\* A field's status is written, and its crop: what the mapping makes of it.
LEMMA MapsTransition ==
  ASSUME orderly, orderly', IInv, SerialInv, NEW r \in Requests,
         WriteTransition(r)
  PROVE  Farm!Next
<1>1. PICK f \in Requests, row \in FieldRow, op \in Transitions :
        f = job[r].field /\ row = fields[f] /\ op = job[r].op
        /\ f \in Rows /\ rowsRead[r][f] = row /\ Ready(op, row)
  <2>1. /\ job[r].field \in Rows /\ job[r].op \in Transitions
        /\ InFlight(r) /\ step[r] = "checked"
    BY DEF WriteTransition, At, InFlight, Transitions
  <2>2. job[r].field \in Requests /\ fields[job[r].field] \in FieldRow
    BY <2>1 DEF Rows, IInv, TypeOK
  <2>3. /\ rowsRead[r][job[r].field] = fields[job[r].field]
        /\ Ready(job[r].op, fields[job[r].field])
    BY <2>1 DEF SerialInv, ReadsHold
  <2>4. QED
    BY <2>1, <2>2, <2>3
<1>2. /\ Rows' = Rows
      /\ \A g \in Requests : g # f => fields'[g] = fields[g]
      /\ fields'[f] = [row EXCEPT !.status = StatusAfter(op),
                                  !.crop = CropAfter(op, row)]
      /\ op # "harvest" => records' = records
      /\ op = "harvest" => records' = [records EXCEPT ![r] =
           [field |-> f, crop |-> row.crop, silage |-> row.silage]]
  BY <1>1, TransitionWrites
<1>3. fields'[f].status = StatusAfter(op) /\ fields'[f].crop = CropAfter(op, row)
  BY <1>2 DEF FieldRow
<1>4. version' = version /\ records[r] = Absent
  BY DEF WriteTransition, At, IInv, IdsFresh
<1>5. CASE op # "harvest"
  <2>1. fields'[f].crop = row.crop
    BY <1>3, <1>5 DEF CropAfter
  <2>2. [g \in Rows' |-> fields'[g].crop] = [g \in Rows |-> fields[g].crop]
    <3>1. \A g \in Rows : fields'[g].crop = fields[g].crop
      <4>1. Rows \subseteq Requests
        BY DEF Rows
      <4>2. QED
        BY <1>1, <1>2, <2>1, <4>1
    <3>2. QED
      BY <1>2, <3>1
  <2>3. Harvests' = Harvests /\ records' = records
    BY <1>2, <1>5 DEF Harvests
  <2>4. CASE op = "sow"
    <3>1. row.status = "fallow" /\ row.crop # Null /\ fields'[f].status = "sown"
      BY <1>1, <1>3, <2>4 DEF Ready, StatusAfter
    <3>2. {g \in Rows' : fields'[g].status = "sown"} =
            {g \in Rows : fields[g].status = "sown"} \cup {f}
      BY <1>1, <1>2, <3>1 DEF Rows
    <3>3. Farm!Sow(f)
      BY <1>1, <1>4, <2>2, <2>3, <3>1, <3>2 DEF Farm!Sow, Farm!Existing
    <3>4. QED
      BY <3>3 DEF Farm!Next
  <2>5. CASE op = "cancelSow"
    <3>1. row.status = "sown" /\ fields'[f].status = "fallow"
      BY <1>1, <1>3, <2>5 DEF Ready, StatusAfter
    <3>2. {g \in Rows' : fields'[g].status = "sown"} =
            {g \in Rows : fields[g].status = "sown"} \ {f}
      BY <1>1, <1>2, <3>1 DEF Rows
    <3>3. Farm!CancelSow(f)
      BY <1>1, <1>4, <2>2, <2>3, <3>1, <3>2 DEF Farm!CancelSow
    <3>4. QED
      BY <3>3 DEF Farm!Next
  <2>6. QED
    BY <1>5, <2>4, <2>5 DEF Transitions
<1>6. CASE op = "harvest"
  <2> DEFINE rec == [field |-> f, crop |-> row.crop, silage |-> row.silage]
             past == {[id |-> h, field |-> records[h].field,
                       crop |-> records[h].crop] : h \in Harvests}
  <2>1. /\ row.status = "sown"
        /\ fields'[f].status = "fallow" /\ fields'[f].crop = Null
    BY <1>1, <1>3, <1>6 DEF Ready, StatusAfter, CropAfter
  <2>2. {g \in Rows' : fields'[g].status = "sown"} =
          {g \in Rows : fields[g].status = "sown"} \ {f}
    BY <1>1, <1>2, <2>1 DEF Rows
  <2>3. [g \in Rows' |-> fields'[g].crop] =
          [[g \in Rows |-> fields[g].crop] EXCEPT ![f] = Null]
    BY <1>1, <1>2, <2>1 DEF Rows
  <2>4. rec \in HarvestRow
    BY DEF HarvestRow, FieldRow
  <2>5. /\ records'[r] = rec
        /\ \A h \in Requests : h # r => records'[h] = records[h]
    BY <1>2, <1>6 DEF IInv, TypeOK
  <2>6. Harvests' = Harvests \cup {r} /\ r \notin Harvests
    BY <1>4, <2>4, <2>5, AbsentIsNoRow DEF Harvests
  <2>7. {[id |-> h, field |-> records'[h].field, crop |-> records'[h].crop] :
           h \in Harvests'}
          = past \cup {[id |-> r, field |-> f, crop |-> row.crop]}
    <3>1. \A h \in Harvests : records'[h] = records[h]
      BY <2>5, <2>6 DEF Harvests
    <3>2. records'[r].field = f /\ records'[r].crop = row.crop
      BY <2>5
    <3>3. QED
      BY <2>6, <3>1, <3>2
  <2>8. \A e \in past : e.id # r
    BY <2>6
  <2>9. Farm!Harvest(f, r)
    BY <1>1, <1>4, <2>1, <2>2, <2>3, <2>7, <2>8 DEF Farm!Harvest
  <2>10. QED
    BY <2>9 DEF Farm!Next
<1>7. QED
  BY <1>5, <1>6

LEMMA MapsRemove ==
  ASSUME orderly, orderly', IInv, NEW r \in Requests, RemoveField(r)
  PROVE  [Farm!Next]_Farm!vars
<1>1. PICK f \in Requests : f = job[r].field
  BY RemoveFieldWrites
<1>2. /\ version' = version
      /\ fields' = [fields EXCEPT ![f] = Absent]
      /\ Rows' = Rows \ {f}
      /\ \A h \in Harvests' : h \in Harvests /\ records'[h] = records[h]
                             /\ records[h].field # f
      /\ \A h \in Harvests : records[h].field # f =>
           h \in Harvests' /\ records'[h] = records[h]
  BY <1>1, RemoveFieldWrites
<1>3. \A g \in Rows' : g \in Rows /\ g # f /\ fields'[g] = fields[g]
  BY <1>2 DEF IInv, TypeOK, Rows
<1>4. [g \in Rows' |-> fields'[g].crop] =
        [g \in Rows \ {f} |-> [h \in Rows |-> fields[h].crop][g]]
  BY <1>2, <1>3
<1>5. {g \in Rows' : fields'[g].status = "sown"} =
        {g \in Rows : fields[g].status = "sown"} \ {f}
  BY <1>2, <1>3
<1>6. {[id |-> h, field |-> records'[h].field, crop |-> records'[h].crop] :
         h \in Harvests'}
        = {e \in {[id |-> h, field |-> records[h].field,
                   crop |-> records[h].crop] : h \in Harvests} : e.field # f}
  BY <1>2
<1>7. CASE f \in Rows
  <2>1. Farm!Drop(f)
    BY <1>2, <1>4, <1>5, <1>6, <1>7 DEF Farm!Drop, Farm!Existing
  <2>2. QED
    BY <2>1 DEF Farm!Next
<1>8. CASE f \notin Rows
  <2>1. Rows' = Rows /\ \A h \in Harvests : records[h].field # f
    BY <1>2, <1>8 DEF IInv, NothingDangles
  <2>2. fields' = fields
    BY <1>2, <1>8 DEF Rows, IInv, TypeOK
  <2>3. records \in RecordTable /\ records' \in RecordTable
    BY RemoveFieldWrites DEF IInv, TypeOK, RecordTable
  <2>4. \A h \in Requests : records'[h] = records[h]
    BY <1>2, <2>1 DEF Harvests
  <2>5. records' = records
    BY <2>3, <2>4 DEF RecordTable
  <2>6. QED
    BY <1>2, <2>2, <2>5, MapsQuiet
<1>9. QED
  BY <1>7, <1>8

\* remapFieldCropsBySlug over all assigned fields.
LEMMA MapsMove ==
  ASSUME orderly, orderly', IInv, SerialInv, NEW r \in Requests,
         ChangeVersion(r)
  PROVE  Farm!Next
<1>1. PICK v \in Versions : v = job[r].version
  BY ChangeVersionWrites
<1>2. /\ InFlight(r) /\ step[r] = "checked" /\ job[r].op = "changeVersion"
      /\ version # Null /\ version' = v /\ records' = records
      /\ fields' = [f \in Requests |->
           IF f \in Rows /\ rowsRead[r][f] # Absent
           THEN [fields[f] EXCEPT !.crop =
                   Remapped(rowsRead[r][f].crop, farmRead[r], v)]
           ELSE fields[f]]
  BY <1>1 DEF ChangeVersion, At, InFlight
<1>3. Rows' = Rows /\ \A f \in Rows : fields'[f].status = fields[f].status
  BY ChangeVersionWrites
<1>4. /\ farmRead[r] = version /\ v # version
      /\ \A f \in Rows : IF f \in Assigned THEN rowsRead[r][f] = fields[f]
                                          ELSE rowsRead[r][f] = Absent
  BY <1>1, <1>2 DEF SerialInv, ReadsHold
<1>5. \A f \in Rows : f \in Requests /\ fields[f] \in FieldRow /\ fields[f] # Absent
  BY DEF Rows, IInv, TypeOK
<1>6. \A f \in Rows : fields'[f].crop =
        IF f \in Assigned THEN Remapped(fields[f].crop, version, v) ELSE Null
  BY <1>2, <1>4, <1>5 DEF FieldRow, Assigned
<1>7. \A f \in Assigned : fields[f].crop \in Catalog /\ fields[f].crop \in Crop
                        /\ fields[f].crop.version = version /\ f \in Rows
  BY <1>5, CatalogAssumption DEF FieldRow, Assigned, SerialInv, CropsFit
<1>8. ASSUME NEW f \in Rows
      PROVE  /\ fields'[f].crop \in Farm!CropsOf(v)
             /\ LET same == {c \in Farm!CropsOf(v) \ {Null} :
                      fields[f].crop # Null /\ c.slug = fields[f].crop.slug}
                IN IF same = {} THEN fields'[f].crop = Null
                                ELSE fields'[f].crop \in same
  <2>1. CASE f \notin Assigned
    <3>1. fields[f].crop = Null /\ fields'[f].crop = Null
      BY <1>6, <2>1 DEF Assigned
    <3>2. QED
      BY <3>1 DEF Farm!CropsOf
  <2>2. CASE f \in Assigned
    <3>1. PICK c \in Crop, d \in Crop :
            /\ c = fields[f].crop /\ c.version = version
            /\ d = [slug |-> c.slug, version |-> v]
      BY <1>7, <2>2 DEF Crop
    <3>2. fields'[f].crop = IF d \in Catalog THEN d ELSE Null
      BY <1>6, <2>2, <3>1 DEF Remapped
    <3>3. \A e \in Catalog : e.version = v /\ e.slug = c.slug => e = d
      BY <3>1, CatalogAssumption DEF Crop
    <3>4. d \in Catalog => d # Null
      BY CatalogAssumption, NullsAssumption
    <3>5. c # Null
      BY <3>1, NullsAssumption
    <3>6. {e \in Farm!CropsOf(v) \ {Null} : c # Null /\ e.slug = c.slug}
            = IF d \in Catalog THEN {d} ELSE {}
      BY <3>1, <3>3, <3>4, <3>5 DEF Farm!CropsOf
    <3>7. fields'[f].crop \in Farm!CropsOf(v)
      BY <3>1, <3>2 DEF Farm!CropsOf
    <3>8. QED
      BY <3>1, <3>2, <3>6, <3>7
  <2>3. QED
    BY <2>1, <2>2
<1>9. Farm!Move(v)
  <2>1. {g \in Rows' : fields'[g].status = "sown"} =
          {g \in Rows : fields[g].status = "sown"}
    BY <1>3
  <2>2. Harvests' = Harvests
    BY <1>2 DEF Harvests
  <2> DEFINE crop == [f \in (IF orderly THEN Rows ELSE {}) |-> fields[f].crop]
  <2>3. DOMAIN crop = Rows /\ \A f \in Rows : crop[f] = fields[f].crop
    OBVIOUS
  <2>4. crop' = [f \in Rows |-> fields'[f].crop]
    BY <1>3
  <2>5. \A f \in Rows : crop'[f] = fields'[f].crop
    BY <2>4
  <2>6. crop' \in [Rows -> Farm!CropsOf(v)]
    BY <1>8, <2>4
  <2> HIDE DEF crop
  <2>7. ASSUME NEW f \in Rows
        PROVE  LET same == {c \in Farm!CropsOf(v) \ {Null} :
                              crop[f] # Null /\ c.slug = crop[f].slug}
               IN IF same = {} THEN crop'[f] = Null ELSE crop'[f] \in same
    <3>1. crop[f] = fields[f].crop /\ crop'[f] = fields'[f].crop
      BY <2>3, <2>5
    <3>2. QED
      BY <1>8, <3>1
  <2>8. \A f \in DOMAIN crop :
          LET same == {c \in Farm!CropsOf(v) \ {Null} :
                         crop[f] # Null /\ c.slug = crop[f].slug}
          IN IF same = {} THEN crop'[f] = Null ELSE crop'[f] \in same
    BY <2>3, <2>7
  <2>9. crop' \in [DOMAIN crop -> Farm!CropsOf(v)]
    BY <2>3, <2>6
  <2>10. QED
    BY <1>2, <1>4, <2>1, <2>2, <2>8, <2>9 DEF Farm!Move, Farm!Existing, crop
<1>10. QED
  BY <1>9 DEF Farm!Next

LEMMA MapsRemoveFarm ==
  ASSUME orderly, orderly', IInv, SerialInv, NEW r \in Requests, RemoveFarm(r)
  PROVE  Farm!Next
<1>1. Rows' = {} /\ Harvests' = {} /\ version' = Null
  BY DEF RemoveFarm, Nothing, Rows, Harvests
<1>2. version \in Versions
  BY DEF RemoveFarm, At, InFlight, IInv, PendingOK, SerialInv, ReadsHold
<1>3. version # Null
  BY <1>2, NullsAssumption
<1>4. Farm!DropFarm
  BY <1>1, <1>3 DEF Farm!DropFarm
<1>5. QED
  BY <1>4 DEF Farm!Next

LEMMA MapsStep ==
  ASSUME IInv, orderly => SerialInv, [Next]_vars
  PROVE  [Farm!Next]_Farm!vars
<1>1. orderly' = orderly
  BY DEF Next, vars
<1>2. CASE ~orderly
  BY <1>1, <1>2, MapsQuiet
<1>3. CASE orderly
  <2>1. orderly' /\ SerialInv
    BY <1>1, <1>3
  <2>2. CASE UNCHANGED <<version, fields, records>>
    BY <1>1, <2>2, MapsQuiet
  <2>3. ASSUME NEW r \in Requests, Write(r) PROVE [Farm!Next]_Farm!vars
    BY <1>3, <2>1, <2>3, MapsCreate, MapsPatch, MapsTransition, MapsRemove,
       MapsMove, MapsRemoveFarm DEF Write
  <2>4. \/ UNCHANGED <<version, fields, records>>
        \/ \E r \in Requests : Write(r)
    BY DEF Next, vars, Scope, FarmNotFound, Refuse, Fail, Reject, Read,
       ReadForPatch, ReadForTransition, ReadAssigned, Remember
  <2>5. QED
    BY <2>2, <2>3, <2>4
<1>4. QED
  BY <1>2, <1>3

\* As long as requests do not overlap, the handlers implement the operations
\* on a farm's fields that take effect at once.
THEOREM SerialRefinesFarmFields == Spec => ImplementsFarmFields
<1>1. Init => Farm!Init
  BY MapsInit
<1>2. IInv /\ (orderly => SerialInv) /\ [Next]_vars => [Farm!Next]_Farm!vars
  BY MapsStep
<1>3. QED
  BY <1>1, <1>2, SerialInvariance, PTL DEF Spec, ImplementsFarmFields, Farm!Spec
=============================================================================
