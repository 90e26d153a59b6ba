----------------------- MODULE ManagementForms_proofs -----------------------
(***************************************************************************)
(* Proofs about the records of a farm under ManagementForms, for any       *)
(* number of tabs, any bodies of the other client and any dialogs.  What   *)
(* the tabs hold does not matter: whatever they send, IInv holds of the    *)
(* rows and of the requests that are on their way.                         *)
(*                                                                         *)
(* DialogInv is about the tabs: a dialog and the request its tab sent last *)
(* are followed together, from the click to the answer that closes it.     *)
(* LeakInv is about what a dialog shares with the row it was opened on.    *)
(***************************************************************************)
EXTENDS ManagementForms, TLAPS

Record(q) == q = [at |-> q.at, call |-> q.call, answer |-> q.answer, got |-> q.got]

ReqsAreRecords ==
  /\ req = [r \in Requests |-> req[r]]
  /\ \A r \in Requests : Record(req[r])

\* What was checked of a request that is under way.
Pending(q) == q.at \in {"find", "names", "write"} =>
  /\ q.call.op \in {"create", "update"} => Accepts(q.call.kind, q.call.body)
  /\ q.call.op = "create" => /\ q.call.id = None
                             /\ q.call.kind \in Keyed => Named(q.call)
                             /\ ChainIdsApart(q.call.body)
  /\ q.at = "write" /\ q.call.op \in {"update"} \cup Transitions =>
       /\ Accepts(q.call.kind, q.call.body)
       /\ q.call.kind = "buildings" => ChainIdsApart(q.call.body)
  /\ q.at = "names" => q.call.op \notin Transitions
PendingOK == \A r \in Requests : Pending(req[r])

RowsOK ==
  /\ rows = [i \in DOMAIN rows |-> rows[i]]
  /\ DOMAIN rows \subseteq used /\ used \subseteq Ids
  /\ \A i \in DOMAIN rows :
       /\ rows[i] = [kind |-> rows[i].kind, farm |-> rows[i].farm, cols |-> rows[i].cols]
       /\ rows[i].kind \in Keyed => KeyOf[rows[i].kind] \in DOMAIN rows[i].cols

StatesOK == states = [f \in Farms |-> states[f]]

IInv == /\ ReqsAreRecords /\ PendingOK /\ RowsOK /\ StatesOK
        /\ NamesAreUnique /\ NothingWithoutFarm /\ StoredChainsAreSound

TableInv == RowsOK /\ StatesOK /\ NamesAreUnique /\ NothingWithoutFarm /\ StoredChainsAreSound
ReqInv == ReqsAreRecords /\ PendingOK
-----------------------------------------------------------------------------
LEMMA InitIInv == Init => IInv
<1> SUFFICES ASSUME Init PROVE IInv
  OBVIOUS
<1>1. ReqsAreRecords /\ PendingOK
  BY DEF Init, ReqsAreRecords, PendingOK, Pending, Record, Idle
<1> DEFINE first == First[page]
<1>2. rows = [i \in DOMAIN first |-> [kind |-> page, farm |-> Farm, cols |-> first[i]]]
      /\ page \in DOMAIN First /\ used = DOMAIN rows
  BY DEF Init
<1>3. /\ DOMAIN rows = DOMAIN first
      /\ \A i \in DOMAIN rows : rows[i] = [kind |-> page, farm |-> Farm, cols |-> first[i]]
  BY <1>2
<1>4. /\ DOMAIN first \subseteq Ids
      /\ page \in Keyed => \A i, j \in DOMAIN first :
           /\ KeyOf[page] \in DOMAIN first[i]
           /\ first[i][KeyOf[page]] = first[j][KeyOf[page]] => i = j
      /\ page = "buildings" => \A i \in DOMAIN first :
           AcceptsBuilding(first[i]) /\ ChainIdsApart(first[i])
  BY <1>2, FirstAssumption
<1> HIDE DEF first
<1>5. RowsOK
  BY <1>2, <1>3, <1>4 DEF RowsOK
<1>6. StatesOK
  BY DEF Init, StatesOK
<1>7. NamesAreUnique
  BY <1>3, <1>4 DEF NamesAreUnique
<1>8. NothingWithoutFarm
  BY <1>3, FarmsAssumption DEF Init, NothingWithoutFarm, Farm
<1>9. StoredChainsAreSound
  BY <1>3, <1>4 DEF StoredChainsAreSound
<1>10. QED
  BY <1>1, <1>5, <1>6, <1>7, <1>8, <1>9 DEF IInv
-----------------------------------------------------------------------------
(* Requests.                                                                 *)
LEMMA RecordUpdates ==
  ASSUME NEW q, Record(q), NEW a, NEW g
  PROVE  /\ [q EXCEPT !.at = "done", !.answer = a] =
              [at |-> "done", call |-> q.call, answer |-> a, got |-> q.got]
         /\ [q EXCEPT !.at = "done", !.answer = a, !.got = g] =
              [at |-> "done", call |-> q.call, answer |-> a, got |-> g]
<1>1. DOMAIN q = {"at", "call", "answer", "got"}
  BY DEF Record
<1>2. ASSUME NEW f, DOMAIN f = DOMAIN q, f = [k \in DOMAIN f |-> f[k]]
      PROVE  f = [at |-> f.at, call |-> f.call, answer |-> f.answer, got |-> f.got]
  BY <1>1, <1>2
<1>3. ASSUME NEW f, f = [q EXCEPT !.at = "done", !.answer = a]
      PROVE  f = [at |-> "done", call |-> q.call, answer |-> a, got |-> q.got]
  <2>1. DOMAIN f = DOMAIN q /\ f = [k \in DOMAIN f |-> f[k]]
    BY <1>1, <1>3, Zenon
  <2>2. f.at = "done" /\ f.answer = a /\ f.call = q.call /\ f.got = q.got
    BY <1>1, <1>3, SMT
  <2>3. QED
    BY <1>2, <2>1, <2>2
<1>4. ASSUME NEW f, f = [q EXCEPT !.at = "done", !.answer = a, !.got = g]
      PROVE  f = [at |-> "done", call |-> q.call, answer |-> a, got |-> g]
  <2>1. DOMAIN f = DOMAIN q /\ f = [k \in DOMAIN f |-> f[k]]
    BY <1>1, <1>4, Zenon
  <2>2. f.at = "done" /\ f.answer = a /\ f.call = q.call /\ f.got = g
    BY <1>1, <1>4, SMT
  <2>3. QED
    BY <1>2, <2>1, <2>2
<1>5. QED
  BY <1>3, <1>4

LEMMA CallReplaced ==
  ASSUME NEW q, Record(q), NEW s, NEW d
  PROVE  [q EXCEPT !.at = s, !.call = d] =
           [at |-> s, call |-> d, answer |-> q.answer, got |-> q.got]
<1>1. DOMAIN q = {"at", "call", "answer", "got"}
  BY DEF Record
<1>2. ASSUME NEW f, DOMAIN f = DOMAIN q, f = [k \in DOMAIN f |-> f[k]]
      PROVE  f = [at |-> f.at, call |-> f.call, answer |-> f.answer, got |-> f.got]
  BY <1>1, <1>2
<1>3. ASSUME NEW f, f = [q EXCEPT !.at = s, !.call = d]
      PROVE  f = [at |-> s, call |-> d, answer |-> q.answer, got |-> q.got]
  <2>1. DOMAIN f = DOMAIN q /\ f = [k \in DOMAIN f |-> f[k]]
    BY <1>1, <1>3, Zenon
  <2>2. f.at = s /\ f.call = d /\ f.answer = q.answer /\ f.got = q.got
    BY <1>1, <1>3, SMT
  <2>3. QED
    BY <1>2, <2>1, <2>2
<1>4. QED
  BY <1>3

LEMMA ArriveReqs ==
  ASSUME IInv, NEW r, NEW c, Arrive(r, c), c.op = "create" => c.id = None
  PROVE  ReqInv'
<1> DEFINE q == [at |-> IF Refusal(c) = None THEN FirstStep(c) ELSE "done",
                 call |-> c, answer |-> Refusal(c), got |-> None]
<1>1. req' = [req EXCEPT ![r] = q]
  BY DEF Arrive
<1>2. Record(q)
  BY DEF Record
<1>3. Pending(q)
  <2> SUFFICES ASSUME q.at \in {"find", "names", "write"} PROVE Pending(q)
    BY DEF Pending
  <2>1. Refusal(c) = None /\ q.at = FirstStep(c)
    OBVIOUS
  <2>2. c.op \in {"create", "update"} => Accepts(c.kind, c.body)
    BY <2>1, NoneAssumption DEF Refusal
  <2>3. c.op = "create" => (c.kind \in Keyed => Named(c)) /\ ChainIdsApart(c.body)
    BY <2>1, NoneAssumption DEF Refusal
  <2>4. /\ q.at = "write" => c.op \notin Transitions
                             /\ (c.op = "update" => c.kind = "machinery")
        /\ q.at = "names" => c.op \notin Transitions
    BY <2>1 DEF FirstStep, Transitions
  <2>5. QED
    BY <2>2, <2>3, <2>4 DEF Pending
<1> HIDE DEF q
<1>4. QED
  BY <1>1, <1>2, <1>3 DEF IInv, ReqInv, ReqsAreRecords, PendingOK

LEMMA AnsweredReqs ==
  ASSUME IInv, NEW r, NEW q, Record(q), q.at \in {"idle", "done"},
         req' = [req EXCEPT ![r] = q]
  PROVE  ReqInv'
BY DEF IInv, ReqInv, ReqsAreRecords, PendingOK, Pending

LEMMA StepReqs ==
  ASSUME IInv, NEW r \in Requests, Find(r) \/ Names(r)
  PROVE  ReqInv'
<1> DEFINE c == req[r].call
<1>1. Record(req[r]) /\ Pending(req[r]) /\ req[r].at \in {"find", "names"}
  BY DEF IInv, ReqsAreRecords, PendingOK, Find, Names
<1>2. CASE \E a : Answer(r, a)
  <2> PICK a : Answer(r, a)
    BY <1>2
  <2> DEFINE q == [req[r] EXCEPT !.at = "done", !.answer = a]
  <2>1. q = [at |-> "done", call |-> req[r].call, answer |-> a, got |-> req[r].got]
    BY <1>1, RecordUpdates
  <2>2. req' = [req EXCEPT ![r] = q]
    BY DEF Answer
  <2> HIDE DEF q
  <2>3. Record(q) /\ q.at = "done"
    BY <2>1 DEF Record
  <2>4. QED
    BY <2>2, <2>3, AnsweredReqs
<1>3. CASE \E id, row : AnswerRow(r, id, row)
  <2> PICK id, row : AnswerRow(r, id, row)
    BY <1>3
  <2> DEFINE q == [req[r] EXCEPT !.at = "done", !.answer = "ok",
                                 !.got = [id |-> id, cols |-> row]]
  <2>1. q = [at |-> "done", call |-> req[r].call, answer |-> "ok",
             got |-> [id |-> id, cols |-> row]]
    BY <1>1, RecordUpdates
  <2>2. req' = [req EXCEPT ![r] = q]
    BY DEF AnswerRow
  <2> HIDE DEF q
  <2>3. Record(q) /\ q.at = "done"
    BY <2>1 DEF Record
  <2>4. QED
    BY <2>2, <2>3, AnsweredReqs
<1>4. CASE /\ c.op \notin Transitions
           /\ \E s \in {"names", "write"} :
                Go(r, s) /\ (s = "write" => ChainIdsApart(c.body))
  <2> PICK s \in {"names", "write"} : Go(r, s) /\ (s = "write" => ChainIdsApart(c.body))
    BY <1>4
  <2> DEFINE q == [req[r] EXCEPT !.at = s]
  <2>1. q = [at |-> s, call |-> req[r].call, answer |-> req[r].answer, got |-> req[r].got]
    BY <1>1 DEF Record
  <2>2. req' = [req EXCEPT ![r] = q]
    BY DEF Go
  <2> HIDE DEF q
  <2>3. Record(q) /\ Pending(q)
    BY <1>1, <1>4, <2>1 DEF Record, Pending
  <2>4. QED
    BY <2>2, <2>3 DEF IInv, ReqInv, ReqsAreRecords, PendingOK
<1>5. CASE \E row : /\ c.op \in Transitions
                    /\ req' = [req EXCEPT ![r].at = "write",
                                          ![r].call = With(c, Moved(c.op, row))]
  <2> PICK row : /\ c.op \in Transitions
                 /\ req' = [req EXCEPT ![r].at = "write",
                                       ![r].call = With(c, Moved(c.op, row))]
    BY <1>5
  <2> DEFINE d == With(c, Moved(c.op, row))
             q == [at |-> "write", call |-> d, answer |-> req[r].answer, got |-> req[r].got]
  <2>1. req' = [req EXCEPT ![r] = q]
    <3>1. req' = [req EXCEPT ![r] = [req[r] EXCEPT !.at = "write", !.call = d]]
      OBVIOUS
    <3>2. [req[r] EXCEPT !.at = "write", !.call = d] = q
      BY <1>1, CallReplaced
    <3>3. QED
      BY <3>1, <3>2
  <2>2. d.op = c.op /\ d.kind = c.kind /\ d.body = Moved(c.op, row)
    BY DEF With
  <2>3. Accepts(d.kind, d.body) /\ ChainIdsApart(d.body)
    <3>1. DOMAIN d.body = {"sown", "crop"}
      BY <2>2 DEF Moved
    <3>2. QED
      BY <3>1 DEF Accepts, AcceptsBuilding, AcceptsMachine, ChainIdsApart
  <2>4. d.op \notin {"create", "update"}
    BY <2>2 DEF Transitions
  <2> HIDE DEF d
  <2>5. Record(q) /\ Pending(q)
    BY <2>3, <2>4 DEF Record, Pending
  <2>6. QED
    BY <2>1, <2>5 DEF IInv, ReqInv, ReqsAreRecords, PendingOK
<1>6. QED
  <2>1. CASE Names(r)
    <3>1. c.op \notin Transitions
      BY <1>1, <2>1 DEF Pending, Names
    <3>2. QED
      BY <1>2, <1>4, <2>1, <3>1 DEF Names, Checked
  <2>2. CASE Find(r)
    BY <1>2, <1>3, <1>4, <1>5, <2>2 DEF Find, Judge, Move, Checked
  <2>3. QED
    BY <2>1, <2>2
-----------------------------------------------------------------------------
(* The tables.                                                               *)
LEMMA SameTables ==
  ASSUME IInv, UNCHANGED data
  PROVE  TableInv'
BY DEF IInv, TableInv, data, RowsOK, StatesOK, NamesAreUnique, NothingWithoutFarm,
       StoredChainsAreSound

LEMMA CompletedColumns ==
  ASSUME NEW c
  PROVE  /\ c.kind # "fields" => Completed(c) = c.body
         /\ c.kind \in Keyed /\ KeyOf[c.kind] \in DOMAIN c.body =>
              /\ KeyOf[c.kind] \in DOMAIN Completed(c)
              /\ Completed(c)[KeyOf[c.kind]] = c.body[KeyOf[c.kind]]
<1>1. c.kind \in Keyed => KeyOf[c.kind] # "sown"
  BY DEF Keyed, KeyOf
<1>2. QED
  BY <1>1 DEF Completed

LEMMA InsertTables ==
  ASSUME IInv, NEW r \in Requests, NEW id \in Ids, Insert(r, id)
  PROVE  TableInv'
<1> DEFINE c == req[r].call
           cols == Completed(c)
           new == [kind |-> c.kind, farm |-> c.farm, cols |-> cols]
<1>1. CASE ~(FarmThere(r) /\ ~Violates(c))
  <2>1. UNCHANGED data
    BY <1>1 DEF Insert, data
  <2>2. QED
    BY <2>1, SameTables
<1>2. CASE FarmThere(r) /\ ~Violates(c)
  <2>1. /\ rows' = [i \in DOMAIN rows \cup {id} |-> IF i = id THEN new ELSE rows[i]]
        /\ used' = used \cup {id}
        /\ farms' = farms /\ states' = states
        /\ id \notin used
    BY <1>2 DEF Insert
  <2>2. /\ DOMAIN rows' = DOMAIN rows \cup {id}
        /\ rows'[id] = new
        /\ \A i \in DOMAIN rows : rows'[i] = rows[i] /\ i # id
    BY <2>1 DEF IInv, RowsOK
  <2>3. /\ Accepts(c.kind, c.body) /\ ChainIdsApart(c.body) /\ c.id \notin DOMAIN rows
        /\ c.kind \in Keyed => KeyOf[c.kind] \in DOMAIN c.body
    BY FarmsAssumption DEF IInv, PendingOK, Pending, Insert, At, Named, RowsOK
  <2>4. /\ c.kind # "fields" => cols = c.body
        /\ c.kind \in Keyed => /\ KeyOf[c.kind] \in DOMAIN cols
                               /\ cols[KeyOf[c.kind]] = c.body[KeyOf[c.kind]]
    BY <2>3, CompletedColumns
  <2> HIDE DEF new, cols
  <2>5. new.kind = c.kind /\ new.farm = c.farm /\ new.cols = cols
        /\ new = [kind |-> new.kind, farm |-> new.farm, cols |-> new.cols]
    BY DEF new
  <2>6. RowsOK'
    BY <2>1, <2>2, <2>4, <2>5 DEF IInv, RowsOK
  <2>7. c.kind \in Keyed => \A i \in DOMAIN rows :
          rows[i].kind = c.kind /\ rows[i].farm = c.farm =>
            rows[i].cols[KeyOf[c.kind]] # cols[KeyOf[c.kind]]
    BY <1>2, <2>3, <2>4 DEF Violates, NameTaken, Named
  <2>8. NamesAreUnique'
    <3> SUFFICES ASSUME NEW i \in DOMAIN rows', NEW j \in DOMAIN rows',
                        rows'[i].kind = rows'[j].kind, rows'[i].farm = rows'[j].farm,
                        rows'[i].kind \in Keyed,
                        rows'[i].cols[KeyOf[rows'[i].kind]] = rows'[j].cols[KeyOf[rows'[j].kind]]
                 PROVE  i = j
      BY DEF NamesAreUnique
    <3>1. CASE i \in DOMAIN rows /\ j \in DOMAIN rows
      BY <3>1, <2>2 DEF IInv, NamesAreUnique
    <3>2. CASE i = id /\ j \in DOMAIN rows
      BY <3>2, <2>2, <2>5, <2>7
    <3>3. CASE j = id /\ i \in DOMAIN rows
      BY <3>3, <2>2, <2>5, <2>7
    <3>4. QED
      BY <3>1, <3>2, <3>3, <2>2
  <2>9. NothingWithoutFarm'
    BY <1>2, <2>1, <2>2, <2>5 DEF IInv, NothingWithoutFarm, FarmThere
  <2>10. StoredChainsAreSound'
    BY <2>2, <2>3, <2>5, <2>4 DEF IInv, StoredChainsAreSound, Accepts
  <2>11. QED
    BY <2>1, <2>6, <2>8, <2>9, <2>10 DEF IInv, TableInv, StatesOK
<1>3. QED
  BY <1>1, <1>2

LEMMA PatchedColumns ==
  ASSUME NEW cols, NEW body
  PROVE  /\ DOMAIN Patched(cols, body) = DOMAIN cols
         /\ \A k \in DOMAIN cols :
              Patched(cols, body)[k] = IF k \in DOMAIN body THEN body[k] ELSE cols[k]
BY DEF Patched

LEMMA PatchedIsSound ==
  ASSUME NEW cols, NEW body,
         AcceptsBuilding(cols), ChainIdsApart(cols),
         AcceptsBuilding(body), ChainIdsApart(body)
  PROVE  AcceptsBuilding(Patched(cols, body)) /\ ChainIdsApart(Patched(cols, body))
<1> DEFINE p == Patched(cols, body)
<1>1. /\ DOMAIN p = DOMAIN cols
      /\ \A k \in DOMAIN cols : p[k] = IF k \in DOMAIN body THEN body[k] ELSE cols[k]
  BY PatchedColumns
<1> HIDE DEF p
<1>2. "type" \in DOMAIN p => p.type # Empty
  BY <1>1 DEF AcceptsBuilding
<1>3. "chains" \in DOMAIN p =>
        \/ "chains" \in DOMAIN body /\ p.chains = body.chains
        \/ "chains" \in DOMAIN cols /\ p.chains = cols.chains
  BY <1>1
<1>4. QED
  BY <1>2, <1>3 DEF AcceptsBuilding, ChainIdsApart, p

LEMMA ColumnsReplaced ==
  ASSUME NEW row, NEW new, row = [kind |-> row.kind, farm |-> row.farm, cols |-> row.cols]
  PROVE  [row EXCEPT !.cols = new] = [kind |-> row.kind, farm |-> row.farm, cols |-> new]
<1> DEFINE p(x, y, z) == [kind |-> x, farm |-> y, cols |-> z]
<1>1. \A x, y, z : [p(x, y, z) EXCEPT !.cols = new] = p(x, y, new)
  OBVIOUS
<1>2. QED
  BY <1>1

LEMMA UpdateTables ==
  ASSUME IInv, NEW r \in Requests, Update(r)
  PROVE  TableInv'
<1> DEFINE c == req[r].call
           id == c.id
           new == Patched(rows[id].cols, c.body)
<1>1. CASE ~(Found(c) /\ ~Violates(c))
  <2>1. UNCHANGED data
    BY <1>1 DEF Update, data
  <2>2. QED
    BY <2>1, SameTables
<1>2. CASE Found(c) /\ ~Violates(c)
  <2>1. /\ rows' = [rows EXCEPT ![id].cols = new]
        /\ UNCHANGED <<farms, used, states>>
    BY <1>2 DEF Update
  <2>2. id \in DOMAIN rows /\ rows[id].kind = c.kind /\ rows[id].farm = c.farm
    BY <1>2 DEF Found
  <2>3. /\ DOMAIN rows' = DOMAIN rows
        /\ rows' = [i \in DOMAIN rows' |-> rows'[i]]
        /\ rows'[id] = [kind |-> c.kind, farm |-> c.farm, cols |-> new]
        /\ \A i \in DOMAIN rows \ {id} : rows'[i] = rows[i]
    <3> DEFINE row == [rows[id] EXCEPT !.cols = new]
    <3>1. rows[id] = [kind |-> rows[id].kind, farm |-> rows[id].farm, cols |-> rows[id].cols]
      BY <2>2 DEF IInv, RowsOK
    <3>2. row = [kind |-> rows[id].kind, farm |-> rows[id].farm, cols |-> new]
      BY <3>1, ColumnsReplaced
    <3>3. rows' = [rows EXCEPT ![id] = row]
      BY <2>1
    <3> HIDE DEF row, new, id
    <3>4. /\ DOMAIN rows' = DOMAIN rows /\ rows' = [i \in DOMAIN rows' |-> rows'[i]]
          /\ rows'[id] = row /\ \A i \in DOMAIN rows \ {id} : rows'[i] = rows[i]
      BY <3>3, <2>2
    <3>5. QED
      BY <3>2, <3>4, <2>2
  <2>4. /\ Accepts(c.kind, c.body)
        /\ c.kind = "buildings" => ChainIdsApart(c.body)
    BY DEF IInv, PendingOK, Pending, Update, Patching, At
  <2>5. /\ DOMAIN new = DOMAIN rows[id].cols
        /\ \A k \in DOMAIN rows[id].cols :
             new[k] = IF k \in DOMAIN c.body THEN c.body[k] ELSE rows[id].cols[k]
    BY PatchedColumns
  <2>6. c.kind = "buildings" => AcceptsBuilding(new) /\ ChainIdsApart(new)
    BY <2>2, <2>4, PatchedIsSound DEF IInv, StoredChainsAreSound, Accepts
  <2> HIDE DEF new, id
  <2>7. RowsOK'
    BY <2>1, <2>2, <2>3, <2>5 DEF IInv, RowsOK
  <2>8. ASSUME NEW i \in DOMAIN rows \ {id}, c.kind \in Keyed,
               rows[i].kind = c.kind, rows[i].farm = c.farm
        PROVE  rows[i].cols[KeyOf[c.kind]] # new[KeyOf[c.kind]]
    <3>1. KeyOf[c.kind] \in DOMAIN rows[id].cols
      BY <2>2, <2>8 DEF IInv, RowsOK
    <3>2. CASE KeyOf[c.kind] \in DOMAIN c.body
      <4>1. Named(c)
        BY <3>2, <2>8 DEF Named
      <4>2. rows[i].cols[KeyOf[c.kind]] # c.body[KeyOf[c.kind]]
        BY <4>1, <1>2, <2>8 DEF Violates, NameTaken, id
      <4>3. QED
        BY <4>2, <3>1, <3>2, <2>5
    <3>3. CASE KeyOf[c.kind] \notin DOMAIN c.body
      <4>1. new[KeyOf[c.kind]] = rows[id].cols[KeyOf[c.kind]]
        BY <3>1, <3>3, <2>5
      <4>2. i \in DOMAIN rows /\ i # id
        BY <2>8
      <4>3. QED
        BY <4>1, <4>2, <2>2, <2>8 DEF IInv, NamesAreUnique
    <3>4. QED
      BY <3>2, <3>3
  <2>9. NamesAreUnique'
    <3> SUFFICES ASSUME NEW i \in DOMAIN rows', NEW j \in DOMAIN rows', i # j,
                        rows'[i].kind = rows'[j].kind, rows'[i].farm = rows'[j].farm,
                        rows'[i].kind \in Keyed
                 PROVE  rows'[i].cols[KeyOf[rows'[i].kind]] # rows'[j].cols[KeyOf[rows'[j].kind]]
      BY DEF NamesAreUnique
    <3>1. CASE i # id /\ j # id
      BY <3>1, <2>3 DEF IInv, NamesAreUnique
    <3>2. CASE i = id
      BY <3>2, <2>3, <2>8
    <3>3. CASE j = id
      BY <3>3, <2>3, <2>8
    <3>4. QED
      BY <3>1, <3>2, <3>3
  <2>10. NothingWithoutFarm'
    <3>1. \A i \in DOMAIN rows' : rows'[i].farm \in farms
      BY <2>2, <2>3 DEF IInv, NothingWithoutFarm
    <3>2. QED
      BY <2>1, <3>1 DEF IInv, NothingWithoutFarm
  <2>11. StoredChainsAreSound'
    BY <2>3, <2>6 DEF IInv, StoredChainsAreSound
  <2>12. QED
    BY <2>1, <2>7, <2>9, <2>10, <2>11 DEF IInv, TableInv, StatesOK
<1>3. QED
  BY <1>1, <1>2

\* Rows that are left stay what they were.
LEMMA FewerRows ==
  ASSUME IInv, NEW S \in SUBSET DOMAIN rows, rows' = [i \in S |-> rows[i]], used' = used
  PROVE  RowsOK' /\ NamesAreUnique' /\ StoredChainsAreSound'
BY DEF IInv, RowsOK, NamesAreUnique, StoredChainsAreSound

LEMMA EraseTables ==
  ASSUME IInv, NEW r \in Requests, Erase(r)
  PROVE  TableInv'
<1> DEFINE S == {i \in DOMAIN rows : ~(Found(req[r].call) /\ i = req[r].call.id)}
<1>1. /\ S \in SUBSET DOMAIN rows /\ rows' = [i \in S |-> rows[i]]
      /\ used' = used /\ farms' = farms /\ states' = states
  BY DEF Erase
<1> HIDE DEF S
<1>2. RowsOK' /\ NamesAreUnique' /\ StoredChainsAreSound'
  BY <1>1, FewerRows
<1>3. NothingWithoutFarm' /\ StatesOK'
  BY <1>1 DEF IInv, NothingWithoutFarm, StatesOK
<1>4. QED
  BY <1>2, <1>3 DEF TableInv

LEMMA PutTables ==
  ASSUME IInv, NEW r \in Requests, PutState(r)
  PROVE  TableInv'
<1>1. RowsOK' /\ NamesAreUnique' /\ StoredChainsAreSound'
  BY DEF IInv, PutState, RowsOK, NamesAreUnique, StoredChainsAreSound
<1>2. StatesOK' /\ NothingWithoutFarm'
  BY DEF IInv, PutState, StatesOK, NothingWithoutFarm, FarmThere
<1>3. QED
  BY <1>1, <1>2 DEF TableInv

LEMMA FarmTables ==
  ASSUME IInv, NEW f, DeleteFarm(f)
  PROVE  TableInv'
<1> DEFINE S == {i \in DOMAIN rows : rows[i].farm # f}
<1>1. /\ S \in SUBSET DOMAIN rows /\ rows' = [i \in S |-> rows[i]]
      /\ used' = used /\ farms' = farms \ {f}
      /\ states' = [g \in Farms |-> IF g = f THEN None ELSE states[g]]
  BY DEF DeleteFarm, StatesWithout
<1>2. \A i \in S : rows[i].farm # f
  OBVIOUS
<1> HIDE DEF S
<1>3. RowsOK' /\ NamesAreUnique' /\ StoredChainsAreSound'
  BY <1>1, FewerRows
<1>4. NothingWithoutFarm' /\ StatesOK'
  BY <1>1, <1>2 DEF IInv, NothingWithoutFarm, StatesOK
<1>5. QED
  BY <1>3, <1>4 DEF TableInv

LEMMA WriteAnswers ==
  ASSUME IInv, NEW r \in Requests, Write(r)
  PROVE  \E q : Record(q) /\ q.at = "done" /\ req' = [req EXCEPT ![r] = q]
<1>1. Record(req[r])
  BY DEF IInv, ReqsAreRecords
<1>2. \/ \E a : Answer(r, a)
      \/ \E id, row : AnswerRow(r, id, row)
  BY DEF Write, Insert, Update, Erase, PutState
<1>3. CASE \E a : Answer(r, a)
  <2> PICK a : Answer(r, a)
    BY <1>3
  <2> DEFINE q == [req[r] EXCEPT !.at = "done", !.answer = a]
  <2>1. q = [at |-> "done", call |-> req[r].call, answer |-> a, got |-> req[r].got]
    BY <1>1, RecordUpdates
  <2>2. req' = [req EXCEPT ![r] = q]
    BY DEF Answer
  <2> HIDE DEF q
  <2>3. Record(q) /\ q.at = "done"
    BY <2>1 DEF Record
  <2>4. QED
    BY <2>2, <2>3
<1>4. CASE \E id, row : AnswerRow(r, id, row)
  <2> PICK id, row : AnswerRow(r, id, row)
    BY <1>4
  <2> DEFINE q == [req[r] EXCEPT !.at = "done", !.answer = "ok",
                                 !.got = [id |-> id, cols |-> row]]
  <2>1. q = [at |-> "done", call |-> req[r].call, answer |-> "ok",
             got |-> [id |-> id, cols |-> row]]
    BY <1>1, RecordUpdates
  <2>2. req' = [req EXCEPT ![r] = q]
    BY DEF AnswerRow
  <2> HIDE DEF q
  <2>3. Record(q) /\ q.at = "done"
    BY <2>1 DEF Record
  <2>4. QED
    BY <2>2, <2>3
<1>5. QED
  BY <1>2, <1>3, <1>4

LEMMA WriteReqs ==
  ASSUME IInv, NEW r \in Requests, Write(r)
  PROVE  ReqInv'
BY WriteAnswers, AnsweredReqs

LEMMA WriteTables ==
  ASSUME IInv, NEW r \in Requests, Write(r)
  PROVE  TableInv'
BY InsertTables, UpdateTables, EraseTables, PutTables DEF Write
-----------------------------------------------------------------------------
LEMMA AskArrives ==
  ASSUME NEW t, Submit(t) \/ Delete(t) \/ Transition(t)
  PROVE  \E c : Arrive(t, c) /\ (c.op = "create" => c.id = None)
<1>1. CASE Submit(t)
  <2> DEFINE c == [op |-> IF Form(t).id = None THEN "create" ELSE "update",
                   kind |-> page, farm |-> Farm, id |-> Form(t).id,
                   body |-> Body(Form(t).inputs)]
  <2>1. Arrive(t, c)
    BY <1>1 DEF Submit, Ask
  <2>2. c.op = "create" => c.id = None
    OBVIOUS
  <2> HIDE DEF c
  <2>3. QED
    BY <2>1, <2>2
<1>2. CASE Delete(t)
  <2> PICK id \in DOMAIN tabs[t].rows : Ask(t, "remove", id, None)
    BY <1>2 DEF Delete
  <2> DEFINE c == [op |-> "remove", kind |-> page, farm |-> Farm, id |-> id, body |-> None]
  <2>1. Arrive(t, c)
    BY DEF Ask
  <2>2. c.op # "create"
    OBVIOUS
  <2> HIDE DEF c
  <2>3. QED
    BY <2>1, <2>2
<1>3. CASE Transition(t)
  <2> PICK id \in DOMAIN tabs[t].rows, op \in Transitions : Ask(t, op, id, None)
    BY <1>3 DEF Transition
  <2> DEFINE c == [op |-> op, kind |-> page, farm |-> Farm, id |-> id, body |-> None]
  <2>1. Arrive(t, c)
    BY DEF Ask
  <2>2. c.op # "create"
    BY DEF Transitions
  <2> HIDE DEF c
  <2>3. QED
    BY <2>1, <2>2
<1>4. QED
  BY <1>1, <1>2, <1>3

LEMMA Settled ==
  ASSUME IInv, NEW r, Settle(r)
  PROVE  ReqInv' /\ TableInv'
<1>1. Record(Idle) /\ Idle.at = "idle"
  BY DEF Record, Idle
<1>2. ReqInv'
  BY <1>1, AnsweredReqs DEF Settle
<1>3. UNCHANGED data
  BY DEF Settle, data
<1>4. QED
  BY <1>2, <1>3, SameTables

LEMMA Unchanged ==
  ASSUME IInv, UNCHANGED recordVars
  PROVE  ReqInv' /\ TableInv'
<1>1. ReqInv'
  BY DEF IInv, recordVars, ReqInv, ReqsAreRecords, PendingOK
<1>2. UNCHANGED data
  BY DEF recordVars, data
<1>3. QED
  BY <1>1, <1>2, SameTables

LEMMA Arrived ==
  ASSUME IInv, NEW r, NEW c, Arrive(r, c), c.op = "create" => c.id = None
  PROVE  ReqInv' /\ TableInv'
<1>1. ReqInv'
  BY ArriveReqs
<1>2. UNCHANGED data
  BY DEF Arrive
<1>3. QED
  BY <1>1, <1>2, SameTables

\* A step of Next, as far as the records are concerned.
LEMMA Steps ==
  ASSUME Next
  PROVE  \/ UNCHANGED recordVars
         \/ \E r, c : Arrive(r, c) /\ (c.op = "create" => c.id = None)
         \/ \E r : Settle(r)
         \/ \E r \in Requests : Find(r) \/ Names(r) \/ Write(r)
         \/ \E f \in farms : DeleteFarm(f)
<1>1. CASE \E t \in DOMAIN tabs :
             \/ \E id \in DOMAIN tabs[t].rows \cup {None} : Open(t, id)
             \/ EditInputs(t) \/ AddChain(t) \/ EditChain(t)
             \/ ToggleRecipe(t) \/ EditRecipe(t) \/ Cancel(t) \/ Reload(t)
  BY <1>1 DEF Open, EditInputs, AddChain, EditChain, ToggleRecipe, EditRecipe, Edit,
              Cancel, Reload
<1>2. CASE \E t \in DOMAIN tabs : Submit(t) \/ Delete(t) \/ Transition(t)
  BY <1>2, AskArrives
<1>3. CASE \E t \in DOMAIN tabs : Hear(t) \/ Miss(t)
  BY <1>3 DEF Hear, Miss
<1>4. CASE \E r \in Requests : Read(r) \/ Writes(r)
  BY <1>4 DEF Read, Writes
<1>5. CASE ClientAsks
  BY <1>5, ClientAssumption DEF ClientAsks
<1>6. CASE ClientHears \/ FarmDeleted
  BY <1>6 DEF ClientHears, FarmDeleted
<1>7. QED
  BY <1>1, <1>2, <1>3, <1>4, <1>5, <1>6 DEF Next

LEMMA NextIInv == IInv /\ [Next]_vars => IInv'
<1> SUFFICES ASSUME IInv, [Next]_vars PROVE ReqInv' /\ TableInv'
  BY DEF IInv, ReqInv, TableInv
<1>1. CASE UNCHANGED recordVars
  BY <1>1, Unchanged
<1>2. CASE \E r, c : Arrive(r, c) /\ (c.op = "create" => c.id = None)
  BY <1>2, Arrived
<1>3. CASE \E r : Settle(r)
  BY <1>3, Settled
<1>4. CASE \E r \in Requests : Find(r) \/ Names(r)
  <2>1. UNCHANGED data
    BY <1>4 DEF Find, Names
  <2>2. QED
    BY <1>4, <2>1, StepReqs, SameTables
<1>5. CASE \E r \in Requests : Write(r)
  BY <1>5, WriteReqs, WriteTables
<1>6. CASE \E f \in farms : DeleteFarm(f)
  <2>1. TableInv'
    BY <1>6, FarmTables
  <2>2. ReqInv'
    BY <1>6 DEF DeleteFarm, IInv, ReqInv, ReqsAreRecords, PendingOK
  <2>3. QED
    BY <2>1, <2>2
<1>7. UNCHANGED vars => UNCHANGED recordVars
  BY DEF vars
<1>8. QED
  BY <1>1, <1>2, <1>3, <1>4, <1>5, <1>6, <1>7, Steps
-----------------------------------------------------------------------------
LEMMA Invariant == Spec => []IInv
BY InitIInv, NextIInv, PTL DEF Spec

\* However many tabs and clients write at once: no two buildings of a farm get
\* one name, although each name was checked steps before it was written; nothing
\* that was on its way to a deleted farm is left behind; and the chains that are
\* stored are ones that can be calculated with.
THEOREM RowsStaySound == Spec => []RowsAreSound
<1>1. IInv => RowsAreSound
  BY DEF IInv, RowsAreSound
<1>2. QED
  BY <1>1, Invariant, PTL

LEMMA StepPatches ==
  ASSUME IInv, [Next]_vars
  PROVE  [\A i \in DOMAIN rows \cap DOMAIN rows' : rows'[i] # rows[i] =>
            \E r \in Requests : /\ Patching(r) /\ req[r].call.id = i
              /\ \A k \in DOMAIN rows[i].cols \ DOMAIN req[r].call.body :
                   rows'[i].cols[k] = rows[i].cols[k]]_recordVars
<1> SUFFICES ASSUME NEW i \in DOMAIN rows \cap DOMAIN rows', rows'[i] # rows[i]
             PROVE  \E r \in Requests : /\ Patching(r) /\ req[r].call.id = i
                      /\ \A k \in DOMAIN rows[i].cols \ DOMAIN req[r].call.body :
                           rows'[i].cols[k] = rows[i].cols[k]
  OBVIOUS
<1>1. \E r \in Requests : Update(r)
  <2>1. rows' # rows
    OBVIOUS
  <2>2. ~(UNCHANGED recordVars) /\ ~(\E f \in farms : DeleteFarm(f))
    BY <2>1 DEF recordVars, DeleteFarm
  <2>3. ~(\E r, c : Arrive(r, c)) /\ ~(\E r : Settle(r))
    BY <2>1 DEF Arrive, Settle, data
  <2>4. \A r \in Requests : ~Find(r) /\ ~Names(r) /\ ~PutState(r)
    BY <2>1 DEF Find, Names, PutState, data
  <2>5. \A r \in Requests : ~Erase(r)
    BY DEF Erase
  <2>6. \A r \in Requests, id \in Ids : ~Insert(r, id)
    BY <2>1 DEF Insert, IInv, RowsOK
  <2>7. UNCHANGED vars => UNCHANGED recordVars
    BY DEF vars
  <2>8. QED
    BY <2>2, <2>3, <2>4, <2>5, <2>6, <2>7, Steps DEF Write
<1>2. PICK r \in Requests : Update(r)
  BY <1>1
<1> DEFINE c == req[r].call
<1>3. Found(c) /\ rows' = [rows EXCEPT ![c.id].cols = Patched(@, c.body)]
  BY <1>2 DEF Update
<1>4. i = c.id
  BY <1>3 DEF IInv, RowsOK
<1>5. rows'[i].cols = Patched(rows[i].cols, c.body)
  BY <1>3, <1>4 DEF IInv, RowsOK
<1>6. \A k \in DOMAIN rows[i].cols \ DOMAIN c.body : rows'[i].cols[k] = rows[i].cols[k]
  BY <1>5, PatchedColumns
<1>7. QED
  BY <1>2, <1>4, <1>6 DEF Update

\* A write touches the columns its body names and no other, whatever was written
\* since the handler read the row.
THEOREM OnlyTheNamedColumns == Spec => PatchesKeepTheRest
BY Invariant, StepPatches, PTL DEF Spec, PatchesKeepTheRest
-----------------------------------------------------------------------------
(* The dialogs.                                                              *)
Tab(x) == x = [rows |-> x.rows, heard |-> x.heard, form |-> x.form, slug |-> x.slug]
Dialog(f) == f = [id |-> f.id, inputs |-> f.inputs, shared |-> f.shared,
                  edited |-> f.edited, stale |-> f.stale, made |-> f.made,
                  missed |-> f.missed]

TabsOK ==
  /\ tabs = [t \in DOMAIN tabs |-> tabs[t]] /\ DOMAIN tabs \subseteq Tabs
  /\ \A t \in DOMAIN tabs : Tab(tabs[t]) /\ (Form(t) # None => Dialog(Form(t)))

\* A dialog whose answers all arrived made no row, or has just made one and is
\* about to hear of it, which closes it.
Once(f, q) ==
  \/ f.missed
  \/ f.made = 0
  \/ f.made = 1 /\ q.at = "done" /\ q.answer = "ok"
OnceOK == \A t \in DOMAIN tabs : Form(t) # None => Once(Form(t), req[t])

DialogInv == TabsOK /\ OnceOK

LEMMA InitDialogs == Init => DialogInv
<1> SUFFICES ASSUME Init PROVE DialogInv
  OBVIOUS
<1>1. PICK there \in SUBSET Tabs :
        tabs = [t \in there |-> [rows |-> First[page], heard |-> First[page], form |-> None,
                                 slug |-> Empty]]
  BY DEF Init
<1>2. QED
  BY <1>1 DEF DialogInv, TabsOK, OnceOK, Tab, Form

\* The dialog of one tab changes, and neither what it made nor what it missed.
LEMMA OneTab ==
  ASSUME DialogInv, NEW t \in DOMAIN tabs,
         DOMAIN tabs' = DOMAIN tabs, tabs' = [u \in DOMAIN tabs |-> tabs'[u]],
         \A u \in DOMAIN tabs \ {t} : tabs'[u] = tabs[u],
         \A u \in DOMAIN tabs \ {t} : req'[u] = req[u],
         Tab(tabs'[t]),
         Form(t)' # None => Dialog(Form(t)') /\ Once(Form(t)', req'[t])
  PROVE  DialogInv'
<1>1. TabsOK'
  BY DEF DialogInv, TabsOK, Form
<1>2. OnceOK'
  BY DEF DialogInv, OnceOK, Form
<1>3. QED
  BY <1>1, <1>2 DEF DialogInv

\* No dialog changes, and a request is past "write" only if it was before.
LEMMA NoTab ==
  ASSUME DialogInv, tabs' = tabs,
         \A t \in DOMAIN tabs : req'[t] = req[t] \/ req[t].at # "done"
  PROVE  DialogInv'
<1>1. TabsOK'
  BY DEF DialogInv, TabsOK, Form
<1>2. OnceOK'
  BY DEF DialogInv, OnceOK, Form, Once
<1>3. QED
  BY <1>1, <1>2 DEF DialogInv

LEMMA OpenDialogs ==
  ASSUME DialogInv, NEW t \in DOMAIN tabs, NEW id, Open(t, id)
  PROVE  DialogInv'
<1> DEFINE row == tabs[t].rows[id]
           in == Opened(t, id)
           shared == IF id = None \/ page # "buildings" THEN {}
                     ELSE {c.id : c \in {c \in Range(row.chains) : c.inputs # None}}
           stale == id # None /\ ~(id \in DOMAIN rows /\ rows[id].cols = tabs[t].heard[id])
<1>1. tabs' = [tabs EXCEPT ![t].form =
        [id |-> id, inputs |-> in, shared |-> shared, edited |-> FALSE,
         stale |-> stale, made |-> 0, missed |-> FALSE]]
  BY DEF Open
<1> HIDE DEF in, shared, stale
<1>2. req' = req
  BY DEF Open, recordVars
<1>3. PICK f : f = [id |-> id, inputs |-> in, shared |-> shared, edited |-> FALSE,
                    stale |-> stale, made |-> 0, missed |-> FALSE]
  OBVIOUS
<1>4. Dialog(f) /\ f.made = 0
  BY <1>3 DEF Dialog
<1>5. tabs' = [tabs EXCEPT ![t].form = f]
  BY <1>1, <1>3
<1>6. tabs = [u \in DOMAIN tabs |-> tabs[u]] /\ Tab(tabs[t])
  BY DEF DialogInv, TabsOK
<1>7. /\ DOMAIN tabs' = DOMAIN tabs /\ tabs' = [u \in DOMAIN tabs |-> tabs'[u]]
      /\ \A u \in DOMAIN tabs \ {t} : tabs'[u] = tabs[u]
      /\ Tab(tabs'[t]) /\ Form(t)' = f
  BY <1>5, <1>6 DEF Tab, Form
<1>8. QED
  BY <1>2, <1>4, <1>7, OneTab DEF Once

\* What an edit does to the dialog: the inputs change, and it is noted.
LEMMA EditedDialogs ==
  ASSUME DialogInv, NEW t \in DOMAIN tabs,
         EditInputs(t) \/ AddChain(t) \/ EditChain(t) \/ ToggleRecipe(t)
           \/ EditRecipe(t)
  PROVE  DialogInv'
<1>1. /\ Form(t) # None /\ req' = req
      /\ tabs = [u \in DOMAIN tabs |-> tabs[u]]
      /\ Tab(tabs[t]) /\ Dialog(Form(t))
  BY DEF EditInputs, AddChain, EditChain, ToggleRecipe, EditRecipe, Edit,
         recordVars, DialogInv, TabsOK
<1> DEFINE Same == /\ DOMAIN tabs' = DOMAIN tabs
                   /\ tabs' = [u \in DOMAIN tabs |-> tabs'[u]]
                   /\ \A u \in DOMAIN tabs \ {t} : tabs'[u] = tabs[u]
                   /\ Tab(tabs'[t])
                   /\ Dialog(Form(t)')
                   /\ Form(t)'.made = Form(t).made
                   /\ Form(t)'.missed = Form(t).missed
<1>2. CASE EditInputs(t)
  <2>1. PICK in : tabs' = [tabs EXCEPT ![t].form.inputs = in, ![t].form.edited = TRUE]
    BY <1>2 DEF EditInputs
  <2>2. Same
    BY <1>1, <2>1 DEF Form, Tab, Dialog
  <2>3. QED
    BY <1>1, <2>2, OneTab DEF DialogInv, OnceOK, Once
<1>3. CASE AddChain(t) \/ EditChain(t)
  <2>1. PICK chains : tabs' = [tabs EXCEPT ![t].form.inputs.chains = chains,
                                           ![t].form.edited = TRUE]
    BY <1>3 DEF AddChain, EditChain, Rechained
  <2>2. Same
    BY <1>1, <2>1 DEF Form, Tab, Dialog
  <2>3. QED
    BY <1>1, <2>2, OneTab DEF DialogInv, OnceOK, Once
<1>4. CASE ToggleRecipe(t)
  <2>1. PICK i \in DOMAIN Form(t).inputs.chains :
          tabs' = [tabs EXCEPT ![t].form.inputs.chains[i] = Toggled(@),
                     ![t].form.shared = @ \ {Form(t).inputs.chains[i].id},
                     ![t].form.edited = TRUE]
    BY <1>4 DEF ToggleRecipe
  <2>2. Same
    BY <1>1, <2>1 DEF Form, Tab, Dialog
  <2>3. QED
    BY <1>1, <2>2, OneTab DEF DialogInv, OnceOK, Once
<1>5. CASE EditRecipe(t)
  <2>1. PICK i \in DOMAIN Form(t).inputs.chains :
          \E c \in RecipeEdits(Form(t).inputs.chains[i]) :
            tabs' = [tabs EXCEPT ![t].form.inputs.chains[i] = c,
                       ![t].form.edited = TRUE, ![t].rows = LeakedTo(@, Form(t), c)]
    BY <1>5 DEF EditRecipe
  <2>2. PICK c, m : tabs' = [tabs EXCEPT ![t].form.inputs.chains[i] = c,
                               ![t].form.edited = TRUE, ![t].rows = m]
    BY <2>1
  <2>3. PICK u : u = tabs[t]
    OBVIOUS
  <2>4. PICK f : f = u.form
    OBVIOUS
  <2>5. /\ Tab(u) /\ Dialog(f)
        /\ tabs' = [tabs EXCEPT ![t] = [u EXCEPT
                     !.form = [f EXCEPT !.inputs.chains[i] = c, !.edited = TRUE],
                     !.rows = m]]
    BY <1>1, <2>2, <2>3, <2>4 DEF Form
  <2>6. PICK g : g = [f EXCEPT !.inputs.chains[i] = c, !.edited = TRUE]
    OBVIOUS
  <2>7. Dialog(g) /\ g.made = f.made /\ g.missed = f.missed
    BY <2>5, <2>6 DEF Dialog
  <2>8. tabs' = [tabs EXCEPT ![t] = [u EXCEPT !.form = g, !.rows = m]]
    BY <2>5, <2>6
  <2>9. PICK w : w = [u EXCEPT !.form = g, !.rows = m]
    OBVIOUS
  <2>10. Tab(w) /\ w.form = g
    BY <2>5, <2>9 DEF Tab
  <2>11. tabs' = [tabs EXCEPT ![t] = w]
    BY <2>8, <2>9
  <2>12. /\ DOMAIN tabs' = DOMAIN tabs
         /\ tabs' = [v \in DOMAIN tabs |-> tabs'[v]]
         /\ \A v \in DOMAIN tabs \ {t} : tabs'[v] = tabs[v]
         /\ tabs'[t] = w
    BY <1>1, <2>11
  <2>13. Form(t) = f /\ Form(t)' = g
    BY <2>3, <2>4, <2>10, <2>12 DEF Form
  <2>14. Same
    BY <2>7, <2>10, <2>12, <2>13
  <2>15. QED
    BY <1>1, <2>14, OneTab DEF DialogInv, OnceOK, Once
<1>6. QED
  BY <1>2, <1>3, <1>4, <1>5

LEMMA ClosedDialogs ==
  ASSUME DialogInv, NEW t \in DOMAIN tabs, Cancel(t) \/ Reload(t)
  PROVE  DialogInv'
<1>1. /\ req' = req /\ tabs = [u \in DOMAIN tabs |-> tabs[u]] /\ Tab(tabs[t])
  BY DEF Cancel, Reload, recordVars, DialogInv, TabsOK
<1>2. /\ DOMAIN tabs' = DOMAIN tabs /\ tabs' = [u \in DOMAIN tabs |-> tabs'[u]]
      /\ \A u \in DOMAIN tabs \ {t} : tabs'[u] = tabs[u]
      /\ Tab(tabs'[t]) /\ Form(t)' = None
  BY <1>1 DEF Cancel, Reload, Form, Tab
<1>3. QED
  BY <1>1, <1>2, OneTab

LEMMA HeardDialogs ==
  ASSUME IInv, DialogInv, NEW t \in DOMAIN tabs, Hear(t) \/ Miss(t)
  PROVE  DialogInv'
<1>1. /\ tabs = [u \in DOMAIN tabs |-> tabs[u]] /\ Tab(tabs[t])
      /\ Form(t) # None => Dialog(Form(t)) /\ Once(Form(t), req[t])
      /\ req[t].at = "done"
      /\ \A u \in DOMAIN tabs \ {t} : req'[u] = req[u]
  <2>1. DOMAIN tabs \subseteq Requests
    BY RequestsAssumption DEF DialogInv, TabsOK
  <2>2. req' = [req EXCEPT ![t] = Idle] /\ req[t].at = "done"
    BY DEF Hear, Miss, Settle
  <2>3. \A u \in DOMAIN tabs \ {t} : req'[u] = req[u]
    BY <2>1, <2>2 DEF IInv, ReqsAreRecords
  <2>4. QED
    BY <2>2, <2>3 DEF DialogInv, TabsOK, OnceOK
<1>2. CASE Hear(t) /\ req[t].answer # "ok"
  <2>1. tabs' = tabs
    BY <1>2 DEF Hear
  <2>2. Form(t) # None => Once(Form(t), req'[t])
    BY <1>1, <1>2 DEF Once
  <2>3. QED
    BY <1>1, <2>1, <2>2, OneTab DEF Form
<1>3. CASE Hear(t) /\ req[t].answer = "ok"
  <2>1. tabs' = [tabs EXCEPT ![t] = [rows |-> Stored(t, tabs[t].rows),
                   heard |-> Stored(t, tabs[t].heard), form |-> None,
                   slug |-> LastSlug(t)]]
    BY <1>3 DEF Hear, Closed
  <2>2. /\ DOMAIN tabs' = DOMAIN tabs /\ tabs' = [u \in DOMAIN tabs |-> tabs'[u]]
        /\ \A u \in DOMAIN tabs \ {t} : tabs'[u] = tabs[u]
        /\ Tab(tabs'[t]) /\ Form(t)' = None
    BY <1>1, <2>1 DEF Form, Tab
  <2>3. QED
    BY <1>1, <2>2, OneTab
<1>4. CASE Miss(t) /\ Form(t) = None
  <2>1. tabs' = tabs
    BY <1>4 DEF Miss
  <2>2. QED
    BY <1>1, <1>4, <2>1, OneTab DEF Form
<1>5. CASE Miss(t) /\ Form(t) # None
  <2>1. tabs' = [tabs EXCEPT ![t].form.missed = TRUE]
    BY <1>5 DEF Miss
  <2>2. /\ DOMAIN tabs' = DOMAIN tabs /\ tabs' = [u \in DOMAIN tabs |-> tabs'[u]]
        /\ \A u \in DOMAIN tabs \ {t} : tabs'[u] = tabs[u]
        /\ Tab(tabs'[t]) /\ Dialog(Form(t)')
        /\ Form(t)'.missed
    BY <1>1, <1>5, <2>1 DEF Form, Tab, Dialog
  <2>3. QED
    BY <1>1, <2>2, OneTab DEF Once
<1>6. QED
  BY <1>2, <1>3, <1>4, <1>5

LEMMA AskedDialogs ==
  ASSUME IInv, DialogInv, NEW t \in DOMAIN tabs,
         Submit(t) \/ Delete(t) \/ Transition(t)
  PROVE  DialogInv'
<1>1. PICK c : Arrive(t, c)
  BY AskArrives
<1>2. tabs' = tabs
  BY DEF Submit, Delete, Transition, Ask
<1>3. \A u \in DOMAIN tabs : req'[u] = req[u] \/ req[u].at # "done"
  BY <1>1, RequestsAssumption DEF Arrive, IInv, ReqsAreRecords, DialogInv, TabsOK
<1>4. QED
  BY <1>2, <1>3, NoTab

LEMMA ReadDialogs ==
  ASSUME IInv, DialogInv, NEW r \in Requests, Read(r)
  PROVE  DialogInv'
<1>1. /\ tabs' = tabs /\ req[r].at # "done"
      /\ \E q : req' = [req EXCEPT ![r] = q]
  BY DEF Read, Find, Judge, Move, Names, Checked, Answer, AnswerRow, Go
<1>2. \A u \in DOMAIN tabs : req'[u] = req[u] \/ req[u].at # "done"
  BY <1>1, RequestsAssumption DEF IInv, ReqsAreRecords, DialogInv, TabsOK
<1>3. QED
  BY <1>1, <1>2, NoTab

LEMMA ClientDialogs ==
  ASSUME IInv, DialogInv, ClientAsks \/ ClientHears
  PROVE  DialogInv'
<1>1. tabs' = tabs /\ \E q : req' = [req EXCEPT ![Client] = q]
  BY DEF ClientAsks, ClientHears, Arrive, Settle
<1>2. \A u \in DOMAIN tabs : req'[u] = req[u]
  BY <1>1, RequestsAssumption DEF IInv, ReqsAreRecords, DialogInv, TabsOK
<1>3. QED
  BY <1>1, <1>2, NoTab

\* All dialogs are noted on at once, each by itself.
LEMMA EveryTab ==
  ASSUME DialogInv, DOMAIN tabs' = DOMAIN tabs,
         tabs' = [t \in DOMAIN tabs |-> tabs'[t]],
         \A t \in DOMAIN tabs :
           /\ Tab(tabs'[t])
           /\ tabs'[t].form # None =>
                Dialog(tabs'[t].form) /\ Once(tabs'[t].form, req'[t])
  PROVE  DialogInv'
<1>1. TabsOK'
  BY DEF DialogInv, TabsOK, Form
<1>2. OnceOK'
  BY DEF OnceOK, Form
<1>3. QED
  BY <1>1, <1>2 DEF DialogInv

\* What is noted of a write: a row made, or a row that is not what it was.
LEMMA WrittenDialogs ==
  ASSUME IInv, DialogInv, NEW r \in Requests, Writes(r)
  PROVE  DialogInv'
<1>1. /\ tabs' = [t \in DOMAIN tabs |-> Noted(r, t)]
      /\ req[r].at = "write" /\ req'[r].at = "done"
      /\ \A t \in DOMAIN tabs \ {r} : req'[t] = req[t]
  <2>1. req[r].at = "write" /\ Write(r)
    BY DEF Writes, Write, Insert, Update, Patching, Erase, PutState, At
  <2>2. PICK q : q.at = "done" /\ req' = [req EXCEPT ![r] = q]
    BY <2>1, WriteAnswers
  <2>3. req'[r].at = "done" /\ \A t \in DOMAIN tabs \ {r} : req'[t] = req[t]
    BY <2>2, RequestsAssumption DEF IInv, ReqsAreRecords, DialogInv, TabsOK
  <2>4. QED
    BY <2>1, <2>3 DEF Writes
<1>2. DOMAIN tabs' = DOMAIN tabs /\ \A t \in DOMAIN tabs : tabs'[t] = Noted(r, t)
  BY <1>1
<1>3. ASSUME NEW t \in DOMAIN tabs, Form(t) = None
      PROVE  Tab(tabs'[t]) /\ tabs'[t].form = None
  BY <1>2, <1>3 DEF Noted, DialogInv, TabsOK, Form
<1>4. ASSUME NEW t \in DOMAIN tabs, Form(t) # None
      PROVE  Tab(tabs'[t]) /\ Dialog(tabs'[t].form) /\ Once(tabs'[t].form, req'[t])
  <2>1. Tab(tabs[t]) /\ Dialog(Form(t)) /\ Once(Form(t), req[t])
    BY <1>4 DEF DialogInv, TabsOK, OnceOK
  <2> DEFINE stale == Form(t).stale \/ (t # r /\ req[r].call.id = Form(t).id)
             made == IF t = r /\ req[r].call.op = "create" /\ req'[r].answer = "ok"
                     THEN Form(t).made + 1 ELSE Form(t).made
  <2>2. made = IF t = r /\ req[r].call.op = "create" /\ req'[r].answer = "ok"
               THEN Form(t).made + 1 ELSE Form(t).made
    OBVIOUS
  <2>3. tabs'[t] = [tabs[t] EXCEPT !.form.stale = stale, !.form.made = made]
    BY <1>2, <1>4 DEF Noted, Form
  <2> HIDE DEF stale, made
  <2>4. /\ Tab(tabs'[t]) /\ Dialog(tabs'[t].form)
        /\ tabs'[t].form.made = made /\ tabs'[t].form.missed = Form(t).missed
    <3>1. tabs'[t] = [tabs[t] EXCEPT !.form = [Form(t) EXCEPT !.stale = stale, !.made = made]]
      BY <2>1, <2>3 DEF Form
    <3>2. PICK f : f = [Form(t) EXCEPT !.stale = stale, !.made = made]
      OBVIOUS
    <3>3. Dialog(f)
      BY <2>1, <3>2 DEF Dialog
    <3>4. f.made = made
      BY <2>1, <3>2 DEF Dialog
    <3>5. f.missed = Form(t).missed
      BY <2>1, <3>2 DEF Dialog
    <3>6. Tab(tabs'[t]) /\ tabs'[t].form = f
      BY <2>1, <3>1, <3>2 DEF Tab
    <3>7. QED
      BY <3>3, <3>4, <3>5, <3>6
  <2>5. CASE t # r
    BY <1>1, <2>1, <2>2, <2>4, <2>5 DEF Once
  <2>6. CASE t = r
    <3>1. Form(t).missed \/ Form(t).made = 0
      BY <1>1, <2>1, <2>6 DEF Once
    <3>2. tabs'[t].form.missed \/ made = 0 \/ (made = 1 /\ req'[r].answer = "ok")
      BY <2>2, <2>4, <3>1
    <3>3. QED
      BY <1>1, <2>4, <2>6, <3>2 DEF Once
  <2>7. QED
    BY <2>4, <2>5, <2>6
<1>5. QED
  BY <1>1, <1>2, <1>3, <1>4, EveryTab

LEMMA FarmDialogs ==
  ASSUME IInv, DialogInv, FarmDeleted
  PROVE  DialogInv'
<1>1. /\ tabs' = [t \in DOMAIN tabs |-> IF Form(t) = None THEN tabs[t]
                    ELSE [tabs[t] EXCEPT !.form.stale = TRUE]]
      /\ req' = req
  BY DEF FarmDeleted, DeleteFarm
<1>2. ASSUME NEW t \in DOMAIN tabs
      PROVE  /\ Tab(tabs'[t])
             /\ tabs'[t].form # None =>
                  Dialog(tabs'[t].form) /\ Once(tabs'[t].form, req'[t])
  <2>1. CASE Form(t) = None
    BY <1>1, <2>1 DEF DialogInv, TabsOK, Form
  <2>2. CASE Form(t) # None
    <3>1. tabs'[t] = [tabs[t] EXCEPT !.form.stale = TRUE]
      BY <1>1, <2>2
    <3>2. Tab(tabs[t]) /\ Dialog(Form(t)) /\ Once(Form(t), req[t])
      BY <2>2 DEF DialogInv, TabsOK, OnceOK
    <3>3. PICK u : u = tabs[t]
      OBVIOUS
    <3>4. Tab(u) /\ Dialog(u.form)
      BY <3>2, <3>3 DEF Form
    <3>5. PICK f : f = [u.form EXCEPT !.stale = TRUE]
      OBVIOUS
    <3>6. Dialog(f) /\ f.made = u.form.made /\ f.missed = u.form.missed
      BY <3>4, <3>5 DEF Dialog
    <3>7. tabs'[t] = [u EXCEPT !.form = f]
      BY <3>1, <3>3, <3>5
    <3>8. Tab(tabs'[t]) /\ tabs'[t].form = f
      BY <3>4, <3>7 DEF Tab
    <3>9. QED
      BY <1>1, <3>2, <3>3, <3>6, <3>8 DEF Once, Form
  <2>3. QED
    BY <2>1, <2>2
<1>3. QED
  BY <1>1, <1>2, EveryTab

LEMMA NextDialogs == IInv /\ DialogInv /\ [Next]_vars => DialogInv'
<1> SUFFICES ASSUME IInv, DialogInv, [Next]_vars PROVE DialogInv'
  OBVIOUS
<1>1. CASE \E t \in DOMAIN tabs : \E id \in DOMAIN tabs[t].rows \cup {None} : Open(t, id)
  BY <1>1, OpenDialogs
<1>2. CASE \E t \in DOMAIN tabs : EditInputs(t) \/ AddChain(t) \/ EditChain(t)
                                  \/ ToggleRecipe(t) \/ EditRecipe(t)
  BY <1>2, EditedDialogs
<1>3. CASE \E t \in DOMAIN tabs : Cancel(t) \/ Reload(t)
  BY <1>3, ClosedDialogs
<1>4. CASE \E t \in DOMAIN tabs : Submit(t) \/ Delete(t) \/ Transition(t)
  BY <1>4, AskedDialogs
<1>5. CASE \E t \in DOMAIN tabs : Hear(t) \/ Miss(t)
  BY <1>5, HeardDialogs
<1>6. CASE \E r \in Requests : Read(r)
  BY <1>6, ReadDialogs
<1>7. CASE \E r \in Requests : Writes(r)
  BY <1>7, WrittenDialogs
<1>8. CASE ClientAsks \/ ClientHears
  BY <1>8, ClientDialogs
<1>9. CASE FarmDeleted
  BY <1>9, FarmDialogs
<1>10. CASE UNCHANGED vars
  BY <1>10, NoTab DEF vars, recordVars
<1>11. QED
  BY <1>1, <1>2, <1>3, <1>4, <1>5, <1>6, <1>7, <1>8, <1>9, <1>10 DEF Next

LEMMA DialogInvariant == Spec => [](IInv /\ DialogInv)
BY InitIInv, NextIInv, InitDialogs, NextDialogs, PTL DEF Spec

\* A dialog creates one row, however often it is saved and whoever else writes,
\* unless an answer is lost and the user saves again.
THEOREM OneRowPerSave == Spec => []OneRowPerDialog
<1>1. DialogInv => OneRowPerDialog
  <2> SUFFICES ASSUME DialogInv, NEW t \in DOMAIN tabs, Form(t) # None,
                      Form(t).made > 1
               PROVE  Form(t).missed
    BY DEF OneRowPerDialog
  <2>1. Once(Form(t), req[t])
    BY DEF DialogInv, OnceOK
  <2>2. QED
    BY <2>1 DEF Once
<1>2. QED
  BY <1>1, DialogInvariant, PTL
-----------------------------------------------------------------------------
(* What leaks from a dialog into the page.                                   *)

\* A building as the API tells it: the chains have ids, and each one its own.
Told(row) ==
  /\ "chains" \in DOMAIN row
  /\ \A i \in DOMAIN row.chains : "id" \in DOMAIN row.chains[i]
  /\ \A i, j \in DOMAIN row.chains : row.chains[i].id = row.chains[j].id => i = j

\* A row of a tab, on page p, and what the API told of it last.
Pair(p, row, heard) ==
  IF p = "buildings" THEN Told(heard) /\ OnlyRecipes(row, heard) ELSE row = heard
Pairs(p, x) ==
  /\ DOMAIN x.rows = DOMAIN x.heard
  /\ \A id \in DOMAIN x.rows : Pair(p, x.rows[id], x.heard[id])

\* The chains a dialog shares with its row have recipes of their own there.
SharesRecipes(shared, heard) ==
  \A i \in DOMAIN heard.chains :
    heard.chains[i].id \in shared => heard.chains[i].inputs # None
Shares(p, x) ==
  p = "buildings" /\ x.form # None /\ x.form.id \in DOMAIN x.rows =>
    SharesRecipes(x.form.shared, x.heard[x.form.id])

RowKnown(p, x) == x.kind = p /\ (p = "buildings" => "chains" \in DOMAIN x.cols)
\* The operations that are answered with the row.
RowCalls == {"create", "update"} \cup Transitions
CallKnown(p, r, c) ==
  /\ c.op = "create" => c.kind = p /\ (p = "buildings" => "chains" \in DOMAIN c.body)
  /\ r # Client => c.op \in RowCalls \cup {"remove"}
AnswerKnown(p, q) ==
  p = "buildings" /\ q.at = "done" /\ q.answer = "ok" /\ q.call.op \in RowCalls
    => Told(q.got.cols)
ReqKnown(p, r, q) ==
  q.at # "idle" => CallKnown(p, r, q.call) /\ AnswerKnown(p, q)

RowsKnown == \A i \in DOMAIN rows : RowKnown(page, rows[i])
ReqsKnown == \A r \in Requests : ReqKnown(page, r, req[r])
TabsLeak == \A t \in DOMAIN tabs : Pairs(page, tabs[t]) /\ Shares(page, tabs[t])
LeakInv == RowsKnown /\ ReqsKnown /\ TabsLeak

LEMMA SoundIsTold ==
  ASSUME NEW row, "chains" \in DOMAIN row, AcceptsBuilding(row), ChainIdsApart(row)
  PROVE  Told(row)
BY DEF Told, AcceptsBuilding, ChainIdsApart, Usable

LEMMA StoredIsTold ==
  ASSUME IInv, RowsKnown, page = "buildings", NEW i \in DOMAIN rows
  PROVE  Told(rows[i].cols)
<1>1. rows[i].kind = "buildings" /\ "chains" \in DOMAIN rows[i].cols
  BY DEF RowsKnown, RowKnown
<1>2. AcceptsBuilding(rows[i].cols) /\ ChainIdsApart(rows[i].cols)
  BY <1>1 DEF IInv, StoredChainsAreSound
<1>3. PICK row : row = rows[i].cols
  OBVIOUS
<1>4. Told(row)
  BY <1>1, <1>2, <1>3, SoundIsTold
<1>5. QED
  BY <1>3, <1>4

LEMMA SameRow ==
  ASSUME NEW p, NEW row, p = "buildings" => Told(row)
  PROVE  Pair(p, row, row)
BY DEF Pair, OnlyRecipes

\* A recipe that gets out leaves the row one in which only recipes differ.
LEMMA LeakedRow ==
  ASSUME NEW row, NEW heard, NEW c, Told(heard), OnlyRecipes(row, heard),
         SharesRecipes({c.id}, heard)
  PROVE  OnlyRecipes(Leaked(row, c), heard)
<1>1. /\ [row EXCEPT !.chains = <<>>] = [heard EXCEPT !.chains = <<>>]
      /\ DOMAIN row.chains = DOMAIN heard.chains
  BY DEF OnlyRecipes
<1>2. "chains" \in DOMAIN row
  <2>1. DOMAIN row = DOMAIN heard
    BY <1>1
  <2>2. QED
    BY <2>1 DEF Told
<1>3. PICK w : w = WithRecipe(row.chains, c)
  OBVIOUS
<1>4. PICK new : new = Leaked(row, c)
  OBVIOUS
<1>5. new = [row EXCEPT !.chains = w]
  BY <1>3, <1>4 DEF Leaked
<1>6. new.chains = w /\ [new EXCEPT !.chains = <<>>] = [row EXCEPT !.chains = <<>>]
  BY <1>2, <1>5
<1>7. /\ DOMAIN w = DOMAIN row.chains
      /\ \A i \in DOMAIN w : w[i] = IF row.chains[i].id # c.id THEN row.chains[i]
            ELSE [row.chains[i] EXCEPT !.inputs = c.inputs, !.outputs = c.outputs]
  BY <1>3 DEF WithRecipe
<1>8. ASSUME NEW i \in DOMAIN w
      PROVE  \/ w[i] = heard.chains[i]
             \/ /\ heard.chains[i].inputs # None
                /\ w[i] = [heard.chains[i] EXCEPT !.inputs = w[i].inputs,
                                                  !.outputs = w[i].outputs]
  <2>1. PICK x : x = row.chains[i]
    OBVIOUS
  <2>2. PICK d : d = heard.chains[i]
    OBVIOUS
  <2>3. \/ x = d
        \/ d.inputs # None /\ x = [d EXCEPT !.inputs = x.inputs, !.outputs = x.outputs]
    BY <1>1, <1>7, <2>1, <2>2 DEF OnlyRecipes
  <2>4. "id" \in DOMAIN d
    BY <1>1, <1>7, <2>2 DEF Told
  <2>5. x.id = d.id
    BY <2>3, <2>4
  <2>6. CASE x.id # c.id
    BY <1>7, <2>1, <2>2, <2>3, <2>6
  <2>7. CASE x.id = c.id
    <3>1. d.inputs # None
      BY <1>1, <1>7, <2>2, <2>5, <2>7 DEF SharesRecipes
    <3>2. PICK y : y = [x EXCEPT !.inputs = c.inputs, !.outputs = c.outputs]
      OBVIOUS
    <3>3. y = [d EXCEPT !.inputs = y.inputs, !.outputs = y.outputs]
      BY <2>3, <3>2
    <3>4. w[i] = y
      BY <1>7, <2>1, <2>7, <3>2
    <3>5. QED
      BY <2>2, <3>1, <3>3, <3>4
  <2>8. QED
    BY <2>6, <2>7
<1>9. OnlyRecipes(new, heard)
  BY <1>1, <1>6, <1>7, <1>8 DEF OnlyRecipes
<1>10. QED
  BY <1>4, <1>9

LEMMA InitLeak == Init => LeakInv
<1> SUFFICES ASSUME Init PROVE LeakInv
  OBVIOUS
<1>1. PICK first : first = First[page]
  OBVIOUS
<1>2. /\ page \in DOMAIN First
      /\ rows = [i \in DOMAIN first |-> [kind |-> page, farm |-> Farm, cols |-> first[i]]]
      /\ req = [r \in Requests |-> Idle]
      /\ \A t \in DOMAIN tabs :
           tabs[t] = [rows |-> first, heard |-> first, form |-> None, slug |-> Empty]
  BY <1>1 DEF Init
<1>3. page = "buildings" => \A i \in DOMAIN first :
        /\ "chains" \in DOMAIN first[i]
        /\ AcceptsBuilding(first[i]) /\ ChainIdsApart(first[i])
  BY <1>1, <1>2, FirstAssumption
<1>4. \A i \in DOMAIN first : page = "buildings" => Told(first[i])
  BY <1>3, SoundIsTold
<1>5. RowsKnown
  BY <1>2, <1>3 DEF RowsKnown, RowKnown
<1>6. ReqsKnown
  BY <1>2 DEF ReqsKnown, ReqKnown, Idle
<1>7. \A i \in DOMAIN first : Pair(page, first[i], first[i])
  BY <1>4, SameRow
<1>8. TabsLeak
  BY <1>2, <1>7 DEF TabsLeak, Pairs, Shares
<1>9. QED
  BY <1>5, <1>6, <1>8 DEF LeakInv

\* The rows of the API.
LEMMA StepRowsKnown ==
  ASSUME IInv, LeakInv, [Next]_vars, page' = page
  PROVE  RowsKnown'
<1>1. CASE rows' = rows
  BY <1>1 DEF LeakInv, RowsKnown
<1>2. CASE \E S \in SUBSET DOMAIN rows : rows' = [i \in S |-> rows[i]]
  BY <1>2 DEF LeakInv, RowsKnown
<1>3. ASSUME NEW r \in Requests, Update(r)
      PROVE  RowsKnown'
  <2>1. PICK c, row : c = req[r].call /\ row = rows[c.id]
    OBVIOUS
  <2>2. CASE ~(Found(c) /\ ~Violates(c))
    <3>1. rows' = rows
      BY <1>3, <2>1, <2>2 DEF Update
    <3>2. QED
      BY <1>1, <3>1
  <2>3. CASE Found(c) /\ ~Violates(c)
    <3>1. PICK new : new = Patched(row.cols, c.body)
      OBVIOUS
    <3>2. rows' = [rows EXCEPT ![c.id].cols = new]
      BY <1>3, <2>1, <2>3, <3>1 DEF Update
    <3>3. DOMAIN new = DOMAIN row.cols
      BY <3>1, PatchedColumns
    <3>4. c.id \in DOMAIN rows
      BY <2>3 DEF Found
    <3>5. /\ rows = [i \in DOMAIN rows |-> rows[i]]
          /\ row = [kind |-> row.kind, farm |-> row.farm, cols |-> row.cols]
      BY <2>1, <3>4 DEF IInv, RowsOK
    <3>6. RowKnown(page, row)
      BY <2>1, <3>4 DEF LeakInv, RowsKnown
    <3>7. PICK x : x = [row EXCEPT !.cols = new]
      OBVIOUS
    <3>8. RowKnown(page, x)
      BY <3>3, <3>5, <3>6, <3>7 DEF RowKnown
    <3>9. rows' = [rows EXCEPT ![c.id] = x]
      BY <2>1, <3>2, <3>7
    <3>10. /\ DOMAIN rows' = DOMAIN rows
           /\ \A i \in DOMAIN rows : rows'[i] = IF i = c.id THEN x ELSE rows[i]
      BY <3>5, <3>9
    <3>11. QED
      BY <3>8, <3>10 DEF LeakInv, RowsKnown
  <2>4. QED
    BY <2>2, <2>3
<1>4. ASSUME NEW r \in Requests, NEW id, Insert(r, id)
      PROVE  RowsKnown'
  <2>1. PICK c : c = req[r].call
    OBVIOUS
  <2>2. RowKnown(page, [kind |-> c.kind, farm |-> c.farm, cols |-> Completed(c)])
    <3>1. ReqKnown(page, r, req[r]) /\ req[r].at = "write" /\ c.op = "create"
      BY <1>4, <2>1 DEF LeakInv, ReqsKnown, Insert, At
    <3>2. CallKnown(page, r, c)
      BY <2>1, <3>1 DEF ReqKnown
    <3>3. c.kind # "fields" => Completed(c) = c.body
      BY CompletedColumns
    <3>4. QED
      BY <3>1, <3>2, <3>3 DEF RowKnown, CallKnown
  <2>3. PICK x : x = [kind |-> c.kind, farm |-> c.farm, cols |-> Completed(c)]
    OBVIOUS
  <2>4. rows' = rows \/ rows' = [i \in DOMAIN rows \cup {id} |-> IF i = id THEN x ELSE rows[i]]
    BY <1>4, <2>1, <2>3 DEF Insert
  <2>5. QED
    BY <2>2, <2>3, <2>4 DEF LeakInv, RowsKnown
<1>5. ASSUME NEW r \in Requests, Erase(r)
      PROVE  RowsKnown'
  BY <1>2, <1>5 DEF Erase
<1>6. ASSUME NEW f, DeleteFarm(f)
      PROVE  RowsKnown'
  BY <1>2, <1>6 DEF DeleteFarm
<1>7. CASE UNCHANGED recordVars \/ UNCHANGED data
  BY <1>1, <1>7 DEF recordVars, data
<1>8. CASE \E r \in Requests : Write(r)
  <2>1. \A r \in Requests : PutState(r) => rows' = rows
    BY DEF PutState
  <2>2. QED
    BY <1>1, <1>3, <1>4, <1>5, <1>8, <2>1 DEF Write
<1>9. QED
  <2>1. (\E r, c : Arrive(r, c)) \/ (\E r : Settle(r)) => UNCHANGED data
    BY DEF Arrive, Settle
  <2>2. (\E r \in Requests : Find(r) \/ Names(r)) => UNCHANGED data
    BY DEF Find, Names
  <2>3. UNCHANGED vars => UNCHANGED recordVars
    BY DEF vars
  <2>4. QED
    BY <1>6, <1>7, <1>8, <2>1, <2>2, <2>3, Steps

LEMMA SamePage == ASSUME [Next]_vars PROVE page' = page
BY DEF Next, vars, Open, EditInputs, AddChain, EditChain, ToggleRecipe, EditRecipe, Edit,
       Cancel, Submit, Delete, Transition, Ask, Hear, Miss, Settle, Reload, Read, Writes,
       ClientAsks, ClientHears, FarmDeleted

(* The requests and what they are answered.                                  *)
LEMMA OneRequest ==
  ASSUME IInv, LeakInv, page' = page, NEW r, NEW q,
         req' = [req EXCEPT ![r] = q], ReqKnown(page, r, q)
  PROVE  ReqsKnown'
BY DEF IInv, ReqsAreRecords, LeakInv, ReqsKnown

LEMMA ArriveKnown ==
  ASSUME IInv, LeakInv, page' = page, NEW r, NEW c, Arrive(r, c), CallKnown(page, r, c)
  PROVE  ReqsKnown'
<1>1. PICK q : q = [at |-> IF Refusal(c) = None THEN FirstStep(c) ELSE "done",
                    call |-> c, answer |-> Refusal(c), got |-> None]
  OBVIOUS
<1>2. req' = [req EXCEPT ![r] = q]
  BY <1>1 DEF Arrive
<1>3. Refusal(c) # "ok" \/ Refusal(c) = None
  BY DEF Refusal
<1>4. FirstStep(c) # "done"
  BY DEF FirstStep
<1>5. AnswerKnown(page, q)
  BY <1>1, <1>3, <1>4 DEF AnswerKnown
<1>6. ReqKnown(page, r, q)
  BY <1>1, <1>5 DEF ReqKnown
<1>7. QED
  BY <1>2, <1>6, OneRequest

LEMMA AskedKnown ==
  ASSUME IInv, LeakInv, DialogInv, page' = page, NEW t \in DOMAIN tabs,
         Submit(t) \/ Delete(t) \/ Transition(t)
  PROVE  ReqsKnown'
<1>1. t # Client
  BY RequestsAssumption DEF DialogInv, TabsOK
<1>2. CASE Submit(t)
  <2>1. PICK c : c = [op |-> IF Form(t).id = None THEN "create" ELSE "update",
                      kind |-> page, farm |-> Farm, id |-> Form(t).id,
                      body |-> Body(Form(t).inputs)]
    OBVIOUS
  <2>2. Arrive(t, c)
    BY <1>2, <2>1 DEF Submit, Ask
  <2>3. page = "buildings" => "chains" \in DOMAIN Body(Form(t).inputs)
    BY DEF Body, BuildingBody
  <2>4. CallKnown(page, t, c)
    BY <2>1, <2>3 DEF CallKnown, RowCalls
  <2>5. QED
    BY <2>2, <2>4, ArriveKnown
<1>3. CASE Delete(t)
  <2>1. PICK id \in DOMAIN tabs[t].rows : Ask(t, "remove", id, None)
    BY <1>3 DEF Delete
  <2>2. PICK c : c = [op |-> "remove", kind |-> page, farm |-> Farm, id |-> id,
                      body |-> None]
    OBVIOUS
  <2>3. Arrive(t, c)
    BY <2>1, <2>2 DEF Ask
  <2>4. CallKnown(page, t, c)
    BY <2>2 DEF CallKnown
  <2>5. QED
    BY <2>3, <2>4, ArriveKnown
<1>4. CASE Transition(t)
  <2>1. PICK id \in DOMAIN tabs[t].rows, op \in Transitions : Ask(t, op, id, None)
    BY <1>4 DEF Transition
  <2>2. PICK c : c = [op |-> op, kind |-> page, farm |-> Farm, id |-> id, body |-> None]
    OBVIOUS
  <2>3. Arrive(t, c)
    BY <2>1, <2>2 DEF Ask
  <2>4. CallKnown(page, t, c)
    BY <2>2 DEF CallKnown, RowCalls, Transitions
  <2>5. QED
    BY <2>3, <2>4, ArriveKnown
<1>5. QED
  BY <1>2, <1>3, <1>4

LEMMA ClientKnown ==
  ASSUME IInv, LeakInv, page' = page, ClientAsks
  PROVE  ReqsKnown'
<1>1. PICK c \in ClientCalls : Arrive(Client, c)
  BY DEF ClientAsks
<1>2. CallKnown(page, Client, c)
  BY ClientAssumption DEF CallKnown
<1>3. QED
  BY <1>1, <1>2, ArriveKnown

LEMMA SettledKnown ==
  ASSUME IInv, LeakInv, page' = page, NEW r, Settle(r)
  PROVE  ReqsKnown'
<1>1. ReqKnown(page, r, Idle)
  BY DEF ReqKnown, Idle
<1>2. req' = [req EXCEPT ![r] = Idle]
  BY DEF Settle
<1>3. PICK q : q = Idle
  OBVIOUS
<1>4. QED
  BY <1>1, <1>2, <1>3, OneRequest

\* An error is no row, a deletion answers none; neither does a step on the way.
LEMMA NoRowKnown ==
  ASSUME IInv, LeakInv, page' = page, NEW r \in Requests, req[r].at # "idle",
         \/ \E a : /\ a # "ok" \/ req[r].call.op \notin RowCalls
                  /\ Answer(r, a)
         \/ \E s : s # "done" /\ Go(r, s)
  PROVE  ReqsKnown'
<1>1. PICK q : q = req[r]
  OBVIOUS
<1>2. Record(q) /\ CallKnown(page, r, q.call)
  BY <1>1 DEF IInv, ReqsAreRecords, LeakInv, ReqsKnown, ReqKnown
<1>3. ASSUME NEW a, a # "ok" \/ q.call.op \notin RowCalls, Answer(r, a)
      PROVE  ReqsKnown'
  <2>1. PICK new : new = [q EXCEPT !.at = "done", !.answer = a]
    OBVIOUS
  <2>2. req' = [req EXCEPT ![r] = new]
    BY <1>1, <1>3, <2>1 DEF Answer
  <2>3. new = [at |-> "done", call |-> q.call, answer |-> a, got |-> q.got]
    BY <1>2, <2>1, RecordUpdates
  <2>4. ReqKnown(page, r, new)
    BY <1>2, <1>3, <2>3 DEF ReqKnown, AnswerKnown
  <2>5. QED
    BY <2>2, <2>4, OneRequest
<1>4. ASSUME NEW s, s # "done", Go(r, s)
      PROVE  ReqsKnown'
  <2>1. PICK new : new = [q EXCEPT !.at = s]
    OBVIOUS
  <2>2. req' = [req EXCEPT ![r] = new]
    BY <1>1, <1>4, <2>1 DEF Go
  <2>3. new.at = s /\ new.call = q.call
    BY <1>2, <2>1 DEF Record
  <2>4. ReqKnown(page, r, new)
    BY <1>2, <1>4, <2>3 DEF ReqKnown, AnswerKnown
  <2>5. QED
    BY <2>2, <2>4, OneRequest
<1>5. QED
  BY <1>1, <1>3, <1>4

LEMMA RowAnswerKnown ==
  ASSUME IInv, LeakInv, page' = page, NEW r \in Requests, req[r].at # "idle",
         NEW id, NEW row, AnswerRow(r, id, row),
         page = "buildings" => Told(row)
  PROVE  ReqsKnown'
<1>1. PICK q : q = req[r]
  OBVIOUS
<1>2. Record(q) /\ CallKnown(page, r, q.call)
  BY <1>1 DEF IInv, ReqsAreRecords, LeakInv, ReqsKnown, ReqKnown
<1>3. PICK g : g = [id |-> id, cols |-> row]
  OBVIOUS
<1>4. PICK new : new = [q EXCEPT !.at = "done", !.answer = "ok", !.got = g]
  OBVIOUS
<1>5. req' = [req EXCEPT ![r] = new]
  BY <1>1, <1>3, <1>4 DEF AnswerRow
<1>6. new = [at |-> "done", call |-> q.call, answer |-> "ok", got |-> g]
  BY <1>2, <1>4, RecordUpdates
<1>7. ReqKnown(page, r, new)
  BY <1>2, <1>3, <1>6 DEF ReqKnown, AnswerKnown
<1>8. QED
  BY <1>5, <1>7, OneRequest

LEMMA ReadKnown ==
  ASSUME IInv, LeakInv, page' = page, NEW r \in Requests, Read(r)
  PROVE  ReqsKnown'
<1>1. PICK c : c = req[r].call
  OBVIOUS
<1>2. req[r].at # "idle" /\ (Find(r) \/ Names(r))
  BY DEF Read, Find, Names
<1>3. \/ \E a : a # "ok" /\ Answer(r, a)
      \/ \E s : s # "done" /\ Go(r, s)
      \/ Found(c) /\ AnswerRow(r, c.id, rows[c.id].cols)
      \/ c.op \in Transitions /\ Move(r, rows[c.id].cols)
  BY <1>1, <1>2 DEF Find, Names, Judge, Checked
<1>4. CASE Found(c) /\ AnswerRow(r, c.id, rows[c.id].cols)
  <2>1. c.id \in DOMAIN rows
    BY <1>4 DEF Found
  <2>2. page = "buildings" => Told(rows[c.id].cols)
    BY <2>1, StoredIsTold DEF LeakInv
  <2>3. PICK id, row : id = c.id /\ row = rows[c.id].cols
    OBVIOUS
  <2>4. AnswerRow(r, id, row)
    BY <1>4, <2>3
  <2>5. QED
    BY <1>2, <2>2, <2>3, <2>4, RowAnswerKnown
<1>5. ASSUME c.op \in Transitions, Move(r, rows[c.id].cols), ~(\E a : a # "ok" /\ Answer(r, a))
      PROVE  ReqsKnown'
  <2>1. PICK row : row = rows[c.id].cols
    OBVIOUS
  <2>2. PICK d : d = With(c, Moved(c.op, row))
    OBVIOUS
  <2>3. req' = [req EXCEPT ![r].at = "write", ![r].call = d]
    BY <1>1, <1>5, <2>1, <2>2 DEF Move
  <2>4. PICK q, new : q = req[r] /\ new = [q EXCEPT !.at = "write", !.call = d]
    OBVIOUS
  <2>5. req' = [req EXCEPT ![r] = new]
    BY <2>3, <2>4
  <2>6. new.at = "write" /\ new.call = d
    BY <2>4 DEF IInv, ReqsAreRecords, Record
  <2>7. CallKnown(page, r, d)
    <3>1. CallKnown(page, r, c)
      BY <1>1, <1>2 DEF LeakInv, ReqsKnown, ReqKnown
    <3>2. d.op = c.op /\ c.op # "create"
      BY <1>5, <2>2 DEF With, Transitions
    <3>3. QED
      BY <3>1, <3>2 DEF CallKnown
  <2>8. ReqKnown(page, r, new)
    BY <2>6, <2>7 DEF ReqKnown, AnswerKnown
  <2>9. QED
    BY <2>5, <2>8, OneRequest
<1>6. QED
  BY <1>2, <1>3, <1>4, <1>5, NoRowKnown

LEMMA InsertKnown ==
  ASSUME IInv, LeakInv, page' = page, NEW r \in Requests, NEW id, Insert(r, id)
  PROVE  ReqsKnown'
<1>1. PICK c : c = req[r].call
  OBVIOUS
<1>2. req[r].at = "write" /\ c.op = "create"
  BY <1>1 DEF Insert, At
<1>3. CallKnown(page, r, c)
  BY <1>1, <1>2 DEF LeakInv, ReqsKnown, ReqKnown
<1>4. Accepts(c.kind, c.body) /\ ChainIdsApart(c.body)
  BY <1>1, <1>2 DEF IInv, PendingOK, Pending
<1>5. PICK body : body = Completed(c)
  OBVIOUS
<1>6. page = "buildings" => Told(body)
  <2>1. page = "buildings" => /\ "chains" \in DOMAIN body /\ AcceptsBuilding(body)
                              /\ ChainIdsApart(body)
    BY <1>2, <1>3, <1>4, <1>5, CompletedColumns DEF CallKnown, Accepts
  <2>2. QED
    BY <2>1, SoundIsTold
<1>7. (\E a : a # "ok" /\ Answer(r, a)) \/ AnswerRow(r, id, body)
  BY <1>1, <1>5 DEF Insert
<1>8. QED
  BY <1>2, <1>6, <1>7, NoRowKnown, RowAnswerKnown

LEMMA UpdateKnown ==
  ASSUME IInv, LeakInv, page' = page, NEW r \in Requests, Update(r)
  PROVE  ReqsKnown'
<1>1. PICK c : c = req[r].call
  OBVIOUS
<1>2. req[r].at = "write" /\ c.op \in {"update"} \cup Transitions
  BY <1>1 DEF Update, Patching, At
<1>3. CASE ~(Found(c) /\ ~Violates(c))
  <2>1. \E a : a # "ok" /\ Answer(r, a)
    BY <1>1, <1>3 DEF Update
  <2>2. QED
    BY <1>2, <2>1, NoRowKnown
<1>4. CASE Found(c) /\ ~Violates(c)
  <2>1. PICK id, cols, body : id = c.id /\ cols = rows[c.id].cols /\ body = c.body
    OBVIOUS
  <2>2. id \in DOMAIN rows /\ rows[id].kind = c.kind
    BY <1>4, <2>1 DEF Found
  <2>3. ASSUME page = "buildings" PROVE Told(Patched(cols, body))
    <3>1. c.kind = "buildings" /\ "chains" \in DOMAIN cols
      BY <2>1, <2>2, <2>3 DEF LeakInv, RowsKnown, RowKnown
    <3>2. AcceptsBuilding(cols) /\ ChainIdsApart(cols)
      BY <2>1, <2>2, <3>1 DEF IInv, StoredChainsAreSound
    <3>3. AcceptsBuilding(body) /\ ChainIdsApart(body)
      BY <1>1, <1>2, <2>1, <3>1 DEF IInv, PendingOK, Pending, Accepts
    <3>4. PICK new : new = Patched(cols, body)
      OBVIOUS
    <3>5. AcceptsBuilding(new) /\ ChainIdsApart(new)
      BY <3>2, <3>3, <3>4, PatchedIsSound
    <3>6. "chains" \in DOMAIN new
      BY <3>1, <3>4, PatchedColumns
    <3>7. QED
      BY <3>4, <3>5, <3>6, SoundIsTold
  <2>4. PICK row : row = Patched(cols, body)
    OBVIOUS
  <2>5. AnswerRow(r, id, row)
    BY <1>1, <1>4, <2>1, <2>4 DEF Update
  <2>6. QED
    BY <1>2, <2>3, <2>4, <2>5, RowAnswerKnown
<1>5. QED
  BY <1>3, <1>4

LEMMA WriteKnown ==
  ASSUME IInv, LeakInv, page' = page, NEW r \in Requests, Write(r)
  PROVE  ReqsKnown'
<1>1. CASE Erase(r) \/ PutState(r)
  <2>1. /\ req[r].at # "idle" /\ req[r].call.op \notin RowCalls
        /\ \E a : Answer(r, a)
    BY <1>1 DEF Erase, PutState, At, RowCalls, Transitions
  <2>2. QED
    BY <2>1, NoRowKnown
<1>2. QED
  BY <1>1, InsertKnown, UpdateKnown DEF Write

(* The tabs.                                                                 *)
LEMMA OneTabLeaks ==
  ASSUME LeakInv, page' = page, NEW t \in DOMAIN tabs, DOMAIN tabs' = DOMAIN tabs,
         \A u \in DOMAIN tabs \ {t} : tabs'[u] = tabs[u],
         Pairs(page, tabs'[t]), Shares(page, tabs'[t])
  PROVE  TabsLeak'
BY DEF LeakInv, TabsLeak

\* A tab in which only the dialog changed, and shares no more than it did.
SameRows(x, y) ==
  /\ y.rows = x.rows /\ y.heard = x.heard
  /\ y.form # None => /\ x.form # None /\ y.form.id = x.form.id
                      /\ y.form.shared \subseteq x.form.shared

LEMMA SameRowsLeak ==
  ASSUME NEW p, NEW x, NEW y, Pairs(p, x), Shares(p, x), SameRows(x, y)
  PROVE  Pairs(p, y) /\ Shares(p, y)
BY DEF Pairs, Shares, SameRows, SharesRecipes

\* A tab is replaced, and its dialog with it.
LEMMA TabReplaced ==
  ASSUME DialogInv, NEW t \in DOMAIN tabs, NEW x, NEW g,
         x = [tabs[t] EXCEPT !.form = g] , tabs' = [tabs EXCEPT ![t] = x]
  PROVE  /\ DOMAIN tabs' = DOMAIN tabs /\ tabs'[t] = x
         /\ \A u \in DOMAIN tabs \ {t} : tabs'[u] = tabs[u]
         /\ x.rows = tabs[t].rows /\ x.heard = tabs[t].heard /\ x.form = g
<1>1. tabs = [u \in DOMAIN tabs |-> tabs[u]] /\ Tab(tabs[t])
  BY DEF DialogInv, TabsOK
<1>2. PICK y : y = tabs[t]
  OBVIOUS
<1>3. x = [y EXCEPT !.form = g] /\ Tab(y)
  BY <1>1, <1>2
<1>4. x.rows = y.rows /\ x.heard = y.heard /\ x.form = g
  BY <1>3 DEF Tab
<1>5. QED
  BY <1>1, <1>2, <1>4

LEMMA EditLeaks ==
  ASSUME LeakInv, DialogInv, page' = page, NEW t \in DOMAIN tabs,
         Form(t) # None, NEW g, g.id = Form(t).id, g.shared \subseteq Form(t).shared,
         tabs' = [tabs EXCEPT ![t] = [tabs[t] EXCEPT !.form = g]]
  PROVE  TabsLeak'
<1>1. PICK x : x = [tabs[t] EXCEPT !.form = g]
  OBVIOUS
<1>2. /\ DOMAIN tabs' = DOMAIN tabs /\ tabs'[t] = x
      /\ \A u \in DOMAIN tabs \ {t} : tabs'[u] = tabs[u]
      /\ x.rows = tabs[t].rows /\ x.heard = tabs[t].heard /\ x.form = g
  BY <1>1, TabReplaced
<1>3. PICK y : y = tabs[t]
  OBVIOUS
<1>4. SameRows(y, x)
  BY <1>2, <1>3 DEF SameRows, Form
<1>5. Pairs(page, y) /\ Shares(page, y)
  BY <1>3 DEF LeakInv, TabsLeak
<1>6. Pairs(page, x) /\ Shares(page, x)
  BY <1>4, <1>5, SameRowsLeak
<1>7. QED
  BY <1>2, <1>6, OneTabLeaks

LEMMA EditedLeaks ==
  ASSUME LeakInv, DialogInv, page' = page, NEW t \in DOMAIN tabs,
         EditInputs(t) \/ AddChain(t) \/ EditChain(t) \/ ToggleRecipe(t)
  PROVE  TabsLeak'
<1>1. /\ Form(t) # None /\ Dialog(Form(t)) /\ Tab(tabs[t])
      /\ tabs = [u \in DOMAIN tabs |-> tabs[u]]
  BY DEF EditInputs, AddChain, EditChain, ToggleRecipe, Edit, DialogInv, TabsOK
<1>2. PICK u : u = tabs[t]
  OBVIOUS
<1>3. PICK f : f = u.form
  OBVIOUS
<1>4. Tab(u) /\ Dialog(f) /\ f = Form(t)
  BY <1>1, <1>2, <1>3 DEF Form
<1>5. CASE EditInputs(t)
  <2>1. PICK in : tabs' = [tabs EXCEPT ![t].form.inputs = in, ![t].form.edited = TRUE]
    BY <1>5 DEF EditInputs
  <2>2. PICK g : g = [f EXCEPT !.inputs = in, !.edited = TRUE]
    OBVIOUS
  <2>3. g.id = f.id /\ g.shared = f.shared
    BY <1>4, <2>2 DEF Dialog
  <2>4. tabs' = [tabs EXCEPT ![t] = [tabs[t] EXCEPT !.form = g]]
    BY <1>1, <1>2, <1>3, <1>4, <2>1, <2>2
  <2>5. QED
    BY <1>1, <1>4, <2>3, <2>4, EditLeaks
<1>6. CASE AddChain(t) \/ EditChain(t)
  <2>1. PICK chains : tabs' = [tabs EXCEPT ![t].form.inputs.chains = chains,
                                           ![t].form.edited = TRUE]
    BY <1>6 DEF AddChain, EditChain, Rechained
  <2>2. PICK g : g = [f EXCEPT !.inputs.chains = chains, !.edited = TRUE]
    OBVIOUS
  <2>3. g.id = f.id /\ g.shared = f.shared
    BY <1>4, <2>2 DEF Dialog
  <2>4. tabs' = [tabs EXCEPT ![t] = [tabs[t] EXCEPT !.form = g]]
    BY <1>1, <1>2, <1>3, <1>4, <2>1, <2>2
  <2>5. QED
    BY <1>1, <1>4, <2>3, <2>4, EditLeaks
<1>7. CASE ToggleRecipe(t)
  <2>1. PICK i \in DOMAIN Form(t).inputs.chains :
          tabs' = [tabs EXCEPT ![t].form.inputs.chains[i] = Toggled(@),
                     ![t].form.shared = @ \ {Form(t).inputs.chains[i].id},
                     ![t].form.edited = TRUE]
    BY <1>7 DEF ToggleRecipe
  <2>2. PICK c, rest : tabs' = [tabs EXCEPT ![t].form.inputs.chains[i] = c,
                                  ![t].form.shared = Form(t).shared \ rest,
                                  ![t].form.edited = TRUE]
    BY <1>1, <2>1 DEF Form, Tab, Dialog
  <2>3. PICK g : g = [f EXCEPT !.inputs.chains[i] = c, !.shared = f.shared \ rest,
                               !.edited = TRUE]
    OBVIOUS
  <2>4. g.id = f.id /\ g.shared = f.shared \ rest
    BY <1>4, <2>3 DEF Dialog
  <2>5. tabs' = [tabs EXCEPT ![t] = [tabs[t] EXCEPT !.form = g]]
    BY <1>1, <1>2, <1>3, <1>4, <2>2, <2>3
  <2>6. QED
    BY <1>1, <1>4, <2>4, <2>5, EditLeaks
<1>8. QED
  BY <1>5, <1>6, <1>7

\* A dialog shares the recipes that its row has when it is opened.
LEMMA OpenedLeaks ==
  ASSUME LeakInv, DialogInv, page' = page, NEW t \in DOMAIN tabs, NEW id, Open(t, id)
  PROVE  TabsLeak'
<1>1. PICK y : y = tabs[t]
  OBVIOUS
<1>2. PICK row : row = y.rows[id]
  OBVIOUS
<1>3. PICK shared : shared = IF id = None \/ page # "buildings" THEN {}
             ELSE {c.id : c \in {c \in Range(row.chains) : c.inputs # None}}
  OBVIOUS
<1>4. PICK g : /\ g.id = id /\ g.shared = shared
               /\ tabs' = [tabs EXCEPT ![t].form = g]
  <2>1. PICK in, stale :
          tabs' = [tabs EXCEPT ![t].form =
            [id |-> id, inputs |-> in, shared |-> shared, edited |-> FALSE,
             stale |-> stale, made |-> 0, missed |-> FALSE]]
    BY <1>1, <1>2, <1>3 DEF Open
  <2>2. PICK g : g = [id |-> id, inputs |-> in, shared |-> shared, edited |-> FALSE,
                      stale |-> stale, made |-> 0, missed |-> FALSE]
    OBVIOUS
  <2>3. QED
    BY <2>1, <2>2
<1>5. PICK x : x = [tabs[t] EXCEPT !.form = g]
  OBVIOUS
<1>6. tabs' = [tabs EXCEPT ![t] = x]
  BY <1>4, <1>5
<1>7. /\ DOMAIN tabs' = DOMAIN tabs /\ tabs'[t] = x
      /\ \A u \in DOMAIN tabs \ {t} : tabs'[u] = tabs[u]
      /\ x.rows = y.rows /\ x.heard = y.heard /\ x.form = g
  BY <1>1, <1>5, <1>6, TabReplaced
<1>8. Pairs(page, y) /\ Pairs(page, x)
  BY <1>1, <1>7 DEF LeakInv, TabsLeak, Pairs
<1>9. ASSUME page = "buildings", id \in DOMAIN y.rows
      PROVE  SharesRecipes(shared, y.heard[id])
  <2>1. PICK heard : heard = y.heard[id]
    OBVIOUS
  <2>2. Told(heard) /\ OnlyRecipes(row, heard)
    BY <1>2, <1>8, <1>9, <2>1 DEF Pairs, Pair
  <2>3. SUFFICES ASSUME NEW i \in DOMAIN heard.chains, heard.chains[i].id \in shared
                 PROVE  heard.chains[i].inputs # None
    BY <2>1 DEF SharesRecipes
  <2>4. PICK j \in DOMAIN row.chains :
          row.chains[j].inputs # None /\ row.chains[j].id = heard.chains[i].id
    BY <1>3, <2>3 DEF Range
  <2>5. /\ j \in DOMAIN heard.chains
        /\ \/ row.chains[j] = heard.chains[j]
           \/ /\ heard.chains[j].inputs # None
              /\ row.chains[j] = [heard.chains[j] EXCEPT !.inputs = row.chains[j].inputs,
                                                        !.outputs = row.chains[j].outputs]
    BY <2>2, <2>4 DEF OnlyRecipes
  <2>6. row.chains[j].id = heard.chains[j].id
    <3>1. "id" \in DOMAIN heard.chains[j]
      BY <2>2, <2>5 DEF Told
    <3>2. QED
      BY <2>5, <3>1
  <2>7. j = i
    BY <2>2, <2>4, <2>5, <2>6 DEF Told
  <2>8. QED
    BY <2>4, <2>5, <2>7
<1>10. Shares(page, x)
  BY <1>4, <1>7, <1>9 DEF Shares
<1>11. QED
  BY <1>7, <1>8, <1>10, OneTabLeaks

LEMMA RecipeLeaks ==
  ASSUME LeakInv, DialogInv, page' = page, NEW t \in DOMAIN tabs, EditRecipe(t)
  PROVE  TabsLeak'
<1>1. /\ Form(t) # None /\ Dialog(Form(t)) /\ Tab(tabs[t]) /\ page = "buildings"
      /\ tabs = [u \in DOMAIN tabs |-> tabs[u]]
  BY DEF EditRecipe, Edit, DialogInv, TabsOK
<1>2. PICK u : u = tabs[t]
  OBVIOUS
<1>3. PICK f : f = u.form
  OBVIOUS
<1>4. Tab(u) /\ Dialog(f) /\ f = Form(t) /\ Pairs(page, u) /\ Shares(page, u)
  BY <1>1, <1>2, <1>3 DEF Form, LeakInv, TabsLeak
<1>5. PICK i \in DOMAIN Form(t).inputs.chains :
        \E c \in RecipeEdits(Form(t).inputs.chains[i]) :
          tabs' = [tabs EXCEPT ![t].form.inputs.chains[i] = c,
                     ![t].form.edited = TRUE, ![t].rows = LeakedTo(@, Form(t), c)]
  BY DEF EditRecipe
<1>6. PICK c :
        tabs' = [tabs EXCEPT ![t].form.inputs.chains[i] = c,
                   ![t].form.edited = TRUE, ![t].rows = LeakedTo(@, Form(t), c)]
  BY <1>5
<1>7. PICK m : m = LeakedTo(u.rows, f, c)
  OBVIOUS
<1>8. tabs' = [tabs EXCEPT ![t].form.inputs.chains[i] = c,
                 ![t].form.edited = TRUE, ![t].rows = m]
  BY <1>1, <1>2, <1>4, <1>6, <1>7 DEF Tab, Form, Dialog
<1>9. PICK g : g = [f EXCEPT !.inputs.chains[i] = c, !.edited = TRUE]
  OBVIOUS
<1>10. g.id = f.id /\ g.shared = f.shared
  BY <1>4, <1>9 DEF Dialog
<1>11. PICK x : x = [u EXCEPT !.form = g, !.rows = m]
  OBVIOUS
<1>12. tabs' = [tabs EXCEPT ![t] = x]
  BY <1>1, <1>2, <1>3, <1>8, <1>9, <1>11
<1>13. /\ DOMAIN tabs' = DOMAIN tabs /\ tabs'[t] = x
       /\ \A v \in DOMAIN tabs \ {t} : tabs'[v] = tabs[v]
  BY <1>1, <1>12
<1>14. x.rows = m /\ x.heard = u.heard /\ x.form = g
  BY <1>4, <1>11 DEF Tab
<1>15. CASE m = u.rows
  <2>1. SameRows(u, x)
    BY <1>1, <1>3, <1>4, <1>10, <1>14, <1>15 DEF SameRows
  <2>2. Pairs(page, x) /\ Shares(page, x)
    BY <1>4, <2>1, SameRowsLeak
  <2>3. QED
    BY <1>13, <2>2, OneTabLeaks
<1>16. CASE m # u.rows
  <2>1. /\ c.id \in f.shared /\ f.id \in DOMAIN u.rows
        /\ m = [u.rows EXCEPT ![f.id] = Leaked(@, c)]
    BY <1>7, <1>16 DEF LeakedTo
  <2>2. PICK row, heard : row = u.rows[f.id] /\ heard = u.heard[f.id]
    OBVIOUS
  <2>3. Told(heard) /\ OnlyRecipes(row, heard)
    BY <1>1, <1>4, <2>1, <2>2 DEF Pairs, Pair
  <2>4. SharesRecipes(f.shared, heard)
    BY <1>1, <1>3, <1>4, <2>1, <2>2 DEF Shares
  <2>5. SharesRecipes({c.id}, heard)
    BY <2>1, <2>4 DEF SharesRecipes
  <2>6. OnlyRecipes(Leaked(row, c), heard)
    BY <2>3, <2>5, LeakedRow
  <2>7. PICK new : new = Leaked(row, c)
    OBVIOUS
  <2>8. m = [u.rows EXCEPT ![f.id] = new]
    BY <2>1, <2>2, <2>7
  <2>9. DOMAIN m = DOMAIN u.rows
        /\ \A id \in DOMAIN m : m[id] = IF id = f.id THEN new ELSE u.rows[id]
    BY <2>8
  <2>10. Pairs(page, x)
    BY <1>1, <1>4, <1>14, <2>2, <2>3, <2>6, <2>7, <2>9 DEF Pairs, Pair
  <2>11. Shares(page, x)
    BY <1>1, <1>10, <1>14, <2>2, <2>4 DEF Shares
  <2>12. QED
    BY <1>13, <2>10, <2>11, OneTabLeaks
<1>17. QED
  BY <1>15, <1>16

LEMMA ClosedLeaks ==
  ASSUME IInv, LeakInv, DialogInv, page' = page, NEW t \in DOMAIN tabs,
         Cancel(t) \/ Reload(t)
  PROVE  TabsLeak'
<1>1. PICK y : y = tabs[t]
  OBVIOUS
<1>2. Pairs(page, y) /\ Tab(y) /\ tabs = [u \in DOMAIN tabs |-> tabs[u]]
  BY <1>1 DEF LeakInv, TabsLeak, DialogInv, TabsOK
<1>3. CASE Cancel(t)
  <2>1. PICK s, x : s = LastSlug(t) /\ x = [y EXCEPT !.form = None, !.slug = s]
    OBVIOUS
  <2>2. tabs' = [tabs EXCEPT ![t] = x]
    BY <1>1, <1>3, <2>1 DEF Cancel
  <2>3. x.rows = y.rows /\ x.heard = y.heard /\ x.form = None
    BY <1>2, <2>1 DEF Tab
  <2>4. Pairs(page, x) /\ Shares(page, x)
    BY <1>2, <2>3 DEF Pairs, Shares
  <2>5. QED
    BY <1>2, <2>2, <2>4, OneTabLeaks
<1>4. CASE Reload(t)
  <2>1. PICK m : m = Listed
    OBVIOUS
  <2>2. PICK x : x = [y EXCEPT !.rows = m, !.heard = m, !.slug = Empty]
    OBVIOUS
  <2>3. tabs' = [tabs EXCEPT ![t] = x]
    BY <1>1, <1>4, <2>1, <2>2 DEF Reload
  <2>4. x.rows = m /\ x.heard = m /\ x.form = y.form
    BY <1>2, <2>2 DEF Tab
  <2>5. y.form = None
    BY <1>1, <1>4 DEF Reload, Form
  <2>6. \A i \in DOMAIN m : Pair(page, m[i], m[i])
    <3>1. \A i \in DOMAIN rows : page = "buildings" => Told(rows[i].cols)
      BY StoredIsTold DEF LeakInv
    <3>2. \A i \in DOMAIN m : page = "buildings" => Told(m[i])
      BY <2>1, <3>1 DEF Listed
    <3>3. QED
      BY <3>2, SameRow
  <2>7. Pairs(page, x) /\ Shares(page, x)
    BY <2>4, <2>5, <2>6 DEF Pairs, Shares
  <2>8. QED
    BY <1>2, <2>3, <2>7, OneTabLeaks
<1>5. QED
  BY <1>3, <1>4

\* What a store makes of an answer is the same for rows and heard.
LEMMA StoredPairs ==
  ASSUME NEW t, NEW x, NEW y, Pairs(page, x),
         AnswerKnown(page, req[t]), req[t].at = "done", req[t].answer = "ok",
         req[t].call.op \in RowCalls \cup {"remove"}, NEW s,
         y = [rows |-> Stored(t, x.rows), heard |-> Stored(t, x.heard), form |-> None,
              slug |-> s]
  PROVE  Pairs(page, y) /\ Shares(page, y)
<1>1. PICK c, got : c = req[t].call /\ got = req[t].got
  OBVIOUS
<1>2. y.rows = Stored(t, x.rows) /\ y.heard = Stored(t, x.heard) /\ y.form = None
  OBVIOUS
<1>3. DOMAIN x.rows = DOMAIN x.heard
      /\ \A id \in DOMAIN x.rows : Pair(page, x.rows[id], x.heard[id])
  BY DEF Pairs
<1>4. CASE c.op = "remove"
  <2>1. /\ y.rows = [i \in DOMAIN x.rows \ {c.id} |-> x.rows[i]]
        /\ y.heard = [i \in DOMAIN x.heard \ {c.id} |-> x.heard[i]]
    BY <1>1, <1>2, <1>4 DEF Stored
  <2>2. QED
    BY <1>2, <1>3, <2>1 DEF Pairs, Shares
<1>5. ASSUME c.op \in RowCalls
      PROVE  Pair(page, got.cols, got.cols)
  <2>1. PICK cols : cols = got.cols
    OBVIOUS
  <2>2. page = "buildings" => Told(cols)
    BY <1>1, <1>5, <2>1 DEF AnswerKnown
  <2>3. Pair(page, cols, cols)
    BY <2>2, SameRow
  <2>4. QED
    BY <2>1, <2>3
<1>6. CASE c.op \in RowCalls \ {"create"}
  <2>1. /\ y.rows = [i \in DOMAIN x.rows |-> IF i = got.id THEN got.cols ELSE x.rows[i]]
        /\ y.heard = [i \in DOMAIN x.heard |-> IF i = got.id THEN got.cols ELSE x.heard[i]]
    BY <1>1, <1>2, <1>6 DEF Stored, RowCalls, Transitions
  <2>2. QED
    BY <1>2, <1>3, <1>5, <1>6, <2>1 DEF Pairs, Shares
<1>7. CASE c.op = "create"
  <2>1. /\ y.rows = [i \in DOMAIN x.rows \cup {got.id} |->
                       IF i = got.id THEN got.cols ELSE x.rows[i]]
        /\ y.heard = [i \in DOMAIN x.heard \cup {got.id} |->
                        IF i = got.id THEN got.cols ELSE x.heard[i]]
    BY <1>1, <1>2, <1>7 DEF Stored
  <2>2. QED
    BY <1>2, <1>3, <1>5, <1>7, <2>1 DEF Pairs, Shares, RowCalls
<1>8. QED
  BY <1>1, <1>4, <1>6, <1>7

LEMMA HeardLeaks ==
  ASSUME IInv, LeakInv, DialogInv, page' = page, NEW t \in DOMAIN tabs,
         Hear(t) \/ Miss(t)
  PROVE  TabsLeak'
<1>1. PICK y : y = tabs[t]
  OBVIOUS
<1>2. /\ Pairs(page, y) /\ Shares(page, y) /\ Tab(y) /\ (y.form # None => Dialog(y.form))
      /\ tabs = [u \in DOMAIN tabs |-> tabs[u]]
  BY <1>1 DEF LeakInv, TabsLeak, DialogInv, TabsOK, Form
<1>3. CASE tabs' = tabs
  BY <1>3 DEF LeakInv, TabsLeak
<1>4. CASE Hear(t) /\ req[t].answer = "ok"
  <2>1. PICK s, x : s = LastSlug(t)
          /\ x = [rows |-> Stored(t, y.rows), heard |-> Stored(t, y.heard),
                      form |-> None, slug |-> s]
    OBVIOUS
  <2>2. tabs' = [tabs EXCEPT ![t] = x]
    BY <1>1, <1>4, <2>1 DEF Hear, Closed
  <2>3. req[t].at = "done" /\ ReqKnown(page, t, req[t]) /\ t # Client
    BY <1>4, RequestsAssumption DEF Hear, LeakInv, ReqsKnown, DialogInv, TabsOK
  <2>4. AnswerKnown(page, req[t]) /\ req[t].call.op \in RowCalls \cup {"remove"}
    BY <2>3 DEF ReqKnown, CallKnown
  <2>5. Pairs(page, x) /\ Shares(page, x)
    BY <1>2, <1>4, <2>1, <2>3, <2>4, StoredPairs
  <2>6. QED
    BY <1>2, <2>2, <2>5, OneTabLeaks
<1>5. CASE Miss(t) /\ Form(t) # None
  <2>1. tabs' = [tabs EXCEPT ![t].form.missed = TRUE]
    BY <1>5 DEF Miss
  <2>2. PICK f : f = y.form
    OBVIOUS
  <2>3. PICK g : g = [f EXCEPT !.missed = TRUE]
    OBVIOUS
  <2>4. f = Form(t) /\ Dialog(f)
    BY <1>1, <1>2, <1>5, <2>2 DEF Form
  <2>5. g.id = f.id /\ g.shared = f.shared
    BY <2>3, <2>4 DEF Dialog
  <2>6. tabs' = [tabs EXCEPT ![t] = [tabs[t] EXCEPT !.form = g]]
    BY <1>1, <1>2, <2>1, <2>2, <2>3
  <2>7. QED
    BY <1>5, <2>4, <2>5, <2>6, EditLeaks
<1>6. QED
  BY <1>3, <1>4, <1>5 DEF Hear, Miss

\* Every tab is noted on, by itself.
LEMMA EveryTabLeaks ==
  ASSUME LeakInv, page' = page, DOMAIN tabs' = DOMAIN tabs,
         \A t \in DOMAIN tabs : SameRows(tabs[t], tabs'[t])
  PROVE  TabsLeak'
<1>1. ASSUME NEW t \in DOMAIN tabs
      PROVE  Pairs(page, tabs'[t]) /\ Shares(page, tabs'[t])
  <2>1. PICK x, y : x = tabs[t] /\ y = tabs'[t]
    OBVIOUS
  <2>2. Pairs(page, x) /\ Shares(page, x) /\ SameRows(x, y)
    BY <2>1 DEF LeakInv, TabsLeak
  <2>3. Pairs(page, y) /\ Shares(page, y)
    BY <2>2, SameRowsLeak
  <2>4. QED
    BY <2>1, <2>3
<1>2. QED
  BY <1>1 DEF TabsLeak

Flagged(x, y) ==
  \E stale, made : \/ y = [x EXCEPT !.form.stale = stale, !.form.made = made]
                   \/ y = [x EXCEPT !.form.stale = stale]

LEMMA FlaggedTab ==
  ASSUME NEW x, Tab(x), x.form # None, Dialog(x.form), NEW y, Flagged(x, y)
  PROVE  SameRows(x, y)
<1>0. PICK stale, made : \/ y = [x EXCEPT !.form.stale = stale, !.form.made = made]
                         \/ y = [x EXCEPT !.form.stale = stale]
  BY DEF Flagged
<1>1. PICK f : f = x.form
  OBVIOUS
<1>2. PICK g : /\ g.id = f.id /\ g.shared = f.shared
               /\ y = [x EXCEPT !.form = g]
  <2>1. CASE y = [x EXCEPT !.form.stale = stale]
    <3>1. PICK g : g = [f EXCEPT !.stale = stale]
      OBVIOUS
    <3>2. g.id = f.id /\ g.shared = f.shared
      BY <1>1, <3>1 DEF Dialog
    <3>3. y = [x EXCEPT !.form = g]
      BY <1>1, <2>1, <3>1
    <3>4. QED
      BY <3>2, <3>3
  <2>2. CASE y = [x EXCEPT !.form.stale = stale, !.form.made = made]
    <3>1. PICK g : g = [f EXCEPT !.stale = stale, !.made = made]
      OBVIOUS
    <3>2. g.id = f.id /\ g.shared = f.shared
      BY <1>1, <3>1 DEF Dialog
    <3>3. y = [x EXCEPT !.form = g]
      BY <1>1, <2>2, <3>1 DEF Tab
    <3>4. QED
      BY <3>2, <3>3
  <2>3. QED
    BY <1>0, <2>1, <2>2
<1>3. y.rows = x.rows /\ y.heard = x.heard /\ y.form = g
  BY <1>2 DEF Tab
<1>4. QED
  BY <1>1, <1>2, <1>3 DEF SameRows

LEMMA NotedLeaks ==
  ASSUME LeakInv, DialogInv, page' = page,
         (\E r \in Requests : Writes(r)) \/ FarmDeleted
  PROVE  TabsLeak'
<1>1. ASSUME NEW x PROVE SameRows(x, x)
  BY DEF SameRows
<1>2. CASE \E r \in Requests : Writes(r)
  <2>1. PICK r \in Requests : tabs' = [t \in DOMAIN tabs |-> Noted(r, t)]
    BY <1>2 DEF Writes
  <2>2. DOMAIN tabs' = DOMAIN tabs
    BY <2>1
  <2>3. ASSUME NEW t \in DOMAIN tabs PROVE SameRows(tabs[t], tabs'[t])
    <3>1. PICK x, y : x = tabs[t] /\ y = tabs'[t]
      OBVIOUS
    <3>2. Tab(x) /\ (x.form # None => Dialog(x.form)) /\ y = Noted(r, t)
      BY <2>1, <3>1 DEF DialogInv, TabsOK, Form
    <3>3. CASE Form(t) = None
      BY <1>1, <3>1, <3>2, <3>3 DEF Noted
    <3>4. CASE Form(t) # None
      <4>1. Flagged(x, y)
        <5>1. PICK stale : stale = (Form(t).stale \/ (t # r /\ req[r].call.id = Form(t).id))
          OBVIOUS
        <5>2. PICK made : made = IF t = r /\ req[r].call.op = "create"
                                    /\ req'[r].answer = "ok"
                                 THEN Form(t).made + 1 ELSE Form(t).made
          OBVIOUS
        <5>3. y = [x EXCEPT !.form.stale = stale, !.form.made = made]
          BY <3>1, <3>2, <3>4, <5>1, <5>2 DEF Noted, Form, Tab, Dialog
        <5>4. QED
          BY <5>3 DEF Flagged
      <4>2. x.form # None /\ Tab(x) /\ Dialog(x.form)
        BY <3>1, <3>2, <3>4 DEF Form
      <4>3. SameRows(x, y)
        BY <4>1, <4>2, FlaggedTab
      <4>4. QED
        BY <3>1, <4>3
    <3>5. QED
      BY <3>3, <3>4
  <2>4. QED
    BY <2>2, <2>3, EveryTabLeaks
<1>3. CASE FarmDeleted
  <2>1. tabs' = [t \in DOMAIN tabs |-> IF Form(t) = None THEN tabs[t]
                   ELSE [tabs[t] EXCEPT !.form.stale = TRUE]]
    BY <1>3 DEF FarmDeleted
  <2>2. ASSUME NEW t \in DOMAIN tabs PROVE SameRows(tabs[t], tabs'[t])
    <3>1. PICK x, y : x = tabs[t] /\ y = tabs'[t]
      OBVIOUS
    <3>2. Tab(x) /\ (x.form # None => Dialog(x.form))
      BY <3>1 DEF DialogInv, TabsOK, Form
    <3>3. CASE Form(t) = None
      BY <1>1, <2>1, <3>1, <3>3
    <3>4. CASE Form(t) # None
      <4>1. Flagged(x, y)
        BY <2>1, <3>1, <3>4 DEF Flagged
      <4>2. x.form # None /\ Tab(x) /\ Dialog(x.form)
        BY <3>1, <3>2, <3>4 DEF Form
      <4>3. SameRows(x, y)
        BY <4>1, <4>2, FlaggedTab
      <4>4. QED
        BY <3>1, <4>3
    <3>5. QED
      BY <3>3, <3>4
  <2>3. DOMAIN tabs' = DOMAIN tabs
    BY <2>1
  <2>4. QED
    BY <2>2, <2>3, EveryTabLeaks
<1>4. QED
  BY <1>2, <1>3

LEMMA StepLeaks ==
  ASSUME IInv, DialogInv, LeakInv, [Next]_vars
  PROVE  LeakInv'
<1>1. page' = page /\ RowsKnown'
  BY SamePage, StepRowsKnown
<1>2. ASSUME req' = req PROVE ReqsKnown'
  BY <1>1, <1>2 DEF LeakInv, ReqsKnown
<1>3. ASSUME tabs' = tabs PROVE TabsLeak'
  BY <1>1, <1>3 DEF LeakInv, TabsLeak
<1>4. CASE \E t \in DOMAIN tabs : \E id \in DOMAIN tabs[t].rows \cup {None} : Open(t, id)
  <2>1. req' = req
    BY <1>4 DEF Open, recordVars
  <2>2. TabsLeak'
    BY <1>1, <1>4, OpenedLeaks
  <2>3. QED
    BY <1>1, <1>2, <2>1, <2>2 DEF LeakInv
<1>5. CASE \E t \in DOMAIN tabs : EditInputs(t) \/ AddChain(t) \/ EditChain(t)
                                  \/ ToggleRecipe(t) \/ EditRecipe(t)
  <2>1. req' = req
    BY <1>5 DEF EditInputs, AddChain, EditChain, ToggleRecipe, EditRecipe, Edit, recordVars
  <2>2. TabsLeak'
    BY <1>1, <1>5, EditedLeaks, RecipeLeaks
  <2>3. QED
    BY <1>1, <1>2, <2>1, <2>2 DEF LeakInv
<1>6. CASE \E t \in DOMAIN tabs : Cancel(t) \/ Reload(t)
  <2>1. req' = req
    BY <1>6 DEF Cancel, Reload, recordVars
  <2>2. TabsLeak'
    BY <1>1, <1>6, ClosedLeaks
  <2>3. QED
    BY <1>1, <1>2, <2>1, <2>2 DEF LeakInv
<1>7. CASE \E t \in DOMAIN tabs : Submit(t) \/ Delete(t) \/ Transition(t)
  <2>1. tabs' = tabs
    BY <1>7 DEF Submit, Delete, Transition, Ask
  <2>2. ReqsKnown'
    BY <1>1, <1>7, AskedKnown
  <2>3. QED
    BY <1>1, <1>3, <2>1, <2>2 DEF LeakInv
<1>8. CASE \E t \in DOMAIN tabs : Hear(t) \/ Miss(t)
  <2>1. TabsLeak'
    BY <1>1, <1>8, HeardLeaks
  <2>2. ReqsKnown'
    BY <1>1, <1>8, SettledKnown DEF Hear, Miss
  <2>3. QED
    BY <1>1, <2>1, <2>2 DEF LeakInv
<1>9. CASE \E r \in Requests : Read(r)
  <2>1. tabs' = tabs
    BY <1>9 DEF Read
  <2>2. ReqsKnown'
    BY <1>1, <1>9, ReadKnown
  <2>3. QED
    BY <1>1, <1>3, <2>1, <2>2 DEF LeakInv
<1>10. CASE \E r \in Requests : Writes(r)
  <2>1. TabsLeak'
    BY <1>1, <1>10, NotedLeaks
  <2>2. ReqsKnown'
    BY <1>1, <1>10, WriteKnown DEF Writes
  <2>3. QED
    BY <1>1, <2>1, <2>2 DEF LeakInv
<1>11. CASE ClientAsks \/ ClientHears
  <2>1. tabs' = tabs
    BY <1>11 DEF ClientAsks, ClientHears
  <2>2. ReqsKnown'
    BY <1>1, <1>11, ClientKnown, SettledKnown DEF ClientHears
  <2>3. QED
    BY <1>1, <1>3, <2>1, <2>2 DEF LeakInv
<1>12. CASE FarmDeleted
  <2>1. req' = req
    BY <1>12 DEF FarmDeleted, DeleteFarm
  <2>2. TabsLeak'
    BY <1>1, <1>12, NotedLeaks
  <2>3. QED
    BY <1>1, <1>2, <2>1, <2>2 DEF LeakInv
<1>13. CASE UNCHANGED vars
  BY <1>1, <1>2, <1>3, <1>13 DEF LeakInv, vars, recordVars
<1>14. QED
  BY <1>4, <1>5, <1>6, <1>7, <1>8, <1>9, <1>10, <1>11, <1>12, <1>13 DEF Next

\* What a user does in a dialog and cancels is neither shown nor saved, except
\* for the recipes of chains that have their own: the dialog for buildings edits
\* these in the very arrays of the row in the store.
THEOREM OnlyRecipesGetOut == Spec => []OnlyRecipesLeak
<1>1. IInv /\ DialogInv /\ LeakInv /\ [Next]_vars => (IInv /\ DialogInv /\ LeakInv)'
  BY NextIInv, NextDialogs, StepLeaks
<1>2. Init => IInv /\ DialogInv /\ LeakInv
  BY InitIInv, InitDialogs, InitLeak
<1>3. LeakInv => OnlyRecipesLeak
  BY DEF LeakInv, TabsLeak, Pairs, Pair, OnlyRecipesLeak
<1>4. QED
  BY <1>1, <1>2, <1>3, PTL DEF Spec
=============================================================================
