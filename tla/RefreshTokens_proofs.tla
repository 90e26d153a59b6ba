------------------------ MODULE RefreshTokens_proofs ------------------------
(***************************************************************************)
(* Proofs about RefreshTokens, for every set of requests and users, every  *)
(* TTL and grace period.  The inductive invariant IInv adds to the checked *)
(* invariants what the handlers rely on without saying it: a row exists    *)
(* only once its request was answered with a session, a pending request    *)
(* carries an issued token and the owner of its row, and a successor is    *)
(* never older than the row it replaced.                                   *)
(*                                                                         *)
(* SerialInv is what one request at a time (~Overlap) adds: the row that a *)
(* handler read is still as it read it, so a used token is closed for      *)
(* good, and the detailed table implements UserSessions step by step.      *)
(***************************************************************************)
EXTENDS RefreshTokens, TLAPS

Table == [Requests -> Row \cup {NoRow}]

\* A request carries tokens that were issued; once it has read a row it knows
\* the user that row belongs to.
PendingOK ==
  \A r \in Requests :
    /\ answer[r] # "none" => step[r] = "done"
    /\ presented[r] # Null => answer[presented[r]] = "session"
    /\ InFlight(r) =>
         /\ presented[r] # Null
         /\ owner[r] \in Users
         /\ Present(tokens, presented[r])
              => tokens[presented[r]].user = owner[r]

\* Rows, and the tokens the history speaks of, come from answered requests.
RowsIssued ==
  /\ \A t \in Rows : answer[t] = "session"
  /\ \A t \in closed : answer[t] = "session"
  /\ killed \subseteq closed

\* Rotation moves forward in time.
SuccessorsAreYounger ==
  \A t \in Rows : tokens[t].replacedBy # Null =>
    tokens[tokens[t].replacedBy].age <= tokens[t].age

IInv ==
  /\ TypeOK
  /\ PendingOK
  /\ RowsIssued
  /\ ChainIntact
  /\ SuccessorsAreYounger
  /\ ClosedStaysClosed
-----------------------------------------------------------------------------
(* What the repository functions do to a table. *)

\* A row that is in the table has the columns of a row.
LEMMA PresentRow ==
  ASSUME NEW table \in Table, NEW t \in Requests, Present(table, t)
  PROVE  /\ table[t] \in Row
         /\ table[t].age \in Nat
         /\ table[t].age <= TTL + Grace + 1
         /\ table[t].user \in Users
         /\ table[t].revoked \in BOOLEAN
         /\ table[t].replacedBy \in Requests \cup {Null}
  BY TimesAssumption DEF Table, Present, Row

\* create() adds a live row of age 0 and leaves every other row alone.
LEMMA CreateLemma ==
  ASSUME NEW table \in Table, NEW id \in Requests, NEW u \in Users
  PROVE  /\ Create(table, id, u) \in Table
         /\ Present(Create(table, id, u), id)
         /\ Create(table, id, u)[id] =
              [user |-> u, age |-> 0, revoked |-> FALSE, replacedBy |-> Null]
         /\ \A t \in Requests : t # id => Create(table, id, u)[t] = table[t]
<1>1. [user |-> u, age |-> 0, revoked |-> FALSE, replacedBy |-> Null] \in Row
  BY TimesAssumption DEF Row
<1>2. QED
  BY <1>1, NullsAssumption DEF Table, Create, Present

\* revoke() stamps one row and keeps every other column and row.
LEMMA RevokeLemma ==
  ASSUME NEW table \in Table, NEW id \in Requests
  PROVE  /\ Revoke(table, id) \in Table
         /\ \A t \in Requests :
              /\ Present(Revoke(table, id), t) <=> Present(table, t)
              /\ t # id => Revoke(table, id)[t] = table[t]
              /\ Present(table, t) =>
                   /\ Revoke(table, id)[t].user = table[t].user
                   /\ Revoke(table, id)[t].age = table[t].age
                   /\ Revoke(table, id)[t].replacedBy = table[t].replacedBy
                   /\ table[t].revoked => Revoke(table, id)[t].revoked
         /\ Present(table, id) => Revoke(table, id)[id].revoked
  BY NullsAssumption DEF Table, Revoke, Present, Row

\* markRotated() revokes one row and links it to its successor.
LEMMA MarkRotatedLemma ==
  ASSUME NEW table \in Table, NEW id \in Requests, NEW s \in Requests
  PROVE  /\ MarkRotated(table, id, s) \in Table
         /\ \A t \in Requests :
              /\ Present(MarkRotated(table, id, s), t) <=> Present(table, t)
              /\ t # id => MarkRotated(table, id, s)[t] = table[t]
         /\ Present(table, id) =>
              /\ MarkRotated(table, id, s)[id].user = table[id].user
              /\ MarkRotated(table, id, s)[id].age = table[id].age
              /\ MarkRotated(table, id, s)[id].replacedBy = s
              /\ MarkRotated(table, id, s)[id].revoked
  BY NullsAssumption DEF Table, MarkRotated, Present, Row

\* revokeAllActiveForUser() revokes the user's rows and nothing else.
LEMMA RevokeAllLemma ==
  ASSUME NEW table \in Table, NEW u \in Users
  PROVE  /\ RevokeAllActiveForUser(table, u) \in Table
         /\ \A t \in Requests :
              LET new == RevokeAllActiveForUser(table, u)[t] IN
              /\ Present(RevokeAllActiveForUser(table, u), t)
                   <=> Present(table, t)
              /\ Present(table, t) /\ table[t].user # u => new = table[t]
              /\ Present(table, t) =>
                   /\ new.user = table[t].user
                   /\ new.age = table[t].age
                   /\ new.replacedBy = table[t].replacedBy
                   /\ table[t].revoked => new.revoked
                   /\ table[t].user = u => new.revoked
  BY NullsAssumption DEF Table, RevokeAllActiveForUser, Present, Row

\* deleteExpired() removes the purgeable rows and keeps the others as they are.
LEMMA DeleteExpiredLemma ==
  ASSUME NEW table \in Table
  PROVE  /\ DeleteExpired(table) \in Table
         /\ \A t \in Requests :
              /\ Present(DeleteExpired(table), t)
                   <=> Present(table, t) /\ ~Purgeable(table[t])
              /\ Present(DeleteExpired(table), t)
                   => DeleteExpired(table)[t] = table[t]
  BY NullsAssumption DEF Table, DeleteExpired, Present
-----------------------------------------------------------------------------
LEMMA InitIInv == Init => IInv
<1> SUFFICES ASSUME Init PROVE IInv
  OBVIOUS
<1>1. TypeOK
  BY DEF Init, TypeOK, Steps, Answers
<1>2. Rows = {} /\ Live = {}
  BY DEF Init, Rows, Live, Present
<1>3. PendingOK
  BY DEF Init, PendingOK, InFlight
<1>4. QED
  BY <1>1, <1>2, <1>3
  DEF Init, IInv, RowsIssued, ChainIntact, SuccessorsAreYounger,
      ClosedStaysClosed

(* An update that only revokes: same rows, same owners, ages and links. *)
OnlyRevokes ==
  /\ tokens' \in Table
  /\ \A t \in Requests :
       /\ Present(tokens', t) <=> Present(tokens, t)
       /\ Present(tokens, t) =>
            /\ tokens'[t].user = tokens[t].user
            /\ tokens'[t].age = tokens[t].age
            /\ tokens'[t].replacedBy = tokens[t].replacedBy
            /\ tokens[t].revoked => tokens'[t].revoked

\* Revoking rows keeps the chain intact and makes nothing live again.
LEMMA OnlyRevokesLemma ==
  ASSUME IInv, OnlyRevokes
  PROVE  /\ Rows' = Rows
         /\ Live' \subseteq Live
         /\ ChainIntact'
         /\ SuccessorsAreYounger'
<1>1. Rows' = Rows
  BY DEF OnlyRevokes, Rows
<1>2. Live' \subseteq Live
  BY <1>1 DEF OnlyRevokes, Live, Rows
<1>3. ChainIntact'
  <2> SUFFICES ASSUME NEW t \in Rows', tokens'[t].replacedBy # Null
               PROVE  /\ tokens'[t].revoked
                      /\ tokens'[t].replacedBy \in Rows'
                      /\ tokens'[tokens'[t].replacedBy].user = tokens'[t].user
    BY DEF ChainIntact
  <2>1. t \in Rows /\ t \in Requests /\ tokens[t].replacedBy = tokens'[t].replacedBy
    BY <1>1 DEF OnlyRevokes, Rows
  <2>2. /\ tokens[t].revoked
        /\ tokens[t].replacedBy \in Rows
        /\ tokens[tokens[t].replacedBy].user = tokens[t].user
    BY <2>1 DEF IInv, ChainIntact
  <2>3. QED
    BY <1>1, <2>1, <2>2 DEF OnlyRevokes, Rows
<1>4. SuccessorsAreYounger'
  <2> SUFFICES ASSUME NEW t \in Rows', tokens'[t].replacedBy # Null
               PROVE  tokens'[tokens'[t].replacedBy].age <= tokens'[t].age
    BY DEF SuccessorsAreYounger
  <2>1. t \in Rows /\ t \in Requests /\ tokens[t].replacedBy = tokens'[t].replacedBy
    BY <1>1 DEF OnlyRevokes, Rows
  <2>2. /\ tokens[t].replacedBy \in Rows
        /\ tokens[tokens[t].replacedBy].age <= tokens[t].age
    BY <2>1 DEF IInv, ChainIntact, SuccessorsAreYounger
  <2>3. QED
    BY <1>1, <2>1, <2>2 DEF OnlyRevokes, Rows
<1>5. QED
  BY <1>1, <1>2, <1>3, <1>4

\* A handler that answers after only revoking rows: the parts of IInv that
\* speak about requests follow from what it was answered.
LEMMA RevokingAnswer ==
  ASSUME IInv, OnlyRevokes, NEW r \in Requests, NEW a \in Answers,
         InFlight(r), Answer(r, a), UNCHANGED <<presented, owner>>,
         killed' \subseteq closed', closed' \cap Live' = {},
         \A t \in closed' : answer[t] = "session", closed' \subseteq Requests
  PROVE  IInv'
<1>1. /\ Rows' = Rows
      /\ ChainIntact'
      /\ SuccessorsAreYounger'
  BY OnlyRevokesLemma
<1>2. answer[r] = "none"
  BY DEF IInv, PendingOK, InFlight, TypeOK, Answers
<1>3. TypeOK'
  BY DEF IInv, TypeOK, OnlyRevokes, Answer, Table, Steps, Answers
<1>4. PendingOK'
  BY <1>2 DEF IInv, TypeOK, PendingOK, Answer, OnlyRevokes, InFlight
<1>5. RowsIssued'
  <2>1. \A t \in Requests : answer[t] = "session" => answer'[t] = "session"
    BY <1>2 DEF Answer, IInv, TypeOK
  <2>2. \A t \in Rows' : answer'[t] = "session"
    BY <1>1, <2>1 DEF IInv, RowsIssued, Rows
  <2>3. \A t \in closed' : answer'[t] = "session"
    BY <2>1
  <2>4. QED
    BY <2>2, <2>3 DEF RowsIssued
<1>6. ClosedStaysClosed'
  BY DEF ClosedStaysClosed
<1>7. QED
  BY <1>1, <1>3, <1>4, <1>5, <1>6 DEF IInv
-----------------------------------------------------------------------------
(* What the writing steps do to the rows and to the live sessions. *)

LEMMA LoginEffect ==
  ASSUME IInv, NEW r \in Requests, NEW u \in Users, Login(r, u)
  PROVE  /\ answer[r] = "none" /\ r \notin Rows /\ r \notin closed
         /\ tokens' \in Table
         /\ Present(tokens', r)
         /\ tokens'[r] = [user |-> u, age |-> 0, revoked |-> FALSE,
                          replacedBy |-> Null]
         /\ \A t \in Requests : t # r => tokens'[t] = tokens[t]
         /\ Rows' = Rows \cup {r}
         /\ Live' = Live \cup {r}
<1>0. tokens \in Table
  BY DEF IInv, TypeOK, Table
<1>1. answer[r] = "none" /\ r \notin Rows /\ r \notin closed
  BY DEF IInv, Login, Admit, TypeOK, RowsIssued, PendingOK, Answers
<1>2. /\ tokens' \in Table
      /\ Present(tokens', r)
      /\ tokens'[r] = [user |-> u, age |-> 0, revoked |-> FALSE,
                       replacedBy |-> Null]
      /\ \A t \in Requests : t # r => tokens'[t] = tokens[t]
  BY <1>0, CreateLemma DEF Login
<1>3. Rows' = Rows \cup {r}
  BY <1>2 DEF Rows, Present
<1>4. Live' = Live \cup {r}
  BY <1>1, <1>2, <1>3 DEF Live, Rows
<1>5. QED
  BY <1>1, <1>2, <1>3, <1>4

LEMMA ReuseKillEffect ==
  ASSUME IInv, NEW r \in Requests, ReuseKill(r)
  PROVE  /\ owner[r] \in Users /\ answer[r] = "none"
         /\ OnlyRevokes
         /\ Rows' = Rows
         /\ Live' = Live \ Family(owner[r])
<1>1. owner[r] \in Users /\ answer[r] = "none" /\ tokens \in Table
  BY DEF IInv, TypeOK, PendingOK, ReuseKill, InFlight, Table, Answers
<1>2. OnlyRevokes
  BY <1>1, RevokeAllLemma DEF ReuseKill, OnlyRevokes
<1>3. Live' \subseteq Live /\ Rows' = Rows
  BY <1>2, OnlyRevokesLemma
<1>4. \A t \in Requests : t \in Rows =>
        /\ tokens[t].user # owner[r] => tokens'[t] = tokens[t]
        /\ tokens[t].user = owner[r] => tokens'[t].revoked
  BY <1>1, RevokeAllLemma DEF ReuseKill, Rows
<1>5. Live' = Live \ Family(owner[r])
  BY <1>3, <1>4 DEF Family, Live, Rows
<1>6. QED
  BY <1>1, <1>2, <1>3, <1>5

LEMMA SingleRevokeEffect ==
  ASSUME IInv, NEW r \in Requests, ExpireRevoke(r) \/ LogoutRevoke(r)
  PROVE  /\ owner[r] \in Users /\ answer[r] = "none"
         /\ presented[r] \in Requests /\ answer[presented[r]] = "session"
         /\ OnlyRevokes
         /\ Rows' = Rows
         /\ Live' = Live \ {presented[r]}
         /\ closed' = closed \cup {presented[r]}
<1>1. /\ owner[r] \in Users /\ answer[r] = "none" /\ tokens \in Table
      /\ presented[r] \in Requests /\ answer[presented[r]] = "session"
      /\ tokens' = Revoke(tokens, presented[r])
      /\ closed' = closed \cup {presented[r]}
  BY DEF IInv, TypeOK, PendingOK, ExpireRevoke, LogoutRevoke, InFlight, Table,
         Answers
<1>2. OnlyRevokes
  BY <1>1, RevokeLemma DEF OnlyRevokes
<1>3. Live' \subseteq Live /\ Rows' = Rows
  BY <1>2, OnlyRevokesLemma
<1>4. \A t \in Requests :
        /\ t # presented[r] => tokens'[t] = tokens[t]
        /\ t = presented[r] /\ t \in Rows => tokens'[t].revoked
  BY <1>1, RevokeLemma DEF Rows
<1>5. Live' = Live \ {presented[r]}
  BY <1>1, <1>3, <1>4 DEF Live, Rows
<1>6. QED
  BY <1>1, <1>2, <1>3, <1>5

LEMMA RotateEffect ==
  ASSUME IInv, NEW r \in Requests, Rotate(r)
  PROVE  /\ answer[r] = "none" /\ r \notin Rows /\ r \notin closed
         /\ presented[r] \in Requests /\ presented[r] # r
         /\ answer[presented[r]] = "session"
         /\ owner[r] \in Users
         /\ tokens' \in Table
         /\ Present(tokens', r)
         /\ tokens'[r] = [user |-> owner[r], age |-> 0, revoked |-> FALSE,
                          replacedBy |-> Null]
         /\ \A t \in Requests :
              t \notin {r, presented[r]} => tokens'[t] = tokens[t]
         /\ Present(tokens', presented[r]) <=> Present(tokens, presented[r])
         /\ Present(tokens, presented[r]) =>
              /\ tokens[presented[r]].user = owner[r]
              /\ tokens'[presented[r]].user = owner[r]
              /\ tokens'[presented[r]].age = tokens[presented[r]].age
              /\ tokens'[presented[r]].replacedBy = r
              /\ tokens'[presented[r]].revoked
         /\ Rows' = Rows \cup {r}
         /\ Live' = (Live \ {presented[r]}) \cup {r}
<1> USE DEF IInv
<1> DEFINE old == presented[r]
           u == owner[r]
           inserted == Create(tokens, r, u)
<1>1. /\ tokens \in Table
      /\ old \in Requests /\ answer[old] = "session"
      /\ u \in Users
      /\ answer[r] = "none" /\ r # old /\ r \notin Rows /\ r \notin closed
      /\ Present(tokens, old) => tokens[old].user = u
  BY DEF Rotate, InFlight, TypeOK, PendingOK, RowsIssued, Table, Answers
<1>2. /\ inserted \in Table
      /\ Present(inserted, r)
      /\ inserted[r] = [user |-> u, age |-> 0, revoked |-> FALSE,
                        replacedBy |-> Null]
      /\ \A t \in Requests : t # r => inserted[t] = tokens[t]
  BY <1>1, CreateLemma
<1>3. /\ tokens' \in Table
      /\ Present(tokens', r)
      /\ tokens'[r] = inserted[r]
      /\ \A t \in Requests : t \notin {r, old} => tokens'[t] = tokens[t]
      /\ Present(tokens', old) <=> Present(tokens, old)
      /\ Present(tokens, old) =>
           /\ tokens'[old].user = u
           /\ tokens'[old].age = tokens[old].age
           /\ tokens'[old].replacedBy = r
           /\ tokens'[old].revoked
  <2>1. Present(inserted, old) <=> Present(tokens, old)
    BY <1>1, <1>2 DEF Present
  <2>2. tokens' = MarkRotated(inserted, old, r)
    BY DEF Rotate
  <2> HIDE DEF inserted, old
  <2> DEFINE marked == MarkRotated(inserted, old, r)
  <2>3. marked \in Table /\ \A t \in Requests :
          /\ Present(marked, t) <=> Present(inserted, t)
          /\ t # old => marked[t] = inserted[t]
    BY <1>1, <1>2, MarkRotatedLemma
  <2>4. Present(inserted, old) =>
          /\ marked[old].user = inserted[old].user
          /\ marked[old].age = inserted[old].age
          /\ marked[old].replacedBy = r
          /\ marked[old].revoked
    BY <1>1, <1>2, MarkRotatedLemma
  <2> HIDE DEF marked
  <2>5. QED
    BY <1>1, <1>2, <2>1, <2>2, <2>3, <2>4 DEF marked
<1>4. Rows' = Rows \cup {r}
  BY <1>1, <1>3 DEF Rows, Present
<1>5. Live' = (Live \ {old}) \cup {r}
  BY <1>1, <1>2, <1>3, <1>4 DEF Live, Rows
<1>6. QED
  BY <1>1, <1>2, <1>3, <1>4, <1>5

LEMMA CleanupEffect ==
  ASSUME IInv, Cleanup
  PROVE  /\ tokens' \in Table
         /\ Rows' = {t \in Rows : ~Purgeable(tokens[t])}
         /\ \A t \in Rows' : tokens'[t] = tokens[t]
         /\ Live' = Live \cap Rows'
<1>1. tokens \in Table /\ tokens' = DeleteExpired(tokens)
  BY DEF IInv, TypeOK, Table, Cleanup
<1>2. /\ tokens' \in Table
      /\ \A t \in Requests :
           /\ Present(tokens', t) <=> Present(tokens, t) /\ ~Purgeable(tokens[t])
           /\ Present(tokens', t) => tokens'[t] = tokens[t]
  BY <1>1, DeleteExpiredLemma
<1>3. QED
  BY <1>2 DEF Rows, Live

LEMMA TickEffect ==
  ASSUME IInv, Tick
  PROVE  /\ \A t \in Requests :
              /\ Present(tokens', t) <=> Present(tokens, t)
              /\ tokens'[t] \in Row \cup {NoRow}
              /\ Present(tokens, t) =>
                   /\ tokens'[t].user = tokens[t].user
                   /\ tokens'[t].revoked = tokens[t].revoked
                   /\ tokens'[t].replacedBy = tokens[t].replacedBy
                   /\ tokens'[t].age = IF tokens[t].age < MaxAge
                                       THEN tokens[t].age + 1
                                       ELSE tokens[t].age
         /\ Rows' = Rows
         /\ Live' = Live
<1> USE DEF IInv
<1>1. tokens \in Table
  BY DEF TypeOK, Table
<1>2. \A t \in Requests :
        /\ Present(tokens', t) <=> Present(tokens, t)
        /\ tokens'[t] \in Row \cup {NoRow}
        /\ Present(tokens, t) =>
             /\ tokens'[t].user = tokens[t].user
             /\ tokens'[t].revoked = tokens[t].revoked
             /\ tokens'[t].replacedBy = tokens[t].replacedBy
             /\ tokens'[t].age = IF tokens[t].age < MaxAge
                                 THEN tokens[t].age + 1 ELSE tokens[t].age
  <2> SUFFICES ASSUME NEW t \in Requests
               PROVE  /\ Present(tokens', t) <=> Present(tokens, t)
                      /\ tokens'[t] \in Row \cup {NoRow}
                      /\ Present(tokens, t) =>
                           /\ tokens'[t].user = tokens[t].user
                           /\ tokens'[t].revoked = tokens[t].revoked
                           /\ tokens'[t].replacedBy = tokens[t].replacedBy
                           /\ tokens'[t].age =
                                IF tokens[t].age < MaxAge
                                THEN tokens[t].age + 1 ELSE tokens[t].age
    OBVIOUS
  <2>1. CASE Present(tokens, t) /\ tokens[t].age < MaxAge
    <3>1. tokens'[t] = [tokens[t] EXCEPT !.age = tokens[t].age + 1]
      BY <2>1 DEF Tick
    <3>2. tokens[t] \in Row /\ tokens[t].age \in Nat
      BY <1>1, <2>1, PresentRow
    <3>3. tokens[t].age + 1 \in 0 .. TTL + Grace + 1
      BY <2>1, <3>2, TimesAssumption DEF MaxAge
    <3>4. tokens'[t] \in Row /\ tokens'[t].age = tokens[t].age + 1
      BY <3>1, <3>2, <3>3 DEF Row
    <3>5. QED
      BY <2>1, <3>1, <3>2, <3>4, NullsAssumption DEF Present, Row
  <2>2. CASE ~(Present(tokens, t) /\ tokens[t].age < MaxAge)
    <3>1. tokens'[t] = tokens[t]
      BY <2>2 DEF Tick
    <3>2. QED
      BY <1>1, <2>2, <3>1 DEF Present, Table
  <2>3. QED
    BY <2>1, <2>2
<1>3. Rows' = Rows /\ Live' = Live
  BY <1>2 DEF Rows, Live
<1>4. QED
  BY <1>2, <1>3

-----------------------------------------------------------------------------
(* One lemma per action: the step keeps the inductive invariant. *)

LEMMA LoginStep ==
  ASSUME IInv, NEW r \in Requests, NEW u \in Users, Login(r, u)
  PROVE  IInv'
<1> USE DEF IInv
<1>1. answer[r] = "none" /\ r \notin Rows /\ r \notin closed
  BY LoginEffect
<1>2. /\ tokens' \in Table
      /\ Present(tokens', r)
      /\ tokens'[r] = [user |-> u, age |-> 0, revoked |-> FALSE,
                       replacedBy |-> Null]
      /\ \A t \in Requests : t # r => tokens'[t] = tokens[t]
  BY LoginEffect
<1>3. Rows' = Rows \cup {r}
  BY LoginEffect
<1>4. TypeOK'
  BY <1>2 DEF Login, Answer, TypeOK, Table, Steps, Answers
<1>5. \A t \in Requests : answer[t] = "session" => answer'[t] = "session"
  BY DEF Login, Answer, TypeOK
<1>6. PendingOK'
  <2> SUFFICES ASSUME NEW q \in Requests
               PROVE  /\ answer'[q] # "none" => step'[q] = "done"
                      /\ presented'[q] # Null => answer'[presented'[q]] = "session"
                      /\ InFlight(q)' =>
                           /\ presented'[q] # Null
                           /\ owner'[q] \in Users
                           /\ Present(tokens', presented'[q])
                                => tokens'[presented'[q]].user = owner'[q]
    BY DEF PendingOK
  <2>1. answer'[q] # "none" => step'[q] = "done"
    BY DEF Login, Answer, TypeOK, PendingOK
  <2>2. presented'[q] # Null => answer'[presented'[q]] = "session"
    BY <1>5 DEF Login, TypeOK, PendingOK
  <2>3. ASSUME InFlight(q)'
        PROVE  /\ presented'[q] # Null
               /\ owner'[q] \in Users
               /\ Present(tokens', presented'[q])
                    => tokens'[presented'[q]].user = owner'[q]
    <3>1. q # r /\ InFlight(q)
      BY <2>3 DEF Login, Answer, TypeOK, InFlight
    <3>2. presented[q] # r /\ presented[q] # Null /\ presented[q] \in Requests
      BY <3>1, <1>1 DEF PendingOK, TypeOK
    <3>3. owner'[q] = owner[q] /\ presented' = presented
      BY <3>1 DEF Login, TypeOK
    <3>4. QED
      BY <3>1, <3>2, <3>3, <1>2 DEF PendingOK, Present
  <2>4. QED
    BY <2>1, <2>2, <2>3
<1>7. RowsIssued'
  <2>1. answer'[r] = "session"
    BY DEF Login, Answer, TypeOK
  <2>2. closed' = closed /\ killed' = killed
    BY DEF Login
  <2>3. QED
    BY <1>3, <1>5, <2>1, <2>2 DEF RowsIssued, Rows, TypeOK
<1>8. ChainIntact' /\ SuccessorsAreYounger'
  <2> SUFFICES ASSUME NEW t \in Rows', tokens'[t].replacedBy # Null
               PROVE  /\ tokens'[t].revoked
                      /\ tokens'[t].replacedBy \in Rows'
                      /\ tokens'[tokens'[t].replacedBy].user = tokens'[t].user
                      /\ tokens'[tokens'[t].replacedBy].age <= tokens'[t].age
    BY DEF ChainIntact, SuccessorsAreYounger
  <2>1. t # r /\ t \in Rows /\ t \in Requests
    BY <1>2, <1>3 DEF Rows
  <2>2. tokens[t].replacedBy \in Rows /\ tokens[t].replacedBy # r
    BY <2>1, <1>1, <1>2 DEF ChainIntact
  <2>3. QED
    BY <2>1, <2>2, <1>2, <1>3 DEF ChainIntact, SuccessorsAreYounger, Rows
<1>9. ClosedStaysClosed'
  BY <1>1, <1>2, <1>3 DEF Login, ClosedStaysClosed, Live, Rows
<1>10. QED
  BY <1>4, <1>6, <1>7, <1>8, <1>9

\* Lookups that only send the request on leave the table alone.
LEMMA ProceedStep ==
  ASSUME IInv, NEW r \in Requests, NEW t \in Issued, step[r] = "new",
         Present(tokens, t),
         NEW s \in Steps, s \notin {"new", "done"}, Proceed(r, t, s)
  PROVE  IInv'
<1> USE DEF IInv
<1>1. tokens[t] \in Row /\ tokens[t].user \in Users /\ t \in Requests
  BY PresentRow DEF TypeOK, Table, Issued
<1>2. answer[r] = "none"
  BY DEF TypeOK, PendingOK, Answers
<1>3. TypeOK'
  BY <1>1 DEF TypeOK, Proceed
<1>4. PendingOK'
  BY <1>1, <1>2, NullsAssumption
  DEF PendingOK, Proceed, TypeOK, InFlight, Issued
<1>5. /\ RowsIssued'
      /\ ChainIntact'
      /\ SuccessorsAreYounger'
      /\ ClosedStaysClosed'
  BY DEF Proceed, RowsIssued, ChainIntact, SuccessorsAreYounger,
         ClosedStaysClosed, Live, Rows
<1>6. QED
  BY <1>3, <1>4, <1>5

\* Requests answered at once without a write: unknown token, idle logout.
LEMMA IdleStep ==
  ASSUME IInv, NEW r \in Requests, NEW t \in Issued,
         RefreshUnknown(r, t) \/ LogoutIdle(r, t)
  PROVE  IInv'
<1> USE DEF IInv
<1> DEFINE a == IF RefreshUnknown(r, t) THEN "invalid" ELSE "bye"
<1>1. /\ t \in Requests /\ answer[t] = "session"
      /\ a \in Answers /\ a # "none"
      /\ Admit(r) /\ Answer(r, a)
      /\ presented' = [presented EXCEPT ![r] = t]
      /\ UNCHANGED <<tokens, owner, killed>>
  BY DEF Issued, RefreshUnknown, LogoutIdle, Answers
<1>2. closed' = closed \/ (closed' = closed \cup {t} /\ t \notin Live)
  BY <1>1 DEF RefreshUnknown, LogoutIdle, Live, Rows, Present
<1>3. answer[r] = "none"
  BY <1>1 DEF Admit, TypeOK, PendingOK, Answers
<1>4. TypeOK'
  BY <1>1, <1>2 DEF TypeOK, Answer, Steps
<1>5. \A q \in Requests : answer[q] = "session" => answer'[q] = "session"
  BY <1>1, <1>3 DEF Answer, TypeOK
<1>6. PendingOK'
  BY <1>1, <1>3, <1>5 DEF PendingOK, Answer, TypeOK, InFlight
<1>7. RowsIssued'
  BY <1>1, <1>2, <1>5 DEF RowsIssued, Rows, TypeOK
<1>8. ChainIntact' /\ SuccessorsAreYounger'
  BY <1>1 DEF ChainIntact, SuccessorsAreYounger, Rows
<1>9. ClosedStaysClosed'
  BY <1>1, <1>2 DEF ClosedStaysClosed, Live, Rows
<1>10. QED
  BY <1>4, <1>6, <1>7, <1>8, <1>9

LEMMA ReuseKillStep ==
  ASSUME IInv, NEW r \in Requests, ReuseKill(r)
  PROVE  IInv'
<1>1. /\ InFlight(r) /\ OnlyRevokes
      /\ Live' = Live \ Family(owner[r])
  BY ReuseKillEffect DEF ReuseKill, InFlight
<1>2. closed' \cap Live' = {}
  BY <1>1 DEF IInv, ClosedStaysClosed, ReuseKill
<1>3. \A t \in closed' : answer[t] = "session" /\ t \in Requests
  BY DEF IInv, TypeOK, RowsIssued, ReuseKill, Family, Rows
<1>4. killed' \subseteq closed'
  BY DEF IInv, RowsIssued, ReuseKill
<1>5. QED
  BY <1>1, <1>2, <1>3, <1>4, RevokingAnswer DEF ReuseKill, Answers

LEMMA SingleRevokeStep ==
  ASSUME IInv, NEW r \in Requests, ExpireRevoke(r) \/ LogoutRevoke(r)
  PROVE  IInv'
<1> DEFINE a == IF ExpireRevoke(r) THEN "invalid" ELSE "bye"
<1>1. /\ InFlight(r)
      /\ a \in Answers
      /\ Answer(r, a)
      /\ UNCHANGED <<presented, owner, killed>>
  BY DEF ExpireRevoke, LogoutRevoke, InFlight, Answers
<1>2. /\ presented[r] \in Requests /\ answer[presented[r]] = "session"
      /\ OnlyRevokes
      /\ Live' = Live \ {presented[r]}
      /\ closed' = closed \cup {presented[r]}
  BY SingleRevokeEffect
<1>3. closed' \cap Live' = {}
  BY <1>2 DEF IInv, ClosedStaysClosed
<1>4. /\ \A t \in closed' : answer[t] = "session" /\ t \in Requests
      /\ killed' \subseteq closed'
  BY <1>2, <1>1 DEF IInv, TypeOK, RowsIssued
<1>5. QED
  BY <1>1, <1>2, <1>3, <1>4, RevokingAnswer

LEMMA RotateStep ==
  ASSUME IInv, NEW r \in Requests, Rotate(r)
  PROVE  IInv'
<1> USE DEF IInv
<1> DEFINE old == presented[r]
           u == owner[r]
<1>1. /\ old \in Requests /\ answer[old] = "session"
      /\ u \in Users
      /\ answer[r] = "none" /\ r # old /\ r \notin Rows /\ r \notin closed
      /\ Present(tokens, old) => tokens[old].user = u
      /\ tokens \in Table
  BY RotateEffect DEF TypeOK, Table
<1>2. tokens'[r] = [user |-> u, age |-> 0, revoked |-> FALSE,
                   replacedBy |-> Null]
  BY RotateEffect
<1>3. /\ tokens' \in Table
      /\ Present(tokens', r)
      /\ \A t \in Requests : t \notin {r, old} => tokens'[t] = tokens[t]
      /\ Present(tokens', old) <=> Present(tokens, old)
      /\ Present(tokens, old) =>
           /\ tokens'[old].user = u
           /\ tokens'[old].age = tokens[old].age
           /\ tokens'[old].replacedBy = r
           /\ tokens'[old].revoked
  BY RotateEffect
<1>4. Rows' = Rows \cup {r}
  BY RotateEffect
<1>5. Live' = (Live \ {old}) \cup {r}
  BY RotateEffect
<1>6. TypeOK'
  BY <1>1, <1>3 DEF Rotate, Answer, TypeOK, Table, Steps, Answers
<1>7. \A t \in Requests : answer[t] = "session" => answer'[t] = "session"
  BY DEF Rotate, Answer, TypeOK
<1>8. PendingOK'
  <2> SUFFICES ASSUME NEW q \in Requests
               PROVE  /\ answer'[q] # "none" => step'[q] = "done"
                      /\ presented'[q] # Null => answer'[presented'[q]] = "session"
                      /\ InFlight(q)' =>
                           /\ presented'[q] # Null
                           /\ owner'[q] \in Users
                           /\ Present(tokens', presented'[q])
                                => tokens'[presented'[q]].user = owner'[q]
    BY DEF PendingOK
  <2>1. answer'[q] # "none" => step'[q] = "done"
    BY DEF Rotate, Answer, TypeOK, PendingOK
  <2>2. presented'[q] # Null => answer'[presented'[q]] = "session"
    BY <1>7 DEF Rotate, TypeOK, PendingOK
  <2>3. ASSUME InFlight(q)'
        PROVE  /\ presented'[q] # Null
               /\ owner'[q] \in Users
               /\ Present(tokens', presented'[q])
                    => tokens'[presented'[q]].user = owner'[q]
    <3>1. q # r /\ InFlight(q) /\ owner' = owner /\ presented' = presented
      BY <2>3 DEF Rotate, Answer, TypeOK, InFlight
    <3>2. presented[q] # r /\ presented[q] # Null /\ presented[q] \in Requests
      BY <3>1, <1>1 DEF PendingOK, TypeOK
    <3>3. CASE presented[q] = old
      <4>1. owner'[q] \in Users /\ presented'[q] # Null
        BY <3>1, <3>2 DEF PendingOK
      <4>2. Present(tokens, old) => tokens[old].user = owner[q]
        BY <3>1, <3>3 DEF PendingOK
      <4>3. Present(tokens', old) => tokens'[old].user = owner'[q]
        BY <4>2, <3>1, <1>1, <1>3
      <4>4. presented'[q] = old
        BY <3>1, <3>3
      <4>5. QED
        BY <4>1, <4>3, <4>4
    <3>4. CASE presented[q] # old
      BY <3>1, <3>2, <3>4, <1>3 DEF PendingOK, Present
    <3>5. QED
      BY <3>3, <3>4
  <2>4. QED
    BY <2>1, <2>2, <2>3
<1>9. RowsIssued'
  <2>1. answer'[r] = "session"
    BY DEF Rotate, Answer, TypeOK
  <2>2. closed' = closed \cup {old} /\ killed' = killed
    BY DEF Rotate
  <2>3. QED
    BY <1>1, <1>4, <1>7, <2>1, <2>2 DEF RowsIssued, Rows, TypeOK
<1>10. ChainIntact' /\ SuccessorsAreYounger'
  <2> SUFFICES ASSUME NEW t \in Rows', tokens'[t].replacedBy # Null
               PROVE  /\ tokens'[t].revoked
                      /\ tokens'[t].replacedBy \in Rows'
                      /\ tokens'[tokens'[t].replacedBy].user = tokens'[t].user
                      /\ tokens'[tokens'[t].replacedBy].age <= tokens'[t].age
    BY DEF ChainIntact, SuccessorsAreYounger
  <2>1. t # r /\ t \in Rows /\ t \in Requests
    BY <1>2, <1>3, <1>4 DEF Rows
  <2>2. CASE t = old
    <3>1. tokens[old].age \in Nat /\ Present(tokens, old)
      BY <2>1, <2>2, <1>1, PresentRow DEF Rows
    <3>2. QED
      BY <2>2, <3>1, <1>2, <1>3, <1>4
  <2>3. CASE t # old
    <3>1. /\ tokens'[t] = tokens[t]
          /\ tokens[t].revoked
          /\ tokens[t].replacedBy \in Rows
          /\ tokens[t].replacedBy \in Requests
          /\ tokens[t].replacedBy # r
      BY <2>1, <2>3, <1>1, <1>3 DEF ChainIntact, Rows
    <3>2. /\ tokens'[tokens[t].replacedBy].user = tokens[tokens[t].replacedBy].user
          /\ tokens'[tokens[t].replacedBy].age = tokens[tokens[t].replacedBy].age
      BY <3>1, <1>1, <1>3 DEF Rows
    <3>3. QED
      BY <2>1, <3>1, <3>2, <1>4 DEF ChainIntact, SuccessorsAreYounger
  <2>4. QED
    BY <2>2, <2>3
<1>11. ClosedStaysClosed'
  BY <1>1, <1>5 DEF Rotate, ClosedStaysClosed
<1>12. QED
  BY <1>6, <1>8, <1>9, <1>10, <1>11

\* The DELETE keeps the reference of every row it leaves: a row that is not
\* purgeable has a successor that is not purgeable either.
LEMMA PurgeKeepsReferences ==
  ASSUME IInv
  PROVE  CleanupNeverBlocked
<1> SUFFICES ASSUME NEW t \in Requests, Present(DeleteExpired(tokens), t),
                    DeleteExpired(tokens)[t].replacedBy # Null
             PROVE  Present(DeleteExpired(tokens),
                            DeleteExpired(tokens)[t].replacedBy)
  BY DEF CleanupNeverBlocked, ReferencesResolve
<1> DEFINE s == tokens[t].replacedBy
<1>0. tokens \in Table
  BY DEF IInv, TypeOK, Table
<1>1. /\ t \in Rows /\ ~Purgeable(tokens[t])
      /\ DeleteExpired(tokens)[t] = tokens[t]
  BY <1>0, DeleteExpiredLemma DEF Rows
<1>2. s \in Requests /\ Present(tokens, s) /\ tokens[s].age <= tokens[t].age
  BY <1>1 DEF IInv, ChainIntact, SuccessorsAreYounger, Rows
<1>3. tokens[s].age \in Nat /\ tokens[t].age \in Nat
  BY <1>0, <1>1, <1>2, PresentRow DEF Rows
<1>4. ~Purgeable(tokens[s])
  BY <1>1, <1>2, <1>3, TimesAssumption DEF Purgeable
<1>5. QED
  BY <1>0, <1>1, <1>2, <1>4, DeleteExpiredLemma

LEMMA CleanupStep ==
  ASSUME IInv, Cleanup
  PROVE  IInv'
<1> USE DEF IInv
<1>1. /\ tokens \in Table /\ tokens' \in Table
      /\ \A t \in Requests : Present(tokens', t) =>
           Present(tokens, t) /\ tokens'[t] = tokens[t]
  BY DeleteExpiredLemma DEF Cleanup, TypeOK, Table
<1>2. Rows' \subseteq Rows /\ Live' \subseteq Live
  BY <1>1 DEF Rows, Live
<1>3. TypeOK'
  BY <1>1 DEF Cleanup, TypeOK, Table
<1>4. PendingOK'
  BY <1>1 DEF Cleanup, PendingOK, TypeOK, InFlight
<1>5. RowsIssued' /\ ClosedStaysClosed'
  BY <1>2 DEF Cleanup, RowsIssued, ClosedStaysClosed
<1>6. \A t \in Rows' : tokens'[t].replacedBy # Null =>
         tokens'[t].replacedBy \in Rows'
  BY <1>1 DEF Cleanup, ReferencesResolve, Rows, ChainIntact
<1>7. ChainIntact' /\ SuccessorsAreYounger'
  BY <1>1, <1>2, <1>6 DEF ChainIntact, SuccessorsAreYounger, Rows
<1>8. QED
  BY <1>3, <1>4, <1>5, <1>7

LEMMA TickStep ==
  ASSUME IInv, Tick
  PROVE  IInv'
<1> USE DEF IInv
<1>1. tokens \in Table
  BY DEF TypeOK, Table
<1>2. \A t \in Requests :
        /\ Present(tokens', t) <=> Present(tokens, t)
        /\ tokens'[t] \in Row \cup {NoRow}
        /\ Present(tokens, t) =>
             /\ tokens'[t].user = tokens[t].user
             /\ tokens'[t].revoked = tokens[t].revoked
             /\ tokens'[t].replacedBy = tokens[t].replacedBy
             /\ tokens'[t].age = IF tokens[t].age < MaxAge
                                 THEN tokens[t].age + 1 ELSE tokens[t].age
  BY TickEffect
<1>3. Rows' = Rows /\ Live' = Live
  BY TickEffect
<1>4. TypeOK'
  <2>1. tokens' \in [Requests -> Row \cup {NoRow}]
    BY <1>2 DEF Tick
  <2>2. QED
    BY <2>1 DEF Tick, TypeOK
<1>5. PendingOK'
  <2>1. \A q \in Requests : presented[q] # Null => presented[q] \in Requests
    BY DEF TypeOK
  <2>2. UNCHANGED <<step, presented, owner, answer>>
    BY DEF Tick
  <2>3. QED
    BY <1>2, <2>1, <2>2 DEF PendingOK, InFlight
<1>6. RowsIssued' /\ ClosedStaysClosed'
  BY <1>3 DEF Tick, RowsIssued, ClosedStaysClosed
<1>7. ChainIntact'
  BY <1>2, <1>3 DEF ChainIntact, Rows
<1>8. SuccessorsAreYounger'
  <2> SUFFICES ASSUME NEW t \in Rows, tokens'[t].replacedBy # Null
               PROVE  tokens'[tokens'[t].replacedBy].age <= tokens'[t].age
    BY <1>3 DEF SuccessorsAreYounger
  <2> DEFINE s == tokens[t].replacedBy
  <2>1. t \in Requests /\ Present(tokens, t) /\ tokens'[t].replacedBy = s
    BY <1>2 DEF Rows
  <2>2. s \in Requests /\ Present(tokens, s) /\ tokens[s].age <= tokens[t].age
    BY <2>1 DEF ChainIntact, SuccessorsAreYounger, Rows
  <2>3. /\ tokens[s].age \in Nat /\ tokens[s].age <= MaxAge
        /\ tokens[t].age \in Nat /\ tokens[t].age <= MaxAge
    BY <1>1, <2>1, <2>2, PresentRow DEF MaxAge
  <2>4. MaxAge \in Nat
    BY TimesAssumption DEF MaxAge
  <2>5. QED
    BY <1>2, <2>1, <2>2, <2>3, <2>4
<1>9. QED
  BY <1>4, <1>5, <1>6, <1>7, <1>8
-----------------------------------------------------------------------------
LEMMA StepIInv == IInv /\ [Next]_vars => IInv'
<1> SUFFICES ASSUME IInv, [Next]_vars PROVE IInv'
  OBVIOUS
<1>1. ASSUME NEW r \in Requests, Begin(r)
      PROVE  IInv'
  <2>1. ASSUME NEW u \in Users, Login(r, u) PROVE IInv'
    BY <2>1, LoginStep
  <2>2. ASSUME NEW t \in Issued, RefreshUnknown(r, t) \/ LogoutIdle(r, t)
        PROVE  IInv'
    BY <2>2, IdleStep
  <2>3. ASSUME NEW t \in Issued, RefreshRead(r, t) \/ LogoutRead(r, t)
        PROVE  IInv'
    <3>1. PICK s \in {"kill", "expire", "rotate", "revoke"} : Proceed(r, t, s)
      BY <2>3 DEF RefreshRead, LogoutRead
    <3>2. step[r] = "new" /\ Present(tokens, t)
      BY <2>3 DEF RefreshRead, LogoutRead, Admit
    <3>3. s \in Steps /\ s \notin {"new", "done"}
      BY <3>1 DEF Steps
    <3>4. QED
      BY <3>1, <3>2, <3>3, ProceedStep
  <2>4. QED
    BY <1>1, <2>1, <2>2, <2>3 DEF Begin
<1>2. ASSUME NEW r \in Requests, Finish(r)
      PROVE  IInv'
  BY <1>2, ReuseKillStep, SingleRevokeStep, RotateStep DEF Finish
<1>3. CASE Cleanup
  BY <1>3, CleanupStep
<1>4. CASE Tick
  BY <1>4, TickStep
<1>5. CASE UNCHANGED vars
  BY <1>5 DEF vars, IInv, TypeOK, PendingOK, RowsIssued, ChainIntact,
     SuccessorsAreYounger, ClosedStaysClosed, Live, Rows, InFlight
<1>6. QED
  BY <1>1, <1>2, <1>3, <1>4, <1>5 DEF Next

LEMMA Invariance == Spec => []IInv
  BY InitIInv, StepIInv, PTL DEF Spec

\* The table and the requests keep their types in every behaviour.
THEOREM TypeCorrect == Spec => []TypeOK
<1>1. IInv => TypeOK
  BY DEF IInv
<1>2. QED
  BY <1>1, Invariance, PTL

\* Rotation chains stay intact whatever overlaps: a replaced row is revoked and
\* its successor is still there, of the same user.
THEOREM ChainStaysIntact == Spec => []ChainIntact
<1>1. IInv => ChainIntact
  BY DEF IInv
<1>2. QED
  BY <1>1, Invariance, PTL

\* The worker's DELETE can never violate the self-referencing foreign key.
THEOREM CleanupIsNeverBlocked == Spec => []CleanupNeverBlocked
  BY PurgeKeepsReferences, Invariance, PTL

\* A session reported over never authenticates again.
THEOREM ClosedIsFinal == Spec => []ClosedStaysClosed
<1>1. IInv => ClosedStaysClosed
  BY DEF IInv
<1>2. QED
  BY <1>1, Invariance, PTL
-----------------------------------------------------------------------------
(* Action properties, and what one request at a time adds. *)

\* What a handler remembers about the row it read, whatever overlaps: a token
\* that bought a session is closed, the row carries the user of its request,
\* and a reuse was detected on a row that no longer counted.
SpentIsClosed ==
  \A r \in Requests :
    answer[r] = "session" /\ presented[r] # Null => presented[r] \in closed

HandlersKnowOwners ==
  /\ \A r \in Requests : step[r] = "new" => presented[r] = Null
  /\ \A t \in Rows : owner[t] = tokens[t].user
  /\ \A r \in Requests : InFlight(r) => owner[r] = owner[presented[r]]
  /\ \A r \in Requests : step[r] = "kill" => presented[r] \notin Live

\* One request at a time: the row that a rotation decided on is still as it
\* was read, and no other request is about to write.
Alone == \A q, r \in Requests : InFlight(q) /\ InFlight(r) => q = r

RotatesWhatLives ==
  \A r \in Requests : step[r] = "rotate" =>
    presented[r] \in Live /\ ~Purgeable(tokens[presented[r]])

SerialInv ==
  /\ IInv
  /\ SpentIsClosed
  /\ HandlersKnowOwners
  /\ Alone
  /\ RotatesWhatLives
  /\ SingleUse

LEMMA InitSerial == Init => SerialInv
<1> SUFFICES ASSUME Init PROVE SerialInv
  OBVIOUS
<1>1. Rows = {} /\ Live = {}
  BY DEF Init, Rows, Live, Present
<1>2. SpentIsClosed /\ Alone /\ RotatesWhatLives /\ SingleUse
  BY DEF Init, SpentIsClosed, Alone, RotatesWhatLives, SingleUse, InFlight
<1>3. HandlersKnowOwners
  BY <1>1 DEF Init, HandlersKnowOwners, InFlight
<1>4. QED
  BY <1>2, <1>3, InitIInv DEF SerialInv

\* A request that is admitted finds no other in flight; one that is in flight
\* is the only one.
LEMMA OnlyOne ==
  ASSUME ~Overlap, SerialInv, NEW r \in Requests, Admit(r) \/ InFlight(r)
  PROVE  \A q \in Requests : InFlight(q) => q = r
  BY DEF Admit, SerialInv, Alone

\* The step that answers the only request in flight.
LEMMA SerialAnswer ==
  ASSUME ~Overlap, SerialInv, IInv', NEW r \in Requests, NEW a \in Answers,
         Admit(r) \/ InFlight(r), Answer(r, a),
         closed \subseteq closed',
         \A q \in Requests : q # r => presented'[q] = presented[q],
         a = "session" =>
           \/ presented'[r] = Null
           \/ /\ presented'[r] \in closed'
              /\ \A q \in Requests : answer[q] = "session"
                                       => presented[q] # presented'[r],
         \A t \in Rows' : owner'[t] = tokens'[t].user
  PROVE  SerialInv'
<1>1. \A q \in Requests :
        /\ step'[q] = IF q = r THEN "done" ELSE step[q]
        /\ answer'[q] = IF q = r THEN a ELSE answer[q]
  BY DEF Answer, SerialInv, IInv, TypeOK
<1>2. \A q \in Requests : ~InFlight(q)'
  BY <1>1, OnlyOne DEF InFlight
<1>3. SpentIsClosed'
  BY <1>1 DEF SpentIsClosed, SerialInv
<1>4. SingleUse'
  <2> SUFFICES ASSUME NEW q \in Requests, NEW p \in Requests, q # p,
                      presented'[q] # Null, answer'[q] = "session",
                      answer'[p] = "session"
               PROVE  presented'[q] # presented'[p]
    BY DEF SingleUse
  <2>1. CASE q # r /\ p # r
    BY <2>1, <1>1 DEF SingleUse, SerialInv
  <2>2. CASE q = r \/ p = r
    BY <2>2, <1>1
  <2>3. QED
    BY <2>1, <2>2
<1>5. Alone' /\ RotatesWhatLives'
  BY <1>2 DEF Alone, RotatesWhatLives, InFlight
<1>6. HandlersKnowOwners'
  <2>1. \A q \in Requests : step'[q] = "new" => presented'[q] = Null
    BY <1>1 DEF HandlersKnowOwners, SerialInv
  <2>2. \A q \in Requests : step'[q] # "kill"
    BY <1>2 DEF InFlight
  <2>3. QED
    BY <2>1, <2>2, <1>2 DEF HandlersKnowOwners
<1>7. QED
  BY <1>3, <1>4, <1>5, <1>6 DEF SerialInv

LEMMA SerialLogin ==
  ASSUME ~Overlap, SerialInv, NEW r \in Requests, NEW u \in Users, Login(r, u)
  PROVE  SerialInv'
<1> USE DEF SerialInv
<1>1. IInv'
  BY LoginStep
<1>2. /\ tokens'[r] = [user |-> u, age |-> 0, revoked |-> FALSE,
                       replacedBy |-> Null]
      /\ \A t \in Requests : t # r => tokens'[t] = tokens[t]
      /\ Rows' = Rows \cup {r}
  BY LoginEffect
<1>3. /\ \A q \in Requests : q # r => owner'[q] = owner[q]
      /\ owner'[r] = u
  BY DEF Login, IInv, TypeOK
<1>4. \A t \in Rows' : owner'[t] = tokens'[t].user
  BY <1>2, <1>3 DEF HandlersKnowOwners, Rows
<1>5. presented'[r] = Null /\ Admit(r) /\ Answer(r, "session")
  BY DEF Login, Admit, HandlersKnowOwners
<1>6. closed' = closed /\ presented' = presented /\ "session" \in Answers
  BY DEF Login, Answers
<1>7. QED
  BY <1>1, <1>4, <1>5, <1>6, SerialAnswer

LEMMA SerialIdle ==
  ASSUME ~Overlap, SerialInv, NEW r \in Requests, NEW t \in Issued,
         RefreshUnknown(r, t) \/ LogoutIdle(r, t)
  PROVE  SerialInv'
<1> DEFINE a == IF RefreshUnknown(r, t) THEN "invalid" ELSE "bye"
<1>1. IInv'
  BY IdleStep DEF SerialInv
<1>2. /\ Admit(r) /\ Answer(r, a) /\ a \in Answers /\ a # "session"
      /\ closed \subseteq closed'
      /\ UNCHANGED <<tokens, owner>>
      /\ presented' = [presented EXCEPT ![r] = t]
  BY DEF RefreshUnknown, LogoutIdle, Answers
<1>3. \A x \in Rows' : owner'[x] = tokens'[x].user
  BY <1>2 DEF SerialInv, HandlersKnowOwners, Rows, Present
<1>4. \A q \in Requests : q # r => presented'[q] = presented[q]
  BY <1>2 DEF SerialInv, IInv, TypeOK
<1>5. QED
  BY <1>1, <1>2, <1>3, <1>4, SerialAnswer

LEMMA SerialRead ==
  ASSUME ~Overlap, SerialInv, NEW r \in Requests, NEW t \in Issued,
         RefreshRead(r, t) \/ LogoutRead(r, t)
  PROVE  SerialInv'
<1> USE DEF SerialInv
<1>0. tokens \in Table
  BY DEF IInv, TypeOK, Table
<1>1. PICK s \in {"kill", "expire", "rotate", "revoke"} :
        /\ Proceed(r, t, s)
        /\ Admit(r) /\ Present(tokens, t)
        /\ s = "kill" => Used(tokens[t])
        /\ s = "rotate" => ~Used(tokens[t]) /\ ~Expired(tokens[t])
  BY DEF RefreshRead, LogoutRead
<1>2. s \in Steps /\ s \notin {"new", "done"}
  BY <1>1 DEF Steps
<1>3. IInv'
  BY <1>1, <1>2, ProceedStep DEF Admit
<1>4. /\ t \in Requests /\ answer[t] = "session" /\ t \in Rows
      /\ t # r /\ answer[r] = "none"
  BY <1>1 DEF Admit, Issued, IInv, TypeOK, PendingOK, Rows, Answers
<1>5. \A q \in Requests :
        /\ step'[q] = IF q = r THEN s ELSE step[q]
        /\ presented'[q] = IF q = r THEN t ELSE presented[q]
        /\ owner'[q] = IF q = r THEN tokens[t].user ELSE owner[q]
  BY <1>1 DEF Proceed, IInv, TypeOK
<1>6. UNCHANGED <<tokens, answer, closed>> /\ Live' = Live /\ Rows' = Rows
  BY <1>1 DEF Proceed, Live, Rows, Present
<1>7. \A q \in Requests : InFlight(q)' => q = r
  BY <1>1, <1>5, OnlyOne DEF InFlight
<1>8. Alone'
  BY <1>7 DEF Alone
<1>9. SpentIsClosed' /\ SingleUse'
  BY <1>4, <1>5, <1>6 DEF SpentIsClosed, SingleUse
<1>10. RotatesWhatLives'
  <2> SUFFICES ASSUME s = "rotate"
               PROVE  t \in Live /\ ~Purgeable(tokens[t])
    BY <1>2, <1>5, <1>6, <1>7 DEF RotatesWhatLives, InFlight
  <2>1. t \in Live
    BY <1>1, <1>4 DEF Used, Live
  <2>2. tokens[t].age \in Nat
    BY <1>0, <1>1, <1>4, PresentRow
  <2>3. QED
    BY <1>1, <2>1, <2>2, TimesAssumption DEF Expired, Purgeable
<1>11. HandlersKnowOwners'
  <2>1. \A q \in Requests : step'[q] = "new" => presented'[q] = Null
    BY <1>2, <1>5 DEF HandlersKnowOwners
  <2>2. \A x \in Rows' : owner'[x] = tokens'[x].user
    <3>1. r \notin Rows
      BY <1>4 DEF IInv, RowsIssued
    <3>2. QED
      BY <3>1, <1>5, <1>6 DEF HandlersKnowOwners, Rows
  <2>3. \A q \in Requests : InFlight(q)' => owner'[q] = owner'[presented'[q]]
    BY <1>4, <1>5, <1>7 DEF HandlersKnowOwners
  <2>4. \A q \in Requests : step'[q] = "kill" => presented'[q] \notin Live'
    <3>1. s = "kill" => t \notin Live
      BY <1>1, <1>4 DEF Used, Live, IInv, ChainIntact
    <3>2. QED
      BY <3>1, <1>5, <1>6, <1>7 DEF InFlight
  <2>5. QED
    BY <2>1, <2>2, <2>3, <2>4 DEF HandlersKnowOwners
<1>12. QED
  BY <1>3, <1>8, <1>9, <1>10, <1>11

LEMMA SerialFinish ==
  ASSUME ~Overlap, SerialInv, NEW r \in Requests, Finish(r)
  PROVE  SerialInv'
<1> USE DEF SerialInv
<1>1. IInv'
  BY ReuseKillStep, SingleRevokeStep, RotateStep DEF Finish
<1>2. InFlight(r) /\ UNCHANGED <<presented, owner>> /\ closed \subseteq closed'
  BY DEF Finish, ReuseKill, ExpireRevoke, LogoutRevoke, Rotate, InFlight
<1>3. CASE ReuseKill(r) \/ ExpireRevoke(r) \/ LogoutRevoke(r)
  <2>1. PICK a \in Answers : Answer(r, a) /\ a # "session"
    BY <1>3 DEF ReuseKill, ExpireRevoke, LogoutRevoke, Answers
  <2>2. OnlyRevokes /\ Rows' = Rows
    BY <1>3, ReuseKillEffect, SingleRevokeEffect
  <2>3. \A t \in Rows' : owner'[t] = tokens'[t].user
    BY <1>2, <2>2 DEF OnlyRevokes, HandlersKnowOwners, Rows
  <2>4. QED
    BY <1>1, <1>2, <2>1, <2>3, SerialAnswer
<1>4. CASE Rotate(r)
  <2>1. Answer(r, "session") /\ closed' = closed \cup {presented[r]}
        /\ "session" \in Answers
    BY <1>4 DEF Rotate, Answers
  <2>2. presented[r] \in Live
    BY <1>4 DEF Rotate, RotatesWhatLives
  <2>3. \A q \in Requests : answer[q] = "session" => presented[q] # presented[r]
    <3>1. presented[r] # Null
      BY <1>2 DEF IInv, PendingOK
    <3>2. QED
      BY <2>2, <3>1 DEF SpentIsClosed, IInv, ClosedStaysClosed
  <2>4. /\ tokens'[r] = [user |-> owner[r], age |-> 0, revoked |-> FALSE,
                         replacedBy |-> Null]
        /\ \A t \in Requests :
             t \notin {r, presented[r]} => tokens'[t] = tokens[t]
        /\ presented[r] \in Rows =>
             tokens'[presented[r]].user = tokens[presented[r]].user
        /\ Rows' = Rows \cup {r}
    BY <1>4, RotateEffect DEF Rows
  <2>5. \A t \in Rows' : owner'[t] = tokens'[t].user
    BY <1>2, <2>4 DEF HandlersKnowOwners, Rows
  <2>6. QED
    BY <1>1, <1>2, <2>1, <2>3, <2>5, SerialAnswer
<1>5. QED
  BY <1>3, <1>4 DEF Finish

\* The worker and the clock leave the row that a rotation decided on alone.
LEMMA SerialBackground ==
  ASSUME SerialInv, Cleanup \/ Tick
  PROVE  SerialInv'
<1> USE DEF SerialInv
<1>0. tokens \in Table
  BY DEF IInv, TypeOK, Table
<1>1. IInv'
  BY CleanupStep, TickStep
<1>2. UNCHANGED <<step, presented, owner, answer, closed>>
  BY DEF Cleanup, Tick
<1>3. Live' \subseteq Live /\ Rows' \subseteq Rows
  BY CleanupEffect, TickEffect
<1>4. \A t \in Rows' : tokens'[t].user = tokens[t].user
  BY CleanupEffect, TickEffect DEF Rows
<1>5. SpentIsClosed' /\ Alone' /\ SingleUse'
  BY <1>2 DEF SpentIsClosed, Alone, SingleUse, InFlight
<1>6. HandlersKnowOwners'
  BY <1>2, <1>3, <1>4 DEF HandlersKnowOwners, InFlight
<1>7. RotatesWhatLives'
  <2> SUFFICES ASSUME NEW r \in Requests, step[r] = "rotate"
               PROVE  /\ presented[r] \in Live'
                      /\ ~Purgeable(tokens'[presented[r]])
    BY <1>2 DEF RotatesWhatLives
  <2> DEFINE old == presented[r]
  <2>1. /\ old \in Live /\ old \in Requests /\ Present(tokens, old)
        /\ ~Purgeable(tokens[old])
    BY DEF RotatesWhatLives, Live, Rows
  <2>2. CASE Cleanup
    BY <2>1, <2>2, CleanupEffect DEF Live
  <2>3. CASE Tick
    <3>1. tokens[old].age \in Nat /\ tokens[old].age < TTL + Grace
      BY <1>0, <2>1, <2>3, PresentRow DEF Tick
    <3>2. tokens'[old].age = tokens[old].age + 1
      BY <2>1, <2>3, <3>1, TickEffect, TimesAssumption DEF MaxAge
    <3>3. ~Purgeable(tokens'[old])
      BY <3>1, <3>2, TimesAssumption DEF Purgeable
    <3>4. QED
      BY <2>1, <2>3, <3>3, TickEffect
  <2>4. QED
    BY <2>2, <2>3
<1>8. QED
  BY <1>1, <1>5, <1>6, <1>7

LEMMA SerialStep ==
  ASSUME ~Overlap
  PROVE  SerialInv /\ [Next]_vars => SerialInv'
<1> SUFFICES ASSUME SerialInv, [Next]_vars PROVE SerialInv'
  OBVIOUS
<1>1. ASSUME NEW r \in Requests, Begin(r) PROVE SerialInv'
  BY <1>1, SerialLogin, SerialIdle, SerialRead DEF Begin
<1>2. ASSUME NEW r \in Requests, Finish(r) PROVE SerialInv'
  BY <1>2, SerialFinish
<1>3. CASE Cleanup \/ Tick
  BY <1>3, SerialBackground
<1>4. CASE UNCHANGED vars
  <2>1. IInv'
    BY <1>4, StepIInv DEF SerialInv
  <2>2. Rows' = Rows /\ Live' = Live
    BY <1>4 DEF vars, Rows, Live, Present
  <2>3. QED
    BY <1>4, <2>1, <2>2 DEF vars, SerialInv, SpentIsClosed, HandlersKnowOwners,
       Alone, RotatesWhatLives, SingleUse, InFlight
<1>5. QED
  BY <1>1, <1>2, <1>3, <1>4 DEF Next

LEMMA SerialInvariance ==
  ASSUME ~Overlap
  PROVE  Spec => []SerialInv
  BY InitSerial, SerialStep, PTL DEF Spec

\* With one request at a time no two refreshes of one token are both answered
\* with a session, for every set of requests, users, TTL and grace period.
THEOREM SerialSingleUse ==
  ASSUME ~Overlap
  PROVE  Spec => []SingleUse
<1>1. SerialInv => SingleUse
  BY DEF SerialInv
<1>2. QED
  BY <1>1, SerialInvariance, PTL
-----------------------------------------------------------------------------
\* What a step does to the live sessions, in one place: whatever leaves Live
\* is closed, or was purgeable and is gone.
LEMMA LiveSteps ==
  ASSUME IInv, [Next]_vars
  PROVE  \A t \in Live : t \in Live' \/ t \in closed'
                           \/ (t \notin Rows' /\ Purgeable(tokens[t]))
<1>1. ASSUME NEW r \in Requests, Begin(r) PROVE Live \subseteq Live'
  <2>1. ASSUME NEW u \in Users, Login(r, u) PROVE Live \subseteq Live'
    BY <2>1, LoginEffect
  <2>2. CASE tokens' = tokens
    BY <2>2 DEF Live, Rows, Present
  <2>3. QED
    BY <1>1, <2>1, <2>2
    DEF Begin, RefreshUnknown, RefreshRead, LogoutIdle, LogoutRead, Proceed
<1>2. ASSUME NEW r \in Requests, Finish(r)
      PROVE  Live \subseteq Live' \cup closed'
  <2>1. CASE ReuseKill(r)
    BY <2>1, ReuseKillEffect DEF ReuseKill
  <2>2. CASE ExpireRevoke(r) \/ LogoutRevoke(r)
    BY <2>2, SingleRevokeEffect
  <2>3. CASE Rotate(r)
    <3>1. Live' = (Live \ {presented[r]}) \cup {r}
      BY <2>3, RotateEffect
    <3>2. QED
      BY <2>3, <3>1 DEF Rotate
  <2>4. QED
    BY <1>2, <2>1, <2>2, <2>3 DEF Finish
<1>3. CASE Cleanup
  BY <1>3, CleanupEffect DEF Live
<1>4. CASE Tick
  BY <1>4, TickEffect
<1>5. CASE UNCHANGED vars
  BY <1>5 DEF vars, Live, Rows, Present
<1>6. QED
  BY <1>1, <1>2, <1>3, <1>4, <1>5 DEF Next

\* A live session ends only because its token was presented or swept by a
\* reuse, or because it expired more than the grace period ago; whatever
\* overlaps.
THEOREM NoSessionEndsByItself == Spec => SessionsEndForAReason
<1>1. IInv /\ [Next]_vars =>
        [\A t \in Live : t \in Live' \/ t \in closed'
                           \/ (t \notin Rows' /\ Purgeable(tokens[t]))]_vars
  BY LiveSteps
<1>2. QED
  BY <1>1, Invariance, PTL DEF Spec, SessionsEndForAReason

\* Links change in a rotation only, on the row that it decided on.
LEMMA LinkSteps ==
  ASSUME SerialInv, [Next]_vars
  PROVE  \A t \in killed \cap Rows : t \in Rows' =>
           tokens'[t].replacedBy = tokens[t].replacedBy
<1> USE DEF SerialInv
<1> SUFFICES ASSUME NEW t \in killed, t \in Rows, t \in Rows'
             PROVE  tokens'[t].replacedBy = tokens[t].replacedBy
  OBVIOUS
<1>0. t \notin Live /\ t \in Requests /\ Present(tokens, t)
  BY DEF IInv, ClosedStaysClosed, RowsIssued, Rows
<1>1. ASSUME NEW r \in Requests, Begin(r)
      PROVE  tokens'[t].replacedBy = tokens[t].replacedBy
  <2>1. ASSUME NEW u \in Users, Login(r, u)
        PROVE  tokens'[t].replacedBy = tokens[t].replacedBy
    BY <1>0, <2>1, LoginEffect
  <2>2. QED
    BY <1>1, <2>1
    DEF Begin, RefreshUnknown, RefreshRead, LogoutIdle, LogoutRead, Proceed
<1>2. ASSUME NEW r \in Requests, Finish(r)
      PROVE  tokens'[t].replacedBy = tokens[t].replacedBy
  <2>1. CASE ReuseKill(r) \/ ExpireRevoke(r) \/ LogoutRevoke(r)
    BY <1>0, <2>1, ReuseKillEffect, SingleRevokeEffect DEF OnlyRevokes
  <2>2. CASE Rotate(r)
    <3>1. t # presented[r]
      BY <1>0, <2>2 DEF Rotate, RotatesWhatLives
    <3>2. IInv /\ Rotate(r)
      BY <2>2
    <3>3. r \notin Rows
      BY <3>2, RotateEffect
    <3>4. \A q \in Requests : q \notin {r, presented[r]} => tokens'[q] = tokens[q]
      BY <3>2, RotateEffect
    <3>5. QED
      BY <1>0, <3>1, <3>3, <3>4
  <2>3. QED
    BY <1>2, <2>1, <2>2 DEF Finish
<1>3. CASE Cleanup
  BY <1>3, CleanupEffect
<1>4. CASE Tick
  BY <1>0, <1>4, TickEffect
<1>5. CASE UNCHANGED vars
  BY <1>5 DEF vars
<1>6. QED
  BY <1>1, <1>2, <1>3, <1>4, <1>5 DEF Next

\* With one request at a time no row of a killed family is rotated again.
THEOREM SerialKillIsFinal ==
  ASSUME ~Overlap
  PROVE  Spec => KilledFamilyEnds
<1>1. SerialInv /\ [Next]_vars =>
        [\A t \in killed \cap Rows : t \in Rows' =>
           tokens'[t].replacedBy = tokens[t].replacedBy]_vars
  BY LinkSteps
<1>2. QED
  BY <1>1, SerialInvariance, PTL DEF Spec, KilledFamilyEnds
-----------------------------------------------------------------------------
(* The refinement: with one request at a time the handlers implement the     *)
(* abstract sessions.  The three functions the mapping is made of.           *)
LiveOf == [u \in Users |-> Live \cap Family(u)]
GivenOf == [u \in Users |-> {r \in Issued : owner[r] = u}]
StaleOf == {t \in Issued : t \notin Rows \/ Expired(tokens[t])}

\* A token counts for the user that its row names.
LEMMA LiveOfOne ==
  ASSUME NEW u \in Users
  PROVE  /\ LiveOf[u] = {t \in Live : tokens[t].user = u}
         /\ GivenOf[u] = {t \in Issued : owner[t] = u}
  BY DEF LiveOf, GivenOf, Family, Live

LEMMA MapsLogin ==
  ASSUME SerialInv, NEW r \in Requests, NEW u \in Users, Login(r, u)
  PROVE  Sessions!Open(u, r)
<1> USE DEF SerialInv
<1>1. /\ answer[r] = "none" /\ r \notin Rows
      /\ tokens'[r] = [user |-> u, age |-> 0, revoked |-> FALSE,
                       replacedBy |-> Null]
      /\ \A t \in Requests : t # r => tokens'[t] = tokens[t]
      /\ Rows' = Rows \cup {r}
      /\ Live' = Live \cup {r}
  BY LoginEffect
<1>2. /\ \A q \in Requests : q # r => owner'[q] = owner[q]
      /\ owner'[r] = u
      /\ Issued' = Issued \cup {r}
  BY DEF Login, Answer, IInv, TypeOK, Issued
<1>3. r \notin Issued /\ Live \subseteq Requests /\ Issued \subseteq Requests
  BY <1>1 DEF Issued, Live, Rows
<1>4. LiveOf' = [LiveOf EXCEPT ![u] = @ \cup {r}]
  <2>1. ASSUME NEW v \in Users
        PROVE  LiveOf'[v] = IF v = u THEN LiveOf[u] \cup {r} ELSE LiveOf[v]
    <3>1. LiveOf'[v] = {t \in Live' : tokens'[t].user = v}
      BY DEF LiveOf, Family, Live
    <3>2. LiveOf[v] = {t \in Live : tokens[t].user = v}
      BY LiveOfOne
    <3>3. \A t \in Live : tokens'[t] = tokens[t]
      BY <1>1, <1>3 DEF Live
    <3>4. tokens'[r].user = u
      BY <1>1
    <3>5. QED
      BY <1>1, <3>1, <3>2, <3>3, <3>4
  <2>2. QED
    BY <2>1 DEF LiveOf
<1>5. GivenOf' = [GivenOf EXCEPT ![u] = @ \cup {r}]
  BY <1>2, <1>3 DEF GivenOf
<1>6. StaleOf' = StaleOf
  <2>1. ~Expired(tokens'[r])
    BY <1>1, TimesAssumption DEF Expired
  <2>2. QED
    BY <1>1, <1>2, <1>3, <2>1 DEF StaleOf
<1>7. \A v \in Users : r \notin GivenOf[v]
  BY <1>3 DEF GivenOf
<1>8. QED
  BY <1>4, <1>5, <1>6, <1>7
  DEF Sessions!Open, Sessions!Fresh, Sessions!Hand, LiveOf, GivenOf, StaleOf

\* Once answered, a request that buys no session leaves the given tokens alone.
LEMMA GivenSame ==
  ASSUME IInv, NEW r \in Requests, NEW a \in Answers, a # "session",
         answer[r] = "none", Answer(r, a), UNCHANGED owner
  PROVE  Issued' = Issued /\ GivenOf' = GivenOf
<1>1. \A q \in Requests : answer'[q] = IF q = r THEN a ELSE answer[q]
  BY DEF Answer, IInv, TypeOK
<1>2. Issued' = Issued
  BY <1>1 DEF Issued
<1>3. QED
  BY <1>2 DEF GivenOf

\* Revoking keeps ages and rows, so no token grows old by it.
LEMMA StaleSame ==
  ASSUME IInv, OnlyRevokes, Issued' = Issued
  PROVE  StaleOf' = StaleOf
<1>1. Rows' = Rows
  BY OnlyRevokesLemma
<1>2. \A t \in Rows : Expired(tokens'[t]) <=> Expired(tokens[t])
  BY DEF OnlyRevokes, Rows, Expired
<1>3. QED
  BY <1>1, <1>2 DEF StaleOf

LEMMA MapsRotate ==
  ASSUME SerialInv, NEW r \in Requests, Rotate(r)
  PROVE  Sessions!Refresh(owner[r], presented[r], r)
<1> USE DEF SerialInv
<1> DEFINE u == owner[r]
           old == presented[r]
<1>1. /\ answer[r] = "none" /\ r \notin Rows /\ old # r /\ old \in Requests
      /\ u \in Users
      /\ tokens'[r] = [user |-> u, age |-> 0, revoked |-> FALSE,
                       replacedBy |-> Null]
  BY RotateEffect
<1>2. /\ \A t \in Requests : t \notin {r, old} => tokens'[t] = tokens[t]
      /\ Rows' = Rows \cup {r}
      /\ Live' = (Live \ {old}) \cup {r}
  BY RotateEffect
<1>3. old \in Live /\ old \in Rows
  BY DEF Rotate, RotatesWhatLives, Live
<1>4. tokens[old].user = u /\ tokens'[old].age = tokens[old].age
  BY <1>3, RotateEffect DEF Rows
<1>5. /\ owner' = owner
      /\ Issued' = Issued \cup {r}
  BY DEF Rotate, Answer, IInv, TypeOK, Issued
<1>6. r \notin Issued /\ Live \subseteq Requests /\ Issued \subseteq Requests
  BY <1>1 DEF Issued, Live, Rows
<1>7. LiveOf' = [LiveOf EXCEPT ![u] = (@ \ {old}) \cup {r}]
  <2>1. ASSUME NEW v \in Users
        PROVE  LiveOf'[v] = IF v = u THEN (LiveOf[u] \ {old}) \cup {r}
                                     ELSE LiveOf[v]
    <3>1. LiveOf'[v] = {t \in Live' : tokens'[t].user = v}
      BY DEF LiveOf, Family, Live
    <3>2. LiveOf[v] = {t \in Live : tokens[t].user = v}
      BY LiveOfOne
    <3>3. \A t \in Live \ {old} : tokens'[t] = tokens[t]
      BY <1>1, <1>2, <1>6 DEF Live
    <3>4. tokens'[r].user = u
      BY <1>1
    <3>5. QED
      BY <1>2, <1>4, <3>1, <3>2, <3>3, <3>4
  <2>2. QED
    BY <2>1 DEF LiveOf
<1>8. GivenOf' = [GivenOf EXCEPT ![u] = @ \cup {r}]
  BY <1>1, <1>5, <1>6 DEF GivenOf
<1>9. StaleOf' = StaleOf
  <2>1. ~Expired(tokens'[r]) /\ (Expired(tokens'[old]) <=> Expired(tokens[old]))
    BY <1>1, <1>4, TimesAssumption DEF Expired
  <2>2. QED
    BY <1>1, <1>2, <1>5, <1>6, <2>1 DEF StaleOf
<1>10. old \in LiveOf[u] /\ \A v \in Users : r \notin GivenOf[v]
  BY <1>1, <1>3, <1>4, <1>6, LiveOfOne DEF GivenOf
<1>11. QED
  BY <1>7, <1>8, <1>9, <1>10
  DEF Sessions!Refresh, Sessions!Fresh, Sessions!Hand, LiveOf, GivenOf, StaleOf

LEMMA MapsReuseKill ==
  ASSUME SerialInv, NEW r \in Requests, ReuseKill(r)
  PROVE  Sessions!Reuse(owner[r], presented[r])
<1> USE DEF SerialInv
<1>1. /\ owner[r] \in Users /\ answer[r] = "none"
      /\ OnlyRevokes
      /\ Live' = Live \ Family(owner[r])
  BY ReuseKillEffect
<1>2. /\ InFlight(r) /\ Answer(r, "reused") /\ UNCHANGED owner
      /\ "reused" \in Answers
  BY DEF ReuseKill, InFlight, Answers
<1>3. Issued' = Issued /\ GivenOf' = GivenOf
  BY <1>1, <1>2, GivenSame
<1>4. StaleOf' = StaleOf
  BY <1>1, <1>3, StaleSame
<1>5. LiveOf' = [LiveOf EXCEPT ![owner[r]] = {}]
  <2>1. ASSUME NEW v \in Users
        PROVE  LiveOf'[v] = IF v = owner[r] THEN {} ELSE LiveOf[v]
    <3>1. LiveOf'[v] = {t \in Live' : tokens'[t].user = v}
      BY DEF LiveOf, Family, Live
    <3>2. LiveOf[v] = {t \in Live : tokens[t].user = v}
      BY LiveOfOne
    <3>3. \A t \in Live : tokens'[t].user = tokens[t].user
      BY <1>1 DEF OnlyRevokes, Live, Rows
    <3>4. \A t \in Live : t \in Family(owner[r]) <=> tokens[t].user = owner[r]
      BY DEF Family, Live
    <3>5. QED
      BY <1>1, <3>1, <3>2, <3>3, <3>4
  <2>2. QED
    BY <2>1 DEF LiveOf
<1>6. presented[r] \in GivenOf[owner[r]] \ LiveOf[owner[r]]
  <2>1. presented[r] \in Issued /\ owner[presented[r]] = owner[r]
    BY <1>2 DEF Issued, IInv, PendingOK, TypeOK, HandlersKnowOwners
  <2>2. presented[r] \notin Live
    BY DEF ReuseKill, HandlersKnowOwners
  <2>3. QED
    BY <1>1, <2>1, <2>2, LiveOfOne
<1>7. QED
  BY <1>3, <1>4, <1>5, <1>6
  DEF Sessions!Reuse, LiveOf, GivenOf, StaleOf

\* A logout or an expired refresh closes the session, or finds nothing to do.
LEMMA MapsSingleRevoke ==
  ASSUME SerialInv, NEW r \in Requests, ExpireRevoke(r) \/ LogoutRevoke(r)
  PROVE  Sessions!Close(owner[r], presented[r]) \/ UNCHANGED Sessions!vars
<1> USE DEF SerialInv
<1> DEFINE t == presented[r]
           u == owner[r]
           a == IF ExpireRevoke(r) THEN "invalid" ELSE "bye"
<1>1. /\ u \in Users /\ answer[r] = "none" /\ t \in Requests
      /\ OnlyRevokes
      /\ Live' = Live \ {t}
  BY SingleRevokeEffect
<1>2. /\ InFlight(r) /\ Answer(r, a) /\ UNCHANGED owner
      /\ a \in Answers /\ a # "session"
  BY DEF ExpireRevoke, LogoutRevoke, InFlight, Answers
<1>3. Issued' = Issued /\ GivenOf' = GivenOf
  BY <1>1, <1>2, GivenSame
<1>4. StaleOf' = StaleOf
  BY <1>1, <1>3, StaleSame
<1>5. t \in Live => tokens[t].user = u
  BY <1>1, <1>2 DEF IInv, PendingOK, Live, Rows
<1>6. \A v \in Users : LiveOf'[v] = LiveOf[v] \ {t}
  <2> SUFFICES ASSUME NEW v \in Users PROVE LiveOf'[v] = LiveOf[v] \ {t}
    OBVIOUS
  <2>1. LiveOf'[v] = {x \in Live' : tokens'[x].user = v}
    BY DEF LiveOf, Family, Live
  <2>2. LiveOf[v] = {x \in Live : tokens[x].user = v}
    BY LiveOfOne
  <2>3. \A x \in Live : tokens'[x].user = tokens[x].user
    BY <1>1 DEF OnlyRevokes, Live, Rows
  <2>4. QED
    BY <1>1, <2>1, <2>2, <2>3
<1>7. CASE t \in Live
  <2>1. LiveOf' = [LiveOf EXCEPT ![u] = @ \ {t}]
    <3>1. \A v \in Users : v # u => t \notin LiveOf[v]
      BY <1>5, <1>7, LiveOfOne
    <3>2. QED
      BY <1>6, <3>1 DEF LiveOf
  <2>2. t \in LiveOf[u]
    BY <1>1, <1>5, <1>7, LiveOfOne
  <2>3. QED
    BY <1>3, <1>4, <2>1, <2>2 DEF Sessions!Close, LiveOf, GivenOf, StaleOf
<1>8. CASE t \notin Live
  <2>1. LiveOf' = LiveOf
    BY <1>6, <1>8, LiveOfOne DEF LiveOf
  <2>2. QED
    BY <1>3, <1>4, <2>1 DEF Sessions!vars, LiveOf, GivenOf, StaleOf
<1>9. QED
  BY <1>7, <1>8

\* A lookup, and an answer without a write, are stutters of the abstract
\* sessions: the request is not one that handed out a token.
LEMMA MapsLookup ==
  ASSUME SerialInv, NEW r \in Requests, NEW t \in Issued,
         \/ RefreshUnknown(r, t) \/ RefreshRead(r, t)
         \/ LogoutIdle(r, t) \/ LogoutRead(r, t)
  PROVE  UNCHANGED Sessions!vars
<1> USE DEF SerialInv
<1>1. answer[r] = "none" /\ r \notin Issued
  BY DEF RefreshUnknown, RefreshRead, LogoutIdle, LogoutRead, Admit, IInv,
         PendingOK, TypeOK, Answers, Issued
<1>2. tokens' = tokens
  BY DEF RefreshUnknown, RefreshRead, LogoutIdle, LogoutRead, Proceed
<1>3. \A q \in Requests : q # r => owner'[q] = owner[q]
  BY DEF RefreshUnknown, RefreshRead, LogoutIdle, LogoutRead, Proceed, IInv,
         TypeOK
<1>4. Issued' = Issued
  <2>1. PICK a \in Answers : /\ a # "session"
                             /\ \A q \in Requests :
                                  answer'[q] = IF q = r THEN a ELSE answer[q]
    BY <1>1 DEF RefreshUnknown, RefreshRead, LogoutIdle, LogoutRead, Proceed,
       Answer, Answers, IInv, TypeOK
  <2>2. QED
    BY <1>1, <2>1 DEF Issued
<1>5. LiveOf' = LiveOf
  BY <1>2 DEF LiveOf, Live, Family, Rows, Present
<1>6. GivenOf' = GivenOf
  BY <1>1, <1>3, <1>4 DEF GivenOf, Issued
<1>7. StaleOf' = StaleOf
  BY <1>2, <1>4 DEF StaleOf, Rows, Present
<1>8. QED
  BY <1>5, <1>6, <1>7 DEF Sessions!vars, LiveOf, GivenOf, StaleOf

\* The worker forgets sessions that were stale already.
LEMMA MapsCleanup ==
  ASSUME SerialInv, Cleanup
  PROVE  Sessions!Forget
<1> USE DEF SerialInv
<1> DEFINE S == {t \in Live : Purgeable(tokens[t])}
<1>1. /\ Rows' = {t \in Rows : ~Purgeable(tokens[t])}
      /\ \A t \in Rows' : tokens'[t] = tokens[t]
      /\ Live' = Live \cap Rows'
  BY CleanupEffect
<1>2. owner' = owner /\ Issued' = Issued
  BY DEF Cleanup, Issued
<1>3. \A t \in Rows : Purgeable(tokens[t]) => Expired(tokens[t])
  <2>1. tokens \in Table
    BY DEF IInv, TypeOK, Table
  <2>2. \A t \in Rows : tokens[t].age \in Nat
    BY <2>1, PresentRow DEF Rows
  <2>3. QED
    BY <2>2, TimesAssumption DEF Purgeable, Expired
<1>4. S \subseteq StaleOf
  BY <1>3 DEF StaleOf, Live, IInv, RowsIssued, Issued, Rows
<1>5. Live' = Live \ S /\ \A t \in Live' : tokens'[t] = tokens[t]
  BY <1>1 DEF Live
<1>6. LiveOf' = [u \in Users |-> LiveOf[u] \ S]
  <2>1. ASSUME NEW u \in Users PROVE LiveOf'[u] = LiveOf[u] \ S
    <3>1. LiveOf'[u] = {t \in Live' : tokens'[t].user = u}
      BY DEF LiveOf, Family, Live
    <3>2. QED
      BY <1>5, <3>1, LiveOfOne
  <2>2. QED
    BY <2>1 DEF LiveOf
<1>7. GivenOf' = GivenOf
  BY <1>2 DEF GivenOf
<1>8. StaleOf' = StaleOf
  BY <1>1, <1>2, <1>3 DEF StaleOf
<1>9. QED
  BY <1>4, <1>6, <1>7, <1>8 DEF Sessions!Forget, LiveOf, GivenOf, StaleOf

\* A tick only makes tokens stale.
LEMMA MapsTick ==
  ASSUME SerialInv, Tick
  PROVE  Sessions!Age
<1> USE DEF SerialInv
<1>1. /\ Rows' = Rows
      /\ Live' = Live
      /\ \A t \in Rows :
           /\ tokens'[t].user = tokens[t].user
           /\ tokens'[t].age = IF tokens[t].age < MaxAge
                               THEN tokens[t].age + 1 ELSE tokens[t].age
  BY TickEffect DEF Rows
<1>2. owner' = owner /\ Issued' = Issued
  BY DEF Tick, Issued
<1>3. \A t \in Rows : Expired(tokens[t]) => Expired(tokens'[t])
  <2>1. tokens \in Table
    BY DEF IInv, TypeOK, Table
  <2>2. \A t \in Rows : tokens[t].age \in Nat
    BY <2>1, PresentRow DEF Rows
  <2>3. QED
    BY <1>1, <2>2, TimesAssumption DEF Expired
<1>4. StaleOf \subseteq StaleOf' /\ StaleOf' \subseteq Requests
  BY <1>1, <1>2, <1>3 DEF StaleOf, Issued
<1>5. StaleOf' \in SUBSET Requests /\ StaleOf' = StaleOf \cup StaleOf'
  BY <1>4
<1>6. LiveOf' = LiveOf
  BY <1>1 DEF LiveOf, Family, Live
<1>7. GivenOf' = GivenOf
  BY <1>2 DEF GivenOf
<1>8. QED
  BY <1>5, <1>6, <1>7 DEF Sessions!Age, LiveOf, GivenOf, StaleOf

LEMMA MapsInit == Init => Sessions!Init
<1> SUFFICES ASSUME Init PROVE Sessions!Init
  OBVIOUS
<1>1. Live = {} /\ Issued = {}
  BY DEF Init, Live, Rows, Present, Issued
<1>2. QED
  BY <1>1 DEF Sessions!Init

LEMMA MapsStep ==
  ASSUME SerialInv, [Next]_vars
  PROVE  [Sessions!Next]_(Sessions!vars)
<1>1. ASSUME NEW r \in Requests, Begin(r)
      PROVE  [Sessions!Next]_(Sessions!vars)
  <2>1. ASSUME NEW u \in Users, Login(r, u) PROVE Sessions!Next
    BY <2>1, MapsLogin DEF Sessions!Next
  <2>2. ASSUME NEW t \in Issued,
               \/ RefreshUnknown(r, t) \/ RefreshRead(r, t)
               \/ LogoutIdle(r, t) \/ LogoutRead(r, t)
        PROVE  UNCHANGED Sessions!vars
    BY <2>2, MapsLookup
  <2>3. QED
    BY <1>1, <2>1, <2>2 DEF Begin
<1>2. ASSUME NEW r \in Requests, Finish(r)
      PROVE  [Sessions!Next]_(Sessions!vars)
  <2>1. owner[r] \in Users /\ presented[r] \in Requests
    BY <1>2 DEF Finish, ReuseKill, ExpireRevoke, LogoutRevoke, Rotate,
       InFlight, SerialInv, IInv, PendingOK, TypeOK
  <2>2. CASE ReuseKill(r)
    BY <2>1, <2>2, MapsReuseKill DEF Sessions!Next
  <2>3. CASE ExpireRevoke(r) \/ LogoutRevoke(r)
    BY <2>1, <2>3, MapsSingleRevoke DEF Sessions!Next
  <2>4. CASE Rotate(r)
    <3>1. Sessions!Refresh(owner[r], presented[r], r)
      BY <2>4, MapsRotate
    <3>2. PICK u \in Users, t \in Requests : u = owner[r] /\ t = presented[r]
      BY <2>1
    <3>3. Sessions!Refresh(u, t, r)
      BY <3>1, <3>2 DEF Sessions!Refresh, Sessions!Fresh, Sessions!Hand
    <3>4. QED
      BY <3>3 DEF Sessions!Next
  <2>5. QED
    BY <1>2, <2>2, <2>3, <2>4 DEF Finish
<1>3. CASE Cleanup
  BY <1>3, MapsCleanup DEF Sessions!Next
<1>4. CASE Tick
  BY <1>4, MapsTick DEF Sessions!Next
<1>5. CASE UNCHANGED vars
  BY <1>5 DEF vars, Sessions!vars, Live, Family, Rows, Present, Issued, Expired
<1>6. QED
  BY <1>1, <1>2, <1>3, <1>4, <1>5 DEF Next

\* With one request at a time the table and its handlers are the abstract
\* sessions: one token keeps a session alive, a refresh moves it, a reuse ends
\* the family, old age forgets it.
THEOREM SerialRefinesUserSessions ==
  ASSUME ~Overlap
  PROVE  Spec => ImplementsUserSessions
  BY MapsInit, MapsStep, SerialInvariance, PTL
  DEF Spec, ImplementsUserSessions, Sessions!Spec
=============================================================================
