---------------------------- MODULE RefreshTokens ----------------------------
(***************************************************************************)
(* The refresh-token sessions of the API: the refresh_tokens table and the *)
(* requests that read and write it (api/src/services/session.service.ts,   *)
(* auth.service.ts, repositories/refreshTokens.repository.ts) together     *)
(* with the worker's cleanup job (queues/maintenance.processor.ts).        *)
(*                                                                         *)
(* A handler awaits the database, so it is a process: one step looks the   *)
(* presented token up (no lock, no transaction), a later step writes what  *)
(* the row READ EARLIER calls for.  Any other request, the clock and the   *)
(* worker can run in between.  A request that never takes its second step  *)
(* is an API process that crashed while it was serving it.                 *)
(*                                                                         *)
(* Time is the age of a row, in ticks since it was inserted: every row     *)
(* gets the same REFRESH_TOKEN_TTL_DAYS, so expires_at < now() is          *)
(* age > TTL, and no clock value has to be bounded.                        *)
(***************************************************************************)
EXTENDS Naturals

CONSTANTS
  Requests,   \* the HTTP requests ever made; the row that request r inserts
              \* (login or rotation insert exactly one) is named r as well
  Users,      \* the registered accounts
  TTL,        \* life of a token, in ticks (REFRESH_TOKEN_TTL_DAYS)
  Grace,      \* ticks a row is kept once expired (CLEANUP_GRACE_DAYS)
  Overlap,    \* TRUE: requests may overlap; FALSE: one request at a time
  NoRow,      \* no row of the table has this id
  Null        \* SQL NULL, and what a request has not set yet

Row == [user : Users, age : 0 .. TTL + Grace + 1, revoked : BOOLEAN,
        replacedBy : Requests \cup {Null}]

ASSUME TimesAssumption == TTL \in Nat /\ Grace \in Nat
ASSUME OverlapAssumption == Overlap \in BOOLEAN
ASSUME NullsAssumption == Null \notin Requests \cup Users /\ NoRow \notin Row

VARIABLES
  tokens,     \* the refresh_tokens table, by row id
  step,       \* where the handler of each request is
  presented,  \* the refresh token a request carries
  owner,      \* row.userId of the row the request read
  answer,     \* what the request was answered
  killed,     \* history: rows a detected reuse found in the user's family
  closed      \* history: tokens whose session the API reported as over

vars == <<tokens, step, presented, owner, answer, killed, closed>>

Steps == {"new", "kill", "expire", "rotate", "revoke", "done"}
Answers == {"none", "session", "invalid", "reused", "bye"}

MaxAge == TTL + Grace + 1     \* older than this is all the same
-----------------------------------------------------------------------------
(* The repository: each function is one SQL statement, from table to table. *)

Present(table, t) == table[t] # NoRow
Expired(row) == row.age > TTL

\* Operators named Slip... are wrong on purpose: each is the next operator with
\* one plausible mistake, and PROJECT.json names the property that notices it.
SlipPurgesUnrevokedOnly(row) == ~row.revoked /\ row.age > TTL + Grace
SlipPurgesRevokedOnly(row) == row.revoked /\ row.age > TTL + Grace
Purgeable(row) == row.age > TTL + Grace

SlipUsedIfRotated(row) == row.replacedBy # Null
Used(row) == row.revoked \/ row.replacedBy # Null

Create(table, id, u) ==
  [table EXCEPT ![id] = [user |-> u, age |-> 0, revoked |-> FALSE,
                         replacedBy |-> Null]]

SlipLinksOnly(table, id, successor) ==
  IF Present(table, id)
  THEN [table EXCEPT ![id] = [@ EXCEPT !.replacedBy = successor]]
  ELSE table
SlipMarksSuccessor(table, id, successor) ==
  [table EXCEPT ![successor] = [@ EXCEPT !.revoked = TRUE, !.replacedBy = id]]
\* UPDATE .. WHERE id = $id: whatever the row holds by now, if it still exists.
MarkRotated(table, id, successor) ==
  IF Present(table, id)
  THEN [table EXCEPT ![id] = [@ EXCEPT !.revoked = TRUE,
                                       !.replacedBy = successor]]
  ELSE table

SlipRevokesUnexpiredOnly(table, id) ==
  IF Present(table, id) /\ ~Expired(table[id])
  THEN [table EXCEPT ![id] = [@ EXCEPT !.revoked = TRUE]]
  ELSE table
Revoke(table, id) ==
  IF Present(table, id)
  THEN [table EXCEPT ![id] = [@ EXCEPT !.revoked = TRUE]]
  ELSE table

SlipRevokesEveryone(table, u) ==
  [t \in Requests |-> IF Present(table, t)
                      THEN [table[t] EXCEPT !.revoked = TRUE]
                      ELSE table[t]]
RevokeAllActiveForUser(table, u) ==
  [t \in Requests |-> IF Present(table, t) /\ table[t].user = u
                      THEN [table[t] EXCEPT !.revoked = TRUE]
                      ELSE table[t]]

DeleteExpired(table) ==
  [t \in Requests |-> IF Present(table, t) /\ Purgeable(table[t])
                      THEN NoRow ELSE table[t]]

\* replaced_by_id REFERENCES refresh_tokens(id), with no ON DELETE action.
ReferencesResolve(table) ==
  \A t \in Requests :
    Present(table, t) /\ table[t].replacedBy # Null
      => Present(table, table[t].replacedBy)
-----------------------------------------------------------------------------
Rows == {t \in Requests : Present(tokens, t)}
Live == {t \in Rows : ~tokens[t].revoked}
Family(u) == {t \in Rows : tokens[t].user = u}

\* Only tokens that reached a client can be presented.
Issued == {r \in Requests : answer[r] = "session"}

InFlight(r) == step[r] \notin {"new", "done"}

Admit(r) ==
  /\ step[r] = "new"
  /\ Overlap \/ \A q \in Requests : ~InFlight(q)

Answer(r, a) ==
  /\ step' = [step EXCEPT ![r] = "done"]
  /\ answer' = [answer EXCEPT ![r] = a]

\* After the lookup: remember the token and the row's owner, go on to s.
Proceed(r, t, s) ==
  /\ step' = [step EXCEPT ![r] = s]
  /\ presented' = [presented EXCEPT ![r] = t]
  /\ owner' = [owner EXCEPT ![r] = tokens[t].user]
  /\ UNCHANGED <<tokens, answer, killed, closed>>

Init ==
  /\ tokens = [t \in Requests |-> NoRow]
  /\ step = [r \in Requests |-> "new"]
  /\ presented = [r \in Requests |-> Null]
  /\ owner = [r \in Requests |-> Null]
  /\ answer = [r \in Requests |-> "none"]
  /\ killed = {}
  /\ closed = {}
-----------------------------------------------------------------------------
(* POST /auth/login and /auth/register: one insert once the credentials hold *)
Login(r, u) ==
  /\ Admit(r)
  /\ tokens' = Create(tokens, r, u)
  /\ owner' = [owner EXCEPT ![r] = u]
  /\ Answer(r, "session")
  /\ UNCHANGED <<presented, killed, closed>>

(* POST /auth/refresh, up to the decision taken on the row that was read. *)
RefreshUnknown(r, t) ==
  /\ Admit(r)
  /\ ~Present(tokens, t)
  /\ presented' = [presented EXCEPT ![r] = t]
  /\ Answer(r, "invalid")
  /\ UNCHANGED <<tokens, owner, killed, closed>>

RefreshRead(r, t) ==
  /\ Admit(r)
  /\ Present(tokens, t)
  /\ \/ Used(tokens[t]) /\ Proceed(r, t, "kill")
     \/ ~Used(tokens[t]) /\ Expired(tokens[t]) /\ Proceed(r, t, "expire")
     \/ ~Used(tokens[t]) /\ ~Expired(tokens[t]) /\ Proceed(r, t, "rotate")

\* Reuse: every active token of the user is revoked.
ReuseKill(r) ==
  /\ step[r] = "kill"
  /\ tokens' = RevokeAllActiveForUser(tokens, owner[r])
  /\ killed' = killed \cup Family(owner[r])
  /\ closed' = closed \cup Family(owner[r])
  /\ Answer(r, "reused")
  /\ UNCHANGED <<presented, owner>>

ExpireRevoke(r) ==
  /\ step[r] = "expire"
  /\ tokens' = Revoke(tokens, presented[r])
  /\ closed' = closed \cup {presented[r]}
  /\ Answer(r, "invalid")
  /\ UNCHANGED <<presented, owner, killed>>

\* The transaction: insert the new row, mark the presented one rotated.
Rotate(r) ==
  /\ step[r] = "rotate"
  /\ tokens' = MarkRotated(Create(tokens, r, owner[r]), presented[r], r)
  /\ closed' = closed \cup {presented[r]}
  /\ Answer(r, "session")
  /\ UNCHANGED <<presented, owner, killed>>

(* POST /auth/logout: look up, revoke if the row read was still active. *)
LogoutIdle(r, t) ==
  /\ Admit(r)
  /\ Present(tokens, t) => tokens[t].revoked
  /\ presented' = [presented EXCEPT ![r] = t]
  /\ closed' = closed \cup {t}
  /\ Answer(r, "bye")
  /\ UNCHANGED <<tokens, owner, killed>>

LogoutRead(r, t) ==
  /\ Admit(r)
  /\ Present(tokens, t)
  /\ ~tokens[t].revoked
  /\ Proceed(r, t, "revoke")

LogoutRevoke(r) ==
  /\ step[r] = "revoke"
  /\ tokens' = Revoke(tokens, presented[r])
  /\ closed' = closed \cup {presented[r]}
  /\ Answer(r, "bye")
  /\ UNCHANGED <<presented, owner, killed>>

(* The worker's repeatable job: one DELETE.  The foreign key is checked at   *)
(* the end of the statement; a dangling reference fails the whole job.       *)
Cleanup ==
  /\ ReferencesResolve(DeleteExpired(tokens))
  /\ tokens' = DeleteExpired(tokens)
  /\ UNCHANGED <<step, presented, owner, answer, killed, closed>>

(* A tick of the clock.  No rotation stays in flight for the grace period    *)
(* (seven days): that is the one assumption made about how long a call takes.*)
Tick ==
  /\ \A r \in Requests :
       step[r] = "rotate" => ~Present(tokens, presented[r])
                               \/ tokens[presented[r]].age < TTL + Grace
  /\ tokens' = [t \in Requests |->
                  IF Present(tokens, t) /\ tokens[t].age < MaxAge
                  THEN [tokens[t] EXCEPT !.age = tokens[t].age + 1]
                  ELSE tokens[t]]
  /\ UNCHANGED <<step, presented, owner, answer, killed, closed>>
-----------------------------------------------------------------------------
Begin(r) ==
  \/ \E u \in Users : Login(r, u)
  \/ \E t \in Issued : \/ RefreshUnknown(r, t)
                       \/ RefreshRead(r, t)
                       \/ LogoutIdle(r, t)
                       \/ LogoutRead(r, t)

Finish(r) ==
  \/ ReuseKill(r)
  \/ ExpireRevoke(r)
  \/ Rotate(r)
  \/ LogoutRevoke(r)

Next ==
  \/ \E r \in Requests : Begin(r) \/ Finish(r)
  \/ Cleanup
  \/ Tick

Spec == Init /\ [][Next]_vars

\* A handler that has read its row runs on (Node never abandons it), time
\* passes, and the repeatable job keeps being scheduled (ENABLE_TOKEN_CLEANUP).
Fairness ==
  /\ \A r \in Requests : WF_vars(Finish(r))
  /\ WF_vars(Cleanup)
  /\ WF_vars(Tick)

FairSpec == Spec /\ Fairness
-----------------------------------------------------------------------------
(* Properties *)

\* Every variable holds values of the kind the schema and the handlers allow.
TypeOK ==
  /\ tokens \in [Requests -> Row \cup {NoRow}]
  /\ step \in [Requests -> Steps]
  /\ presented \in [Requests -> Requests \cup {Null}]
  /\ owner \in [Requests -> Users \cup {Null}]
  /\ answer \in [Requests -> Answers]
  /\ killed \subseteq Requests
  /\ closed \subseteq Requests

\* Rotation chain: a row that names a successor is itself revoked, the
\* successor is still in the table and it belongs to the same user, whatever
\* overlaps (rotations of one token, logouts, reuse kills, the cleanup job).
ChainIntact ==
  \A t \in Rows : tokens[t].replacedBy # Null =>
    /\ tokens[t].revoked
    /\ tokens[t].replacedBy \in Rows
    /\ tokens[tokens[t].replacedBy].user = tokens[t].user

\* The DELETE of the cleanup job never trips over the self-referencing foreign
\* key: a successor never becomes purgeable before the row that points at it.
CleanupNeverBlocked == ReferencesResolve(DeleteExpired(tokens))

\* A token whose session was reported over (rotated away, logged out, expired,
\* or swept by a detected reuse) never authenticates again, although every
\* one of those handlers decided on a row it had read earlier.
ClosedStaysClosed == closed \cap Live = {}

\* A session that is still alive ends only for a reason of its own: its token
\* was presented by someone, or a token of the same user was reused, or it
\* expired so long ago that the worker deletes it.
SessionsEndForAReason ==
  [][\A t \in Live : t \in Live' \/ t \in closed'
                       \/ (t \notin Rows' /\ Purgeable(tokens[t]))]_vars

\* A detected reuse kills the family for good: no row that was in the family
\* when it was killed is rotated afterwards.
KilledFamilyEnds ==
  [][\A t \in killed \cap Rows : t \in Rows' =>
       tokens'[t].replacedBy = tokens[t].replacedBy]_vars

\* A refresh token is single-use: no two refreshes that presented the same
\* token are both answered with a new session.
SingleUse ==
  \A q, r \in Requests :
    /\ q # r /\ presented[q] # Null
    /\ {answer[q], answer[r]} = {"session"}
    => presented[q] # presented[r]

\* Without overlap the table and its handlers implement the abstract sessions:
\* the tokens that keep a session alive are the rows not yet revoked.
Sessions == INSTANCE UserSessions WITH
  Tokens <- Requests,
  live <- [u \in Users |-> Live \cap Family(u)],
  given <- [u \in Users |-> {r \in Issued : owner[r] = u}],
  stale <- {t \in Issued : t \notin Rows \/ Expired(tokens[t])}

ImplementsUserSessions == Sessions!Spec

\* Retention: a row that has expired is deleted in the end, so the job can
\* never get stuck on a chain that keeps referring to an older row.
ExpiredRowsArePurged ==
  \A t \in Requests :
    (t \in Rows /\ Expired(tokens[t])) ~> (t \notin Rows)
=============================================================================
