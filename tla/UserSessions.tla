---------------------------- MODULE UserSessions ----------------------------
(***************************************************************************)
(* What the session endpoints promise, without table, timestamps or steps: *)
(* a login opens a session that ONE token keeps alive; a refresh moves the *)
(* session to a new token; presenting a token that no longer counts ends   *)
(* all sessions of its user; a session nobody uses dies of old age.        *)
(* RefreshTokens implements it when requests do not overlap.               *)
(***************************************************************************)
CONSTANTS Users, Tokens

VARIABLES
  live,    \* by user: the tokens that keep a session alive
  given,   \* by user: the tokens ever handed out
  stale    \* tokens whose life has run out

vars == <<live, given, stale>>

Init ==
  /\ live = [u \in Users |-> {}]
  /\ given = [u \in Users |-> {}]
  /\ stale = {}

Fresh(t) == \A u \in Users : t \notin given[u]

Hand(u, t) == given' = [given EXCEPT ![u] = @ \cup {t}]

Open(u, t) ==
  /\ Fresh(t)
  /\ live' = [live EXCEPT ![u] = @ \cup {t}]
  /\ Hand(u, t)
  /\ UNCHANGED stale

Refresh(u, old, new) ==
  /\ old \in live[u]
  /\ Fresh(new)
  /\ live' = [live EXCEPT ![u] = (@ \ {old}) \cup {new}]
  /\ Hand(u, new)
  /\ UNCHANGED stale

\* Logout, or a refresh that comes after the token's life has run out.
Close(u, t) ==
  /\ t \in live[u]
  /\ live' = [live EXCEPT ![u] = @ \ {t}]
  /\ UNCHANGED <<given, stale>>

Reuse(u, t) ==
  /\ t \in given[u] \ live[u]
  /\ live' = [live EXCEPT ![u] = {}]
  /\ UNCHANGED <<given, stale>>

Age ==
  /\ \E S \in SUBSET Tokens : stale' = stale \cup S
  /\ UNCHANGED <<live, given>>

Forget ==
  /\ \E S \in SUBSET stale : live' = [u \in Users |-> live[u] \ S]
  /\ UNCHANGED <<given, stale>>

Next ==
  \/ \E u \in Users, t \in Tokens :
       Open(u, t) \/ Close(u, t) \/ Reuse(u, t)
  \/ \E u \in Users, old, new \in Tokens : Refresh(u, old, new)
  \/ Age
  \/ Forget

Spec == Init /\ [][Next]_vars
=============================================================================
