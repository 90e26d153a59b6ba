-------------------------- MODULE WebSession_proofs --------------------------
(***************************************************************************)
(* Proofs about WebSession, for every set of tabs, request slots and users *)
(* and any number of tokens.  The session store has one localStorage per   *)
(* device, so everything here is about devices that show the application   *)
(* in one tab (OneTabPerDevice): with two tabs, what one persists the      *)
(* other overwrites.                                                       *)
(*                                                                         *)
(* IInv holds whatever overlaps.  It adds to the checked invariants that a *)
(* tab only handles tokens the API gave out, which kinds of call each lane *)
(* carries, that a page being restored does nothing else, and that a tab   *)
(* that was never loaded does nothing at all.  QuietInv is what waiting    *)
(* for the requests of the tab (~Overlap) adds: who may be in flight with  *)
(* whom, and that every token a tab holds or is about to get still counts, *)
(* is held by that tab only and is presented by that tab only.             *)
(***************************************************************************)
EXTENDS WebSession, TLAPS

OneTabPerDevice == \A a, b \in Tabs : StoreOf[a] = StoreOf[b] => a = b

Renewing == {"refresh", "boot"}
Asking == {"me", "request"}

\* The API gave each token to one user; only those expire, are remembered by
\* a device or left behind by a page.
ApiSound ==
  /\ \A u \in Users : live[u] \subseteq given[u]
  /\ \A u, v \in Users : given[u] \cap given[v] # {} => u = v
  /\ orphans \cup lapsed \subseteq Issued
  /\ \A s \in Stores : stored[s] \in Issued \cup {Null}

\* The refresh lane renews, the slots sign in, sign out and ask; only questions
\* wait for a refresh; a token comes with the answer to a call that buys one.
CallSound(c) ==
  InFlight(c) =>
    /\ {call[c].sent, call[c].got} \subseteq Issued \cup {Null}
    /\ call[c].kind \in Renewing <=> c[2] = "auth"
    /\ call[c].at = "joined" => call[c].kind \in Asking
    /\ call[c].at = "answered" => call[c].result # "none"
    /\ call[c].kind \in Renewing \cup {"logout"} => call[c].sent # Null
    /\ call[c].got # Null =>
         call[c].at = "answered" /\ call[c].kind \in Renewing \cup {"login"}
    /\ call[c].result = "ok" /\ call[c].kind \in Renewing \cup {"login"}
         => call[c].got # Null
    /\ call[c].result = "ok" /\ call[c].kind \in Asking => call[c].sent # Null

\* Restoring a session is all its page does; a tab that was never loaded has
\* sent nothing; whoever waits has a refresh to wait for.
TabSound(b) ==
  /\ {mem[b].accessToken, mem[b].refreshToken} \subseteq Issued \cup {Null}
  /\ stored[StoreOf[b]] = mem[b].refreshToken
  /\ mem[b].status = "idle" =>
       /\ mem[b].user = Null /\ mem[b].refreshToken = Null
       /\ \A c \in Of(b) : ~InFlight(c)
  /\ \A c \in Of(b) : CallSound(c)
  /\ \A c \in Of(b) : InFlight(c) /\ call[c].kind = "boot" =>
       /\ mem[b].user = Null /\ mem[b].status = "loading"
       /\ \A d \in Of(b) : InFlight(d) => d = c
  /\ \A c \in Of(b) : InFlight(c) /\ call[c].at = "joined" =>
       InFlight(<<b, "auth">>) /\ call[<<b, "auth">>].kind = "refresh"

IInv ==
  /\ TypeOK
  /\ ApiSound
  /\ \A b \in Tabs : TabSound(b)
-----------------------------------------------------------------------------
(* Lanes, tokens and their owners. *)

\* A call is a lane of a tab.
LEMMA LaneLemma ==
  ASSUME NEW b \in Tabs, NEW l \in Lanes
  PROVE  /\ <<b, l>> \in Calls /\ <<b, l>> \in Of(b)
         /\ <<b, l>>[1] = b /\ <<b, l>>[2] = l
         /\ \A c \in Of(b) : c[2] = l => c = <<b, l>>
  BY DEF Calls, Of

LEMMA CallLemma ==
  ASSUME NEW c \in Calls
  PROVE  c[1] \in Tabs /\ c[2] \in Lanes /\ c \in Of(c[1])
  BY DEF Calls, Of

LEMMA OwnerLemma ==
  ASSUME ApiSound, NEW u \in Users, NEW t \in given[u]
  PROVE  Owner(t) = u
  BY DEF ApiSound, Owner

LEMMA OwnerType ==
  ASSUME NEW t \in Issued
  PROVE  Owner(t) \in Users /\ t \in given[Owner(t)]
<1>1. \E u \in Users : t \in given[u]
  BY DEF Issued
<1>2. QED
  BY <1>1 DEF Owner

\* Handing out a token that is new to everybody.
LEMMA OpenEffect ==
  ASSUME IInv, NEW u \in Users, NEW n \in Tokens, Server!Open(u, n),
         UNCHANGED <<orphans, lapsed, stored>>
  PROVE  /\ live' \in [Users -> SUBSET Tokens]
         /\ given' \in [Users -> SUBSET Tokens]
         /\ ApiSound'
         /\ n \notin Issued /\ Issued' = Issued \cup {n}
         /\ n \in live'[u] /\ n \in given'[u]
         /\ \A v \in Users : live[v] \subseteq live'[v] /\ given[v] \subseteq given'[v]
<1> USE DEF IInv
<1>1. /\ \A v \in Users : n \notin given[v]
      /\ \A v \in Users :
           /\ live'[v] = IF v = u THEN live[v] \cup {n} ELSE live[v]
           /\ given'[v] = IF v = u THEN given[v] \cup {n} ELSE given[v]
      /\ live' \in [Users -> SUBSET Tokens]
      /\ given' \in [Users -> SUBSET Tokens]
  BY DEF Server!Open, Server!Fresh, Server!Hand, TypeOK
<1>2. n \notin Issued /\ Issued' = Issued \cup {n}
  BY <1>1 DEF Issued
<1>3. ApiSound'
  BY <1>1, <1>2 DEF ApiSound
<1>4. QED
  BY <1>1, <1>2, <1>3

LEMMA RefreshEffect ==
  ASSUME IInv, NEW u \in Users, NEW t, NEW n \in Tokens,
         Server!Refresh(u, t, n), UNCHANGED <<lapsed, stored>>,
         orphans' \subseteq orphans
  PROVE  /\ live' \in [Users -> SUBSET Tokens]
         /\ given' \in [Users -> SUBSET Tokens]
         /\ ApiSound'
         /\ t \in live[u] /\ n \notin Issued /\ Issued' = Issued \cup {n}
         /\ n \in live'[u] /\ n \in given'[u]
         /\ \A v \in Users : live[v] \ {t} \subseteq live'[v]
                               /\ given[v] \subseteq given'[v]
<1> USE DEF IInv
<1>1. /\ \A v \in Users : n \notin given[v]
      /\ t \in live[u]
      /\ \A v \in Users :
           /\ live'[v] = IF v = u THEN (live[v] \ {t}) \cup {n} ELSE live[v]
           /\ given'[v] = IF v = u THEN given[v] \cup {n} ELSE given[v]
      /\ live' \in [Users -> SUBSET Tokens]
      /\ given' \in [Users -> SUBSET Tokens]
  BY DEF Server!Refresh, Server!Fresh, Server!Hand, TypeOK
<1>2. n \notin Issued /\ Issued' = Issued \cup {n}
  BY <1>1 DEF Issued
<1>3. ApiSound'
  BY <1>1, <1>2 DEF ApiSound
<1>4. QED
  BY <1>1, <1>2, <1>3

\* Ending sessions gives nothing out.
LEMMA EndEffect ==
  ASSUME IInv, NEW u \in Users, NEW t,
         Server!Close(u, t) \/ Server!Reuse(u, t),
         UNCHANGED <<lapsed, stored>>, orphans' \subseteq orphans
  PROVE  /\ live' \in [Users -> SUBSET Tokens]
         /\ given' = given /\ Issued' = Issued
         /\ ApiSound'
         /\ Server!Close(u, t) =>
              /\ t \in live[u]
              /\ \A v \in Users : live[v] \ {t} \subseteq live'[v]
         /\ Server!Reuse(u, t) => t \notin live[u]
<1> USE DEF IInv
<1>1. given' = given /\ Issued' = Issued
  BY DEF Server!Close, Server!Reuse, Issued
<1>2. /\ live' \in [Users -> SUBSET Tokens]
      /\ \A v \in Users : live'[v] \subseteq live[v]
  BY DEF Server!Close, Server!Reuse, TypeOK
<1>3. ApiSound'
  BY <1>1, <1>2 DEF ApiSound
<1>4. Server!Close(u, t) =>
        t \in live[u] /\ \A v \in Users : live[v] \ {t} \subseteq live'[v]
  BY DEF Server!Close, TypeOK
<1>5. Server!Reuse(u, t) => t \notin live[u]
  BY DEF Server!Reuse
<1>6. QED
  BY <1>1, <1>2, <1>3, <1>4, <1>5
-----------------------------------------------------------------------------
(* What a step of one tab leaves alone. *)

\* A tab whose store and calls stay as they are stays sound: the tokens given
\* out only become more.
LEMMA TabKept ==
  ASSUME NEW b \in Tabs, TabSound(b), Issued \subseteq Issued',
         mem'[b] = mem[b], stored'[StoreOf[b]] = stored[StoreOf[b]],
         \A c \in Of(b) : call'[c] = call[c]
  PROVE  TabSound(b)'
<1>1. <<b, "auth">> \in Of(b)
  BY LaneLemma DEF Lanes
<1>2. \A c \in Of(b) : (InFlight(c)' <=> InFlight(c)) /\ (CallSound(c) => CallSound(c)')
  BY DEF CallSound, InFlight
<1>3. QED
  BY <1>1, <1>2 DEF TabSound, Of, InFlight

\* Only one tab, its device and its calls change.
Touches(b) ==
  /\ \A a \in Tabs : a # b => mem'[a] = mem[a]
  /\ \A s \in Stores : s # StoreOf[b] => stored'[s] = stored[s]
  /\ \A c \in Calls : c \notin Of(b) => call'[c] = call[c]

LEMMA TabStep ==
  ASSUME OneTabPerDevice, IInv, NEW b \in Tabs, Touches(b), TypeOK', ApiSound',
         Issued \subseteq Issued', TabSound(b)'
  PROVE  IInv'
<1>1. ASSUME NEW a \in Tabs, a # b PROVE TabSound(a)'
  <2>1. /\ mem'[a] = mem[a]
        /\ stored'[StoreOf[a]] = stored[StoreOf[a]]
        /\ \A c \in Of(a) : call'[c] = call[c]
    BY <1>1, StoresAssumption DEF Touches, OneTabPerDevice, Of
  <2>2. QED
    BY <2>1, TabKept DEF IInv
<1>2. QED
  BY <1>1 DEF IInv
-----------------------------------------------------------------------------
(* The steps of the API and of the network. *)

LEMMA InitIInv == Init => IInv
<1> SUFFICES ASSUME Init PROVE IInv
  OBVIOUS
<1>1. Issued = {} /\ \A c \in Calls : ~InFlight(c)
  BY DEF Init, Issued, InFlight
<1>2. TypeOK
  BY DEF Init, TypeOK, Session, Statuses
<1>3. ApiSound
  BY <1>1 DEF Init, ApiSound
<1>4. \A b \in Tabs : TabSound(b)
  BY <1>1, StoresAssumption DEF Init, TabSound, CallSound, Of
<1>5. QED
  BY <1>2, <1>3, <1>4 DEF IInv

\* The API answers a call, or the network loses it.
LEMMA RespondStep ==
  ASSUME OneTabPerDevice, IInv, NEW c \in Calls, InFlight(c),
         call[c].at \in {"sent", "answered"},
         NEW result \in Results \ {"none"}, NEW t \in Tokens \cup {Null},
         Respond(c, result, t), UNCHANGED <<client, lapsed, orphans>>,
         t \in Issued' \cup {Null},
         t # Null => call[c].kind \in Renewing \cup {"login"},
         result = "ok" /\ call[c].kind \in Renewing \cup {"login"} => t # Null,
         result = "ok" /\ call[c].kind \in Asking => call[c].sent # Null,
         live' \in [Users -> SUBSET Tokens], given' \in [Users -> SUBSET Tokens],
         ApiSound', Issued \subseteq Issued'
  PROVE  IInv'
<1> DEFINE b == c[1]
           k == [call[c] EXCEPT !.at = "answered", !.result = result, !.got = t]
<1>1. b \in Tabs /\ c \in Of(b) /\ TabSound(b)
  BY CallLemma DEF IInv
<1>2. call[c] \in Call /\ k \in Call
  BY DEF IInv, TypeOK, InFlight, Call
<1>3. \A d \in Calls : call'[d] = IF d = c THEN k ELSE call[d]
  BY <1>2 DEF Respond, IInv, TypeOK
<1>4. /\ k.kind = call[c].kind /\ k.sent = call[c].sent
      /\ k.at = "answered" /\ k.result = result /\ k.got = t
  BY <1>2 DEF Call
<1>5. /\ \A d \in Calls : InFlight(d)' <=> InFlight(d)
      /\ mem' = mem /\ stored' = stored
  BY <1>2, <1>3, NullsAssumption DEF InFlight, client
<1>6. TypeOK'
  BY <1>2, <1>3, <1>5 DEF Respond, IInv, TypeOK
<1>7. CallSound(c)
  BY <1>1 DEF TabSound
<1>8. CallSound(c)'
  <2>1. call'[c] = k /\ InFlight(c)
    BY <1>3
  <2> HIDE DEF k
  <2>2. /\ call[c].sent \in Issued' \cup {Null} /\ k.got \in Issued' \cup {Null}
        /\ k.kind \in Renewing <=> c[2] = "auth"
        /\ k.kind \in Renewing \cup {"logout"} => k.sent # Null
    BY <1>4, <1>7, <2>1 DEF CallSound
  <2> QED
    BY <1>4, <2>1, <2>2 DEF CallSound, Asking, Renewing
<1>9. \A d \in Of(b) : d # c => CallSound(d)'
  BY <1>1, <1>3 DEF TabSound, CallSound, Of, InFlight
<1>10. TabSound(b)'
  <2>1. <<b, "auth">> \in Of(b) /\ <<b, "auth">> \in Calls
    BY <1>1, LaneLemma DEF Lanes
  <2>2. \A d \in Of(b) : CallSound(d)'
    BY <1>8, <1>9
  <2>3. \A d \in Of(b) : call'[d].kind = call[d].kind
    BY <1>3, <1>4 DEF Of
  <2>4. \A d \in Of(b) : call'[d].at = "joined" => call[d].at = "joined"
    BY <1>3, <1>4 DEF Of
  <2>5. {mem[b].accessToken, mem[b].refreshToken} \subseteq Issued' \cup {Null}
    BY <1>1 DEF TabSound
  <2>6. QED
    BY <1>1, <1>5, <2>1, <2>2, <2>3, <2>4, <2>5 DEF TabSound, Of
<1>11. Touches(b)
  BY <1>1, <1>3, <1>5 DEF Touches
<1>12. QED
  BY <1>1, <1>6, <1>10, <1>11, TabStep

LEMMA ServeStep ==
  ASSUME OneTabPerDevice, IInv, NEW c \in Calls, Serve(c) \/ Lose(c)
  PROVE  IInv'
<1> DEFINE t == call[c].sent
<1>1. /\ InFlight(c) /\ call[c].at \in {"sent", "answered"}
      /\ call[c] \in Call
      /\ UNCHANGED <<client, lapsed, orphans>>
  BY DEF Serve, Lose, ServeLogin, ServeRefresh, ServeLogout, ServeRequest, IInv,
         TypeOK, InFlight
<1>2. /\ live \in [Users -> SUBSET Tokens] /\ given \in [Users -> SUBSET Tokens]
      /\ ApiSound
      /\ UNCHANGED <<lapsed, stored, orphans>>
  BY <1>1 DEF IInv, TypeOK, client
<1>3. ASSUME UNCHANGED api
      PROVE  /\ live' \in [Users -> SUBSET Tokens]
             /\ given' \in [Users -> SUBSET Tokens]
             /\ ApiSound' /\ Issued' = Issued
  BY <1>2, <1>3 DEF api, ApiSound, Issued
<1>4. c[1] \in Tabs /\ c \in Of(c[1]) /\ CallSound(c)
  BY CallLemma DEF IInv, TabSound
<1>5. CASE UNCHANGED api /\ \E r \in Results \ {"none"} :
             /\ Respond(c, r, Null)
             /\ r = "ok" => call[c].kind \notin Renewing \cup {"login"}
             /\ r = "ok" /\ call[c].kind \in Asking => t # Null
  BY <1>1, <1>3, <1>5, RespondStep
<1>6. CASE call[c].kind = "login" /\ ServeLogin(c)
  <2>1. CASE Respond(c, "refused", Null) /\ UNCHANGED api
    BY <2>1, <1>5 DEF Results
  <2>2. CASE /\ MayIssue
             /\ Server!Open(call[c].as, NextToken)
             /\ Respond(c, "ok", NextToken)
    <3>1. NextToken \in Tokens /\ call[c].as \in Users /\ NextToken # Null
      BY <1>1, <2>2, NullsAssumption DEF MayIssue, Call
    <3>2. /\ live' \in [Users -> SUBSET Tokens]
          /\ given' \in [Users -> SUBSET Tokens]
          /\ ApiSound'
          /\ Issued' = Issued \cup {NextToken}
      BY <1>2, <2>2, <3>1, OpenEffect
    <3>3. QED
      BY <1>1, <1>6, <2>2, <3>1, <3>2, RespondStep DEF Results, Asking
  <2>3. QED
    BY <1>6, <2>1, <2>2 DEF ServeLogin
<1>7. CASE call[c].kind \in {"refresh", "boot"} /\ ServeRefresh(c)
  <2>1. CASE Respond(c, "refused", Null) /\ UNCHANGED api
    BY <2>1, <1>5 DEF Results
  <2>2. t \in Issued /\ Owner(t) \in Users
    <3>1. t \in Issued
      BY <1>1, <1>4, <1>7 DEF CallSound, Renewing
    <3>2. QED
      BY <3>1, OwnerType
  <2>3. CASE MayIssue /\ Rotate(t) /\ Respond(c, "ok", NextToken)
    <3>1. NextToken \in Tokens /\ NextToken # Null
      BY <2>3, NullsAssumption DEF MayIssue
    <3>2. /\ live' \in [Users -> SUBSET Tokens]
          /\ given' \in [Users -> SUBSET Tokens]
          /\ ApiSound'
          /\ Issued' = Issued \cup {NextToken}
      BY <1>2, <2>2, <2>3, <3>1, RefreshEffect DEF Rotate
    <3>3. QED
      BY <1>1, <1>7, <2>3, <3>1, <3>2, RespondStep DEF Results, Renewing, Asking
  <2>4. CASE Reuse(t) /\ Respond(c, "refused", Null)
    <3>1. live' \in [Users -> SUBSET Tokens] /\ given' = given /\ ApiSound'
          /\ Issued' = Issued
      BY <1>2, <2>2, <2>4, EndEffect DEF Reuse
    <3>2. given' \in [Users -> SUBSET Tokens]
      BY <1>2, <3>1
    <3>3. QED
      BY <1>1, <2>4, <3>1, <3>2, RespondStep DEF Results
  <2>5. QED
    BY <1>7, <2>1, <2>3, <2>4 DEF ServeRefresh
<1>8. CASE call[c].kind = "logout" /\ ServeLogout(c)
  <2>1. CASE UNCHANGED api
    BY <1>8, <2>1, <1>5 DEF ServeLogout, Results, Renewing, Asking
  <2>2. CASE Server!Close(Owner(t), t)
    <3>1. t \in Issued
      BY <1>1, <1>4, <1>8 DEF CallSound
    <3>2. Owner(t) \in Users
      BY <3>1, OwnerType
    <3>3. live' \in [Users -> SUBSET Tokens] /\ given' = given /\ ApiSound'
          /\ Issued' = Issued
      BY <1>2, <2>2, <3>2, EndEffect
    <3>4. given' \in [Users -> SUBSET Tokens] /\ Respond(c, "ok", Null)
      BY <1>2, <1>8, <3>3 DEF ServeLogout
    <3>5. QED
      BY <1>1, <1>8, <3>3, <3>4, RespondStep DEF Results, Renewing, Asking
  <2>3. QED
    BY <1>8, <2>1, <2>2 DEF ServeLogout
<1>9. CASE call[c].kind \in {"request", "me"} /\ ServeRequest(c)
  BY <1>9, <1>5 DEF ServeRequest, Gate, Results, Renewing, Asking
<1>10. CASE Lose(c)
  BY <1>10, <1>5 DEF Lose, Results
<1>11. QED
  BY <1>6, <1>7, <1>8, <1>9, <1>10 DEF Serve

\* A refresh that arrives after its page is gone, and access tokens ageing.
LEMMA BackgroundStep ==
  ASSUME IInv,
         (\E t \in orphans : ServeOrphan(t)) \/ (\E t \in Tokens : Lapse(t))
  PROVE  IInv'
<1>1. UNCHANGED <<mem, stored, call>>
  BY DEF ServeOrphan, Lapse, client
<1>2. /\ live' \in [Users -> SUBSET Tokens] /\ given' \in [Users -> SUBSET Tokens]
      /\ ApiSound' /\ Issued \subseteq Issued'
      /\ orphans' \subseteq orphans /\ lapsed' \subseteq Tokens
  <2>1. CASE \E t \in Tokens : Lapse(t)
    BY <2>1 DEF Lapse, client, api, IInv, TypeOK, ApiSound, Issued
  <2>2. ASSUME NEW t \in orphans, ServeOrphan(t)
        PROVE  /\ live' \in [Users -> SUBSET Tokens]
               /\ given' \in [Users -> SUBSET Tokens]
               /\ ApiSound' /\ Issued \subseteq Issued'
               /\ orphans' \subseteq orphans /\ lapsed' \subseteq Tokens
    <3>1. t \in Issued /\ Owner(t) \in Users /\ given \in [Users -> SUBSET Tokens]
      BY OwnerType DEF IInv, ApiSound, TypeOK
    <3>2. /\ orphans' \subseteq orphans /\ UNCHANGED <<lapsed, stored>>
          /\ lapsed' \subseteq Tokens
      BY <2>2 DEF ServeOrphan, client, IInv, TypeOK
    <3>3. CASE MayIssue /\ Rotate(t)
      BY <3>1, <3>2, <3>3, RefreshEffect DEF Rotate, MayIssue
    <3>4. CASE Reuse(t)
      BY <3>1, <3>2, <3>4, EndEffect DEF Reuse
    <3>5. QED
      BY <2>2, <3>3, <3>4 DEF ServeOrphan
  <2>3. QED
    BY <2>1, <2>2
<1>3. TypeOK'
  BY <1>1, <1>2 DEF IInv, TypeOK
<1>4. \A b \in Tabs : TabSound(b)'
  BY <1>1, <1>2, TabKept DEF IInv
<1>5. QED
  BY <1>2, <1>3, <1>4 DEF IInv
-----------------------------------------------------------------------------
(* The steps of the client. *)

LEMMA SentLemma ==
  ASSUME NEW kind \in Kinds, NEW u \in Users, NEW t \in Tokens \cup {Null}
  PROVE  /\ Sent(kind, u, t) \in Call /\ Sent(kind, u, t) # NoCall
         /\ Sent(kind, u, t).kind = kind /\ Sent(kind, u, t).sent = t
         /\ Sent(kind, u, t).at = "sent" /\ Sent(kind, u, t).got = Null
         /\ Sent(kind, u, t).result = "none" /\ Sent(kind, u, t).as = u
         /\ ~Sent(kind, u, t).retried
<1>1. Sent(kind, u, t) \in Call
  BY DEF Sent, Call, Results
<1>2. QED
  BY <1>1, NullsAssumption DEF Sent

\* The store in memory and the one of the device, before and after.
LEMMA TabFacts ==
  ASSUME IInv, NEW b \in Tabs
  PROVE  /\ mem[b] \in Session /\ StoreOf[b] \in Stores
         /\ stored = [stored EXCEPT ![StoreOf[b]] = mem[b].refreshToken]
         /\ mem = [mem EXCEPT ![b] = mem[b]]
         /\ {mem[b].accessToken, mem[b].refreshToken} \subseteq Issued \cup {Null}
         /\ TabSound(b)
         /\ orphans \subseteq Issued /\ Issued \subseteq Tokens
         /\ \A c \in Of(b) : c \in Calls /\ call[c] \in Call \cup {NoCall}
         /\ \A c \in Of(b) : InFlight(c) => call[c] \in Call
         /\ <<b, "auth">> \in Of(b)
<1>1. stored[StoreOf[b]] = mem[b].refreshToken /\ TabSound(b)
      /\ {mem[b].accessToken, mem[b].refreshToken} \subseteq Issued \cup {Null}
  BY DEF IInv, TabSound
<1>2. stored \in [Stores -> Tokens \cup {Null}] /\ mem \in [Tabs -> Session]
      /\ StoreOf[b] \in Stores
  BY StoresAssumption DEF IInv, TypeOK
<1>3. Issued \subseteq Tokens /\ orphans \subseteq Issued
  BY DEF IInv, TypeOK, ApiSound, Issued
<1>4. \A c \in Of(b) : c \in Calls /\ call[c] \in Call \cup {NoCall}
  BY DEF Of, IInv, TypeOK
<1>5. <<b, "auth">> \in Of(b)
  BY LaneLemma DEF Lanes
<1>6. QED
  BY <1>1, <1>2, <1>3, <1>4, <1>5 DEF InFlight

\* A handler of the client changes one tab and what its device remembers, and
\* hands out nothing.
LEMMA ClientStep ==
  ASSUME OneTabPerDevice, IInv, NEW b \in Tabs, UNCHANGED <<lapsed, api>>,
         orphans' \subseteq Issued,
         NEW m \in Session, mem' = [mem EXCEPT ![b] = m],
         stored' = [stored EXCEPT ![StoreOf[b]] = m.refreshToken],
         {m.accessToken, m.refreshToken} \subseteq Issued \cup {Null},
         call' \in [Calls -> Call \cup {NoCall}],
         \A c \in Calls : c \notin Of(b) => call'[c] = call[c],
         m.status = "idle" =>
           /\ m.user = Null /\ m.refreshToken = Null
           /\ \A c \in Of(b) : ~InFlight(c)',
         \A c \in Of(b) : CallSound(c)',
         \A c \in Of(b) : InFlight(c)' /\ call'[c].kind = "boot" =>
           /\ m.user = Null /\ m.status = "loading"
           /\ \A d \in Of(b) : InFlight(d)' => d = c,
         \A c \in Of(b) : InFlight(c)' /\ call'[c].at = "joined" =>
           InFlight(<<b, "auth">>)' /\ call'[<<b, "auth">>].kind = "refresh"
  PROVE  IInv'
<1> USE DEF IInv, TypeOK
<1>1. Issued' = Issued
  BY DEF api, Issued
<1>2. /\ mem'[b] = m /\ \A a \in Tabs : a # b => mem'[a] = mem[a]
      /\ stored'[StoreOf[b]] = m.refreshToken
      /\ \A s \in Stores : s # StoreOf[b] => stored'[s] = stored[s]
  BY StoresAssumption
<1>3. Touches(b)
  BY <1>2 DEF Touches
<1>4. m.refreshToken \in Tokens \cup {Null}
  BY DEF Session
<1>5. TypeOK'
  <2>1. orphans' \subseteq Tokens
    BY TabFacts
  <2>2. UNCHANGED <<lapsed, live, given>>
    BY DEF api
  <2>3. mem' \in [Tabs -> Session] /\ stored' \in [Stores -> Tokens \cup {Null}]
    BY <1>4
  <2>4. QED
    BY <2>1, <2>2, <2>3
<1>6. ApiSound'
  BY <1>1, <1>2 DEF ApiSound, api
<1>7. TabSound(b)'
  BY <1>1, <1>2 DEF TabSound
<1>8. QED
  BY <1>1, <1>3, <1>5, <1>6, <1>7, TabStep

LEMMA ClearedLemma ==
  ASSUME IInv, NEW b \in Tabs, Clear(b)
  PROVE  LET m == Cleared(mem[b]) IN
         /\ m \in Session
         /\ m.user = Null /\ m.accessToken = Null /\ m.refreshToken = Null
         /\ m.status = "anonymous"
         /\ mem' = [mem EXCEPT ![b] = m]
         /\ stored' = [stored EXCEPT ![StoreOf[b]] = m.refreshToken]
  BY DEF Clear, Persist, Cleared, Session, Statuses, IInv, TypeOK

\* Opening or reloading the page.
LEMMA LoadStep ==
  ASSUME OneTabPerDevice, IInv, NEW b \in Tabs, Load(b)
  PROVE  IInv'
<1> DEFINE t == stored[StoreOf[b]]
           A == <<b, "auth">>
           m == [user |-> Null, accessToken |-> Null, refreshToken |-> t,
                 status |-> IF t = Null THEN "anonymous" ELSE "loading"]
           k == Sent("boot", Owner(t), t)
<1>1. /\ TabSound(b) /\ A \in Of(b) /\ A \in Calls /\ StoreOf[b] \in Stores
      /\ orphans \subseteq Issued
      /\ t \in Tokens \cup {Null} /\ t \in Issued \cup {Null}
  BY TabFacts, LaneLemma DEF IInv, TypeOK, ApiSound, Lanes
<1>2. m \in Session
  BY <1>1 DEF Session, Statuses
<1>3. t # Null => /\ k \in Call /\ k # NoCall /\ k.kind = "boot" /\ k.sent = t
                  /\ k.at = "sent" /\ k.got = Null /\ k.result = "none"
  <2> SUFFICES ASSUME t # Null
               PROVE  /\ k \in Call /\ k # NoCall /\ k.kind = "boot" /\ k.sent = t
                      /\ k.at = "sent" /\ k.got = Null /\ k.result = "none"
    OBVIOUS
  <2>1. Owner(t) \in Users /\ t \in Tokens \cup {Null} /\ "boot" \in Kinds
    BY <1>1, OwnerType DEF Kinds
  <2>2. PICK u \in Users : u = Owner(t)
    BY <2>1
  <2>3. k = Sent("boot", u, t)
    BY <2>2
  <2> HIDE DEF k, t
  <2>4. QED
    BY <2>1, <2>3, SentLemma
<1>4. /\ mem' = [mem EXCEPT ![b] = m]
      /\ stored' = [stored EXCEPT ![StoreOf[b]] = m.refreshToken]
  BY <1>1 DEF Load, IInv, TypeOK
<1>5. \A c \in Calls :
        /\ c \notin Of(b) => call'[c] = call[c]
        /\ c \in Of(b) => call'[c] = IF t # Null /\ c = A THEN k ELSE NoCall
  BY DEF Load
<1>6. call' \in [Calls -> Call \cup {NoCall}]
  <2>1. call' = [c \in Calls |-> call'[c]]
    BY DEF Load
  <2>2. \A c \in Calls : call'[c] \in Call \cup {NoCall}
    BY <1>3, <1>5 DEF IInv, TypeOK
  <2>3. QED
    BY <2>1, <2>2
<1>7. \A c \in Of(b) : InFlight(c)' => t # Null /\ c = A /\ call'[c] = k
  BY <1>5 DEF InFlight, Of
<1>8. \A c \in Of(b) : CallSound(c)'
  <2>1. A[2] = "auth" /\ Issued' = Issued
    BY DEF Load, api, Issued
  <2>2. QED
    BY <1>1, <1>3, <1>7, <2>1 DEF CallSound, Renewing
<1>9. orphans' \subseteq Issued
  <2>1. \A c \in Of(b) : InFlight(c) /\ call[c].kind \in {"refresh", "boot"}
                           => call[c].sent \in Issued
    BY <1>1 DEF TabSound, CallSound, Renewing
  <2>2. QED
    BY <1>1, <2>1 DEF Load
<1>10. /\ UNCHANGED <<lapsed, api>>
       /\ {m.accessToken, m.refreshToken} \subseteq Issued \cup {Null}
       /\ m.status # "idle" /\ m.user = Null
       /\ t # Null => m.status = "loading"
  BY <1>1 DEF Load
<1> HIDE DEF m, k, t, A
<1>11. \A c \in Of(b) : InFlight(c)' =>
         /\ call'[c].kind = "boot" /\ call'[c].at = "sent"
         /\ m.user = Null /\ m.status = "loading"
         /\ \A d \in Of(b) : InFlight(d)' => d = c
  BY <1>3, <1>7, <1>10
<1>12. QED
  BY <1>2, <1>4, <1>5, <1>6, <1>8, <1>9, <1>10, <1>11, ClientStep

\* Sending one more call in a free slot of a tab that is not being restored.
LEMMA StartStep ==
  ASSUME OneTabPerDevice, IInv, NEW b \in Tabs, NEW s \in Slots,
         NEW kind \in {"login", "logout", "request"}, NEW u \in Users,
         NEW t \in Issued \cup {Null}, kind = "logout" => t # Null,
         ~InFlight(<<b, s>>),
         \A c \in Of(b) : InFlight(c) => call[c].kind # "boot",
         call' = [call EXCEPT ![<<b, s>>] = Sent(kind, u, t)],
         NEW m \in Session, mem' = [mem EXCEPT ![b] = m],
         stored' = [stored EXCEPT ![StoreOf[b]] = m.refreshToken],
         {m.accessToken, m.refreshToken} \subseteq Issued \cup {Null},
         m.status # "idle", UNCHANGED <<orphans, lapsed, api>>
  PROVE  IInv'
<1> DEFINE c == <<b, s>>
           k == Sent(kind, u, t)
<1>1. /\ c \in Of(b) /\ c \in Calls /\ c[2] = s /\ s # "auth"
      /\ <<b, "auth">> \in Of(b) /\ <<b, "auth">> \in Calls /\ c # <<b, "auth">>
  BY LaneLemma, SlotsAssumption DEF Lanes
<1>2. /\ k \in Call /\ k # NoCall /\ k.kind = kind /\ k.sent = t
      /\ k.at = "sent" /\ k.got = Null /\ k.result = "none"
  <2>1. kind \in Kinds /\ t \in Tokens \cup {Null}
    BY TabFacts DEF Kinds
  <2>2. QED
    BY <2>1, SentLemma
<1> HIDE DEF k, c
<1>3. call' = [call EXCEPT ![c] = k]
  BY DEF c, k
<1>4. /\ call' \in [Calls -> Call \cup {NoCall}]
      /\ \A d \in Calls : call'[d] = IF d = c THEN k ELSE call[d]
  BY <1>1, <1>2, <1>3 DEF IInv, TypeOK
<1>5. Issued' = Issued /\ TabSound(b)
  BY DEF api, Issued, IInv
<1>6. \A d \in Of(b) : CallSound(d)'
  <2> SUFFICES ASSUME NEW d \in Of(b) PROVE CallSound(d)'
    OBVIOUS
  <2>1. CASE d = c
    BY <2>1, <1>1, <1>2, <1>4, <1>5 DEF CallSound, Renewing, Asking
  <2>2. CASE d # c
    BY <2>2, <1>4, <1>5 DEF TabSound, CallSound, InFlight, Of
  <2>3. QED
    BY <2>1, <2>2
<1>7. \A d \in Of(b) : ~(InFlight(d)' /\ call'[d].kind = "boot")
  BY <1>2, <1>4 DEF InFlight, Of
<1>8. \A d \in Of(b) : InFlight(d)' /\ call'[d].at = "joined" =>
        InFlight(<<b, "auth">>)' /\ call'[<<b, "auth">>].kind = "refresh"
  BY <1>1, <1>2, <1>4, <1>5 DEF TabSound, InFlight, Of
<1>9. \A d \in Calls : d \notin Of(b) => call'[d] = call[d]
  BY <1>1, <1>4
<1>10. orphans' \subseteq Issued
  BY TabFacts
<1>11. QED
  BY <1>4, <1>6, <1>7, <1>8, <1>9, <1>10, ClientStep

LEMMA LoginStep ==
  ASSUME OneTabPerDevice, IInv, NEW b \in Tabs, NEW s \in Slots,
         NEW u \in Users, Login(b, s, u)
  PROVE  IInv'
<1> DEFINE m == [mem[b] EXCEPT !.status = "loading"]
<1>1. /\ m \in Session /\ m.status = "loading"
      /\ m.refreshToken = mem[b].refreshToken
      /\ m.accessToken = mem[b].accessToken
      /\ mem' = [mem EXCEPT ![b] = m]
  BY TabFacts DEF Login, Session, Statuses, IInv, TypeOK
<1> HIDE DEF m
<1>2. /\ stored' = [stored EXCEPT ![StoreOf[b]] = m.refreshToken]
      /\ {m.accessToken, m.refreshToken} \subseteq Issued \cup {Null}
  <2>1. stored' = stored
    BY DEF Login
  <2>2. stored = [stored EXCEPT ![StoreOf[b]] = mem[b].refreshToken]
        /\ {mem[b].accessToken, mem[b].refreshToken} \subseteq Issued \cup {Null}
    BY TabFacts
  <2>3. QED
    BY <1>1, <2>1, <2>2
<1>3. \A c \in Of(b) : InFlight(c) => call[c].kind # "boot"
  BY TabFacts DEF TabSound, Login
<1>4. /\ ~InFlight(<<b, s>>)
      /\ call' = [call EXCEPT ![<<b, s>>] = Sent("login", u, Null)]
      /\ UNCHANGED <<orphans, lapsed, api>>
  BY DEF Login
<1>5. QED
  BY <1>1, <1>2, <1>3, <1>4, StartStep

\* Steps that clear the tab and drop some of its calls, or none.
LEMMA SignedOutStep ==
  ASSUME OneTabPerDevice, IInv, NEW b \in Tabs, Clear(b),
         call' \in [Calls -> Call \cup {NoCall}],
         \A c \in Calls : call'[c] # call[c] => c \in Of(b) /\ call'[c] = NoCall,
         \A c \in Of(b) : InFlight(c)' => call[c].kind # "boot",
         call'[<<b, "auth">>] # call[<<b, "auth">>] =>
           \A c \in Of(b) : InFlight(c)' => call[c].at # "joined",
         UNCHANGED <<orphans, lapsed, api>>
  PROVE  IInv'
<1> DEFINE m == Cleared(mem[b])
<1>1. /\ m \in Session /\ m.accessToken = Null /\ m.refreshToken = Null
      /\ m.status = "anonymous"
      /\ mem' = [mem EXCEPT ![b] = m]
      /\ stored' = [stored EXCEPT ![StoreOf[b]] = m.refreshToken]
  BY ClearedLemma
<1>2. /\ Issued' = Issued /\ TabSound(b) /\ <<b, "auth">> \in Of(b)
      /\ orphans' \subseteq Issued
  <2>1. Issued' = Issued
    BY DEF api, Issued
  <2>2. QED
    BY <2>1, TabFacts
<1>3. \A c \in Of(b) : c \in Calls /\ (InFlight(c)' => InFlight(c) /\ call'[c] = call[c])
  BY DEF InFlight, Of
<1>4. \A c \in Of(b) : CallSound(c)'
  BY <1>2, <1>3 DEF TabSound, CallSound
<1>5. \A c \in Of(b) : InFlight(c)' /\ call'[c].at = "joined" =>
        InFlight(<<b, "auth">>)' /\ call'[<<b, "auth">>].kind = "refresh"
  BY <1>2, <1>3 DEF TabSound, InFlight
<1> HIDE DEF m
<1>6. \A c \in Of(b) : ~(InFlight(c)' /\ call'[c].kind = "boot")
  BY <1>3
<1>7. \A c \in Calls : c \notin Of(b) => call'[c] = call[c]
  OBVIOUS
<1>8. {m.accessToken, m.refreshToken} \subseteq Issued \cup {Null} /\ m.status # "idle"
  BY <1>1
<1>9. QED
  BY <1>1, <1>2, <1>4, <1>5, <1>6, <1>7, <1>8, ClientStep

\* A tab with a user is not being restored.
LEMMA AuthenticatedFacts ==
  ASSUME IInv, NEW b \in Tabs, IsAuthenticated(b)
  PROVE  /\ \A c \in Of(b) : InFlight(c) => call[c].kind # "boot"
         /\ mem[b].user \in Users
         /\ mem[b].status # "idle"
  BY TabFacts DEF TabSound, IsAuthenticated, Session

LEMMA LogoutStep ==
  ASSUME OneTabPerDevice, IInv, NEW b \in Tabs, NEW s \in Slots, Logout(b, s)
  PROVE  IInv'
<1>1. CASE mem[b].refreshToken = Null
  <2>1. Clear(b) /\ call' = call /\ UNCHANGED <<orphans, lapsed, api>>
    BY <1>1 DEF Logout
  <2>2. \A c \in Of(b) : InFlight(c)' => InFlight(c) /\ call[c].kind # "boot"
    BY <2>1, AuthenticatedFacts DEF Logout, InFlight
  <2>3. call' \in [Calls -> Call \cup {NoCall}]
    BY <2>1 DEF IInv, TypeOK
  <2>4. QED
    BY <2>1, <2>2, <2>3, SignedOutStep
<1>2. CASE mem[b].refreshToken # Null
  <2> DEFINE t == mem[b].refreshToken
             u == mem[b].user
  <2>1. /\ u \in Users /\ t \in Issued \cup {Null} /\ t # Null
        /\ mem[b] \in Session
        /\ {mem[b].accessToken, mem[b].refreshToken} \subseteq Issued \cup {Null}
        /\ \A c \in Of(b) : InFlight(c) => call[c].kind # "boot"
        /\ mem[b].status # "idle"
    BY <1>2, AuthenticatedFacts, TabFacts DEF Logout
  <2>2. /\ mem' = [mem EXCEPT ![b] = mem[b]]
        /\ stored' = [stored EXCEPT ![StoreOf[b]] = mem[b].refreshToken]
        /\ call' = [call EXCEPT ![<<b, s>>] = Sent("logout", u, t)]
        /\ ~InFlight(<<b, s>>)
        /\ UNCHANGED <<orphans, lapsed, api>>
    BY <1>2, TabFacts DEF Logout, client
  <2> HIDE DEF t, u
  <2>3. "logout" \in {"login", "logout", "request"}
    OBVIOUS
  <2>4. QED
    BY <2>1, <2>2, <2>3, StartStep
<1>3. QED
  BY <1>1, <1>2

LEMMA RequestStep ==
  ASSUME OneTabPerDevice, IInv, NEW b \in Tabs, NEW s \in Slots, Request(b, s)
  PROVE  IInv'
<1> DEFINE t == mem[b].accessToken
           u == mem[b].user
<1>1. /\ u \in Users /\ t \in Issued \cup {Null}
      /\ mem[b] \in Session
      /\ {mem[b].accessToken, mem[b].refreshToken} \subseteq Issued \cup {Null}
      /\ \A c \in Of(b) : InFlight(c) => call[c].kind # "boot"
      /\ mem[b].status # "idle"
  BY AuthenticatedFacts, TabFacts DEF Request
<1>2. /\ mem' = [mem EXCEPT ![b] = mem[b]]
      /\ stored' = [stored EXCEPT ![StoreOf[b]] = mem[b].refreshToken]
      /\ call' = [call EXCEPT ![<<b, s>>] = Sent("request", u, t)]
      /\ ~InFlight(<<b, s>>)
      /\ UNCHANGED <<orphans, lapsed, api>>
  BY TabFacts DEF Request, client
<1> HIDE DEF t, u
<1>3. "request" \in {"login", "logout", "request"}
  OBVIOUS
<1>4. QED
  BY <1>1, <1>2, <1>3, StartStep

\* A call in a slot: no page is being restored, and the tab was loaded.
LEMMA SlotFacts ==
  ASSUME IInv, NEW c \in Calls, InFlight(c), call[c].kind \notin Renewing
  PROVE  /\ c[1] \in Tabs /\ c \in Of(c[1]) /\ TabSound(c[1]) /\ CallSound(c)
         /\ c # <<c[1], "auth">>
         /\ \A d \in Of(c[1]) : InFlight(d) => call[d].kind # "boot"
         /\ mem[c[1]].status # "idle"
<1>1. c[1] \in Tabs /\ c \in Of(c[1]) /\ TabSound(c[1])
  BY CallLemma DEF IInv
<1>2. CallSound(c)
  BY <1>1 DEF TabSound
<1>3. c[2] # "auth"
  BY <1>2 DEF CallSound
<1>4. <<c[1], "auth">>[2] = "auth"
  OBVIOUS
<1>5. \A d \in Of(c[1]) : InFlight(d) => call[d].kind # "boot"
  <2> SUFFICES ASSUME NEW d \in Of(c[1]), InFlight(d), call[d].kind = "boot"
               PROVE  FALSE
    OBVIOUS
  <2>1. c = d
    BY <1>1 DEF TabSound
  <2>2. QED
    BY <2>1 DEF Renewing
<1>6. mem[c[1]].status # "idle"
  BY <1>1 DEF TabSound
<1>7. QED
  BY <1>1, <1>2, <1>3, <1>4, <1>5, <1>6

\* A call in a slot ends; the store of the tab becomes m.
LEMMA FinishStep ==
  ASSUME OneTabPerDevice, IInv, NEW c \in Calls, InFlight(c),
         call[c].kind \notin Renewing, Done(c),
         NEW m \in Session, mem' = [mem EXCEPT ![c[1]] = m],
         stored' = [stored EXCEPT ![StoreOf[c[1]]] = m.refreshToken],
         {m.accessToken, m.refreshToken} \subseteq Issued \cup {Null},
         m.status # "idle", UNCHANGED <<orphans, lapsed, api>>
  PROVE  IInv'
<1> DEFINE b == c[1]
           A == <<b, "auth">>
<1>1. /\ b \in Tabs /\ c \in Of(b) /\ TabSound(b) /\ c # A
      /\ \A d \in Of(b) : InFlight(d) => call[d].kind # "boot"
  BY SlotFacts
<1>2. A \in Of(b) /\ A \in Calls
  BY <1>1, LaneLemma DEF Lanes
<1>3. /\ call' \in [Calls -> Call \cup {NoCall}]
      /\ \A d \in Calls : call'[d] = IF d = c THEN NoCall ELSE call[d]
  BY DEF Done, IInv, TypeOK
<1>4. Issued' = Issued /\ orphans' \subseteq Issued
  <2>1. Issued' = Issued
    BY DEF api, Issued
  <2>2. QED
    BY <1>1, <2>1, TabFacts
<1> HIDE DEF A, b
<1>5. \A d \in Of(b) : InFlight(d)' => InFlight(d) /\ call'[d] = call[d]
  BY <1>3 DEF InFlight, Of
<1>6. \A d \in Of(b) : CallSound(d)'
  BY <1>1, <1>4, <1>5 DEF TabSound, CallSound
<1>7. \A d \in Of(b) : InFlight(d)' /\ call'[d].at = "joined" =>
        InFlight(A)' /\ call'[A].kind = "refresh"
  BY <1>1, <1>2, <1>3, <1>5 DEF TabSound, InFlight, A
<1>8. \A d \in Of(b) : ~(InFlight(d)' /\ call'[d].kind = "boot")
  BY <1>1, <1>5
<1>9. \A d \in Calls : d \notin Of(b) => call'[d] = call[d]
  BY <1>1, <1>3
<1>10. QED
  BY <1>1, <1>3, <1>4, <1>6, <1>7, <1>8, <1>9, ClientStep DEF b, A

\* A call in a slot ends and leaves the tab as it is.
LEMMA DoneStep ==
  ASSUME OneTabPerDevice, IInv, NEW c \in Calls, InFlight(c),
         call[c].kind \notin Renewing, Done(c), UNCHANGED client,
         UNCHANGED <<orphans, lapsed, api>>
  PROVE  IInv'
<1>1. c[1] \in Tabs /\ mem[c[1]].status # "idle"
  BY SlotFacts
<1>2. /\ mem[c[1]] \in Session
      /\ mem' = [mem EXCEPT ![c[1]] = mem[c[1]]]
      /\ stored' = [stored EXCEPT ![StoreOf[c[1]]] = mem[c[1]].refreshToken]
      /\ {mem[c[1]].accessToken, mem[c[1]].refreshToken} \subseteq Issued \cup {Null}
  BY <1>1, TabFacts DEF client
<1>3. QED
  BY <1>1, <1>2, FinishStep

\* A call in a slot ends and signs the tab out.
LEMMA DoneClearStep ==
  ASSUME OneTabPerDevice, IInv, NEW c \in Calls, InFlight(c),
         call[c].kind \notin Renewing, Done(c), Clear(c[1]),
         UNCHANGED <<orphans, lapsed, api>>
  PROVE  IInv'
<1>1. /\ c[1] \in Tabs /\ c \in Of(c[1]) /\ c # <<c[1], "auth">>
      /\ \A d \in Of(c[1]) : InFlight(d) => call[d].kind # "boot"
  BY SlotFacts
<1>2. <<c[1], "auth">> \in Calls
  BY <1>1, LaneLemma DEF Lanes
<1>3. /\ call' \in [Calls -> Call \cup {NoCall}]
      /\ \A d \in Calls : call'[d] = IF d = c THEN NoCall ELSE call[d]
  BY DEF Done, IInv, TypeOK
<1>4. \A d \in Of(c[1]) : InFlight(d)' => call[d].kind # "boot"
  BY <1>1, <1>3 DEF InFlight, Of
<1>5. QED
  BY <1>1, <1>2, <1>3, <1>4, SignedOutStep

\* The store after setTokens.
LEMMA WithTokensLemma ==
  ASSUME NEW m \in Session, NEW t \in Tokens \cup {Null}
  PROVE  /\ WithTokens(m, t) \in Session
         /\ WithTokens(m, t).accessToken = t /\ WithTokens(m, t).refreshToken = t
         /\ WithTokens(m, t).user = m.user /\ WithTokens(m, t).status = m.status
  BY DEF WithTokens, Session

LEMMA LoginReturnsStep ==
  ASSUME OneTabPerDevice, IInv, NEW c \in Calls, LoginReturns(c)
  PROVE  IInv'
<1> DEFINE b == c[1]
           t == call[c].got
<1>1. /\ InFlight(c) /\ call[c].kind = "login" /\ call[c].kind \notin Renewing
      /\ Done(c) /\ UNCHANGED <<orphans, lapsed, api>>
  BY DEF LoginReturns, Answered, Renewing
<1>2. b \in Tabs /\ CallSound(c) /\ call[c] \in Call /\ mem[b] \in Session
  BY <1>1, SlotFacts DEF IInv, TypeOK, InFlight
<1>3. CASE call[c].result = "ok"
  <2> DEFINE m == [WithTokens(mem[b], t) EXCEPT
                     !.user = call[c].as, !.status = "authenticated"]
  <2>1. t \in Issued \cup {Null} /\ t \in Tokens \cup {Null} /\ call[c].as \in Users
    BY <1>1, <1>2 DEF CallSound, Call
  <2>2. /\ m \in Session /\ m.status = "authenticated"
        /\ m.accessToken = t /\ m.refreshToken = t
    BY <1>2, <2>1 DEF WithTokens, Session, Statuses
  <2>3. mem' = [mem EXCEPT ![b] = m] /\ stored' = [stored EXCEPT ![StoreOf[b]] = t]
    BY <1>2, <1>3 DEF LoginReturns, Persist, IInv, TypeOK
  <2> HIDE DEF m
  <2>4. QED
    BY <1>1, <2>1, <2>2, <2>3, FinishStep
<1>4. CASE call[c].result # "ok"
  <2> DEFINE m == [mem[b] EXCEPT !.status = "anonymous"]
  <2>1. /\ m \in Session /\ m.status = "anonymous"
        /\ m.accessToken = mem[b].accessToken
        /\ m.refreshToken = mem[b].refreshToken
    BY <1>2 DEF Session, Statuses
  <2>2. mem' = [mem EXCEPT ![b] = m] /\ stored' = stored
    BY <1>2, <1>4 DEF LoginReturns, IInv, TypeOK
  <2> HIDE DEF m
  <2>3. stored' = [stored EXCEPT ![StoreOf[b]] = mem[b].refreshToken]
        /\ {mem[b].accessToken, mem[b].refreshToken} \subseteq Issued \cup {Null}
    BY <1>2, <2>2, TabFacts
  <2>4. QED
    BY <1>1, <2>1, <2>2, <2>3, FinishStep
<1>5. QED
  BY <1>3, <1>4

LEMMA LogoutReturnsStep ==
  ASSUME OneTabPerDevice, IInv, NEW c \in Calls, LogoutReturns(c)
  PROVE  IInv'
  BY DoneClearStep DEF LogoutReturns, Answered, Renewing

\* The refresh lane is answered.
LEMMA RenewFacts ==
  ASSUME IInv, NEW c \in Calls, Answered(c, Renewing)
  PROVE  /\ c[1] \in Tabs /\ c \in Of(c[1]) /\ c = <<c[1], "auth">>
         /\ InFlight(c) /\ call[c] \in Call /\ TabSound(c[1])
         /\ mem[c[1]] \in Session /\ mem[c[1]].status # "idle"
         /\ call[c].got \in Issued \cup {Null} /\ call[c].got \in Tokens \cup {Null}
         /\ call[c].result = "ok" => call[c].got # Null
<1>1. InFlight(c) /\ call[c].kind \in Renewing
  BY DEF Answered
<1>2. c[1] \in Tabs /\ c \in Of(c[1]) /\ TabSound(c[1]) /\ CallSound(c)
  BY CallLemma DEF IInv, TabSound
<1>3. c[2] = "auth"
  BY <1>1, <1>2 DEF CallSound
<1>4. c = <<c[1], "auth">>
  BY <1>2, <1>3, LaneLemma DEF Lanes
<1>5. call[c] \in Call
  BY <1>1 DEF IInv, TypeOK, InFlight
<1>6. mem[c[1]] \in Session /\ mem[c[1]].status # "idle"
  BY <1>1, <1>2 DEF IInv, TypeOK, TabSound
<1>7. call[c].got \in Issued \cup {Null}
      /\ (call[c].result = "ok" => call[c].got # Null)
  BY <1>1, <1>2 DEF CallSound
<1>8. call[c].got \in Tokens \cup {Null}
  BY <1>5 DEF Call
<1>9. QED
  BY <1>1, <1>2, <1>4, <1>5, <1>6, <1>7, <1>8

LEMMA BootReturnsStep ==
  ASSUME OneTabPerDevice, IInv, NEW c \in Calls, NEW s \in Slots,
         BootReturns(c, s)
  PROVE  IInv'
<1> DEFINE b == c[1]
           d == <<b, s>>
           t == call[c].got
           k == Sent("me", call[c].as, t)
<1>1. /\ b \in Tabs /\ c \in Of(b) /\ c = <<b, "auth">> /\ InFlight(c)
      /\ call[c] \in Call /\ TabSound(b) /\ mem[b] \in Session
      /\ mem[b].status # "idle"
      /\ t \in Issued \cup {Null} /\ t \in Tokens \cup {Null}
      /\ call[c].result = "ok" => t # Null
  BY RenewFacts DEF BootReturns, Answered, Renewing
<1>2. /\ \A e \in Of(b) : InFlight(e) => e = c
      /\ call[c].kind = "boot"
  BY <1>1 DEF TabSound, BootReturns, Answered
<1>3. CASE call[c].result = "ok"
  <2> DEFINE m == WithTokens(mem[b], t)
  <2>1. /\ m \in Session /\ m.accessToken = t /\ m.refreshToken = t
        /\ m.status = mem[b].status
    BY <1>1, WithTokensLemma
  <2>2. mem' = [mem EXCEPT ![b] = m] /\ stored' = [stored EXCEPT ![StoreOf[b]] = t]
    BY <1>1, <1>3 DEF BootReturns, Persist, IInv, TypeOK
  <2>3. d \in Calls /\ d \in Of(b) /\ d[2] = s /\ d # c /\ s # "auth"
    BY <1>1, LaneLemma, SlotsAssumption DEF Lanes
  <2>4. /\ k \in Call /\ k # NoCall /\ k.kind = "me" /\ k.sent = t
        /\ k.at = "sent" /\ k.got = Null /\ k.result = "none"
    <3>1. call[c].as \in Users /\ "me" \in Kinds
      BY <1>1 DEF Call, Kinds
    <3>2. QED
      BY <1>1, <3>1, SentLemma
  <2>5. call' = [call EXCEPT ![c] = NoCall, ![d] = k]
    BY <1>3 DEF BootReturns
  <2> HIDE DEF m, k, d
  <2>6. /\ call' \in [Calls -> Call \cup {NoCall}]
        /\ \A e \in Calls :
             call'[e] = IF e = d THEN k ELSE IF e = c THEN NoCall ELSE call[e]
    BY <2>3, <2>4, <2>5 DEF IInv, TypeOK
  <2>7. \A e \in Of(b) : InFlight(e)' => e = d /\ call'[e] = k
    BY <1>2, <2>6 DEF InFlight, Of
  <2>8. Issued' = Issued /\ orphans' = orphans
    BY DEF BootReturns, api, Issued
  <2>9. \A e \in Of(b) : CallSound(e)'
    BY <1>1, <2>3, <2>4, <2>7, <2>8 DEF CallSound, Renewing, Asking
  <2>10. \A e \in Of(b) : InFlight(e)' =>
           call'[e].kind # "boot" /\ call'[e].at # "joined"
    BY <2>4, <2>7
  <2>11. \A e \in Calls : e \notin Of(b) => call'[e] = call[e]
    BY <1>1, <2>3, <2>6
  <2>12. orphans' \subseteq Issued /\ UNCHANGED <<lapsed, api>>
    BY <1>1, <2>8, TabFacts DEF BootReturns
  <2>13. QED
    BY <1>1, <2>1, <2>2, <2>6, <2>9, <2>10, <2>11, <2>12, ClientStep
<1>4. CASE call[c].result # "ok"
  <2>1. Clear(b) /\ Done(c) /\ UNCHANGED <<orphans, lapsed, api>>
    BY <1>4 DEF BootReturns
  <2>2. /\ call' \in [Calls -> Call \cup {NoCall}]
        /\ \A e \in Calls : call'[e] = IF e = c THEN NoCall ELSE call[e]
    BY <2>1 DEF Done, IInv, TypeOK
  <2>3. \A e \in Of(b) : ~InFlight(e)'
    BY <1>2, <2>2 DEF InFlight, Of
  <2>4. \A e \in Calls : call'[e] # call[e] => e \in Of(b) /\ call'[e] = NoCall
    BY <1>1, <2>2
  <2>5. QED
    BY <1>1, <2>1, <2>2, <2>3, <2>4, SignedOutStep
<1>5. QED
  BY <1>3, <1>4

LEMMA RetryLemma ==
  ASSUME NEW k \in Call, NEW t \in Tokens \cup {Null}
  PROVE  /\ Retry(k, t) \in Call /\ Retry(k, t).kind = k.kind
         /\ Retry(k, t).at = "sent" /\ Retry(k, t).sent = t
         /\ Retry(k, t).retried /\ Retry(k, t).result = "none"
         /\ Retry(k, t).got = k.got /\ Retry(k, t).as = k.as
  BY DEF Retry, Call, Results

LEMMA RefreshReturnsStep ==
  ASSUME OneTabPerDevice, IInv, NEW c \in Calls, RefreshReturns(c)
  PROVE  IInv'
<1> DEFINE b == c[1]
           t == call[c].got
<1>1. /\ b \in Tabs /\ c \in Of(b) /\ c = <<b, "auth">> /\ InFlight(c)
      /\ call[c] \in Call /\ TabSound(b) /\ mem[b] \in Session
      /\ mem[b].status # "idle"
      /\ t \in Issued \cup {Null} /\ t \in Tokens \cup {Null}
      /\ call[c].result = "ok" => t # Null
  BY RenewFacts DEF RefreshReturns, Answered, Renewing
<1>2. call[c].kind = "refresh" /\ UNCHANGED <<orphans, lapsed, api>>
  BY DEF RefreshReturns, Answered
<1>3. \A d \in Of(b) : InFlight(d) => call[d].kind # "boot"
  BY <1>1, <1>2 DEF TabSound
<1>4. \A d \in Of(b) : d \in Calls
                         /\ (d \in Settles(b) <=> InFlight(d) /\ call[d].at = "joined")
  BY DEF Settles, Joined, Of
<1>5. CASE call[c].result = "ok"
  <2> DEFINE m == WithTokens(mem[b], t)
  <2>1. /\ m \in Session /\ m.accessToken = t /\ m.refreshToken = t
        /\ m.status = mem[b].status
    BY <1>1, WithTokensLemma
  <2>2. mem' = [mem EXCEPT ![b] = m] /\ stored' = [stored EXCEPT ![StoreOf[b]] = t]
    BY <1>1, <1>5 DEF RefreshReturns, Persist, IInv, TypeOK
  <2>3. call' = [d \in Calls |->
                   IF d = c THEN NoCall
                   ELSE IF d \in Settles(b) THEN Retry(call[d], t) ELSE call[d]]
    BY <1>5 DEF RefreshReturns
  <2>4. \A d \in Calls : d \in Settles(b) =>
          /\ d \in Of(b) /\ InFlight(d) /\ call[d].at = "joined" /\ call[d] \in Call
          /\ call[d].kind \in Asking /\ call[d].got = Null /\ CallSound(d)
    BY <1>1 DEF Settles, Joined, InFlight, TabSound, CallSound, IInv, TypeOK
  <2>5. \A d \in Calls : d \in Settles(b) =>
          /\ Retry(call[d], t) \in Call /\ Retry(call[d], t).kind = call[d].kind
          /\ Retry(call[d], t).at = "sent" /\ Retry(call[d], t).sent = t
          /\ Retry(call[d], t).result = "none" /\ Retry(call[d], t).got = Null
    BY <1>1, <2>4, RetryLemma
  <2> HIDE DEF m
  <2>6. call' \in [Calls -> Call \cup {NoCall}]
    BY <2>3, <2>5 DEF IInv, TypeOK
  <2>7. Issued' = Issued
    BY <1>2 DEF api, Issued
  <2>8. \A d \in Of(b) : CallSound(d)'
    <3> SUFFICES ASSUME NEW d \in Of(b), InFlight(d)' PROVE CallSound(d)'
      BY DEF CallSound
    <3>1. d # c /\ d \in Calls
      BY <1>4, <2>3 DEF InFlight
    <3>2. CASE d \in Settles(b)
      <4>1. call'[d] = Retry(call[d], t)
        BY <2>3, <3>1, <3>2
      <4>2. QED
        BY <1>1, <1>5, <2>4, <2>5, <2>7, <3>1, <3>2, <4>1
        DEF CallSound, InFlight, Asking, Renewing
    <3>3. CASE d \notin Settles(b)
      BY <1>1, <2>3, <2>7, <3>1, <3>3 DEF TabSound, CallSound, InFlight
    <3>4. QED
      BY <3>2, <3>3
  <2>9. \A d \in Of(b) : InFlight(d)' =>
          call'[d].kind # "boot" /\ call'[d].at # "joined"
    <3> SUFFICES ASSUME NEW d \in Of(b), InFlight(d)'
                 PROVE  call'[d].kind # "boot" /\ call'[d].at # "joined"
      OBVIOUS
    <3>1. d # c /\ d \in Calls
      BY <1>4, <2>3 DEF InFlight
    <3>2. CASE d \in Settles(b)
      BY <1>3, <2>3, <2>4, <2>5, <3>1, <3>2
    <3>3. CASE d \notin Settles(b)
      BY <1>3, <1>4, <2>3, <3>1, <3>3 DEF InFlight
    <3>4. QED
      BY <3>2, <3>3
  <2>10. \A d \in Calls : d \notin Of(b) => call'[d] = call[d]
    BY <1>1, <2>3, <2>4
  <2>11. orphans' \subseteq Issued
    BY <1>1, <1>2, TabFacts
  <2>12. QED
    BY <1>1, <1>2, <2>1, <2>2, <2>6, <2>8, <2>9, <2>10, <2>11, ClientStep
<1>6. CASE call[c].result # "ok"
  <2>1. /\ Clear(b)
        /\ call' = [d \in Calls |->
                      IF d = c \/ d \in Settles(b) THEN NoCall ELSE call[d]]
    BY <1>6 DEF RefreshReturns
  <2>2. call' \in [Calls -> Call \cup {NoCall}]
    BY <2>1 DEF IInv, TypeOK
  <2>3. \A d \in Calls : call'[d] # call[d] => d \in Of(b) /\ call'[d] = NoCall
    BY <1>1, <2>1 DEF Settles, Joined
  <2>4. \A d \in Of(b) : InFlight(d)' =>
          call[d].kind # "boot" /\ call[d].at # "joined"
    BY <1>3, <1>4, <2>1 DEF InFlight
  <2>5. QED
    BY <1>1, <1>2, <2>1, <2>2, <2>3, <2>4, SignedOutStep
<1>7. QED
  BY <1>5, <1>6

\* A question starts to wait; A is what the refresh lane carries from then on.
LEMMA WaitStep ==
  ASSUME OneTabPerDevice, IInv, NEW c \in Calls, InFlight(c),
         call[c].kind \in Asking, NEW k \in Call, k.kind = "refresh",
         k.at # "joined", {k.sent, k.got} \subseteq Issued \cup {Null},
         k.sent # Null, k.at = "answered" => k.result # "none",
         k.got # Null => k.at = "answered", k.result = "ok" => k.got # Null,
         call' = [[call EXCEPT ![c].at = "joined"]
                    EXCEPT ![<<c[1], "auth">>] = k],
         UNCHANGED client, UNCHANGED <<orphans, lapsed, api>>
  PROVE  IInv'
<1> DEFINE b == c[1]
           A == <<b, "auth">>
           j == [call[c] EXCEPT !.at = "joined"]
<1>1. /\ b \in Tabs /\ c \in Of(b) /\ TabSound(b) /\ CallSound(c) /\ c # A
      /\ \A d \in Of(b) : InFlight(d) => call[d].kind # "boot"
      /\ mem[b].status # "idle"
      /\ call[c] \in Call
  BY SlotFacts DEF Asking, Renewing, IInv, TypeOK, InFlight
<1>2. A \in Of(b) /\ A \in Calls /\ A[2] = "auth" /\ k # NoCall
  BY <1>1, LaneLemma, NullsAssumption DEF Lanes
<1>3. /\ j \in Call /\ j # NoCall /\ j.at = "joined"
      /\ j.kind = call[c].kind /\ j.sent = call[c].sent
      /\ j.got = call[c].got /\ j.result = call[c].result
  BY <1>1, NullsAssumption DEF Call
<1>4. /\ call' \in [Calls -> Call \cup {NoCall}]
      /\ \A d \in Calls :
           call'[d] = IF d = A THEN k ELSE IF d = c THEN j ELSE call[d]
  BY <1>1, <1>2, <1>3 DEF IInv, TypeOK
<1> HIDE DEF A, j, b
<1>5. /\ mem[b] \in Session /\ mem' = [mem EXCEPT ![b] = mem[b]]
      /\ stored' = [stored EXCEPT ![StoreOf[b]] = mem[b].refreshToken]
      /\ {mem[b].accessToken, mem[b].refreshToken} \subseteq Issued \cup {Null}
      /\ orphans' \subseteq Issued
  BY <1>1, TabFacts DEF client
<1>6. Issued' = Issued
  BY DEF api, Issued
<1>7. \A d \in Of(b) : CallSound(d)'
  <2> SUFFICES ASSUME NEW d \in Of(b), InFlight(d)' PROVE CallSound(d)'
    BY DEF CallSound
  <2>0. d \in Calls
    BY DEF Of
  <2>1. CASE d = A
    BY <1>2, <1>4, <1>6, <2>1 DEF CallSound, Renewing, Asking
  <2>2. CASE d = c /\ d # A
    <3>1. call[c].got = Null /\ c[2] # "auth"
      BY <1>1 DEF CallSound, Asking, Renewing
    <3>2. call'[d] = j
      BY <1>4, <2>0, <2>2
    <3>3. QED
      BY <1>1, <1>3, <1>6, <2>2, <3>1, <3>2 DEF CallSound, Renewing, Asking
  <2>3. CASE d # c /\ d # A
    BY <1>1, <1>4, <1>6, <2>0, <2>3 DEF TabSound, CallSound, InFlight
  <2>4. QED
    BY <2>1, <2>2, <2>3
<1>8. \A d \in Of(b) : ~(InFlight(d)' /\ call'[d].kind = "boot")
  BY <1>1, <1>3, <1>4 DEF InFlight, Of, Asking
<1>9. InFlight(A)' /\ call'[A].kind = "refresh"
  BY <1>2, <1>4 DEF InFlight
<1>10. \A d \in Calls : d \notin Of(b) => call'[d] = call[d]
  BY <1>1, <1>2, <1>4
<1>11. <<b, "auth">> = A /\ UNCHANGED <<lapsed, api>>
  BY DEF A
<1>12. QED
  BY <1>1, <1>4, <1>5, <1>7, <1>8, <1>9, <1>10, <1>11, ClientStep

LEMMA JoinStep ==
  ASSUME OneTabPerDevice, IInv, NEW c \in Calls, InFlight(c),
         call[c].kind \in Asking, Join(c), UNCHANGED <<orphans, lapsed, api>>
  PROVE  IInv'
<1> DEFINE b == c[1]
           A == <<b, "auth">>
           waiting == [call EXCEPT ![c].at = "joined"]
<1>1. /\ b \in Tabs /\ TabSound(b) /\ CallSound(c) /\ c # A
      /\ \A d \in Of(b) : InFlight(d) => call[d].kind # "boot"
      /\ call[c] \in Call /\ call[c].kind \notin Renewing
  BY SlotFacts DEF Asking, Renewing, IInv, TypeOK, InFlight
<1>2. A \in Of(b) /\ A \in Calls /\ A[2] = "auth"
  BY <1>1, LaneLemma DEF Lanes
<1>3. CASE Shares(b)
  <2>1. InFlight(A) /\ call[A] \in Call /\ CallSound(A)
    BY <1>1, <1>2, <1>3 DEF Shares, IInv, TypeOK, InFlight, TabSound
  <2>2. call[A].kind = "refresh"
    BY <1>1, <1>2, <2>1 DEF CallSound, Renewing
  <2>3. call' = waiting /\ UNCHANGED client
    BY <1>3 DEF Join
  <2>4. waiting = [waiting EXCEPT ![A] = call[A]]
    <3>1. waiting[A] = call[A]
      BY <1>1, <1>2 DEF IInv, TypeOK
    <3>2. waiting = [d \in Calls |-> waiting[d]]
      BY DEF IInv, TypeOK
    <3> HIDE DEF waiting
    <3>3. QED
      BY <3>1, <3>2
  <2>5. call' = [waiting EXCEPT ![A] = call[A]]
    BY <2>3, <2>4
  <2>6. /\ call[A].at # "joined"
        /\ {call[A].sent, call[A].got} \subseteq Issued \cup {Null}
        /\ call[A].sent # Null
        /\ call[A].at = "answered" => call[A].result # "none"
        /\ call[A].got # Null => call[A].at = "answered"
        /\ call[A].result = "ok" => call[A].got # Null
    BY <2>1, <2>2 DEF CallSound, Renewing, Asking
  <2>7. QED
    BY <2>1, <2>2, <2>3, <2>5, <2>6, WaitStep
<1>4. CASE ~Shares(b) /\ Presents(b) # Null
  <2> DEFINE k == Sent("refresh", call[c].as, Presents(b))
  <2>1. /\ Presents(b) \in Issued /\ Presents(b) \in Tokens \cup {Null}
        /\ call[c].as \in Users /\ "refresh" \in Kinds
    BY <1>1, <1>4, TabFacts DEF Presents, Call, Kinds
  <2>2. /\ k \in Call /\ k.kind = "refresh" /\ k.sent = Presents(b)
        /\ k.at = "sent" /\ k.got = Null /\ k.result = "none"
    BY <2>1, SentLemma
  <2>3. call' = [waiting EXCEPT ![A] = k] /\ UNCHANGED client
    BY <1>4 DEF Join
  <2> HIDE DEF k
  <2>4. QED
    BY <1>4, <2>1, <2>2, <2>3, WaitStep
<1>5. CASE ~Shares(b) /\ Presents(b) = Null
  BY <1>1, <1>5, DoneClearStep DEF Join
<1>6. QED
  BY <1>3, <1>4, <1>5

LEMMA RequestReturnsStep ==
  ASSUME OneTabPerDevice, IInv, NEW c \in Calls, RequestReturns(c)
  PROVE  IInv'
<1> DEFINE b == c[1]
           k == call[c]
<1>1. /\ InFlight(c) /\ k.kind \in Asking /\ k.kind \notin Renewing
      /\ UNCHANGED <<orphans, lapsed, api>>
  BY DEF RequestReturns, Answered, Asking, Renewing
<1>2. /\ b \in Tabs /\ CallSound(c) /\ mem[b] \in Session
      /\ mem[b].status # "idle"
  BY <1>1, SlotFacts DEF IInv, TypeOK
<1>3. CASE Refreshable(k) /\ Join(c)
  BY <1>1, <1>3, JoinStep
<1>4. CASE /\ k.result = "ok" /\ k.kind = "me" /\ Done(c) /\ UNCHANGED stored
           /\ mem' = [mem EXCEPT ![b].user = Owner(k.sent),
                                 ![b].status = "authenticated"]
  <2> DEFINE m == [mem[b] EXCEPT !.user = Owner(k.sent),
                                 !.status = "authenticated"]
  <2>1. Owner(k.sent) \in Users
    BY <1>1, <1>2, <1>4, OwnerType DEF CallSound
  <2>2. /\ m \in Session /\ m.status = "authenticated"
        /\ m.accessToken = mem[b].accessToken
        /\ m.refreshToken = mem[b].refreshToken
    BY <1>2, <2>1 DEF Session, Statuses
  <2>3. mem' = [mem EXCEPT ![b] = m] /\ stored' = stored
    BY <1>2, <1>4 DEF IInv, TypeOK
  <2> HIDE DEF m
  <2>4. stored' = [stored EXCEPT ![StoreOf[b]] = mem[b].refreshToken]
        /\ {mem[b].accessToken, mem[b].refreshToken} \subseteq Issued \cup {Null}
    BY <1>2, <2>3, TabFacts
  <2>5. stored' = [stored EXCEPT ![StoreOf[b]] = m.refreshToken]
        /\ {m.accessToken, m.refreshToken} \subseteq Issued \cup {Null}
    BY <2>2, <2>4
  <2>6. m.status # "idle" /\ mem' = [mem EXCEPT ![b] = m]
    BY <2>2, <2>3
  <2>7. QED
    BY <1>1, <1>4, <2>2, <2>5, <2>6, FinishStep
<1>5. CASE Done(c) /\ UNCHANGED client
  BY <1>1, <1>5, DoneStep
<1>6. CASE Done(c) /\ Clear(b)
  BY <1>1, <1>6, DoneClearStep
<1>7. QED
  BY <1>3, <1>4, <1>5, <1>6 DEF RequestReturns, client

LEMMA StepIInv ==
  ASSUME OneTabPerDevice, IInv, [Next]_vars
  PROVE  IInv'
<1>1. ASSUME NEW b \in Tabs, Act(b) PROVE IInv'
  BY <1>1, LoadStep, LoginStep, LogoutStep, RequestStep DEF Act
<1>2. ASSUME NEW c \in Calls, Serve(c) \/ Lose(c) PROVE IInv'
  BY <1>2, ServeStep
<1>3. ASSUME NEW c \in Calls, Receive(c) PROVE IInv'
  BY <1>3, LoginReturnsStep, LogoutReturnsStep, BootReturnsStep,
     RefreshReturnsStep, RequestReturnsStep DEF Receive
<1>4. CASE (\E t \in orphans : ServeOrphan(t)) \/ (\E t \in Tokens : Lapse(t))
  BY <1>4, BackgroundStep
<1>5. CASE UNCHANGED vars
  <2>1. UNCHANGED <<mem, stored, call, orphans, lapsed, live, given>>
    BY <1>5 DEF vars
  <2>2. Issued' = Issued
    BY <2>1 DEF Issued
  <2>3. TypeOK' /\ ApiSound'
    BY <2>1, <2>2 DEF IInv, TypeOK, ApiSound
  <2>4. \A b \in Tabs : TabSound(b)'
    BY <2>1, <2>2, TabKept DEF IInv
  <2>5. QED
    BY <2>3, <2>4 DEF IInv
<1>6. QED
  BY <1>1, <1>2, <1>3, <1>4, <1>5 DEF Next

LEMMA Invariance ==
  ASSUME OneTabPerDevice
  PROVE  Spec => []IInv
  BY InitIInv, StepIInv, PTL DEF Spec

\* With one tab per device, for every number of tabs, slots, users and tokens
\* and whatever overlaps, is reloaded or is lost: no request waits for a
\* refresh that is not under way, and a device remembers what its tab holds.
THEOREM TabsStayConsistent ==
  ASSUME OneTabPerDevice
  PROVE  Spec => []TabsAreConsistent
<1>1. ASSUME IInv PROVE TabsAreConsistent
  <2>1. WaitersHaveARefresh
    <3> SUFFICES ASSUME NEW c \in Calls, InFlight(c), call[c].at = "joined"
                 PROVE  InFlight(<<c[1], "auth">>)
                        /\ call[<<c[1], "auth">>].kind = "refresh"
      BY DEF WaitersHaveARefresh
    <3>1. c[1] \in Tabs /\ c \in Of(c[1])
      BY CallLemma
    <3>2. QED
      BY <1>1, <3>1 DEF IInv, TabSound
  <2>2. StorageFollowsMemory /\ TypeOK
    BY <1>1 DEF IInv, TabSound, StorageFollowsMemory
  <2>3. QED
    BY <2>1, <2>2 DEF TabsAreConsistent
<1>2. QED
  BY <1>1, Invariance, PTL
-----------------------------------------------------------------------------
(* What waiting for the requests of the tab adds. *)

Presented(c) == InFlight(c) /\ call[c].kind \in Renewing \cup {"logout"}
Counts(t) == t \in live[Owner(t)]

\* Signing in or out leaves the tab to itself; so does loading the profile,
\* but for the refresh it may wait for.
AloneInTab(b) ==
  \A c, d \in Of(b) : InFlight(c) /\ InFlight(d) =>
    /\ call[c].kind \in {"login", "logout"} => d = c
    /\ call[c].kind = "me" =>
         d = c \/ (call[c].at = "joined" /\ d = <<b, "auth">>)

\* What the store holds while a call of each kind is in flight.
StoreFits(c, m) ==
  InFlight(c) =>
    /\ call[c].kind = "login" => m.status = "loading" /\ m.accessToken = Null
                                   /\ m.refreshToken = Null
    /\ call[c].kind \in Renewing \cup {"logout"} =>
         m.refreshToken = call[c].sent /\ m.status # "anonymous"
    /\ call[c].kind = "me" => m.accessToken # Null /\ m.refreshToken # Null
                                /\ m.status = "loading" /\ m.user = Null

\* Nobody is told UNAUTHORIZED, and no retry runs into TOKEN_EXPIRED again.
AskFits(c) ==
  InFlight(c) /\ call[c].kind \in Asking =>
    /\ call[c].sent # Null
    /\ call[c].result \in {"none", "ok", "expired", "offline"}
    /\ call[c].retried => call[c].sent \notin lapsed /\ call[c].result # "expired"

\* A token on its way to a tab counts.
GotCounts(c) ==
  InFlight(c) /\ call[c].got # Null =>
    Counts(call[c].got) /\ call[c].got \notin lapsed

\* A token in the store counts until the call that presented it is answered.
HeldCounts(b, m) ==
  m.refreshToken # Null =>
    \/ Counts(m.refreshToken)
    \/ \E c \in Of(b) : Presented(c) /\ call[c].at = "answered"

StoreQuiet(m) ==
  /\ m.status = "authenticated" => m.user # Null /\ m.accessToken # Null
  /\ m.status = "anonymous" => m.accessToken = Null /\ m.refreshToken = Null

TabQuiet(b) ==
  /\ AloneInTab(b)
  /\ \A c \in Of(b) : StoreFits(c, mem[b]) /\ AskFits(c) /\ GotCounts(c)
  /\ HeldCounts(b, mem[b])
  /\ StoreQuiet(mem[b])

\* No two tabs hold the same token, or are about to.
Holds(b, t) ==
  mem[b].refreshToken = t \/ \E c \in Of(b) : InFlight(c) /\ call[c].got = t

HeldApart ==
  \A a, b \in Tabs, t \in Tokens : Holds(a, t) /\ Holds(b, t) => a = b

QuietInv ==
  /\ IInv
  /\ orphans = {}
  /\ HeldApart
  /\ \A b \in Tabs : TabQuiet(b)
-----------------------------------------------------------------------------
(* Keeping quiet. *)

\* Handing out and ending sessions moves no token to another user.
LEMMA CountsKept ==
  ASSUME ApiSound, ApiSound', NEW t \in Issued, Counts(t),
         \A v \in Users : given[v] \subseteq given'[v],
         \A v \in Users : t \in live[v] => t \in live'[v]
  PROVE  Counts(t)'
<1>1. Owner(t) \in Users /\ t \in given[Owner(t)]
  BY OwnerType
<1>2. t \in given'[Owner(t)]
  BY <1>1
<1>3. PICK u \in Users : u = Owner(t)
  BY <1>1
<1>4. \A v \in Users : t \in given'[v] => v = u
  BY <1>2, <1>3 DEF ApiSound
<1>5. Owner(t)' = u
  BY <1>2, <1>3, <1>4 DEF Owner
<1>6. t \in live'[u]
  BY <1>3 DEF Counts
<1>7. QED
  BY <1>5, <1>6 DEF Counts

\* A token just handed out counts.
LEMMA NewCounts ==
  ASSUME ApiSound', NEW u \in Users, NEW t, t \in given'[u], t \in live'[u]
  PROVE  Counts(t)'
<1>1. \A v \in Users : t \in given'[v] => v = u
  BY DEF ApiSound
<1>2. Owner(t)' = u
  BY <1>1 DEF Owner
<1>3. QED
  BY <1>2 DEF Counts

\* Every token a tab holds was handed out.
LEMMA HeldIssued ==
  ASSUME IInv, NEW b \in Tabs, NEW t \in Tokens, Holds(b, t)
  PROVE  t \in Issued
<1>1. t # Null
  BY NullsAssumption
<1>2. TabSound(b)
  BY DEF IInv
<1>3. mem[b].refreshToken \in Issued \cup {Null}
  BY <1>2 DEF TabSound
<1>4. \A c \in Of(b) : InFlight(c) => call[c].got \in Issued \cup {Null}
  BY <1>2 DEF TabSound, CallSound
<1>5. QED
  BY <1>1, <1>3, <1>4 DEF Holds

\* A tab that does nothing stays quiet while what it holds keeps counting and
\* nothing it is about to use lapses.
LEMMA TabQuietKept ==
  ASSUME IInv, NEW b \in Tabs, TabQuiet(b), mem'[b] = mem[b],
         \A c \in Of(b) : call'[c] = call[c],
         \A t \in Tokens : Holds(b, t) /\ Counts(t) => Counts(t)',
         \A c \in Of(b), t \in lapsed' : InFlight(c) /\ t \notin lapsed =>
           call[c].got # t /\ (call[c].retried => call[c].sent # t)
  PROVE  TabQuiet(b)'
<1>1. /\ \A c \in Of(b) : InFlight(c)' <=> InFlight(c)
      /\ Of(b)' = Of(b) /\ <<b, "auth">>' = <<b, "auth">>
  BY DEF InFlight, Of
<1>2. AloneInTab(b)'
  BY <1>1 DEF TabQuiet, AloneInTab
<1>3. \A c \in Of(b) : StoreFits(c, mem[b])'
  BY <1>1 DEF TabQuiet, StoreFits
<1>4. \A c \in Of(b) : AskFits(c)'
  BY <1>1 DEF TabQuiet, AskFits
<1>5. \A c \in Of(b) : GotCounts(c)'
  <2> SUFFICES ASSUME NEW c \in Of(b), InFlight(c), call[c].got # Null
               PROVE  Counts(call[c].got)' /\ call[c].got \notin lapsed'
    BY <1>1 DEF GotCounts
  <2>1. call[c] \in Call
    BY TabFacts
  <2>2. call[c].got \in Tokens
    BY <2>1 DEF Call
  <2>3. Counts(call[c].got) /\ call[c].got \notin lapsed
    BY DEF TabQuiet, GotCounts
  <2>4. Holds(b, call[c].got)
    BY DEF Holds
  <2>5. QED
    BY <2>2, <2>3, <2>4
<1>6. HeldCounts(b, mem[b])'
  <2> SUFFICES ASSUME mem[b].refreshToken # Null
               PROVE  \/ Counts(mem[b].refreshToken)'
                      \/ \E c \in Of(b) : Presented(c)' /\ call'[c].at = "answered"
    BY <1>1 DEF HeldCounts
  <2>1. mem[b] \in Session
    BY TabFacts
  <2>2. mem[b].refreshToken \in Tokens /\ Holds(b, mem[b].refreshToken)
    BY <2>1 DEF Session, Holds
  <2>3. CASE Counts(mem[b].refreshToken)
    BY <2>2, <2>3
  <2>4. CASE \E c \in Of(b) : Presented(c) /\ call[c].at = "answered"
    BY <1>1, <2>4 DEF Presented
  <2>5. QED
    BY <2>3, <2>4 DEF TabQuiet, HeldCounts
<1>7. StoreQuiet(mem[b])'
  BY DEF TabQuiet, StoreQuiet
<1>8. QED
  BY <1>1, <1>2, <1>3, <1>4, <1>5, <1>6, <1>7 DEF TabQuiet

\* One tab moves; what the others hold keeps counting.
LEMMA QuietStep ==
  ASSUME OneTabPerDevice, QuietInv, IInv', NEW b \in Tabs, Touches(b),
         orphans' = {}, lapsed' = lapsed, TabQuiet(b)',
         \A t \in Tokens : Holds(b, t)' => Holds(b, t) \/ t \notin Issued,
         \A a \in Tabs, t \in Tokens :
           a # b /\ Holds(a, t) /\ Counts(t) => Counts(t)'
  PROVE  QuietInv'
<1>1. ASSUME NEW a \in Tabs, a # b
      PROVE  /\ mem'[a] = mem[a]
             /\ \A c \in Of(a) : call'[c] = call[c]
             /\ \A t \in Tokens : Holds(a, t)' <=> Holds(a, t)
             /\ TabQuiet(a)'
  <2>1. mem'[a] = mem[a] /\ \A c \in Of(a) : call'[c] = call[c]
    BY <1>1 DEF Touches, Of
  <2>2. \A t \in Tokens : Holds(a, t)' <=> Holds(a, t)
    BY <2>1 DEF Holds, InFlight, Of
  <2>3. TabQuiet(a) /\ IInv
    BY DEF QuietInv
  <2>4. TabQuiet(a)'
    BY <1>1, <2>1, <2>3, TabQuietKept
  <2>5. QED
    BY <2>1, <2>2, <2>4
<1>2. HeldApart'
  <2> SUFFICES ASSUME NEW a \in Tabs, NEW d \in Tabs, NEW t \in Tokens,
                      Holds(a, t)', Holds(d, t)', a # d
               PROVE  FALSE
    BY DEF HeldApart
  <2>1. IInv /\ HeldApart
    BY DEF QuietInv
  <2>2. CASE a # b /\ d # b
    BY <1>1, <2>1, <2>2 DEF HeldApart
  <2>3. CASE a = b
    <3>1. d # b /\ Holds(d, t)
      BY <1>1, <2>3
    <3>2. t \in Issued
      BY <2>1, <3>1, HeldIssued
    <3>3. QED
      BY <2>1, <2>3, <3>1, <3>2 DEF HeldApart
  <2>4. CASE d = b
    <3>1. a # b /\ Holds(a, t)
      BY <1>1, <2>4
    <3>2. t \in Issued
      BY <2>1, <3>1, HeldIssued
    <3>3. QED
      BY <2>1, <2>4, <3>1, <3>2 DEF HeldApart
  <2>5. QED
    BY <2>2, <2>3, <2>4
<1>3. QED
  BY <1>1, <1>2 DEF QuietInv
-----------------------------------------------------------------------------
(* The API and the network, in quiet. *)

\* A call that presents a token has the one its tab holds, and is the only one.
LEMMA PresentedLemma ==
  ASSUME IInv, NEW b \in Tabs, TabQuiet(b), NEW c \in Of(b), Presented(c)
  PROVE  /\ mem[b].refreshToken = call[c].sent /\ call[c].sent \in Issued
         /\ \A d \in Of(b) : Presented(d) => d = c
         /\ \A d \in Of(b) : InFlight(d) /\ call[d].got # Null => d = c
<1>1. TabSound(b) /\ StoreFits(c, mem[b]) /\ AloneInTab(b)
  BY DEF IInv, TabQuiet
<1>2. mem[b].refreshToken = call[c].sent
  BY <1>1 DEF StoreFits, Presented
<1>3. call[c].sent \in Issued
  BY <1>1 DEF TabSound, CallSound, Presented
<1>4. \A d \in Of(b) : Presented(d) => d = c
  <2> SUFFICES ASSUME NEW d \in Of(b), Presented(d) PROVE d = c
    OBVIOUS
  <2>1. CASE call[c].kind = "logout" \/ call[d].kind = "logout"
    BY <1>1, <2>1 DEF AloneInTab, Presented
  <2>2. CASE call[c].kind \in Renewing /\ call[d].kind \in Renewing
    <3>1. c[2] = "auth" /\ d[2] = "auth"
      BY <1>1, <2>2 DEF TabSound, CallSound, Presented
    <3>2. "auth" \in Lanes
      BY DEF Lanes
    <3>3. c = <<b, "auth">> /\ d = <<b, "auth">>
      BY <3>1, <3>2, LaneLemma
    <3>4. QED
      BY <3>3
  <2>3. QED
    BY <2>1, <2>2 DEF Presented
<1>5. \A d \in Of(b) : InFlight(d) /\ call[d].got # Null => d = c
  <2> SUFFICES ASSUME NEW d \in Of(b), InFlight(d), call[d].got # Null PROVE d = c
    OBVIOUS
  <2>1. call[d].kind \in Renewing \cup {"login"}
    BY <1>1 DEF TabSound, CallSound
  <2>2. CASE call[d].kind = "login"
    BY <1>1, <2>2 DEF AloneInTab, Presented
  <2>3. CASE call[d].kind \in Renewing
    BY <1>4, <2>3 DEF Presented
  <2>4. QED
    BY <2>1, <2>2, <2>3
<1>6. QED
  BY <1>2, <1>3, <1>4, <1>5

\* What a tab presents counts when the API looks at it.
LEMMA LiveWhenSent ==
  ASSUME QuietInv, NEW c \in Calls, Presented(c), call[c].at # "answered"
  PROVE  Counts(call[c].sent)
<1>1. c[1] \in Tabs /\ c \in Of(c[1]) /\ IInv /\ TabQuiet(c[1])
  BY CallLemma DEF QuietInv
<1>2. /\ mem[c[1]].refreshToken = call[c].sent /\ call[c].sent \in Issued
      /\ \A d \in Of(c[1]) : Presented(d) => d = c
  BY <1>1, PresentedLemma
<1>3. call[c].sent # Null
  BY <1>2, NullsAssumption, TabFacts, <1>1
<1>4. QED
  BY <1>1, <1>2, <1>3 DEF TabQuiet, HeldCounts

\* A call is answered; only the token it presented may stop to count.
LEMMA QuietRespond ==
  ASSUME OneTabPerDevice, QuietInv, IInv', NEW c \in Calls, InFlight(c),
         call[c].at \in {"sent", "answered"},
         NEW result \in Results \ {"none"}, NEW t \in Tokens \cup {Null},
         Respond(c, result, t), UNCHANGED <<client, lapsed, orphans>>,
         call[c].kind \in Asking =>
           /\ result \in {"ok", "expired", "offline"}
           /\ call[c].retried => result # "expired",
         t # Null => Counts(t)' /\ t \notin Issued,
         \A x \in Issued : Counts(x) /\ (Presented(c) => x # call[c].sent)
                             => Counts(x)'
  PROVE  QuietInv'
<1> DEFINE b == c[1]
           k == [call[c] EXCEPT !.at = "answered", !.result = result, !.got = t]
<1>1. b \in Tabs /\ c \in Of(b) /\ TabSound(b) /\ TabQuiet(b) /\ IInv /\ HeldApart
      /\ orphans = {}
  BY CallLemma DEF QuietInv, IInv
<1>2. call[c] \in Call /\ k \in Call
  BY <1>1 DEF IInv, TypeOK, InFlight, Call
<1>3. \A d \in Calls : call'[d] = IF d = c THEN k ELSE call[d]
  BY <1>1, <1>2 DEF Respond, IInv, TypeOK
<1>4. /\ k.kind = call[c].kind /\ k.sent = call[c].sent
      /\ k.retried = call[c].retried
      /\ k.at = "answered" /\ k.result = result /\ k.got = t
  BY <1>2 DEF Call
<1>5. /\ \A d \in Calls : InFlight(d)' <=> InFlight(d)
      /\ mem' = mem /\ stored' = stored /\ lapsed' = lapsed /\ orphans' = {}
  BY <1>1, <1>2, <1>3, NullsAssumption DEF InFlight, client
<1> HIDE DEF k
<1>6. \A d \in Of(b) : d \in Calls /\ call'[d].kind = call[d].kind
                         /\ call'[d].sent = call[d].sent
                         /\ call'[d].retried = call[d].retried
  BY <1>3, <1>4 DEF Of
<1>7. \A d \in Of(b) : Presented(d)' <=> Presented(d)
  BY <1>5, <1>6 DEF Presented
<1>8. AloneInTab(b)'
  <2>1. \A d \in Of(b) : call[d].at = "joined" => call'[d].at = "joined"
    BY <1>3, <1>6
  <2>2. QED
    BY <1>1, <1>5, <1>6, <2>1 DEF TabQuiet, AloneInTab, Of
<1>9. \A d \in Of(b) : StoreFits(d, mem[b])'
  BY <1>1, <1>5, <1>6 DEF TabQuiet, StoreFits, Of
<1>10. \A d \in Of(b) : AskFits(d)'
  <2> SUFFICES ASSUME NEW d \in Of(b) PROVE AskFits(d)'
    BY DEF Of
  <2>1. AskFits(d)
    BY <1>1 DEF TabQuiet
  <2>2. CASE d = c
    BY <1>3, <1>4, <1>5, <1>6, <2>1, <2>2 DEF AskFits
  <2>3. CASE d # c
    BY <1>3, <1>5, <1>6, <2>1, <2>3 DEF AskFits
  <2>4. QED
    BY <2>2, <2>3
<1>11. \A d \in Of(b) : InFlight(d) /\ call[d].got # Null =>
         call[d].got \in Issued /\ Counts(call[d].got) /\ call[d].got \notin lapsed
  BY <1>1 DEF TabSound, CallSound, TabQuiet, GotCounts
<1>12. \A d \in Of(b) : GotCounts(d)'
  <2> SUFFICES ASSUME NEW d \in Of(b), InFlight(d)', call'[d].got # Null
               PROVE  Counts(call[d].got)' /\ call'[d].got \notin lapsed'
    BY DEF GotCounts, Of
  <2>1. CASE d = c
    <3>1. call'[d].got = t /\ t \notin lapsed'
      BY <1>1, <1>3, <1>4, <1>5, <1>6, <2>1 DEF IInv, ApiSound
    <3>2. Counts(t)'
      BY <3>1
    <3>3. QED
      BY <3>1, <3>2 DEF Counts, Owner
  <2>2. CASE d # c
    <3>1. call'[d] = call[d] /\ InFlight(d)
      BY <1>3, <1>5, <1>6, <2>2
    <3>2. ~Presented(c)
      BY <1>1, <2>2, <3>1, PresentedLemma
    <3>3. PICK x \in Issued : x = call[d].got
      BY <1>11, <3>1
    <3>4. Counts(x)' /\ x \notin lapsed'
      BY <1>5, <1>11, <3>1, <3>2, <3>3
    <3>5. call'[d].got = x
      BY <3>1, <3>3
    <3>6. QED
      BY <3>4, <3>5 DEF Counts, Owner
  <2>3. QED
    BY <2>1, <2>2
<1>13. HeldCounts(b, mem[b])'
  <2> SUFFICES ASSUME mem[b].refreshToken # Null
               PROVE  \/ Counts(mem[b].refreshToken)'
                      \/ \E d \in Of(b) : Presented(d)' /\ call'[d].at = "answered"
    BY <1>5 DEF HeldCounts, Of
  <2>1. PICK x \in Issued : x = mem[b].refreshToken
    BY <1>1, TabFacts
  <2>2. CASE \E d \in Of(b) : Presented(d) /\ call[d].at = "answered"
    BY <1>3, <1>4, <1>6, <1>7, <2>2
  <2>3. CASE Presented(c)
    BY <1>1, <1>3, <1>4, <1>7, <2>3
  <2>4. CASE Counts(mem[b].refreshToken) /\ ~Presented(c)
    <3>1. Counts(x)'
      BY <2>1, <2>4
    <3>2. mem'[b].refreshToken = x
      BY <1>5, <2>1
    <3>3. QED
      BY <3>1, <3>2 DEF Counts, Owner
  <2>5. QED
    BY <1>1, <2>2, <2>3, <2>4 DEF TabQuiet, HeldCounts
<1>14. StoreQuiet(mem[b])'
  BY <1>1, <1>5 DEF TabQuiet, StoreQuiet
<1>15. TabQuiet(b)'
  BY <1>8, <1>9, <1>10, <1>12, <1>13, <1>14 DEF TabQuiet, Of
<1>16. Touches(b)
  BY <1>1, <1>3, <1>5 DEF Touches
<1>17. \A x \in Tokens : Holds(b, x)' => Holds(b, x) \/ x \notin Issued
  <2> SUFFICES ASSUME NEW x \in Tokens, Holds(b, x)' PROVE Holds(b, x) \/ x \notin Issued
    OBVIOUS
  <2>1. x # Null
    BY NullsAssumption
  <2>2. CASE mem'[b].refreshToken = x
    BY <1>5, <2>2 DEF Holds
  <2>3. CASE \E d \in Of(b) : InFlight(d)' /\ call'[d].got = x
    BY <1>3, <1>4, <1>5, <1>6, <2>1, <2>3 DEF Holds
  <2>4. QED
    BY <2>2, <2>3 DEF Holds, Of
<1>18. \A a \in Tabs, x \in Tokens : a # b /\ Holds(a, x) /\ Counts(x) => Counts(x)'
  <2> SUFFICES ASSUME NEW a \in Tabs, NEW x \in Tokens, a # b, Holds(a, x), Counts(x)
               PROVE  Counts(x)'
    OBVIOUS
  <2>1. x \in Issued
    BY <1>1, HeldIssued
  <2>2. CASE Presented(c) /\ x = call[c].sent
    <3>1. mem[b].refreshToken = x
      BY <1>1, <2>2, PresentedLemma
    <3>2. QED
      BY <1>1, <3>1 DEF Holds, HeldApart
  <2>3. QED
    BY <2>1, <2>2
<1> HIDE DEF b
<1>19. QED
  BY <1>1, <1>5, <1>15, <1>16, <1>17, <1>18, QuietStep

LEMMA QuietServe ==
  ASSUME OneTabPerDevice, QuietInv, IInv', NEW c \in Calls, Serve(c) \/ Lose(c)
  PROVE  QuietInv'
<1> DEFINE t == call[c].sent
<1>1. /\ InFlight(c) /\ call[c].at \in {"sent", "answered"}
      /\ call[c] \in Call /\ UNCHANGED <<client, lapsed, orphans>>
      /\ IInv /\ ApiSound /\ ApiSound'
  BY DEF Serve, Lose, ServeLogin, ServeRefresh, ServeLogout, ServeRequest,
         QuietInv, IInv, TypeOK, InFlight
<1>2. c[1] \in Tabs /\ c \in Of(c[1]) /\ CallSound(c) /\ AskFits(c)
  BY CallLemma DEF QuietInv, IInv, TabSound, TabQuiet
<1>3. UNCHANGED <<lapsed, stored, orphans>>
  BY <1>1 DEF client
<1>4. CASE UNCHANGED api /\ \E r \in Results \ {"none"} :
             /\ Respond(c, r, Null)
             /\ call[c].kind \in Asking =>
                  /\ r \in {"ok", "expired", "offline"}
                  /\ call[c].retried => r # "expired"
  <2>1. \A x \in Issued : Counts(x) => Counts(x)'
    BY <1>4 DEF api, Counts, Owner
  <2>2. QED
    BY <1>1, <1>4, <2>1, QuietRespond
<1>5. CASE call[c].kind = "login" /\ ServeLogin(c)
  <2>1. CASE Respond(c, "refused", Null) /\ UNCHANGED api
    BY <1>4, <1>5, <2>1 DEF Results, Asking
  <2>2. CASE /\ MayIssue
             /\ Server!Open(call[c].as, NextToken)
             /\ Respond(c, "ok", NextToken)
    <3>1. PICK n \in Tokens, u \in Users : n = NextToken /\ u = call[c].as
      BY <1>1, <2>2 DEF MayIssue, Call
    <3>2. Server!Open(u, n) /\ Respond(c, "ok", n) /\ n # Null
      BY <2>2, <3>1, NullsAssumption
    <3>3. /\ n \notin Issued /\ n \in live'[u] /\ n \in given'[u]
          /\ \A v \in Users : live[v] \subseteq live'[v] /\ given[v] \subseteq given'[v]
      BY <1>1, <1>3, <3>2, OpenEffect
    <3>4. Counts(n)'
      BY <1>1, <3>3, NewCounts
    <3>5. \A x \in Issued : Counts(x) => Counts(x)'
      BY <1>1, <3>3, CountsKept
    <3>6. QED
      BY <1>1, <1>5, <3>2, <3>3, <3>4, <3>5, QuietRespond DEF Results, Asking
  <2>3. QED
    BY <1>5, <2>1, <2>2 DEF ServeLogin
<1>6. CASE call[c].kind \in Renewing /\ ServeRefresh(c) /\ call[c].at = "sent"
  <2>1. /\ Presented(c) /\ t \in Issued /\ Owner(t) \in Users
    <3>1. t \in Issued
      BY <1>1, <1>2, <1>6 DEF CallSound, Renewing
    <3>2. QED
      BY <1>1, <1>6, <3>1, OwnerType DEF Presented
  <2>2. t \in live[Owner(t)]
    BY <1>6, <2>1, LiveWhenSent DEF Counts
  <2>3. CASE Respond(c, "refused", Null) /\ UNCHANGED api
    BY <1>4, <1>6, <2>3 DEF Results, Asking, Renewing
  <2>4. CASE MayIssue /\ Rotate(t) /\ Respond(c, "ok", NextToken)
    <3>1. PICK n \in Tokens, u \in Users : n = NextToken /\ u = Owner(t)
      BY <2>1, <2>4 DEF MayIssue
    <3>2. Server!Refresh(u, t, n) /\ Respond(c, "ok", n) /\ n # Null
      BY <2>4, <3>1, NullsAssumption DEF Rotate
    <3>3. /\ n \notin Issued /\ n \in live'[u] /\ n \in given'[u]
          /\ \A v \in Users : live[v] \ {t} \subseteq live'[v]
                                /\ given[v] \subseteq given'[v]
      BY <1>1, <1>3, <3>2, RefreshEffect
    <3>4. Counts(n)'
      BY <1>1, <3>3, NewCounts
    <3>5. \A x \in Issued : Counts(x) /\ x # t => Counts(x)'
      BY <1>1, <3>3, CountsKept
    <3>6. QED
      BY <1>1, <1>6, <2>1, <3>2, <3>3, <3>4, <3>5, QuietRespond
      DEF Results, Asking, Renewing
  <2>5. ~Reuse(t)
    BY <2>2 DEF Reuse, Server!Reuse
  <2>6. QED
    BY <1>6, <2>3, <2>4, <2>5 DEF ServeRefresh
<1>7. CASE call[c].kind = "logout" /\ ServeLogout(c) /\ call[c].at = "sent"
  <2>1. Presented(c) /\ t \in Issued /\ Owner(t) \in Users
    <3>1. t \in Issued
      BY <1>1, <1>2, <1>7 DEF CallSound
    <3>2. QED
      BY <1>1, <1>7, <3>1, OwnerType DEF Presented
  <2>2. CASE UNCHANGED api
    BY <1>4, <1>7, <2>2 DEF ServeLogout, Results, Asking
  <2>3. CASE Server!Close(Owner(t), t)
    <3>1. PICK u \in Users : u = Owner(t)
      BY <2>1
    <3>2. Server!Close(u, t) /\ Respond(c, "ok", Null)
      BY <1>7, <2>3, <3>1 DEF ServeLogout
    <3>3. given' = given /\ \A v \in Users : live[v] \ {t} \subseteq live'[v]
      BY <1>1, <1>3, <3>2, EndEffect
    <3>4. \A x \in Issued : Counts(x) /\ x # t => Counts(x)'
      BY <1>1, <3>3, CountsKept
    <3>5. QED
      BY <1>1, <1>7, <2>1, <3>2, <3>4, QuietRespond DEF Results, Asking
  <2>4. QED
    BY <1>7, <2>2, <2>3 DEF ServeLogout
<1>8. CASE call[c].kind \in Asking /\ ServeRequest(c)
  <2>1. /\ Gate(t) \in {"ok", "expired"}
        /\ call[c].retried => Gate(t) # "expired"
    BY <1>1, <1>2, <1>8 DEF AskFits, Gate
  <2>2. Respond(c, Gate(t), Null) /\ UNCHANGED api
    BY <1>8 DEF ServeRequest
  <2>3. Gate(t) \in Results \ {"none"}
    BY <2>1 DEF Results
  <2>4. QED
    BY <1>4, <2>1, <2>2, <2>3
<1>9. CASE Lose(c)
  BY <1>4, <1>9 DEF Lose, Results
<1>10. QED
  BY <1>5, <1>6, <1>7, <1>8, <1>9 DEF Serve, Renewing, Asking

\* An access token ages; nothing was left behind by a page.
LEMMA QuietLapse ==
  ASSUME ~Overlap, QuietInv, IInv', NEW t \in Tokens, Lapse(t)
  PROVE  QuietInv'
<1>1. /\ mem' = mem /\ call' = call /\ orphans' = {} /\ IInv
      /\ live' = live /\ given' = given /\ lapsed' = lapsed \cup {t}
  BY DEF Lapse, client, api, QuietInv
<1>2. \A c \in Calls : InFlight(c) =>
        call[c].got # t /\ (call[c].retried => call[c].sent # t)
  BY DEF Lapse
<1>3. ASSUME NEW b \in Tabs PROVE TabQuiet(b)'
  <2>1. \A x \in Tokens : Counts(x) => Counts(x)'
    BY <1>1 DEF Counts, Owner
  <2>2. \A c \in Of(b), x \in lapsed' : InFlight(c) /\ x \notin lapsed =>
          call[c].got # x /\ (call[c].retried => call[c].sent # x)
    BY <1>1, <1>2 DEF Of
  <2>3. TabQuiet(b)
    BY DEF QuietInv
  <2>4. QED
    BY <1>1, <2>1, <2>2, <2>3, TabQuietKept
<1>4. HeldApart'
  BY <1>1 DEF QuietInv, HeldApart, Holds, InFlight, Of
<1>5. QED
  BY <1>1, <1>3, <1>4 DEF QuietInv
-----------------------------------------------------------------------------
(* The client, in quiet: only waiting, nothing is left behind by a page. *)

\* A handler hands out nothing: it suffices that its own tab stays quiet and
\* gets hold of no token.
LEMMA QuietClient ==
  ASSUME OneTabPerDevice, QuietInv, IInv', NEW b \in Tabs, Touches(b),
         UNCHANGED <<lapsed, api>>, orphans' = {},
         NEW m \in Session, mem'[b] = m, AloneInTab(b)',
         \A c \in Of(b) : StoreFits(c, m)' /\ AskFits(c)' /\ GotCounts(c)',
         HeldCounts(b, m)', StoreQuiet(m),
         \A t \in Tokens : Holds(b, t)' => Holds(b, t)
  PROVE  QuietInv'
<1>1. \A c \in Of(b) : StoreFits(c, mem[b])'
  BY DEF StoreFits, Of
<1>2. HeldCounts(b, mem[b])'
  <2> SUFFICES ASSUME m.refreshToken # Null
               PROVE  \/ Counts(mem[b].refreshToken)'
                      \/ \E c \in Of(b) : Presented(c)' /\ call'[c].at = "answered"
    BY DEF HeldCounts, Of
  <2>1. Counts(m.refreshToken)' => Counts(mem[b].refreshToken)'
    BY DEF Counts, Owner
  <2>2. QED
    BY <2>1 DEF HeldCounts, Of
<1>3. StoreQuiet(mem[b])'
  BY DEF StoreQuiet
<1>4. TabQuiet(b)'
  BY <1>1, <1>2, <1>3 DEF TabQuiet, Of
<1>5. \A t \in Tokens : Counts(t) => Counts(t)'
  BY DEF api, Counts, Owner
<1>6. QED
  BY <1>4, <1>5, QuietStep

\* The tab is left with one call that is about to be sent, or with none.
LEMMA QuietAlone ==
  ASSUME OneTabPerDevice, QuietInv, IInv', NEW b \in Tabs, Touches(b),
         UNCHANGED <<lapsed, api>>, orphans' = {},
         NEW m \in Session, mem'[b] = m, NEW c \in Of(b),
         \A d \in Of(b) : InFlight(d)' => d = c /\ call'[c].got = Null,
         StoreFits(c, m)', AskFits(c)', StoreQuiet(m),
         m.refreshToken # Null =>
           Counts(m.refreshToken) /\ Holds(b, m.refreshToken)
  PROVE  QuietInv'
<1>1. AloneInTab(b)'
  BY DEF AloneInTab, Of
<1>2. \A d \in Of(b) : StoreFits(d, m)' /\ AskFits(d)' /\ GotCounts(d)'
  <2> SUFFICES ASSUME NEW d \in Of(b), InFlight(d)'
               PROVE  StoreFits(d, m)' /\ AskFits(d)' /\ GotCounts(d)'
    BY DEF StoreFits, AskFits, GotCounts
  <2>1. d = c
    OBVIOUS
  <2>2. GotCounts(d)'
    BY <2>1 DEF GotCounts
  <2>3. QED
    BY <2>1, <2>2 DEF StoreFits, AskFits
<1>3. HeldCounts(b, m)'
  BY DEF HeldCounts, Counts, Owner, api
<1>4. \A t \in Tokens : Holds(b, t)' => Holds(b, t)
  BY NullsAssumption DEF Holds, Of
<1>5. QED
  BY <1>1, <1>2, <1>3, <1>4, QuietClient

\* The tab ends up signed out, and only plain requests go on.
LEMMA QuietCleared ==
  ASSUME OneTabPerDevice, QuietInv, IInv', NEW b \in Tabs, Touches(b),
         UNCHANGED <<lapsed, api>>, orphans' = {},
         NEW m \in Session, mem'[b] = m, m.accessToken = Null,
         m.refreshToken = Null, m.status # "authenticated",
         \A d \in Of(b) : InFlight(d)' =>
           InFlight(d) /\ call'[d] = call[d] /\ call[d].kind = "request"
  PROVE  QuietInv'
<1>1. TabQuiet(b) /\ TabSound(b) /\ lapsed' = lapsed
  BY DEF QuietInv, IInv
<1>2. AloneInTab(b)'
  BY DEF AloneInTab, Of
<1>3. \A d \in Of(b) : StoreFits(d, m)'
  BY DEF StoreFits, Renewing
<1>4. \A d \in Of(b) : AskFits(d)'
  BY <1>1 DEF AskFits, TabQuiet
<1>5. \A d \in Of(b) : InFlight(d)' => call'[d].got = Null
  BY <1>1 DEF TabSound, CallSound, Renewing
<1>6. \A d \in Of(b) : GotCounts(d)'
  BY <1>5 DEF GotCounts
<1>7. HeldCounts(b, m)' /\ StoreQuiet(m)
  BY DEF HeldCounts, StoreQuiet
<1>8. \A t \in Tokens : Holds(b, t)' => Holds(b, t)
  BY <1>5, NullsAssumption DEF Holds, Of
<1>9. QED
  BY <1>2, <1>3, <1>4, <1>6, <1>7, <1>8, QuietClient

\* Steps that write one tab, its device and calls of its own touch only those.
LEMMA TouchesLemma ==
  ASSUME IInv, NEW b \in Tabs, NEW m, mem' = [mem EXCEPT ![b] = m],
         stored' = stored \/ \E t : stored' = [stored EXCEPT ![StoreOf[b]] = t],
         \A c \in Calls : c \notin Of(b) => call'[c] = call[c]
  PROVE  Touches(b) /\ mem'[b] = m
  BY StoresAssumption DEF Touches, IInv, TypeOK

\* What holds of every tab that has to wait for its requests.
LEMMA QuietFacts ==
  ASSUME QuietInv, NEW b \in Tabs
  PROVE  /\ IInv /\ TabQuiet(b) /\ TabSound(b) /\ mem[b] \in Session
         /\ orphans = {} /\ lapsed \subseteq Issued
         /\ mem[b].refreshToken # Null => Holds(b, mem[b].refreshToken)
         /\ (\A c \in Of(b) : ~InFlight(c)) /\ mem[b].refreshToken # Null
              => Counts(mem[b].refreshToken)
         /\ \A c \in Of(b) : InFlight(c) => call[c] \in Call /\ CallSound(c)
         /\ \A c \in Of(b) : StoreFits(c, mem[b]) /\ AskFits(c) /\ GotCounts(c)
         /\ StoreQuiet(mem[b]) /\ AloneInTab(b)
<1>1. IInv /\ TabQuiet(b) /\ TabSound(b) /\ orphans = {}
  BY DEF QuietInv, IInv
<1>2. lapsed \subseteq Issued
  BY <1>1 DEF IInv, ApiSound
<1>3. mem[b].refreshToken # Null => Holds(b, mem[b].refreshToken)
  BY DEF Holds
<1>4. (\A c \in Of(b) : ~InFlight(c)) /\ mem[b].refreshToken # Null
        => Counts(mem[b].refreshToken)
  BY <1>1 DEF TabQuiet, HeldCounts, Presented
<1>5. /\ mem[b] \in Session
      /\ \A c \in Of(b) : InFlight(c) => call[c] \in Call /\ CallSound(c)
  BY <1>1, TabFacts DEF TabSound
<1>6. QED
  BY <1>1, <1>2, <1>3, <1>4, <1>5 DEF TabQuiet

LEMMA QuietLoad ==
  ASSUME OneTabPerDevice, ~Overlap, QuietInv, IInv', NEW b \in Tabs, Load(b)
  PROVE  QuietInv'
<1>0. PICK t, k : /\ t \in Tokens \cup {Null} /\ t = stored[StoreOf[b]]
                  /\ k = Sent("boot", Owner(t), t)
  BY StoresAssumption DEF QuietInv, IInv, TypeOK
<1> DEFINE A == <<b, "auth">>
           m == [user |-> Null, accessToken |-> Null, refreshToken |-> t,
                 status |-> IF t = Null THEN "anonymous" ELSE "loading"]
<1>1. /\ IInv /\ TabSound(b) /\ orphans = {} /\ A \in Of(b) /\ A \in Calls
      /\ t = mem[b].refreshToken /\ t \in Tokens \cup {Null}
  BY <1>0, QuietFacts, LaneLemma DEF TabSound, Lanes, Session
<1>2. \A c \in Of(b) : ~InFlight(c)
  BY DEF Load, MayAct
<1>3. orphans' = {} /\ UNCHANGED <<lapsed, api>> /\ stored' = stored
  BY <1>1, <1>2 DEF Load
<1>4. m \in Session /\ m.refreshToken = t /\ StoreQuiet(m)
      /\ (t # Null => m.status = "loading")
  BY <1>1 DEF Session, Statuses, StoreQuiet
<1>5. /\ mem' = [mem EXCEPT ![b] = m]
      /\ \A c \in Calls :
           /\ c \notin Of(b) => call'[c] = call[c]
           /\ c \in Of(b) => call'[c] = IF t # Null /\ c = A THEN k ELSE NoCall
  BY <1>0, <1>1 DEF Load, IInv, TypeOK
<1>6. /\ k.kind = "boot" /\ k.sent = t /\ k.got = Null
  BY <1>0 DEF Sent
<1> HIDE DEF m, A
<1>7. Touches(b) /\ mem'[b] = m
  BY <1>1, <1>3, <1>5, TouchesLemma
<1>8. \A d \in Of(b) : InFlight(d)' => d = A /\ call'[A] = k /\ t # Null
  BY <1>1, <1>5 DEF InFlight, Of
<1>9. StoreFits(A, m)' /\ AskFits(A)'
  BY <1>1, <1>4, <1>6, <1>8 DEF StoreFits, AskFits, Renewing, Asking
<1>10. m.refreshToken # Null =>
         Counts(m.refreshToken) /\ Holds(b, m.refreshToken)
  BY <1>1, <1>2, <1>4, QuietFacts
<1>11. \A d \in Of(b) : InFlight(d)' => d = A /\ call'[A].got = Null
  BY <1>6, <1>8
<1>12. QED
  BY <1>1, <1>3, <1>4, <1>7, <1>9, <1>10, <1>11, QuietAlone

\* Signing in and out is the first call of the tab.
LEMMA QuietSent ==
  ASSUME OneTabPerDevice, QuietInv, IInv', NEW b \in Tabs, NEW s \in Slots,
         \A c \in Of(b) : ~InFlight(c), NEW k,
         call' = [call EXCEPT ![<<b, s>>] = k], k.got = Null,
         k.kind \in {"login", "logout"}, UNCHANGED <<stored, lapsed, orphans, api>>,
         NEW m \in Session, mem' = [mem EXCEPT ![b] = m], StoreQuiet(m),
         m.refreshToken = mem[b].refreshToken,
         k.kind = "login" => m.status = "loading" /\ m.accessToken = Null
                               /\ m.refreshToken = Null,
         k.kind = "logout" => m.refreshToken = k.sent /\ m.status # "anonymous"
  PROVE  QuietInv'
<1> DEFINE c == <<b, s>>
<1>1. c \in Calls /\ c \in Of(b) /\ IInv /\ orphans' = {} /\ stored' = stored
      /\ UNCHANGED <<lapsed, api>>
  BY QuietFacts, LaneLemma DEF Lanes
<1>2. \A d \in Calls : call'[d] = IF d = c THEN k ELSE call[d]
  BY <1>1 DEF IInv, TypeOK
<1> HIDE DEF c
<1>3. \A d \in Of(b) : InFlight(d)' => d = c /\ call'[c] = k
  BY <1>1, <1>2 DEF InFlight, Of
<1>4. StoreFits(c, m)' /\ AskFits(c)'
  BY <1>1, <1>3 DEF StoreFits, AskFits, Renewing, Asking
<1>5. Touches(b) /\ mem'[b] = m
  <2>1. \A d \in Calls : d \notin Of(b) => call'[d] = call[d]
    BY <1>1, <1>2
  <2>2. QED
    BY <1>1, <2>1, TouchesLemma
<1>6. m.refreshToken # Null =>
        Counts(m.refreshToken) /\ Holds(b, m.refreshToken)
  BY QuietFacts
<1>7. \A d \in Of(b) : InFlight(d)' => d = c /\ call'[c].got = Null
  BY <1>3
<1>8. QED
  BY <1>1, <1>4, <1>5, <1>6, <1>7, QuietAlone

LEMMA QuietLogin ==
  ASSUME OneTabPerDevice, ~Overlap, QuietInv, IInv', NEW b \in Tabs,
         NEW s \in Slots, NEW u \in Users, Login(b, s, u)
  PROVE  QuietInv'
<1> DEFINE m == [mem[b] EXCEPT !.status = "loading"]
           k == Sent("login", u, Null)
<1>1. /\ mem[b] \in Session /\ StoreQuiet(mem[b]) /\ IInv
      /\ \A c \in Of(b) : ~InFlight(c)
  BY QuietFacts DEF Login, MayAct
<1>2. mem[b].status = "anonymous"
  BY <1>1 DEF Login, IsAuthenticated, StoreQuiet, Session, Statuses
<1>3. /\ m \in Session /\ m.status = "loading" /\ m.accessToken = Null
      /\ m.refreshToken = Null /\ mem[b].refreshToken = Null /\ StoreQuiet(m)
  BY <1>1, <1>2 DEF StoreQuiet, Session, Statuses
<1>4. mem' = [mem EXCEPT ![b] = m] /\ call' = [call EXCEPT ![<<b, s>>] = k]
      /\ UNCHANGED <<stored, lapsed, orphans, api>>
  BY <1>1 DEF Login, IInv, TypeOK
<1>5. k.kind = "login" /\ k.got = Null
  BY DEF Sent
<1> HIDE DEF m, k
<1>6. QED
  BY <1>1, <1>3, <1>4, <1>5, QuietSent

LEMMA QuietLogout ==
  ASSUME OneTabPerDevice, ~Overlap, QuietInv, IInv', NEW b \in Tabs,
         NEW s \in Slots, Logout(b, s)
  PROVE  QuietInv'
<1>1. /\ mem[b] \in Session /\ StoreQuiet(mem[b]) /\ IInv /\ orphans = {}
      /\ \A c \in Of(b) : ~InFlight(c)
      /\ UNCHANGED <<lapsed, orphans, api>>
  BY QuietFacts DEF Logout, MayAct
<1>2. CASE mem[b].refreshToken = Null
  <2> DEFINE m == Cleared(mem[b])
  <2>1. Clear(b) /\ call' = call
    BY <1>2 DEF Logout
  <2>2. /\ m \in Session /\ m.accessToken = Null /\ m.refreshToken = Null
        /\ m.status = "anonymous" /\ mem' = [mem EXCEPT ![b] = m]
        /\ stored' = [stored EXCEPT ![StoreOf[b]] = m.refreshToken]
    BY <1>1, <2>1, ClearedLemma
  <2> HIDE DEF m
  <2>3. Touches(b) /\ mem'[b] = m
    BY <1>1, <2>1, <2>2, TouchesLemma
  <2>4. \A d \in Of(b) : ~InFlight(d)'
    BY <1>1, <2>1 DEF InFlight
  <2>5. QED
    BY <1>1, <2>2, <2>3, <2>4, QuietCleared
<1>3. CASE mem[b].refreshToken # Null
  <2>0. PICK m \in Session, k \in {Sent("logout", mem[b].user, mem[b].refreshToken)} :
          m = mem[b] /\ k = Sent("logout", mem[b].user, mem[b].refreshToken)
    BY <1>1
  <2>1. m.status # "anonymous" /\ StoreQuiet(m)
    BY <1>1, <2>0 DEF StoreQuiet, Logout, IsAuthenticated
  <2>2. call' = [call EXCEPT ![<<b, s>>] = k] /\ mem' = mem /\ stored' = stored
    BY <1>3, <2>0 DEF Logout, client
  <2>3. mem' = [mem EXCEPT ![b] = m]
    BY <1>1, <2>0, <2>2, TabFacts
  <2>4. k.kind = "logout" /\ k.got = Null /\ k.sent = m.refreshToken
        /\ m.refreshToken = mem[b].refreshToken
    BY <2>0 DEF Sent
  <2>6. UNCHANGED <<stored, lapsed, orphans, api>>
    BY <1>1, <2>2
  <2>7. /\ k.kind \in {"login", "logout"} /\ k.kind # "login"
        /\ m.refreshToken = k.sent /\ m.refreshToken = mem[b].refreshToken
    BY <2>4
  <2>8. call' = [call EXCEPT ![<<b, s>>] = k]
    BY <2>2
  <2>9. k.got = Null /\ m.status # "anonymous" /\ StoreQuiet(m)
    BY <2>1, <2>4
  <2>10. \A c \in Of(b) : ~InFlight(c)
    BY <1>1
  <2>11. QED
    BY <2>3, <2>6, <2>7, <2>8, <2>9, <2>10, QuietSent
<1>4. QED
  BY <1>2, <1>3

LEMMA QuietRequest ==
  ASSUME OneTabPerDevice, ~Overlap, QuietInv, IInv', NEW b \in Tabs,
         NEW s \in Slots, Request(b, s)
  PROVE  QuietInv'
<1> DEFINE c == <<b, s>>
           k == Sent("request", mem[b].user, mem[b].accessToken)
<1>0. PICK m \in Session : m = mem[b]
  BY QuietFacts
<1>1. /\ StoreQuiet(m) /\ IInv /\ orphans' = {}
      /\ c \in Calls /\ c \in Of(b) /\ AloneInTab(b) /\ TabQuiet(b)
      /\ \A d \in Of(b) : StoreFits(d, m) /\ AskFits(d) /\ GotCounts(d)
      /\ UNCHANGED <<mem, stored, lapsed, orphans, live, given>>
  BY <1>0, QuietFacts, LaneLemma DEF Request, client, api, Lanes
<1>2. /\ m.user # Null /\ m.accessToken # Null /\ ~InFlight(c)
      /\ \A d \in Of(b) : InFlight(d) => call[d].kind \notin {"login", "logout", "me"}
  BY <1>0, <1>1 DEF Request, IsAuthenticated, MayAsk, StoreFits
<1>3. /\ k.kind = "request" /\ k.sent = m.accessToken /\ k.got = Null
      /\ k.result = "none" /\ ~k.retried
  BY <1>0 DEF Sent
<1>4. \A d \in Calls : call'[d] = IF d = c THEN k ELSE call[d]
  BY <1>1 DEF Request, IInv, TypeOK
<1> HIDE DEF k, c
<1>5. \A d \in Of(b) : InFlight(d)' =>
        \/ d = c /\ call'[d] = k
        \/ d # c /\ InFlight(d) /\ call'[d] = call[d]
  BY <1>4 DEF InFlight, Of
<1>6. AloneInTab(b)'
  BY <1>2, <1>3, <1>5 DEF AloneInTab, Of
<1>7. \A d \in Of(b) : StoreFits(d, m)'
  BY <1>1, <1>3, <1>5 DEF StoreFits, Renewing
<1>8. \A d \in Of(b) : AskFits(d)'
  BY <1>1, <1>2, <1>3, <1>5 DEF AskFits
<1>9. \A d \in Of(b) : GotCounts(d)'
  BY <1>1, <1>3, <1>5 DEF GotCounts, Counts, Owner
<1>10. HeldCounts(b, m)'
  <2> SUFFICES ASSUME m.refreshToken # Null
               PROVE  \/ Counts(m.refreshToken)'
                      \/ \E d \in Of(b) : Presented(d)' /\ call'[d].at = "answered"
    BY DEF HeldCounts, Of
  <2>1. CASE Counts(m.refreshToken)
    BY <1>1, <2>1 DEF Counts, Owner
  <2>2. CASE \E d \in Of(b) : Presented(d) /\ call[d].at = "answered"
    BY <1>2, <1>4, <2>2 DEF Presented, InFlight, Of
  <2>3. QED
    BY <1>0, <1>1, <2>1, <2>2 DEF TabQuiet, HeldCounts
<1>11. Touches(b) /\ mem'[b] = m
  BY <1>0, <1>1, <1>4 DEF Touches
<1>12. \A t \in Tokens : Holds(b, t)' => Holds(b, t)
  BY <1>1, <1>3, <1>5, NullsAssumption DEF Holds, Of
<1>13. UNCHANGED <<lapsed, api>>
  BY <1>1 DEF api
<1>14. QED
  BY <1>1, <1>6, <1>7, <1>8, <1>9, <1>10, <1>11, <1>12, <1>13, QuietClient

LEMMA QuietLoginReturns ==
  ASSUME OneTabPerDevice, QuietInv, IInv', NEW c \in Calls, LoginReturns(c)
  PROVE  QuietInv'
<1> DEFINE b == c[1]
<1>1. /\ InFlight(c) /\ call[c].kind = "login" /\ call[c].at = "answered"
      /\ Done(c) /\ UNCHANGED <<orphans, lapsed, api>>
      /\ b \in Tabs /\ c \in Of(b)
  BY CallLemma DEF LoginReturns, Answered
<1>2. /\ mem[b] \in Session /\ IInv /\ orphans' = {} /\ AloneInTab(b)
      /\ StoreFits(c, mem[b]) /\ GotCounts(c) /\ call[c] \in Call /\ CallSound(c)
  BY <1>1, QuietFacts
<1>3. \A d \in Calls : call'[d] = IF d = c THEN NoCall ELSE call[d]
  BY <1>1, <1>2 DEF Done, IInv, TypeOK
<1>4. \A d \in Of(b) : ~InFlight(d)'
  BY <1>1, <1>2, <1>3 DEF AloneInTab, InFlight, Of
<1>5. \A d \in Calls : d \notin Of(b) => call'[d] = call[d]
  BY <1>1, <1>3
<1>6. CASE call[c].result = "ok"
  <2>1. PICK t \in Tokens, u \in Users : t = call[c].got /\ u = call[c].as
    BY <1>1, <1>2, <1>6 DEF CallSound, Call
  <2>2. PICK m \in Session :
          m = [WithTokens(mem[b], t) EXCEPT !.user = u, !.status = "authenticated"]
    BY <1>2, <2>1 DEF WithTokens, Session, Statuses
  <2>3. /\ m.status = "authenticated" /\ m.user # Null /\ m.accessToken # Null
        /\ m.refreshToken = t
    BY <1>2, <2>1, <2>2, NullsAssumption DEF WithTokens, Session
  <2>4. mem' = [mem EXCEPT ![b] = m] /\ stored' = [stored EXCEPT ![StoreOf[b]] = t]
    BY <1>2, <1>6, <2>1, <2>2 DEF LoginReturns, Persist, IInv, TypeOK
  <2>5. Touches(b) /\ mem'[b] = m
    BY <1>1, <1>2, <1>5, <2>4, TouchesLemma
  <2>6. Counts(t) /\ Holds(b, t) /\ t # Null
    BY <1>1, <1>2, <2>1, NullsAssumption DEF GotCounts, Holds
  <2>7. StoreFits(c, m)' /\ AskFits(c)' /\ StoreQuiet(m)
    BY <1>1, <1>4, <2>3 DEF StoreFits, AskFits, StoreQuiet
  <2>8. UNCHANGED <<lapsed, api>>
    BY <1>1
  <2>9. QED
    BY <1>1, <1>2, <1>4, <2>3, <2>5, <2>6, <2>7, <2>8, QuietAlone
<1>7. CASE call[c].result # "ok"
  <2>1. PICK m \in Session : m = [mem[b] EXCEPT !.status = "anonymous"]
    BY <1>2 DEF Session, Statuses
  <2>2. /\ m.accessToken = Null /\ m.refreshToken = Null /\ m.status = "anonymous"
    BY <1>1, <1>2, <2>1 DEF StoreFits, Session
  <2>3. mem' = [mem EXCEPT ![b] = m] /\ stored' = stored
    BY <1>2, <1>7, <2>1 DEF LoginReturns, IInv, TypeOK
  <2>4. Touches(b) /\ mem'[b] = m
    BY <1>1, <1>2, <1>5, <2>3, TouchesLemma
  <2>5. UNCHANGED <<lapsed, api>>
    BY <1>1
  <2>6. QED
    BY <1>1, <1>2, <1>4, <2>2, <2>4, <2>5, QuietCleared
<1>8. QED
  BY <1>6, <1>7

\* Signing the tab out, for whatever reason.
LEMMA QuietClear ==
  ASSUME OneTabPerDevice, QuietInv, IInv', NEW b \in Tabs, Clear(b),
         UNCHANGED <<lapsed, orphans, api>>,
         \A d \in Calls : d \notin Of(b) => call'[d] = call[d],
         \A d \in Of(b) : InFlight(d)' =>
           InFlight(d) /\ call'[d] = call[d] /\ call[d].kind = "request"
  PROVE  QuietInv'
<1>1. IInv /\ orphans' = {} /\ UNCHANGED <<lapsed, api>>
  BY QuietFacts
<1>2. PICK m : m = Cleared(mem[b])
  OBVIOUS
<1>3. /\ m \in Session /\ m.accessToken = Null /\ m.refreshToken = Null
      /\ m.status = "anonymous" /\ mem' = [mem EXCEPT ![b] = m]
      /\ stored' = [stored EXCEPT ![StoreOf[b]] = m.refreshToken]
  BY <1>1, <1>2, ClearedLemma
<1>4. Touches(b) /\ mem'[b] = m
  BY <1>1, <1>3, TouchesLemma
<1>5. QED
  BY <1>1, <1>3, <1>4, QuietCleared

LEMMA QuietLogoutReturns ==
  ASSUME OneTabPerDevice, QuietInv, IInv', NEW c \in Calls, LogoutReturns(c)
  PROVE  QuietInv'
<1> DEFINE b == c[1]
<1>1. /\ InFlight(c) /\ call[c].kind = "logout" /\ Clear(b)
      /\ Done(c) /\ UNCHANGED <<lapsed, orphans, api>>
      /\ b \in Tabs /\ c \in Of(b)
  BY CallLemma DEF LogoutReturns, Answered
<1>2. IInv /\ AloneInTab(b)
  BY <1>1, QuietFacts
<1>3. \A d \in Calls : call'[d] = IF d = c THEN NoCall ELSE call[d]
  BY <1>1, <1>2 DEF Done, IInv, TypeOK
<1>4. \A d \in Of(b) : ~InFlight(d)'
  BY <1>1, <1>2, <1>3 DEF AloneInTab, InFlight, Of
<1>5. \A d \in Calls : d \notin Of(b) => call'[d] = call[d]
  BY <1>1, <1>3
<1>6. QED
  BY <1>1, <1>4, <1>5, QuietClear

LEMMA QuietBootReturns ==
  ASSUME OneTabPerDevice, QuietInv, IInv', NEW c \in Calls, NEW s \in Slots,
         BootReturns(c, s)
  PROVE  QuietInv'
<1> DEFINE b == c[1]
           d == <<b, s>>
<1>1. /\ InFlight(c) /\ call[c].kind = "boot" /\ call[c].at = "answered"
      /\ UNCHANGED <<lapsed, orphans, api>>
      /\ b \in Tabs /\ c \in Of(b)
  BY CallLemma DEF BootReturns, Answered
<1>2. /\ mem[b] \in Session /\ IInv /\ orphans' = {} /\ TabSound(b)
      /\ GotCounts(c) /\ call[c] \in Call /\ CallSound(c)
  BY <1>1, QuietFacts
<1>3. /\ \A e \in Of(b) : InFlight(e) => e = c
      /\ mem[b].user = Null /\ mem[b].status = "loading"
  BY <1>1, <1>2 DEF TabSound
<1>4. d \in Calls /\ d \in Of(b)
  BY <1>1, LaneLemma DEF Lanes
<1> HIDE DEF d
<1>5. CASE call[c].result = "ok"
  <2>1. PICK t \in Tokens : t = call[c].got
    BY <1>1, <1>2, <1>5 DEF CallSound, Call, Renewing
  <2>2. PICK m \in Session, k \in {Sent("me", call[c].as, t)} :
          m = WithTokens(mem[b], t) /\ k = Sent("me", call[c].as, t)
    BY <1>2, <2>1, WithTokensLemma
  <2>3. /\ m.accessToken = t /\ m.refreshToken = t /\ m.status = "loading"
        /\ m.user = Null /\ t # Null
    BY <1>2, <1>3, <2>1, <2>2, WithTokensLemma, NullsAssumption
  <2>4. /\ k.kind = "me" /\ k.sent = t /\ k.got = Null /\ k.result = "none"
        /\ ~k.retried
    BY <2>2 DEF Sent
  <2>5. /\ mem' = [mem EXCEPT ![b] = m]
        /\ stored' = [stored EXCEPT ![StoreOf[b]] = t]
        /\ call' = [call EXCEPT ![c] = NoCall, ![d] = k]
    BY <1>2, <1>5, <2>1, <2>2 DEF BootReturns, Persist, IInv, TypeOK, d
  <2>6. \A e \in Calls :
          call'[e] = IF e = d THEN k ELSE IF e = c THEN NoCall ELSE call[e]
    BY <1>2, <1>4, <2>5 DEF IInv, TypeOK
  <2>7. \A e \in Of(b) : InFlight(e)' => e = d /\ call'[d] = k
    BY <1>3, <1>4, <2>6 DEF InFlight, Of
  <2>8. \A e \in Calls : e \notin Of(b) => call'[e] = call[e]
    BY <1>1, <1>4, <2>6
  <2>9. Touches(b) /\ mem'[b] = m
    BY <1>1, <1>2, <2>5, <2>8, TouchesLemma
  <2>10. Counts(t) /\ Holds(b, t)
    BY <1>1, <1>2, <2>1, NullsAssumption DEF GotCounts, Holds
  <2>11. StoreFits(d, m)' /\ AskFits(d)' /\ StoreQuiet(m)
    BY <1>4, <2>3, <2>4, <2>7 DEF StoreFits, AskFits, StoreQuiet, Renewing
  <2>12. \A e \in Of(b) : InFlight(e)' => e = d /\ call'[d].got = Null
    BY <2>4, <2>7
  <2>13. UNCHANGED <<lapsed, api>>
    BY <1>1
  <2>14. QED
    BY <1>1, <1>2, <1>4, <2>3, <2>9, <2>10, <2>11, <2>12, <2>13, QuietAlone
<1>6. CASE call[c].result # "ok"
  <2>1. Clear(b) /\ Done(c)
    BY <1>6 DEF BootReturns
  <2>2. \A e \in Calls : call'[e] = IF e = c THEN NoCall ELSE call[e]
    BY <1>2, <2>1 DEF Done, IInv, TypeOK
  <2>3. \A e \in Of(b) : ~InFlight(e)'
    BY <1>3, <2>2 DEF InFlight, Of
  <2>4. \A e \in Calls : e \notin Of(b) => call'[e] = call[e]
    BY <1>1, <2>2
  <2>5. QED
    BY <1>1, <2>1, <2>3, <2>4, QuietClear
<1>7. QED
  BY <1>5, <1>6

LEMMA QuietRefreshReturns ==
  ASSUME OneTabPerDevice, QuietInv, IInv', NEW c \in Calls, RefreshReturns(c)
  PROVE  QuietInv'
<1> DEFINE b == c[1]
<1>1. /\ InFlight(c) /\ call[c].kind = "refresh" /\ call[c].at = "answered"
      /\ UNCHANGED <<lapsed, orphans, api>>
      /\ b \in Tabs /\ c \in Of(b) /\ c = <<b, "auth">> /\ Presented(c)
  <2>1. Answered(c, Renewing)
    BY DEF RefreshReturns, Answered, Renewing
  <2>2. c = <<b, "auth">> /\ b \in Tabs /\ c \in Of(b)
    BY <2>1, RenewFacts DEF QuietInv
  <2>3. QED
    BY <2>2 DEF RefreshReturns, Answered, Presented, Renewing
<1>2. /\ mem[b] \in Session /\ IInv /\ orphans' = {} /\ TabSound(b)
      /\ TabQuiet(b) /\ AloneInTab(b) /\ StoreFits(c, mem[b]) /\ GotCounts(c)
      /\ StoreQuiet(mem[b]) /\ call[c] \in Call /\ CallSound(c)
  BY <1>1, QuietFacts
<1>3. /\ \A d \in Of(b) : Presented(d) => d = c
      /\ \A d \in Of(b) : InFlight(d) /\ call[d].got # Null => d = c
  BY <1>1, <1>2, PresentedLemma
<1>4. \A d \in Of(b) : InFlight(d) /\ d # c =>
        /\ call[d] \in Call /\ call[d].kind \in Asking /\ call[d].got = Null
        /\ call[d].kind = "me" => call[d].at = "joined"
        /\ StoreFits(d, mem[b]) /\ AskFits(d)
  <2> SUFFICES ASSUME NEW d \in Of(b), InFlight(d), d # c
               PROVE  /\ call[d] \in Call /\ call[d].kind \in Asking
                      /\ call[d].got = Null
                      /\ call[d].kind = "me" => call[d].at = "joined"
                      /\ StoreFits(d, mem[b]) /\ AskFits(d)
    OBVIOUS
  <2>1. call[d] \in Call /\ StoreFits(d, mem[b]) /\ AskFits(d)
    BY <1>1, QuietFacts
  <2>2. ~Presented(d) /\ call[d].got = Null
    BY <1>3
  <2>3. call[d].kind # "login" /\ (call[d].kind = "me" => call[d].at = "joined")
    BY <1>1, <1>2 DEF AloneInTab
  <2>4. call[d].kind \in Asking
    BY <2>1, <2>2, <2>3 DEF Presented, Call, Kinds, Asking, Renewing
  <2>5. QED
    BY <2>1, <2>2, <2>3, <2>4
<1>5. \A d \in Of(b) : d \in Calls
                         /\ (d \in Settles(b) <=> InFlight(d) /\ call[d].at = "joined")
  BY DEF Settles, Joined, Of
<1>6. CASE call[c].result = "ok"
  <2>1. PICK t \in Tokens : t = call[c].got
    BY <1>1, <1>2, <1>6 DEF CallSound, Call, Renewing
  <2>2. PICK m \in Session : m = WithTokens(mem[b], t)
    BY <1>2, <2>1, WithTokensLemma
  <2>3. /\ m.accessToken = t /\ m.refreshToken = t /\ m.status = mem[b].status
        /\ m.user = mem[b].user /\ t # Null
    BY <1>2, <2>1, <2>2, WithTokensLemma, NullsAssumption
  <2>4. /\ mem' = [mem EXCEPT ![b] = m]
        /\ stored' = [stored EXCEPT ![StoreOf[b]] = t]
        /\ call' = [d \in Calls |->
             IF d = c THEN NoCall
             ELSE IF d \in Settles(b) THEN Retry(call[d], t) ELSE call[d]]
    BY <1>2, <1>6, <2>1, <2>2 DEF RefreshReturns, Persist, IInv, TypeOK
  <2>5. \A d \in Calls : d \notin Of(b) => call'[d] = call[d]
    BY <1>1, <2>4 DEF Settles, Joined
  <2>6. Touches(b) /\ mem'[b] = m
    BY <1>1, <1>2, <2>4, <2>5, TouchesLemma
  <2>7. Counts(t) /\ t \notin lapsed /\ Holds(b, t)
    BY <1>1, <1>2, <2>1, <2>3 DEF GotCounts, Holds
  <2>8. \A d \in Of(b) : InFlight(d)' =>
          /\ d # c /\ InFlight(d)
          /\ call'[d].kind = call[d].kind /\ call'[d].got = Null
          /\ \/ /\ call'[d].sent = t /\ call'[d].retried
                /\ call'[d].result = "none"
             \/ /\ call[d].kind = "request" /\ call'[d] = call[d]
    <3> SUFFICES ASSUME NEW d \in Of(b), InFlight(d)'
                 PROVE  /\ d # c /\ InFlight(d)
                        /\ call'[d].kind = call[d].kind /\ call'[d].got = Null
                        /\ \/ /\ call'[d].sent = t /\ call'[d].retried
                              /\ call'[d].result = "none"
                           \/ /\ call[d].kind = "request" /\ call'[d] = call[d]
      OBVIOUS
    <3>1. d # c /\ InFlight(d)
      BY <1>5, <2>4 DEF InFlight
    <3>2. CASE d \in Settles(b)
      <4>1. call'[d] = Retry(call[d], t) /\ call[d] \in Call /\ call[d].got = Null
        BY <1>4, <1>5, <2>4, <3>1, <3>2
      <4>2. QED
        BY <3>1, <4>1, RetryLemma
    <3>3. CASE d \notin Settles(b)
      BY <1>4, <1>5, <2>4, <3>1, <3>3 DEF Asking
    <3>4. QED
      BY <3>2, <3>3
  <2>9. AloneInTab(b)'
    <3> SUFFICES ASSUME NEW d \in Of(b), NEW e \in Of(b), InFlight(d)', InFlight(e)'
                 PROVE  /\ call'[d].kind \in {"login", "logout"} => e = d
                        /\ call'[d].kind = "me" => e = d
      BY DEF AloneInTab, Of
    <3>1. call[d].kind \in Asking /\ d # c /\ e # c /\ InFlight(d) /\ InFlight(e)
          /\ call'[d].kind = call[d].kind
      BY <1>4, <2>8
    <3>2. QED
      BY <1>1, <1>2, <3>1 DEF AloneInTab, Asking
  <2>10. \A d \in Of(b) : StoreFits(d, m)'
    <3> SUFFICES ASSUME NEW d \in Of(b), InFlight(d)' PROVE StoreFits(d, m)'
      BY DEF StoreFits, Of
    <3>1. call'[d].kind \in Asking /\ StoreFits(d, mem[b]) /\ InFlight(d)
          /\ call'[d].kind = call[d].kind
      BY <1>4, <2>8
    <3>2. QED
      BY <2>3, <3>1 DEF StoreFits, Asking, Renewing
  <2>11. \A d \in Of(b) : AskFits(d)'
    BY <1>1, <1>4, <2>3, <2>7, <2>8 DEF AskFits
  <2>12. \A d \in Of(b) : GotCounts(d)'
    BY <2>8 DEF GotCounts
  <2>13. HeldCounts(b, m)' /\ StoreQuiet(m)
    BY <1>1, <1>2, <2>3, <2>7
    DEF HeldCounts, Counts, Owner, api, StoreQuiet, StoreFits, Renewing
  <2>14. \A x \in Tokens : Holds(b, x)' => Holds(b, x)
    BY <2>3, <2>6, <2>7, <2>8, NullsAssumption DEF Holds, Of
  <2>15. UNCHANGED <<lapsed, api>>
    BY <1>1
  <2>16. \A d \in Of(b) : StoreFits(d, m)' /\ AskFits(d)' /\ GotCounts(d)'
    BY <2>10, <2>11, <2>12
  <2>17. QED
    BY <1>1, <1>2, <2>6, <2>9, <2>13, <2>14, <2>15, <2>16, QuietClient
<1>7. CASE call[c].result # "ok"
  <2>1. /\ Clear(b)
        /\ call' = [d \in Calls |->
                      IF d = c \/ d \in Settles(b) THEN NoCall ELSE call[d]]
    BY <1>7 DEF RefreshReturns
  <2>2. \A d \in Calls : d \notin Of(b) => call'[d] = call[d]
    BY <1>1, <2>1 DEF Settles, Joined
  <2>3. \A d \in Of(b) : InFlight(d)' =>
          InFlight(d) /\ call'[d] = call[d] /\ call[d].kind = "request"
    BY <1>4, <1>5, <2>1 DEF InFlight, Asking
  <2>4. QED
    BY <1>1, <2>1, <2>2, <2>3, QuietClear
<1>8. QED
  BY <1>6, <1>7

\* A plain request ends and leaves the tab as it is.
LEMMA QuietDone ==
  ASSUME OneTabPerDevice, QuietInv, IInv', NEW c \in Calls, InFlight(c),
         call[c].kind = "request", Done(c), UNCHANGED client,
         UNCHANGED <<orphans, lapsed, api>>
  PROVE  QuietInv'
<1> DEFINE b == c[1]
<1>1. b \in Tabs /\ c \in Of(b)
  BY CallLemma
<1>2. /\ IInv /\ orphans' = {} /\ TabQuiet(b) /\ AloneInTab(b)
      /\ StoreQuiet(mem[b])
      /\ \A d \in Of(b) : StoreFits(d, mem[b]) /\ AskFits(d) /\ GotCounts(d)
      /\ UNCHANGED <<mem, stored, lapsed, live, given>>
  BY <1>1, QuietFacts DEF client, api
<1>3. PICK m \in Session : m = mem[b]
  BY <1>1, QuietFacts
<1>4. \A d \in Calls : call'[d] = IF d = c THEN NoCall ELSE call[d]
  BY <1>2 DEF Done, IInv, TypeOK
<1>5. \A d \in Of(b) : InFlight(d)' => d # c /\ InFlight(d) /\ call'[d] = call[d]
  BY <1>4 DEF InFlight, Of
<1>6. AloneInTab(b)'
  BY <1>2, <1>5 DEF AloneInTab, Of
<1>7. \A d \in Of(b) : StoreFits(d, m)' /\ AskFits(d)'
  BY <1>2, <1>3, <1>5 DEF StoreFits, AskFits
<1>8. \A d \in Of(b) : GotCounts(d)'
  BY <1>2, <1>5 DEF GotCounts, Counts, Owner
<1>9. HeldCounts(b, m)'
  <2> SUFFICES ASSUME m.refreshToken # Null
               PROVE  \/ Counts(m.refreshToken)'
                      \/ \E d \in Of(b) : Presented(d)' /\ call'[d].at = "answered"
    BY DEF HeldCounts, Of
  <2>1. CASE Counts(m.refreshToken)
    BY <1>2, <2>1 DEF Counts, Owner
  <2>2. CASE \E d \in Of(b) : Presented(d) /\ call[d].at = "answered"
    BY <1>4, <2>2 DEF Presented, InFlight, Of, Renewing
  <2>3. QED
    BY <1>2, <1>3, <2>1, <2>2 DEF TabQuiet, HeldCounts
<1>10. Touches(b) /\ mem'[b] = m
  BY <1>1, <1>2, <1>3, <1>4 DEF Touches
<1>11. \A t \in Tokens : Holds(b, t)' => Holds(b, t)
  BY <1>2, <1>5 DEF Holds, Of
<1>12. UNCHANGED <<lapsed, api>> /\ StoreQuiet(m)
  BY <1>2, <1>3
<1>13. \A d \in Of(b) : StoreFits(d, m)' /\ AskFits(d)' /\ GotCounts(d)'
  BY <1>7, <1>8
<1>14. QED
  BY <1>1, <1>2, <1>6, <1>9, <1>10, <1>11, <1>12, <1>13, QuietClient

\* A question starts to wait; k is what the refresh lane carries from then on.
LEMMA QuietWait ==
  ASSUME OneTabPerDevice, QuietInv, IInv', NEW c \in Calls, InFlight(c),
         call[c].at = "answered", call[c].kind \in Asking,
         NEW k, k.kind = "refresh",
         \/ InFlight(<<c[1], "auth">>) /\ k = call[<<c[1], "auth">>]
         \/ ~InFlight(<<c[1], "auth">>) /\ k.got = Null
              /\ k.sent = mem[c[1]].refreshToken /\ k.sent # Null,
         call' = [[call EXCEPT ![c].at = "joined"]
                    EXCEPT ![<<c[1], "auth">>] = k],
         UNCHANGED client, UNCHANGED <<orphans, lapsed, api>>
  PROVE  QuietInv'
<1> DEFINE b == c[1]
           A == <<b, "auth">>
<1>1. /\ b \in Tabs /\ c \in Of(b) /\ c # A /\ A \in Of(b) /\ A \in Calls
      /\ call[c].kind \notin Renewing
  <2>1. IInv /\ call[c].kind \notin Renewing
    BY DEF QuietInv, Asking, Renewing
  <2>2. b \in Tabs /\ c \in Of(b) /\ c # A
    BY <2>1, SlotFacts
  <2>3. QED
    BY <2>1, <2>2, LaneLemma DEF Lanes
<1>2. /\ IInv /\ orphans' = {} /\ TabQuiet(b) /\ AloneInTab(b) /\ TabSound(b)
      /\ StoreQuiet(mem[b])
      /\ \A d \in Of(b) : StoreFits(d, mem[b]) /\ AskFits(d) /\ GotCounts(d)
      /\ UNCHANGED <<mem, stored, lapsed, live, given>>
  BY <1>1, QuietFacts DEF client, api
<1>0. PICK j : j = [call[c] EXCEPT !.at = "joined"]
  OBVIOUS
<1>3. PICK m \in Session : m = mem[b]
  BY <1>1, <1>2, QuietFacts
<1>4. call[c] \in Call
  BY <1>1, QuietFacts
<1>5. /\ j.at = "joined" /\ j.kind = call[c].kind /\ j.sent = call[c].sent
      /\ j.got = call[c].got /\ j.result = call[c].result
      /\ j.retried = call[c].retried
  BY <1>0, <1>3, <1>4 DEF Call
<1>6. \A d \in Calls : call'[d] = IF d = A THEN k ELSE IF d = c THEN j ELSE call[d]
  BY <1>1, <1>2, <1>0, <1>3 DEF IInv, TypeOK
<1>7. /\ m.status # "anonymous"
      /\ k.sent = m.refreshToken
      /\ InFlight(A) => GotCounts(A) /\ k = call[A]
  BY <1>1, <1>2, <1>0, <1>3 DEF StoreQuiet, StoreFits, Renewing
<1> HIDE DEF A, b
<1>8. \A d \in Of(b) : InFlight(d)' =>
        \/ d = A /\ call'[d] = k
        \/ d = c /\ d # A /\ call'[d] = j
        \/ d # c /\ d # A /\ InFlight(d) /\ call'[d] = call[d]
  BY <1>6 DEF InFlight, Of
<1>9. call[c].kind = "me" => \A d \in Of(b) : InFlight(d) => d = c
  BY <1>1, <1>2 DEF AloneInTab
<1>10. \A d \in Of(b) : InFlight(d) /\ d # c =>
         /\ call[d].kind \notin {"login", "logout"}
         /\ call[d].kind = "me" => call[d].at = "joined" /\ c = A
  BY <1>1, <1>2 DEF AloneInTab, A, b
<1>11. AloneInTab(b)'
  <2> SUFFICES ASSUME NEW d \in Of(b), NEW e \in Of(b), InFlight(d)', InFlight(e)'
               PROVE  /\ call'[d].kind \in {"login", "logout"} => e = d
                      /\ call'[d].kind = "me" =>
                           e = d \/ (call'[d].at = "joined" /\ e = A)
    BY DEF AloneInTab, Of, A
  <2>1. call[c].kind \notin {"login", "logout"}
    BY DEF Asking
  <2>2. CASE d = A
    BY <1>8, <2>2
  <2>3. CASE d # A /\ d = c
    BY <1>5, <1>8, <1>9, <2>1, <2>3
  <2>4. CASE d # A /\ d # c
    BY <1>1, <1>8, <1>10, <2>4
  <2>5. QED
    BY <2>2, <2>3, <2>4
<1>12. ASSUME NEW d \in Of(b) PROVE StoreFits(d, m)'
  <2>1. CASE ~InFlight(d)'
    BY <2>1 DEF StoreFits
  <2>2. CASE InFlight(d)' /\ d = A
    BY <1>3, <1>7, <1>8, <2>2 DEF StoreFits, Renewing
  <2>3. CASE InFlight(d)' /\ d = c /\ d # A
    <3>1. InFlight(c) /\ StoreFits(c, m)
      BY <1>1, <1>2, <1>3
    <3> QED
      BY <1>5, <1>8, <2>3, <3>1 DEF StoreFits, Renewing
  <2>4. CASE InFlight(d)' /\ d # c /\ d # A
    <3>1. StoreFits(d, m)
      BY <1>2, <1>3
    <3> QED
      BY <1>8, <2>4, <3>1 DEF StoreFits, Renewing
  <2> QED
    BY <2>1, <2>2, <2>3, <2>4
<1>13. \A d \in Of(b) : AskFits(d)'
  <2> SUFFICES ASSUME NEW d \in Of(b), InFlight(d)' PROVE AskFits(d)'
    BY DEF AskFits, Of
  <2>1. CASE d = A
    BY <1>8, <2>1 DEF AskFits, Asking
  <2>2. CASE d # A /\ d = c
    BY <1>2, <1>5, <1>8, <2>2 DEF AskFits
  <2>3. CASE d # A /\ d # c
    BY <1>2, <1>8, <2>3 DEF AskFits
  <2>4. QED
    BY <2>1, <2>2, <2>3
<1>14. j.got = Null
  BY <1>1, <1>2, <1>5 DEF TabSound, CallSound, Asking, Renewing
<1>15. \A d \in Of(b) : GotCounts(d)'
  <2> SUFFICES ASSUME NEW d \in Of(b), InFlight(d)', call'[d].got # Null
               PROVE  Counts(call[d].got)' /\ call'[d].got \notin lapsed'
    BY DEF GotCounts, Of
  <2>1. InFlight(d) /\ call'[d] = call[d]
    BY <1>7, <1>8, <1>14 DEF A, b
  <2>2. QED
    BY <1>2, <2>1 DEF GotCounts, Counts, Owner
<1>16. HeldCounts(b, m)'
  <2> SUFFICES ASSUME m.refreshToken # Null
               PROVE  \/ Counts(m.refreshToken)'
                      \/ \E d \in Of(b) : Presented(d)' /\ call'[d].at = "answered"
    BY DEF HeldCounts, Of, b
  <2>1. CASE Counts(m.refreshToken)
    BY <1>2, <2>1 DEF Counts, Owner
  <2>2. CASE \E d \in Of(b) : Presented(d) /\ call[d].at = "answered"
    <3>1. PICK d \in Of(b) : Presented(d) /\ call[d].at = "answered"
      BY <2>2
    <3>2. d # c /\ InFlight(d) /\ d \in Calls
      BY <3>1 DEF Presented, Asking, Renewing, Of
    <3>3. call'[d] = call[d]
      BY <1>6, <1>7, <3>2
    <3>4. QED
      BY <3>1, <3>3 DEF Presented, InFlight
  <2>3. QED
    BY <1>2, <1>0, <1>3, <2>1, <2>2 DEF TabQuiet, HeldCounts
<1>17. Touches(b) /\ mem'[b] = m
  BY <1>1, <1>2, <1>0, <1>3, <1>6 DEF Touches
<1>18. \A t \in Tokens : Holds(b, t)' => Holds(b, t)
  <2> SUFFICES ASSUME NEW t \in Tokens, Holds(b, t)' PROVE Holds(b, t)
    OBVIOUS
  <2>1. t # Null
    BY NullsAssumption
  <2>2. CASE (mem[b].refreshToken = t)'
    BY <1>2, <2>2 DEF Holds, b
  <2>3. CASE \E d \in Of(b) : (InFlight(d) /\ call[d].got = t)'
    <3>1. PICK d \in Of(b) : InFlight(d)' /\ call'[d].got = t
      BY <2>3
    <3>2. call'[d] # j
      BY <1>14, <2>1, <3>1
    <3>3. CASE d = A /\ call'[d] = k
      <4>1. InFlight(A) \/ k.got = Null
        BY DEF A, b
      <4>2. InFlight(A) /\ call[A].got = t
        BY <1>7, <2>1, <3>1, <3>3, <4>1
      <4>3. QED
        BY <3>3, <4>2 DEF Holds
    <3>4. CASE d # c /\ d # A /\ InFlight(d) /\ call'[d] = call[d]
      BY <3>1, <3>4 DEF Holds
    <3>5. QED
      BY <1>8, <3>1, <3>2, <3>3, <3>4
  <2>4. QED
    BY <2>2, <2>3 DEF Holds, Of
<1>19. UNCHANGED <<lapsed, api>> /\ StoreQuiet(m)
  BY <1>2, <1>0, <1>3
<1>20. \A d \in Of(b) : StoreFits(d, m)' /\ AskFits(d)' /\ GotCounts(d)'
  BY <1>12, <1>13, <1>15
<1>21. QED
  BY <1>1, <1>2, <1>11, <1>16, <1>17, <1>18, <1>19, <1>20, QuietClient

LEMMA QuietJoin ==
  ASSUME OneTabPerDevice, QuietInv, IInv', NEW c \in Calls, InFlight(c),
         call[c].at = "answered", call[c].kind \in Asking, Join(c),
         UNCHANGED <<orphans, lapsed, api>>
  PROVE  QuietInv'
<1> DEFINE b == c[1]
           A == <<b, "auth">>
           waiting == [call EXCEPT ![c].at = "joined"]
<1>1. /\ b \in Tabs /\ c \in Of(b) /\ c # A /\ A \in Of(b) /\ A \in Calls
      /\ IInv /\ TabSound(b)
  <2>1. IInv /\ call[c].kind \notin Renewing
    BY DEF QuietInv, Asking, Renewing
  <2>2. b \in Tabs /\ c \in Of(b) /\ c # A /\ TabSound(b)
    BY <2>1, SlotFacts
  <2>3. QED
    BY <2>1, <2>2, LaneLemma DEF Lanes
<1>2. CASE Shares(b)
  <2>1. PICK k : k = call[A]
    OBVIOUS
  <2>2. InFlight(A) /\ call[A].kind = "refresh"
    <3>1. InFlight(A) /\ A[2] = "auth"
      BY <1>2 DEF Shares
    <3>2. call[A].kind \in Renewing
      BY <1>1, <3>1 DEF TabSound, CallSound
    <3>3. call[A].kind # "boot"
      BY <1>1, <3>1 DEF TabSound
    <3>4. QED
      BY <3>1, <3>2, <3>3 DEF Renewing
  <2>3. call' = waiting /\ UNCHANGED client
    BY <1>2 DEF Join
  <2>4. waiting = [waiting EXCEPT ![A] = k]
    <3>1. waiting[A] = k
      BY <1>1, <2>1 DEF IInv, TypeOK
    <3>2. waiting = [d \in Calls |-> waiting[d]]
      BY <1>1 DEF IInv, TypeOK
    <3> HIDE DEF waiting
    <3>3. QED
      BY <3>1, <3>2
  <2>5. call' = [waiting EXCEPT ![A] = k] /\ k.kind = "refresh"
    BY <2>1, <2>2, <2>3, <2>4
  <2>6. QED
    BY <2>1, <2>2, <2>3, <2>5, QuietWait
<1>3. CASE ~Shares(b) /\ Presents(b) # Null
  <2>1. PICK k : k = Sent("refresh", call[c].as, Presents(b))
    OBVIOUS
  <2>2. /\ k.kind = "refresh" /\ k.got = Null
        /\ k.sent = mem[b].refreshToken /\ k.sent # Null
    BY <1>3, <2>1 DEF Sent, Presents
  <2>3. call' = [waiting EXCEPT ![A] = k] /\ UNCHANGED client
    BY <1>3, <2>1 DEF Join
  <2>4. ~InFlight(A)
    BY <1>3 DEF Shares
  <2>5. QED
    BY <2>2, <2>3, <2>4, QuietWait
<1>4. CASE ~Shares(b) /\ Presents(b) = Null
  <2>1. Clear(b) /\ Done(c)
    BY <1>4 DEF Join
  <2>2. \A d \in Calls : call'[d] = IF d = c THEN NoCall ELSE call[d]
    BY <1>1, <2>1 DEF Done, IInv, TypeOK
  <2>3. \A d \in Of(b) : InFlight(d) /\ d # c => call[d].kind = "request"
    <3> SUFFICES ASSUME NEW d \in Of(b), InFlight(d), d # c
                 PROVE  call[d].kind = "request"
      OBVIOUS
    <3>1. call[d] \in Call /\ CallSound(d) /\ AloneInTab(b)
      BY <1>1, QuietFacts
    <3>2. call[d].kind \notin Renewing
      <4>1. "auth" \in Lanes
        BY DEF Lanes
      <4>2. d[2] = "auth" => d = A
        BY <1>1, <4>1, LaneLemma
      <4>3. QED
        BY <1>4, <3>1, <4>2 DEF CallSound, Shares
    <3>3. call[d].kind \notin {"login", "logout", "me"}
      BY <1>1, <3>1 DEF AloneInTab
    <3>4. QED
      BY <3>1, <3>2, <3>3 DEF Call, Kinds, Renewing
  <2>4. \A d \in Of(b) : InFlight(d)' =>
          InFlight(d) /\ call'[d] = call[d] /\ call[d].kind = "request"
    BY <2>2, <2>3 DEF InFlight, Of
  <2>5. \A d \in Calls : d \notin Of(b) => call'[d] = call[d]
    BY <1>1, <2>2
  <2>6. QED
    BY <1>1, <2>1, <2>4, <2>5, QuietClear
<1>5. QED
  BY <1>2, <1>3, <1>4

LEMMA QuietRequestReturns ==
  ASSUME OneTabPerDevice, QuietInv, IInv', NEW c \in Calls, RequestReturns(c)
  PROVE  QuietInv'
<1> DEFINE b == c[1]
<1>1. /\ InFlight(c) /\ call[c].kind \in Asking /\ call[c].at = "answered"
      /\ UNCHANGED <<lapsed, orphans, api>>
      /\ b \in Tabs /\ c \in Of(b)
  BY CallLemma DEF RequestReturns, Answered, Asking
<1>2. /\ IInv /\ orphans' = {} /\ AloneInTab(b) /\ TabQuiet(b)
      /\ StoreFits(c, mem[b]) /\ AskFits(c) /\ mem[b] \in Session
      /\ call[c] \in Call /\ CallSound(c)
  BY <1>1, QuietFacts
<1>3. CASE Refreshable(call[c]) /\ Join(c)
  BY <1>1, <1>3, QuietJoin
<1>4. CASE call[c].kind = "request" /\ Done(c) /\ UNCHANGED client
  BY <1>1, <1>4, QuietDone
<1>5. ASSUME call[c].kind = "me", Done(c)
      PROVE  /\ \A d \in Of(b) : ~InFlight(d)'
             /\ \A d \in Calls : d \notin Of(b) => call'[d] = call[d]
             /\ \A d \in Of(b) : InFlight(d) => d = c
  <2>1. \A d \in Calls : call'[d] = IF d = c THEN NoCall ELSE call[d]
    BY <1>2, <1>5 DEF Done, IInv, TypeOK
  <2>2. \A d \in Of(b) : InFlight(d) => d = c
    BY <1>1, <1>2, <1>5 DEF AloneInTab
  <2>3. QED
    BY <1>1, <2>1, <2>2 DEF InFlight, Of
<1>6. CASE call[c].kind = "me" /\ Done(c) /\ Clear(b)
  BY <1>1, <1>5, <1>6, QuietClear
<1>7. CASE /\ call[c].kind = "me" /\ Done(c) /\ UNCHANGED stored
           /\ call[c].result = "ok"
           /\ mem' = [mem EXCEPT ![b].user = Owner(call[c].sent),
                                 ![b].status = "authenticated"]
  <2>1. Owner(call[c].sent) \in Users
    BY <1>1, <1>2, <1>7, OwnerType DEF CallSound
  <2>2. PICK m \in Session : m = [mem[b] EXCEPT !.user = Owner(call[c].sent),
                                                !.status = "authenticated"]
    BY <1>2, <2>1 DEF Session, Statuses
  <2>3. /\ m.user # Null /\ m.status = "authenticated"
        /\ m.accessToken # Null /\ m.refreshToken = mem[b].refreshToken
    BY <1>1, <1>2, <1>7, <2>1, <2>2, NullsAssumption DEF StoreFits, Session
  <2>4. mem' = [mem EXCEPT ![b] = m]
    BY <1>2, <1>7, <2>2 DEF IInv, TypeOK
  <2>5. Touches(b) /\ mem'[b] = m
    BY <1>1, <1>2, <1>5, <1>7, <2>4, TouchesLemma
  <2>6. m.refreshToken # Null =>
          Counts(m.refreshToken) /\ Holds(b, m.refreshToken)
    BY <1>1, <1>2, <1>5, <1>7, <2>3
    DEF TabQuiet, HeldCounts, Presented, Renewing, Holds
  <2>7. StoreFits(c, m)' /\ AskFits(c)' /\ StoreQuiet(m)
    BY <1>1, <1>5, <1>7, <2>3 DEF StoreFits, AskFits, StoreQuiet
  <2>8. \A d \in Of(b) : ~InFlight(d)'
    BY <1>5, <1>7
  <2>9. UNCHANGED <<lapsed, api>>
    BY <1>1
  <2>10. QED
    BY <1>1, <1>2, <2>5, <2>6, <2>7, <2>8, <2>9, QuietAlone
<1>8. CASE /\ call[c].result # "ok" /\ ~Refreshable(call[c]) /\ Done(c)
           /\ IF call[c].result = "offline" /\ call[c].kind = "request"
              THEN UNCHANGED client ELSE Clear(b)
  <2>1. call[c].kind = "request" => call[c].result = "offline"
    BY <1>1, <1>2, <1>8 DEF AskFits, CallSound, Refreshable
  <2>2. QED
    BY <1>1, <1>4, <1>6, <1>8, <2>1 DEF Asking
<1>9. QED
  BY <1>1, <1>3, <1>4, <1>7, <1>8 DEF RequestReturns, Asking, client

LEMMA InitQuiet == Init => QuietInv
<1> SUFFICES ASSUME Init PROVE QuietInv
  OBVIOUS
<1>1. IInv
  BY InitIInv
<1>2. \A c \in Calls : ~InFlight(c)
  BY DEF Init, InFlight
<1>3. \A b \in Tabs : mem[b].refreshToken = Null /\ mem[b].status = "idle"
  BY DEF Init
<1>4. \A b \in Tabs : TabQuiet(b)
  BY <1>2, <1>3
  DEF TabQuiet, AloneInTab, StoreFits, AskFits, GotCounts, HeldCounts,
      StoreQuiet, Of
<1>5. HeldApart
  BY <1>2, <1>3, NullsAssumption DEF HeldApart, Holds, Of
<1>6. QED
  BY <1>1, <1>4, <1>5 DEF QuietInv, Init

LEMMA StepQuiet ==
  ASSUME OneTabPerDevice, ~Overlap, QuietInv, [Next]_vars
  PROVE  QuietInv'
<1>1. IInv' /\ orphans = {}
  BY StepIInv DEF QuietInv
<1>2. ASSUME NEW b \in Tabs, Act(b) PROVE QuietInv'
  BY <1>1, <1>2, QuietLoad, QuietLogin, QuietLogout, QuietRequest DEF Act
<1>3. ASSUME NEW c \in Calls, Serve(c) \/ Lose(c) PROVE QuietInv'
  BY <1>1, <1>3, QuietServe
<1>4. ASSUME NEW c \in Calls, Receive(c) PROVE QuietInv'
  BY <1>1, <1>4, QuietLoginReturns, QuietLogoutReturns, QuietBootReturns,
     QuietRefreshReturns, QuietRequestReturns DEF Receive
<1>5. ASSUME NEW t \in Tokens, Lapse(t) PROVE QuietInv'
  BY <1>1, <1>5, QuietLapse
<1>6. CASE UNCHANGED vars
  <2>1. UNCHANGED <<mem, stored, call, orphans, lapsed, live, given>>
    BY <1>6 DEF vars
  <2>2. ASSUME NEW b \in Tabs PROVE TabQuiet(b)'
    <3>1. TabQuiet(b)
      BY DEF QuietInv
    <3>2. PICK m : m = mem[b]
      OBVIOUS
    <3>3. mem'[b] = m /\ \A c \in Of(b) : call'[c] = call[c]
      BY <2>1, <3>2
    <3>4. \A c \in Of(b) : StoreFits(c, m)'
      BY <2>1, <3>1, <3>2 DEF TabQuiet, StoreFits, InFlight
    <3>5. \A c \in Of(b) : AskFits(c)' /\ GotCounts(c)'
      BY <2>1, <3>1 DEF TabQuiet, AskFits, GotCounts, InFlight, Counts, Owner
    <3>6. AloneInTab(b)'
      BY <2>1, <3>1 DEF TabQuiet, AloneInTab, InFlight, Of
    <3>7. HeldCounts(b, m)'
      BY <2>1, <3>1, <3>2 DEF TabQuiet, HeldCounts, Presented, InFlight, Counts,
                               Owner, Of
    <3>8. StoreQuiet(m)
      BY <3>1, <3>2 DEF TabQuiet
    <3>9. QED
      BY <3>3, <3>4, <3>5, <3>6, <3>7, <3>8 DEF TabQuiet, Of
  <2>3. HeldApart'
    BY <2>1 DEF QuietInv, HeldApart, Holds, InFlight, Of
  <2>4. QED
    BY <1>1, <2>1, <2>2, <2>3 DEF QuietInv
<1>7. QED
  BY <1>1, <1>2, <1>3, <1>4, <1>5, <1>6 DEF Next

LEMMA QuietInvariance ==
  ASSUME OneTabPerDevice, ~Overlap
  PROVE  Spec => []QuietInv
  BY InitQuiet, StepQuiet, PTL DEF Spec
-----------------------------------------------------------------------------
(* What a quiet tab can rely on. *)

\* With one tab per device that waits for its requests, whatever is reloaded
\* between requests or lost on the way, however many of them run into
\* TOKEN_EXPIRED at once: no refresh presents a token that was used before.
THEOREM QuietRefreshesAreLive ==
  ASSUME OneTabPerDevice, ~Overlap
  PROVE  Spec => []RefreshesAreLive
<1>1. ASSUME QuietInv PROVE RefreshesAreLive
  BY <1>1, LiveWhenSent DEF RefreshesAreLive, Presented, Renewing, Counts
<1>2. QED
  BY <1>1, QuietInvariance, PTL

\* Under the same assumptions a tab that is signed out holds no token, and its
\* device remembers none: no late answer signs it in again.
THEOREM QuietSignedOutHoldsNothing ==
  ASSUME OneTabPerDevice, ~Overlap
  PROVE  Spec => []SignedOutHoldsNothing
<1>1. ASSUME QuietInv PROVE SignedOutHoldsNothing
  BY <1>1, QuietFacts DEF SignedOutHoldsNothing, StoreQuiet, TabSound
<1>2. QED
  BY <1>1, QuietInvariance, PTL

\* Serving a call ends at most the session whose token it presented.
LEMMA OnlyThePresented ==
  ASSUME QuietInv, NEW c \in Calls, Serve(c)
  PROVE  /\ \A u \in Users : live[u] \ {call[c].sent} \subseteq live'[u]
         /\ ~Presented(c) => \A u \in Users : live[u] \subseteq live'[u]
<1> DEFINE t == call[c].sent
<1>1. /\ InFlight(c) /\ call[c].at = "sent" /\ call[c] \in Call
      /\ UNCHANGED <<lapsed, stored, orphans>>
      /\ IInv /\ CallSound(c)
  BY CallLemma
  DEF Serve, ServeLogin, ServeRefresh, ServeLogout, ServeRequest, client,
      QuietInv, IInv, TypeOK, TabSound, InFlight
<1>2. CASE UNCHANGED api
  BY <1>2 DEF api
<1>3. CASE /\ MayIssue /\ Server!Open(call[c].as, NextToken)
  <2>1. PICK n \in Tokens, u \in Users : n = NextToken /\ u = call[c].as
    BY <1>1, <1>3 DEF MayIssue, Call
  <2>2. Server!Open(u, n)
    BY <1>3, <2>1
  <2>3. \A v \in Users : live[v] \subseteq live'[v]
    BY <1>1, <2>2, OpenEffect
  <2>4. QED
    BY <2>3
<1>4. ASSUME call[c].kind \in Renewing \cup {"logout"}
      PROVE  Presented(c) /\ t \in Issued /\ Owner(t) \in Users
             /\ t \in live[Owner(t)]
  <2>1. Presented(c) /\ t \in Issued
    BY <1>1, <1>4 DEF CallSound, Presented
  <2>2. QED
    BY <1>1, <2>1, LiveWhenSent, OwnerType DEF Counts
<1>5. CASE call[c].kind \in Renewing /\ MayIssue /\ Rotate(t)
  <2>1. PICK n \in Tokens, u \in Users : n = NextToken /\ u = Owner(t)
    BY <1>4, <1>5 DEF MayIssue
  <2>2. Server!Refresh(u, t, n)
    BY <1>5, <2>1 DEF Rotate
  <2>3. \A v \in Users : live[v] \ {t} \subseteq live'[v]
    BY <1>1, <2>2, RefreshEffect
  <2>4. QED
    BY <1>4, <1>5, <2>3
<1>6. CASE call[c].kind = "logout" /\ Server!Close(Owner(t), t)
  <2>1. PICK u \in Users : u = Owner(t)
    BY <1>4, <1>6
  <2>2. Server!Close(u, t)
    BY <1>6, <2>1
  <2>3. \A v \in Users : live[v] \ {t} \subseteq live'[v]
    BY <1>1, <2>2, EndEffect
  <2>4. QED
    BY <1>4, <1>6, <2>3
<1>7. call[c].kind \in Renewing => ~Reuse(t)
  BY <1>4 DEF Reuse, Server!Reuse
<1> HIDE DEF t
<1>8. QED
  BY <1>2, <1>3, <1>5, <1>6, <1>7
  DEF Serve, ServeLogin, ServeRefresh, ServeLogout, ServeRequest, Renewing, t

\* Under the same assumptions a session ends only when the tab that holds its
\* token presents it: no other device, and no other tab, can end it.
THEOREM QuietOthersSurvive ==
  ASSUME OneTabPerDevice, ~Overlap
  PROVE  Spec => OthersSurvive
<1> DEFINE Gone(b, u) == /\ mem[b].refreshToken \in live[u]
                         /\ mem[b].refreshToken \notin live'[u]
           Asked(b) == \E c \in Of(b) : InFlight(c)
                                        /\ call[c].sent = mem[b].refreshToken
<1>1. ASSUME QuietInv, Next PROVE \A b \in Tabs, u \in Users : Gone(b, u) => Asked(b)
  <2>1. CASE UNCHANGED api
    BY <2>1 DEF api
  <2>2. ASSUME NEW c \in Calls, Serve(c)
        PROVE  \A b \in Tabs, u \in Users : Gone(b, u) => Asked(b)
    <3> SUFFICES ASSUME NEW b \in Tabs, NEW u \in Users, Gone(b, u)
                 PROVE  Asked(b)
      OBVIOUS
    <3>1. Presented(c) /\ call[c].sent = mem[b].refreshToken
      BY <1>1, <2>2, OnlyThePresented
    <3>2. /\ c[1] \in Tabs /\ c \in Of(c[1]) /\ IInv /\ TabQuiet(c[1]) /\ HeldApart
      BY <1>1, CallLemma DEF QuietInv
    <3>3. mem[c[1]].refreshToken = call[c].sent /\ call[c].sent \in Tokens
      BY <3>1, <3>2, PresentedLemma, TabFacts
    <3>4. c[1] = b
      BY <3>1, <3>2, <3>3 DEF HeldApart, Holds
    <3>5. QED
      BY <3>1, <3>2, <3>4 DEF Presented
  <2>3. CASE \A c \in Calls : ~Serve(c)
    <3>1. orphans = {}
      BY <1>1 DEF QuietInv
    <3>2. UNCHANGED api
      BY <1>1, <2>3, <3>1
      DEF Next, Act, Load, Login, Logout, Request, Lose, Receive, LoginReturns,
          LogoutReturns, BootReturns, RefreshReturns, RequestReturns, Lapse
    <3>3. QED
      BY <3>2, <2>1
  <2>4. QED
    BY <2>2, <2>3
<1>2. QuietInv /\ [Next]_vars =>
        [\A b \in Tabs, u \in Users : Gone(b, u) => Asked(b)]_vars
  BY <1>1
<1>3. QED
  BY <1>2, QuietInvariance, PTL DEF OthersSurvive, Spec
=============================================================================
