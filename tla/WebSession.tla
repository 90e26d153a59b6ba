------------------------------ MODULE WebSession ------------------------------
(***************************************************************************)
(* The browser's side of a session: the store that holds the tokens        *)
(* (web/app/entities/user/model/session.store.ts), the HTTP client that    *)
(* refreshes them once for all callers that ran into 401 TOKEN_EXPIRED     *)
(* (shared/api/client.ts), the bootstrap that restores a session on page   *)
(* load, and the forms that log in and out.  It is composed with the       *)
(* sessions of the API, as UserSessions specifies them.                    *)
(*                                                                         *)
(* A tab runs one event handler at a time, up to its next await: a step of *)
(* the client is the handling of one response together with every promise *)
(* continuation it sets off.  Between two steps anything can happen: other *)
(* responses, clicks, other tabs and devices, a page reload.               *)
(*                                                                         *)
(* A token pair is one value: the access token of the pair and its refresh *)
(* token have the same name.  Tokens are numbered in the order of issue.   *)
(***************************************************************************)
EXTENDS Naturals, FiniteSets

CONSTANTS
  Tabs,      \* the open tabs of all devices
  Stores,    \* the localStorage of each device
  StoreOf,   \* the device of each tab
  Slots,     \* requests a tab can have in flight beside its refresh
  Users,
  MaxToken,  \* bound on the token pairs ever issued
  Overlap,   \* TRUE: the user acts while requests of the tab are in flight
  Reloads,   \* TRUE: a page may be reloaded
  Offline,   \* TRUE: requests and responses may get lost
  NoCall,    \* nothing in flight
  Null

ASSUME StoresAssumption == StoreOf \in [Tabs -> Stores]
ASSUME BoundAssumption == MaxToken \in Nat
ASSUME SwitchesAssumption == {Overlap, Reloads, Offline} \subseteq BOOLEAN
ASSUME SlotsAssumption == "auth" \notin Slots /\ Slots # {}

VARIABLES
  mem,       \* by tab: state of the session store
  stored,    \* by device: the refresh token in localStorage
  call,      \* by tab and lane: the HTTP call in flight
  orphans,   \* refresh tokens on their way to the API from a page now gone
  lapsed,    \* access tokens past their fifteen minutes
  live, given  \* the sessions of the API

vars == <<mem, stored, call, orphans, lapsed, live, given>>
client == <<mem, stored>>
api == <<live, given>>

Tokens == 1 .. MaxToken
\* Lane "auth" is the refresh in flight (refreshInFlight, or that of init).
Lanes == Slots \cup {"auth"}
Calls == Tabs \X Lanes

Kinds == {"login", "logout", "refresh", "boot", "me", "request"}
Results == {"none", "ok", "expired", "unauthorized", "refused", "offline"}
Statuses == {"idle", "loading", "anonymous", "authenticated"}

Call == [kind : Kinds, as : Users, sent : Tokens \cup {Null},
         retried : BOOLEAN, at : {"sent", "joined", "answered"},
         result : Results, got : Tokens \cup {Null}]
Session == [user : Users \cup {Null}, accessToken : Tokens \cup {Null},
            refreshToken : Tokens \cup {Null}, status : Statuses]

ASSUME NullsAssumption == Null \notin Users \cup Tokens /\ NoCall \notin Call

Server == INSTANCE UserSessions WITH stale <- {}
-----------------------------------------------------------------------------
Owner(t) == CHOOSE u \in Users : t \in given[u]
Issued == UNION {given[u] : u \in Users}
NextToken == Cardinality(Issued) + 1
MayIssue == NextToken \in Tokens

Of(b) == {c \in Calls : c[1] = b}
InFlight(c) == call[c] # NoCall
IsAuthenticated(b) == mem[b].user # Null /\ mem[b].accessToken # Null

\* Unless Overlap, signing in, signing out and reloading wait for the requests
\* of the tab, and requests wait for them; requests overlap each other anyway.
MayAct(b) == Overlap \/ \A c \in Of(b) : ~InFlight(c)
MayAsk(b) ==
  Overlap \/ \A c \in Of(b) : InFlight(c) => call[c].kind \notin {"login", "logout"}

Sent(kind, u, t) ==
  [kind |-> kind, as |-> u, sent |-> t, retried |-> FALSE, at |-> "sent",
   result |-> "none", got |-> Null]

(* session.store: setTokens and clear, on the tab and on its localStorage.   *)
SlipClearKeepsRefresh(m) ==
  [m EXCEPT !.user = Null, !.accessToken = Null, !.status = "anonymous"]
Cleared(m) == [user |-> Null, accessToken |-> Null, refreshToken |-> Null,
               status |-> "anonymous"]
SlipKeepsRefreshToken(m, t) ==
  [m EXCEPT !.accessToken = t, !.refreshToken = IF @ = Null THEN t ELSE @]
WithTokens(m, t) == [m EXCEPT !.accessToken = t, !.refreshToken = t]

SlipPersistsFirstOnly(b, t) ==
  stored' = [stored EXCEPT ![StoreOf[b]] = IF @ = Null THEN t ELSE @]
Persist(b, t) == stored' = [stored EXCEPT ![StoreOf[b]] = t]

Clear(b) ==
  /\ mem' = [mem EXCEPT ![b] = Cleared(@)]
  /\ Persist(b, Null)

Init ==
  /\ mem = [b \in Tabs |-> [user |-> Null, accessToken |-> Null,
                            refreshToken |-> Null, status |-> "idle"]]
  /\ stored = [s \in Stores |-> Null]
  /\ call = [c \in Calls |-> NoCall]
  /\ orphans = {}
  /\ lapsed = {}
  /\ live = [u \in Users |-> {}]
  /\ given = [u \in Users |-> {}]
-----------------------------------------------------------------------------
(* What the user does.                                                       *)

\* setupAuth and init: restore the persisted session.  The page that was there
\* before is gone with its calls; a refresh it had sent may still arrive.
Load(b) ==
  /\ mem[b].status # "idle" => Reloads
  /\ MayAct(b)
  /\ orphans' = orphans \cup
       {call[c].sent : c \in {d \in Of(b) : /\ InFlight(d)
                                            /\ call[d].kind \in {"refresh", "boot"}
                                            /\ call[d].at = "sent"}}
  /\ LET t == stored[StoreOf[b]]
         page == [user |-> Null, accessToken |-> Null, refreshToken |-> t,
                  status |-> IF t = Null THEN "anonymous" ELSE "loading"]
     IN /\ mem' = [mem EXCEPT ![b] = page]
        /\ call' = [c \in Calls |->
                      IF c \notin Of(b) THEN call[c]
                      ELSE IF t # Null /\ c = <<b, "auth">>
                      THEN Sent("boot", Owner(t), t) ELSE NoCall]
  /\ UNCHANGED <<stored, lapsed, api>>

\* LoginForm and RegisterForm: the route guard shows them when signed out.
Login(b, s, u) ==
  /\ mem[b].status \notin {"idle", "loading"}
  /\ ~IsAuthenticated(b)
  /\ MayAct(b)
  /\ ~InFlight(<<b, s>>)
  /\ mem' = [mem EXCEPT ![b].status = "loading"]
  /\ call' = [call EXCEPT ![<<b, s>>] = Sent("login", u, Null)]
  /\ UNCHANGED <<stored, orphans, lapsed, api>>

\* AppSidebar: onLogout.
Logout(b, s) ==
  /\ IsAuthenticated(b)
  /\ MayAct(b)
  /\ ~InFlight(<<b, s>>)
  /\ IF mem[b].refreshToken = Null
     THEN Clear(b) /\ UNCHANGED call
     ELSE /\ call' = [call EXCEPT ![<<b, s>>] =
                        Sent("logout", mem[b].user, mem[b].refreshToken)]
          /\ UNCHANGED client
  /\ UNCHANGED <<orphans, lapsed, api>>

\* request(): any authenticated screen, with the access token of the store.
Request(b, s) ==
  /\ IsAuthenticated(b)
  /\ MayAsk(b)
  /\ ~InFlight(<<b, s>>)
  /\ call' = [call EXCEPT ![<<b, s>>] =
                Sent("request", mem[b].user, mem[b].accessToken)]
  /\ UNCHANGED <<client, orphans, lapsed, api>>
-----------------------------------------------------------------------------
(* The API and the network.                                                  *)

Respond(c, result, t) ==
  call' = [call EXCEPT ![c].at = "answered", ![c].result = result,
                       ![c].got = t]

ServeLogin(c) ==
  /\ \/ /\ MayIssue
        /\ Server!Open(call[c].as, NextToken)
        /\ Respond(c, "ok", NextToken)
     \/ /\ Respond(c, "refused", Null)
        /\ UNCHANGED api
  /\ UNCHANGED <<client, orphans, lapsed>>

Rotate(t) == Server!Refresh(Owner(t), t, NextToken)
Reuse(t) == Server!Reuse(Owner(t), t)

ServeRefresh(c) ==
  /\ LET t == call[c].sent
     IN \/ MayIssue /\ Rotate(t) /\ Respond(c, "ok", NextToken)
        \/ Reuse(t) /\ Respond(c, "refused", Null)
        \/ Respond(c, "refused", Null) /\ UNCHANGED api   \* 500
  /\ UNCHANGED <<client, orphans, lapsed>>

ServeOrphan(t) ==
  /\ orphans' = orphans \ {t}
  /\ (MayIssue /\ Rotate(t)) \/ Reuse(t)
  /\ UNCHANGED <<client, call, lapsed>>

ServeLogout(c) ==
  /\ LET t == call[c].sent
     IN \/ Server!Close(Owner(t), t)
        \/ t \notin live[Owner(t)] /\ UNCHANGED api
  /\ Respond(c, "ok", Null)
  /\ UNCHANGED <<client, orphans, lapsed>>

\* The auth gate of the API.  Without a token there is no Authorization header.
Gate(t) ==
  IF t = Null THEN "unauthorized"
  ELSE IF t \in lapsed THEN "expired" ELSE "ok"

ServeRequest(c) ==
  /\ Respond(c, Gate(call[c].sent), Null)
  /\ UNCHANGED <<client, orphans, lapsed, api>>

Serve(c) ==
  /\ InFlight(c)
  /\ call[c].at = "sent"
  /\ \/ call[c].kind = "login" /\ ServeLogin(c)
     \/ call[c].kind \in {"refresh", "boot"} /\ ServeRefresh(c)
     \/ call[c].kind = "logout" /\ ServeLogout(c)
     \/ call[c].kind \in {"request", "me"} /\ ServeRequest(c)

\* The request never arrives, or its response never comes back.
Lose(c) ==
  /\ Offline
  /\ InFlight(c)
  /\ call[c].at \in {"sent", "answered"}
  /\ Respond(c, "offline", Null)
  /\ UNCHANGED <<client, orphans, lapsed, api>>

\* Unless Overlap, no refresh and no retry after it is under way for the whole
\* fifteen minutes that the new access token lives.
Lapse(t) ==
  /\ t \in Issued \ lapsed
  /\ Overlap \/ \A c \in Calls :
                  InFlight(c) => /\ call[c].got # t
                                 /\ call[c].retried => call[c].sent # t
  /\ lapsed' = lapsed \cup {t}
  /\ UNCHANGED <<client, call, orphans, api>>
-----------------------------------------------------------------------------
(* What the client does with a response.                                     *)

Answered(c, kinds) ==
  /\ InFlight(c)
  /\ call[c].at = "answered"
  /\ call[c].kind \in kinds

Done(c) == call' = [call EXCEPT ![c] = NoCall]

\* login and register of the store.
LoginReturns(c) ==
  /\ Answered(c, {"login"})
  /\ LET b == c[1]
     IN IF call[c].result = "ok"
        THEN /\ mem' = [mem EXCEPT ![b] =
                          [WithTokens(@, call[c].got) EXCEPT
                             !.user = call[c].as, !.status = "authenticated"]]
             /\ Persist(b, call[c].got)
        ELSE /\ mem' = [mem EXCEPT ![b].status = "anonymous"]
             /\ UNCHANGED stored
  /\ Done(c)
  /\ UNCHANGED <<orphans, lapsed, api>>

\* logout of the store: best effort, then clear().
LogoutReturns(c) ==
  /\ Answered(c, {"logout"})
  /\ Clear(c[1])
  /\ Done(c)
  /\ UNCHANGED <<orphans, lapsed, api>>

\* init after its refresh(): load the profile with the new access token.
BootReturns(c, s) ==
  /\ Answered(c, {"boot"})
  /\ LET b == c[1]
     IN IF call[c].result = "ok"
        THEN /\ mem' = [mem EXCEPT ![b] = WithTokens(@, call[c].got)]
             /\ Persist(b, call[c].got)
             /\ call' = [call EXCEPT
                  ![c] = NoCall,
                  ![<<b, s>>] = Sent("me", call[c].as, call[c].got)]
        ELSE Clear(b) /\ Done(c)
  /\ UNCHANGED <<orphans, lapsed, api>>

\* The waiters on the shared promise go on when it settles.
Joined(b) == {c \in Of(b) : InFlight(c) /\ call[c].at = "joined"}
SlipSettlesLoneWaiter(b) == {c \in Joined(b) : \A d \in Joined(b) : c[2] = d[2]}
Settles(b) == Joined(b)

Retry(k, t) == [k EXCEPT !.at = "sent", !.sent = t, !.retried = TRUE,
                         !.result = "none"]

\* refresh() of the store settles: every waiter is sent once more, or
\* onAuthError signs the tab out.
RefreshReturns(c) ==
  /\ Answered(c, {"refresh"})
  /\ LET b == c[1]
         t == call[c].got
     IN IF call[c].result = "ok"
        THEN /\ mem' = [mem EXCEPT ![b] = WithTokens(@, t)]
             /\ Persist(b, t)
             /\ call' = [d \in Calls |->
                  IF d = c THEN NoCall
                  ELSE IF d \in Settles(b) THEN Retry(call[d], t) ELSE call[d]]
        ELSE /\ Clear(b)
             /\ call' = [d \in Calls |->
                  IF d = c \/ d \in Settles(b) THEN NoCall ELSE call[d]]
  /\ UNCHANGED <<orphans, lapsed, api>>

Refreshable(k) == k.result = "expired" /\ ~k.retried

\* runSingleFlightRefresh: share the refresh in flight, or start one.
SlipNeverShares(b) == FALSE
Shares(b) == InFlight(<<b, "auth">>)

\* refresh() of the store presents the token in memory.
Presents(b) == mem[b].refreshToken

Join(c) ==
  LET b == c[1]
      waiting == [call EXCEPT ![c].at = "joined"]
  IN IF Shares(b)
     THEN call' = waiting /\ UNCHANGED client
     ELSE IF Presents(b) # Null
     THEN /\ call' = [waiting EXCEPT ![<<b, "auth">>] =
                        Sent("refresh", call[c].as, Presents(b))]
          /\ UNCHANGED client
     ELSE Clear(b) /\ Done(c)

\* request(): success, refresh and retry once, or onAuthError; init treats
\* every failure of its fetchMe as the end of the session.
RequestReturns(c) ==
  /\ Answered(c, {"request", "me"})
  /\ LET b == c[1]
         k == call[c]
     IN \/ /\ Refreshable(k)
           /\ Join(c)
        \/ /\ k.result = "ok"
           /\ IF k.kind = "me"
              THEN mem' = [mem EXCEPT ![b].user = Owner(k.sent),
                                      ![b].status = "authenticated"]
              ELSE UNCHANGED mem
           /\ Done(c)
           /\ UNCHANGED stored
        \/ /\ k.result # "ok" /\ ~Refreshable(k)
           /\ IF k.result = "offline" /\ k.kind = "request"
              THEN UNCHANGED client ELSE Clear(b)
           /\ Done(c)
  /\ UNCHANGED <<orphans, lapsed, api>>

Receive(c) ==
  \/ LoginReturns(c)
  \/ LogoutReturns(c)
  \/ \E s \in Slots : BootReturns(c, s)
  \/ RefreshReturns(c)
  \/ RequestReturns(c)

Act(b) ==
  \/ Load(b)
  \/ \E s \in Slots : Logout(b, s) \/ Request(b, s)
  \/ \E s \in Slots, u \in Users : Login(b, s, u)

Next ==
  \/ \E b \in Tabs : Act(b)
  \/ \E c \in Calls : Serve(c) \/ Lose(c) \/ Receive(c)
  \/ \E t \in orphans : ServeOrphan(t)
  \/ \E t \in Tokens : Lapse(t)

Spec == Init /\ [][Next]_vars

\* The API answers (or the browser gives up on the connection), and the event
\* loop gets round to every response.
Fairness == \A c \in Calls : WF_vars(Serve(c)) /\ WF_vars(Receive(c))

FairSpec == Spec /\ Fairness
-----------------------------------------------------------------------------
(* Properties *)

\* Every variable holds values of the kind the store and the client allow.
TypeOK ==
  /\ mem \in [Tabs -> Session]
  /\ stored \in [Stores -> Tokens \cup {Null}]
  /\ call \in [Calls -> Call \cup {NoCall}]
  /\ orphans \subseteq Tokens
  /\ lapsed \subseteq Tokens
  /\ live \in [Users -> SUBSET Tokens]
  /\ given \in [Users -> SUBSET Tokens]

\* Single flight: whoever waits for a refresh waits for one that is really
\* under way, so no request of the tab hangs, however refreshes, sign-outs,
\* reloads and lost responses overlap.
WaitersHaveARefresh ==
  \A c \in Calls : InFlight(c) /\ call[c].at = "joined"
    => InFlight(<<c[1], "auth">>) /\ call[<<c[1], "auth">>].kind = "refresh"

\* With one tab per device, what a reload would restore is what the tab holds:
\* no handler moves one of the two refresh tokens without the other.
StorageFollowsMemory ==
  \A b \in Tabs : mem[b].status # "idle"
    => stored[StoreOf[b]] = mem[b].refreshToken

\* The two, of values of the right kind: whatever overlaps, no tab waits in
\* vain and none forgets to store what it holds.
TabsAreConsistent == TypeOK /\ WaitersHaveARefresh /\ StorageFollowsMemory

\* The client never trips the reuse detection of the API: a refresh it has
\* sent carries a token that still counts, however many requests of a tab run
\* into TOKEN_EXPIRED at once.
RefreshesAreLive ==
  \A c \in Calls :
    InFlight(c) /\ call[c].kind \in {"refresh", "boot"} /\ call[c].at = "sent"
      => call[c].sent \in live[Owner(call[c].sent)]

\* Once signed out, a tab holds no token and its device remembers none.
SignedOutHoldsNothing ==
  \A b \in Tabs : mem[b].status = "anonymous"
    => /\ mem[b].accessToken = Null /\ mem[b].refreshToken = Null
       /\ stored[StoreOf[b]] = Null

\* What happens on one device leaves the sessions of the others alone: a
\* session ends only when its own device presents its token.
OthersSurvive ==
  [][\A b \in Tabs, u \in Users :
       /\ mem[b].refreshToken \in live[u]
       /\ mem[b].refreshToken \notin live'[u]
       => \E c \in Of(b) : InFlight(c) /\ call[c].sent = mem[b].refreshToken]_vars

\* Every call of a page settles: it is answered, retried and answered, or
\* rejected when the shared refresh fails, unless a reload drops it.
CallsSettle == \A c \in Tabs \X Slots : InFlight(c) ~> ~InFlight(c)
=============================================================================
