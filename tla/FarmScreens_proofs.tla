-------------------------- MODULE FarmScreens_proofs --------------------------
(***************************************************************************)
(* Proofs about the pages over the stores, for any farms, versions, rows   *)
(* and pages, any number of acts and of calls that are lost.  First for    *)
(* any user (Coherent, ScreensInv, StoresStayCoherent), then for the one   *)
(* who waits until the page is quiet (Fine, PatientInv).                   *)
(***************************************************************************)
EXTENDS FarmScreens, FiniteSetTheorems, SequenceTheorems,
        WellFoundedInduction, TLAPS

(* Induction over the numbers up to N; the statement is the set Good of the  *)
(* numbers it holds of.                                                      *)
LEMMA SmallestOf ==
  ASSUME NEW T, T \subseteq Nat, T # {}
  PROVE  \E m \in T : \A n \in T : m <= n
<1>1. PICK t \in T : TRUE
  OBVIOUS
<1> DEFINE S == 0..t
           Below == {0..m : m \in T \cap S}
<1>2. IsFiniteSet(S) /\ t \in Nat
  BY <1>1, FS_Interval
<1>3. IsWellFoundedOn(StrictSubsetOrdering(S), FiniteSubsetsOf(S))
  BY <1>2, FS_StrictSubsetOrderingWellFounded
<1>4. Below \subseteq FiniteSubsetsOf(S) /\ Below # {}
  <2>1. \A m \in T \cap S : 0..m \subseteq S
    BY <1>2
  <2>2. \A m \in T \cap S : IsFiniteSet(0..m)
    BY FS_Interval
  <2>3. t \in T \cap S
    BY <1>1, <1>2
  <2> QED
    BY <2>1, <2>2, <2>3 DEF FiniteSubsetsOf
<1>5. PICK u \in Below : \A v \in Below : ~(<<v, u>> \in StrictSubsetOrdering(S))
  <2> HIDE DEF Below
  <2> QED
    BY <1>3, <1>4, WFMin
<1>6. PICK m \in T \cap S : u = 0..m
  OBVIOUS
<1>7. ASSUME NEW n \in T PROVE m <= n
  <2>1. SUFFICES ASSUME n < m PROVE FALSE
    BY <1>2
  <2>2. n \in T \cap S /\ 0..n \in Below
    BY <1>2, <2>1
  <2>3. 0..n \subseteq 0..m /\ m \in 0..m /\ m \notin 0..n /\ 0..m \subseteq S
    BY <1>2, <2>1
  <2>4. <<0..n, 0..m>> \in StrictSubsetOrdering(S)
    BY <2>3 DEF StrictSubsetOrdering
  <2> QED
    BY <1>5, <1>6, <2>2, <2>4
<1>8. QED
  BY <1>6, <1>7

LEMMA CountInduction ==
  ASSUME NEW N \in Nat, NEW Good, 0 \in Good,
         \A n \in 0..(N - 1) : n \in Good => n + 1 \in Good
  PROVE  N \in Good
<1> DEFINE Bad == {n \in 0..N : n \notin Good}
<1>1. SUFFICES ASSUME Bad # {} PROVE FALSE
  OBVIOUS
<1>2. PICK m \in Bad : \A n \in Bad : m <= n
  <2>1. Bad \subseteq Nat
    OBVIOUS
  <2> HIDE DEF Bad
  <2> QED
    BY <1>1, <2>1, SmallestOf
<1>3. m # 0 /\ m - 1 \in 0..(N - 1)
  BY <1>2
<1>4. m - 1 \in Good
  BY <1>2, <1>3
<1>5. QED
  BY <1>2, <1>3, <1>4

LEMMA MinIn ==
  ASSUME NEW T, T \subseteq Nat, T # {}
  PROVE  Min(T) \in T
BY SmallestOf DEF Min
-----------------------------------------------------------------------------
(* The calls in flight.                                                      *)
LEMMA Removed ==
  ASSUME NEW S, NEW s \in Seq(S), NEW i \in DOMAIN s
  PROVE  /\ RemoveAt(s, i) \in Seq(S)
         /\ Len(RemoveAt(s, i)) = Len(s) - 1
         /\ \A j \in 1..(Len(s) - 1) :
              RemoveAt(s, i)[j] = IF j < i THEN s[j] ELSE s[j + 1]
<1>1. Len(s) \in Nat /\ DOMAIN s = 1..Len(s)
  OBVIOUS
<1> DEFINE a == SubSeq(s, 1, i - 1)
           b == SubSeq(s, i + 1, Len(s))
<1>2. /\ a \in Seq(S) /\ Len(a) = i - 1
      /\ \A j \in 1..(i - 1) : a[j] = s[j]
  BY <1>1, SubSeqProperties
<1>3. /\ b \in Seq(S) /\ Len(b) = Len(s) - i
      /\ \A j \in 1..(Len(s) - i) : b[j] = s[i + j]
  BY <1>1, SubSeqProperties
<1>4. RemoveAt(s, i) = a \o b
  BY DEF RemoveAt
<1> HIDE DEF a, b
<1>5. /\ a \o b \in Seq(S) /\ Len(a \o b) = Len(s) - 1
      /\ \A j \in 1..(Len(s) - 1) :
           (a \o b)[j] = IF j <= i - 1 THEN a[j] ELSE b[j - (i - 1)]
  <2>1. /\ a \o b \in Seq(S) /\ Len(a \o b) = Len(a) + Len(b)
        /\ \A j \in 1..(Len(a) + Len(b)) :
             (a \o b)[j] = IF j <= Len(a) THEN a[j] ELSE b[j - Len(a)]
    BY <1>2, <1>3, ConcatProperties
  <2>2. Len(a) + Len(b) = Len(s) - 1
    BY <1>1, <1>2, <1>3
  <2> QED
    BY <1>2, <2>1, <2>2
<1>6. ASSUME NEW j \in 1..(Len(s) - 1)
      PROVE  (a \o b)[j] = IF j < i THEN s[j] ELSE s[j + 1]
  <2>1. CASE j < i
    BY <1>1, <1>2, <1>5, <2>1
  <2>2. CASE ~(j < i)
    <3>1. j - (i - 1) \in 1..(Len(s) - i)
      BY <1>1, <2>2
    <3>2. b[j - (i - 1)] = s[i + (j - (i - 1))]
      BY <1>3, <3>1
    <3> QED
      BY <1>1, <1>5, <2>2, <3>2
  <2> QED
    BY <2>1, <2>2
<1>7. QED
  BY <1>4, <1>5, <1>6

\* What is left after dropping some calls: each of the others, once.
LEMMA Dropped ==
  ASSUME NEW S, NEW s \in Seq(S), NEW gone
  PROVE  LET left == Dropping(s, gone) IN
         /\ left \in Seq(S)
         /\ \E from \in [DOMAIN left -> DOMAIN s \ gone] :
              /\ \A j \in DOMAIN left : left[j] = s[from[j]]
              /\ \A j, k \in DOMAIN left : from[j] = from[k] => j = k
              /\ \A i \in DOMAIN s \ gone : \E j \in DOMAIN left : from[j] = i
<1>1. Len(s) \in Nat /\ DOMAIN s = 1..Len(s)
  OBVIOUS
<1> DEFINE N == Len(s)
           Step(g, n) == IF n \in gone THEN g[n - 1] ELSE Append(g[n - 1], s[n])
           Def(g) == [n \in 0..N |-> IF n = 0 THEN <<>> ELSE
                        IF n \in gone THEN g[n - 1] ELSE Append(g[n - 1], s[n])]
           Is(g, m) == /\ g = [n \in 0..m |-> g[n]]
                       /\ g[0] = <<>>
                       /\ \A n \in 1..m : g[n] = Step(g, n)
           Has(m) == \E g : Is(g, m)
           Good == {m \in 0..N : Has(m)}
<1>2. Has(N)
  <2>1. 0 \in Good
    <3>1. Is([n \in 0..0 |-> <<>>], 0)
      OBVIOUS
    <3>2. Has(0)
      <4> HIDE DEF Is
      <4> QED
        BY <3>1
    <3> HIDE DEF Has
    <3> QED
      BY <1>1, <3>2
  <2>2. ASSUME NEW m \in 0..(N - 1), m \in Good PROVE m + 1 \in Good
    <3>1. PICK g : Is(g, m)
      <4> HIDE DEF Is
      <4> QED
        BY <2>2
    <3> DEFINE h == [n \in 0..(m + 1) |-> IF n = m + 1 THEN Step(g, m + 1) ELSE g[n]]
    <3>2. h = [n \in 0..(m + 1) |-> h[n]]
      OBVIOUS
    <3>3. h[0] = <<>>
      BY <3>1
    <3>4. ASSUME NEW n \in 1..(m + 1) PROVE h[n] = Step(h, n)
      <4>1. n - 1 \in 0..(m + 1) /\ n - 1 # m + 1 /\ n \in 0..(m + 1)
        BY <1>1
      <4>2. h[n - 1] = g[n - 1]
        BY <4>1
      <4>3. h[n] = Step(g, n)
        <5>1. CASE n = m + 1
          BY <4>1, <5>1
        <5>2. CASE n # m + 1
          <6>1. n \in 1..m /\ h[n] = g[n]
            BY <4>1, <5>2
          <6> QED
            BY <3>1, <6>1
        <5> QED
          BY <5>1, <5>2
      <4> HIDE DEF h
      <4> QED
        BY <4>2, <4>3
    <3>5. Is(h, m + 1)
      <4> HIDE DEF h, Step
      <4> QED
        BY <3>2, <3>3, <3>4
    <3>6. Has(m + 1)
      <4> HIDE DEF h, Is
      <4> QED
        BY <3>5
    <3> HIDE DEF h, Has
    <3> QED
      BY <1>1, <3>6
  <2> HIDE DEF Has
  <2>3. N \in Good
    <3> HIDE DEF Good
    <3> QED
      BY <1>1, <2>1, <2>2, CountInduction
  <2> QED
    BY <2>3
<1>3. PICK g : Is(g, N)
  <2> HIDE DEF Is
  <2> QED
    BY <1>2
<1>4. g = Def(g)
  <2> DEFINE d == Def(g)
  <2>1. g = [n \in 0..N |-> g[n]] /\ d = [n \in 0..N |-> d[n]]
    BY <1>3
  <2>2. ASSUME NEW n \in 0..N PROVE g[n] = d[n]
    <3>1. CASE n = 0
      BY <1>1, <1>3, <3>1
    <3>2. CASE n # 0
      <4>1. n \in 1..N
        BY <1>1, <3>2
      <4>2. g[n] = Step(g, n)
        BY <1>3, <4>1
      <4> QED
        BY <3>2, <4>2
    <3> QED
      BY <3>1, <3>2
  <2> HIDE DEF d
  <2>3. g = d
    BY <2>1, <2>2
  <2> QED
    BY <2>3 DEF d
<1> DEFINE kept == CHOOSE f : f = Def(f)
<1>5. kept = Def(kept)
  <2> HIDE DEF Def
  <2> QED
    BY <1>4
<1>6. Dropping(s, gone) = kept[N]
  BY DEF Dropping
<1>7. /\ kept[0] = <<>>
      /\ \A n \in 1..N : kept[n] = IF n \in gone THEN kept[n - 1]
                                   ELSE Append(kept[n - 1], s[n])
  <2> HIDE DEF kept
  <2>1. kept[0] = <<>>
    BY <1>1, <1>5
  <2>2. ASSUME NEW n \in 1..N
        PROVE  kept[n] = IF n \in gone THEN kept[n - 1] ELSE Append(kept[n - 1], s[n])
    <3>1. n \in 0..N /\ n # 0
      BY <1>1
    <3> QED
      BY <1>5, <3>1
  <2> QED
    BY <2>1, <2>2
<1> HIDE DEF kept
<1> DEFINE Picks(l, n, from) ==
             /\ \A j \in DOMAIN l : l[j] = s[from[j]]
             /\ \A j, k \in DOMAIN l : from[j] = from[k] => j = k
             /\ \A i \in 1..n \ gone : \E j \in DOMAIN l : from[j] = i
           Kept(n) == /\ kept[n] \in Seq(S)
                      /\ \E from \in [DOMAIN kept[n] -> 1..n \ gone] :
                           Picks(kept[n], n, from)
           Fine == {n \in 0..N : Kept(n)}
<1>8. 0 \in Fine
  <2>1. kept[0] \in Seq(S) /\ DOMAIN kept[0] = {}
    BY <1>7
  <2>2. [j \in {} |-> 0] \in [DOMAIN kept[0] -> 1..0 \ gone]
    BY <2>1
  <2>3. Picks(kept[0], 0, [j \in {} |-> 0])
    BY <2>1
  <2>4. Kept(0)
    <3> HIDE DEF Picks
    <3> QED
      BY <2>1, <2>2, <2>3
  <2> HIDE DEF Kept
  <2> QED
    BY <1>1, <2>4
<1>9. ASSUME NEW m \in 0..(N - 1), m \in Fine PROVE m + 1 \in Fine
  <2> DEFINE n == m + 1
  <2>0. PICK l : l = kept[m]
    OBVIOUS
  <2>1. /\ n \in 1..N /\ n - 1 = m /\ n \in 0..N /\ s[n] \in S
        /\ m \in Nat
    BY <1>1
  <2>2. l \in Seq(S) /\ Len(l) \in Nat /\ DOMAIN l = 1..Len(l)
    BY <1>9, <2>0
  <2>3. PICK from \in [DOMAIN l -> 1..m \ gone] : Picks(l, m, from)
    <3> HIDE DEF Picks
    <3> QED
      BY <1>9, <2>0
  <2>4. CASE n \in gone
    <3>1. kept[n] = l
      BY <1>7, <2>0, <2>1, <2>4
    <3>2. from \in [DOMAIN l -> 1..n \ gone]
      BY <2>1
    <3>3. 1..n \ gone = 1..m \ gone
      BY <2>1, <2>4
    <3>4. Picks(l, n, from)
      BY <2>3, <3>3
    <3>5. Kept(n)
      <4> HIDE DEF Picks, n
      <4> QED
        BY <2>2, <3>1, <3>2, <3>4
    <3> HIDE DEF Kept
    <3> QED
      BY <2>1, <3>5
  <2>5. CASE n \notin gone
    <3> DEFINE L == Append(l, s[n])
               to == [j \in 1..(Len(l) + 1) |-> IF j = Len(l) + 1 THEN n ELSE from[j]]
    <3>1. kept[n] = L
      BY <1>7, <2>0, <2>1, <2>5
    <3>2. /\ L \in Seq(S) /\ DOMAIN L = 1..(Len(l) + 1)
          /\ L[Len(l) + 1] = s[n] /\ \A j \in 1..Len(l) : L[j] = l[j]
      BY <2>1, <2>2
    <3> HIDE DEF L
    <3>3. to \in [DOMAIN L -> 1..n \ gone]
      BY <2>1, <2>2, <2>5, <3>2
    <3>4. /\ to[Len(l) + 1] = n
          /\ \A j \in 1..Len(l) : to[j] = from[j] /\ from[j] \in 1..m \ gone
      BY <2>2
    <3> HIDE DEF to
    <3>5. \A j \in DOMAIN L : L[j] = s[to[j]]
      <4> TAKE j \in DOMAIN L
      <4>1. j \in 1..Len(l) \/ j = Len(l) + 1
        BY <2>2, <3>2
      <4> QED
        BY <2>2, <2>3, <3>2, <3>4, <4>1
    <3>6. \A j, k \in DOMAIN L : to[j] = to[k] => j = k
      <4> TAKE j, k \in DOMAIN L
      <4>1. /\ j \in 1..Len(l) \/ j = Len(l) + 1
            /\ k \in 1..Len(l) \/ k = Len(l) + 1
        BY <2>2, <3>2
      <4>2. n \notin 1..m
        BY <2>1
      <4> QED
        BY <2>2, <2>3, <3>4, <4>1, <4>2
    <3>7. \A i \in 1..n \ gone : \E j \in DOMAIN L : to[j] = i
      <4> TAKE i \in 1..n \ gone
      <4>1. CASE i = n
        BY <2>2, <3>2, <3>4, <4>1
      <4>2. CASE i # n
        <5>1. i \in 1..m \ gone
          BY <2>1, <4>2
        <5>2. PICK j \in DOMAIN l : from[j] = i
          BY <2>3, <5>1
        <5>3. j \in DOMAIN L /\ to[j] = i
          BY <2>2, <3>2, <3>4, <5>2
        <5> QED
          BY <5>3
      <4> QED
        BY <4>1, <4>2
    <3>8. Picks(L, n, to)
      BY <3>5, <3>6, <3>7
    <3>9. Kept(n)
      <4> HIDE DEF Picks, n
      <4> QED
        BY <3>1, <3>2, <3>3, <3>8
    <3> HIDE DEF Kept
    <3> QED
      BY <2>1, <3>9
  <2> QED
    BY <2>4, <2>5
<1>10. N \in Fine
  <2> HIDE DEF Fine
  <2> QED
    BY <1>1, <1>8, <1>9, CountInduction
<1>11. QED
  BY <1>1, <1>6, <1>10
-----------------------------------------------------------------------------
(* What the API has, what the tab has and what is between them.              *)
Maybe(S) == S \cup {None}
FarmMaps == UNION {[D -> Versions] : D \in SUBSET Farms}
RowMaps == UNION {[D -> Int] : D \in SUBSET Ids}
Selections == SUBSET (Kinds \X Ids)
Inputs == Farms \cup {Default}

Servers ==
  [farms : FarmMaps, pin : Maybe(Farms),
   gone : SUBSET ((Kinds \X Ids) \cup ({"farm"} \X Farms)),
   rows : [Kinds -> RowMaps], configs : [Farms -> Maybe(Inputs)],
   picks : [Farms -> Maybe(Selections)]]

RowOps == {"create", "update", "remove", "harvest"}
FarmOps == {"pin", "createFarm", "updateFarm", "deleteFarm"}
ConfigOps == {"saveConfig", "dropConfig"}
Senders == Bootstrapping \cup {"page", "switcher", "dashboard-new", "deleted"}

Calls ==
  {c \in [op : {"farms", "settings", "list", "catalog", "config", "state",
                "saveState", "timer"} \cup RowOps \cup FarmOps \cup ConfigOps,
          for : Senders, mounted : BOOLEAN,
          kind : Maybe(Kinds \cup {"fetch", "wait"}),
          farm : Maybe(Farms), id : Maybe(Ids),
          body : Maybe(Keys \cup Selections \cup Inputs)] :
     /\ c.op \in {"farms", "settings"} => c.for \in Bootstrapping
     /\ c.op = "pin" => c.body \in Maybe(Versions)
     /\ c.op \in {"createFarm", "updateFarm"} => c.body \in Versions
     /\ c.op \in {"updateFarm", "deleteFarm", "list", "config", "saveState"}
                  \cup RowOps \cup ConfigOps => c.farm \in Farms
     /\ c.op \in {"list"} \cup RowOps => c.kind \in Kinds
     /\ c.op = "harvest" => c.kind = "fields"
     /\ c.op \in {"update", "remove", "harvest"} => c.id \in Ids
     /\ c.op = "catalog" => c.body \in Keys /\ c.kind \in {"fetch", "wait"}
     /\ c.op \in {"saveState", "timer"} => c.body \in Selections
     /\ c.op = "saveConfig" => c.body \in Inputs
     /\ c.op = "dropConfig" => c.body = None}

Stores == [farm : Maybe(Farms), rows : RowMaps, loading : BOOLEAN, failed : BOOLEAN]
Configs == [inputs : Inputs, saved : BOOLEAN, dirty : BOOLEAN,
            loading : BOOLEAN, saving : BOOLEAN]
Speeds == [farm : Maybe(Farms), picks : Selections, hydrating : BOOLEAN, timer : BOOLEAN]

Webs ==
  [farms : FarmMaps, active : Maybe(Farms), saving : BOOLEAN, cached : SUBSET Keys,
   current : Maybe(Keys), store : [Kinds -> Stores], page : Pages,
   initializing : BOOLEAN, config : Configs, speed : Speeds, calls : Seq(Calls)]

\* Who is waited for by a flag that is up.
Loads(w, k) ==
  \E i \in DOMAIN w.calls : w.calls[i].op = "list" /\ w.calls[i].kind = k
Saves(w) == \E i \in DOMAIN w.calls : w.calls[i].op \in FarmOps
LoadsConfig(w) ==
  \E i \in DOMAIN w.calls : w.calls[i].op = "config" /\ w.calls[i].mounted
SavesConfig(w) ==
  \E i \in DOMAIN w.calls : w.calls[i].op \in ConfigOps /\ w.calls[i].mounted
SpeedOps == {"farms", "settings", "pin", "list", "state"}
Hydrates(w) ==
  \E i \in DOMAIN w.calls :
    w.calls[i].op \in SpeedOps /\ w.calls[i].for = "speed" /\ w.calls[i].mounted

Flags(w) ==
  /\ \A k \in Kinds : w.store[k].loading => Loads(w, k)
  /\ w.saving => Saves(w)
  /\ w.config.loading => LoadsConfig(w)
  /\ w.config.saving => SavesConfig(w)
SpeedFlag(w) == w.speed.hydrating /\ w.page = "speed" => Hydrates(w)

Asks(w, i, kind) == w.calls[i].op = "catalog" /\ w.calls[i].kind = kind
Fetches(w) ==
  /\ \A i, j \in DOMAIN w.calls :
       Asks(w, i, "fetch") /\ Asks(w, j, "fetch") /\ w.calls[i].body = w.calls[j].body
         => i = j
  /\ \A i \in DOMAIN w.calls : Asks(w, i, "fetch") => w.calls[i].body \notin w.cached
  /\ \A i \in DOMAIN w.calls : Asks(w, i, "wait") =>
       \E j \in DOMAIN w.calls :
         Asks(w, j, "fetch") /\ w.calls[j].body = w.calls[i].body
  /\ w.current # None => w.current \in w.cached

\* The inductive invariant of the tab.  A function of the stores may have taken
\* a call of the speed calculator from the queue: what follows is still due.
Coherent(w, due) ==
  w \in Webs /\ Flags(w) /\ Fetches(w) /\ (due = "speed" \/ SpeedFlag(w))

\* A step that sends at most one call, not of the catalog, and puts no flag up but
\* for this call.
Sends(w, v, r) == v.calls = Append(w.calls, r)

LEMMA Grown ==
  ASSUME NEW w, NEW v \in Webs, NEW r \in Calls, NEW due, NEW still,
         Coherent(w, due), v.calls = w.calls \/ Sends(w, v, r),
         r.op # "catalog", v.cached = w.cached, v.current = w.current,
         \A k \in Kinds : v.store[k].loading =>
           w.store[k].loading \/ (Sends(w, v, r) /\ r.op = "list" /\ r.kind = k),
         v.saving => w.saving \/ (Sends(w, v, r) /\ r.op \in FarmOps),
         v.config.loading => \/ w.config.loading
                             \/ Sends(w, v, r) /\ r.op = "config" /\ r.mounted,
         v.config.saving => \/ w.config.saving
                            \/ Sends(w, v, r) /\ r.op \in ConfigOps /\ r.mounted,
         v.speed.hydrating /\ v.page = "speed" =>
           \/ still = "speed"
           \/ due # "speed" /\ w.speed.hydrating /\ w.page = "speed"
           \/ Sends(w, v, r) /\ r.op \in SpeedOps /\ r.for = "speed" /\ r.mounted
  PROVE  Coherent(v, still)
<1>1. /\ w \in Webs /\ Flags(w) /\ Fetches(w) /\ (due = "speed" \/ SpeedFlag(w))
      /\ w.calls \in Seq(Calls) /\ v.calls \in Seq(Calls)
  BY DEF Coherent, Webs
<1>2. /\ DOMAIN w.calls \subseteq DOMAIN v.calls
      /\ \A i \in DOMAIN w.calls : v.calls[i] = w.calls[i]
      /\ \A i \in DOMAIN v.calls \ DOMAIN w.calls : v.calls[i] = r
      /\ Sends(w, v, r) => \E i \in DOMAIN v.calls : v.calls[i] = r
  BY <1>1 DEF Sends
<1>3. Flags(v)
  <2>1. ASSUME NEW k \in Kinds, v.store[k].loading PROVE Loads(v, k)
    BY <1>1, <1>2, <2>1 DEF Flags, Loads
  <2>2. v.saving => Saves(v)
    BY <1>1, <1>2 DEF Flags, Saves
  <2>3. v.config.loading => LoadsConfig(v)
    BY <1>1, <1>2 DEF Flags, LoadsConfig
  <2>4. v.config.saving => SavesConfig(v)
    BY <1>1, <1>2 DEF Flags, SavesConfig
  <2> QED
    BY <2>1, <2>2, <2>3, <2>4 DEF Flags
<1>4. still = "speed" \/ SpeedFlag(v)
  BY <1>1, <1>2 DEF SpeedFlag, Hydrates
<1>5. Fetches(v)
  <2>1. \A i \in DOMAIN v.calls : v.calls[i].op = "catalog" =>
          i \in DOMAIN w.calls /\ v.calls[i] = w.calls[i]
    BY <1>2
  <2>2. \A i \in DOMAIN w.calls : \A kind : Asks(v, i, kind) <=> Asks(w, i, kind)
    BY <1>2 DEF Asks
  <2>3. \A i \in DOMAIN v.calls : \A kind : Asks(v, i, kind) => i \in DOMAIN w.calls
    BY <2>1 DEF Asks
  <2>4. \A i, j \in DOMAIN v.calls :
          Asks(v, i, "fetch") /\ Asks(v, j, "fetch") /\ v.calls[i].body = v.calls[j].body
            => i = j
    BY <1>1, <1>2, <2>2, <2>3 DEF Fetches
  <2>5. \A i \in DOMAIN v.calls : Asks(v, i, "fetch") => v.calls[i].body \notin v.cached
    BY <1>1, <1>2, <2>2, <2>3 DEF Fetches
  <2>6. ASSUME NEW i \in DOMAIN v.calls, Asks(v, i, "wait")
        PROVE  \E j \in DOMAIN v.calls :
                 Asks(v, j, "fetch") /\ v.calls[j].body = v.calls[i].body
    <3>1. i \in DOMAIN w.calls /\ Asks(w, i, "wait")
      BY <2>2, <2>3, <2>6
    <3>2. PICK j \in DOMAIN w.calls :
            Asks(w, j, "fetch") /\ w.calls[j].body = w.calls[i].body
      BY <1>1, <3>1 DEF Fetches
    <3> QED
      BY <1>2, <2>2, <3>1, <3>2
  <2> QED
    BY <1>1, <2>4, <2>5, <2>6 DEF Fetches
<1>6. QED
  BY <1>3, <1>4, <1>5 DEF Coherent
-----------------------------------------------------------------------------
(* The functions of the stores, one by one.                                  *)
Sender(c) == c.for \in Senders /\ c.mounted \in BOOLEAN

LEMMA Sent ==
  ASSUME NEW w \in Webs, NEW r \in Calls
  PROVE  Send(w, r) \in Webs /\ Sends(w, Send(w, r), r)
<1>1. w.calls \in Seq(Calls)
  BY DEF Webs
<1>2. Append(w.calls, r) \in Seq(Calls)
  BY <1>1
<1>3. QED
  BY <1>2 DEF Send, Sends, Webs

LEMMA SentFields ==
  ASSUME NEW w \in Webs, NEW r
  PROVE  LET v == Send(w, r) IN
         /\ v.farms = w.farms /\ v.active = w.active /\ v.saving = w.saving
         /\ v.cached = w.cached /\ v.current = w.current /\ v.store = w.store
         /\ v.page = w.page /\ v.initializing = w.initializing
         /\ v.config = w.config /\ v.speed = w.speed
BY DEF Send, Webs

\* Nothing is sent and no flag goes up.
Calm(w, v) ==
  /\ v \in Webs /\ v.calls = w.calls /\ v.cached = w.cached /\ v.current = w.current
  /\ \A k \in Kinds : v.store[k].loading => w.store[k].loading
  /\ v.saving => w.saving
  /\ v.config.loading => w.config.loading
  /\ v.config.saving => w.config.saving
  /\ v.speed.hydrating /\ v.page = "speed" => w.speed.hydrating /\ w.page = "speed"

LEMMA AnyCall == \E r \in Calls : r.op = "farms"
<1> DEFINE r == Call([for |-> "speed", mounted |-> TRUE], "farms", None, None, None, None)
<1>1. r \in Calls /\ r.op = "farms"
  BY DEF Call, Calls, Senders, Bootstrapping, Maybe, RowOps, FarmOps, ConfigOps
<1> QED
  BY <1>1

LEMMA CalmCoheres ==
  ASSUME NEW w, NEW v, NEW due, Coherent(w, due), Calm(w, v)
  PROVE  Coherent(v, due)
<1>1. PICK r \in Calls : r.op = "farms"
  BY AnyCall
<1> QED
  BY <1>1, Grown DEF Calm

LEMMA SendCoheres ==
  ASSUME NEW w, NEW due, Coherent(w, due), NEW r \in Calls, r.op # "catalog"
  PROVE  /\ Coherent(Send(w, r), due)
         /\ r.op \in SpeedOps /\ r.for = "speed" /\ r.mounted =>
              Coherent(Send(w, r), "nothing")
<1> DEFINE v == Send(w, r)
<1>1. w \in Webs
  BY DEF Coherent
<1>2. /\ v \in Webs /\ Sends(w, v, r)
      /\ v.cached = w.cached /\ v.current = w.current /\ v.saving = w.saving
      /\ v.config = w.config /\ v.speed = w.speed /\ v.page = w.page
      /\ \A j \in Kinds : v.store[j].loading => w.store[j].loading
  BY <1>1, Sent, SentFields
<1> HIDE DEF v
<1>3. Coherent(v, due)
  BY <1>2, Grown
<1>4. ASSUME r.op \in SpeedOps, r.for = "speed", r.mounted PROVE Coherent(v, "nothing")
  BY <1>2, <1>4, Grown
<1>5. QED
  BY <1>3, <1>4 DEF v

LEMMA LoadCoheres ==
  ASSUME NEW w, NEW due, Coherent(w, due), NEW k \in Kinds, NEW f \in Farms,
         NEW c, Sender(c)
  PROVE  /\ Coherent(Load(w, k, f, c), due)
         /\ c.for = "speed" /\ c.mounted => Coherent(Load(w, k, f, c), "nothing")
<1> DEFINE r == Call(c, "list", k, f, None, None)
           s == [farm |-> f, rows |-> w.store[k].rows, loading |-> TRUE, failed |-> FALSE]
           w1 == [w EXCEPT !.store[k] = s]
           v == Load(w, k, f, c)
<1>1. r \in Calls /\ r.op = "list" /\ r.kind = k /\ r.for = c.for /\ r.mounted = c.mounted
  BY DEF Call, Calls, Sender, Maybe, RowOps, FarmOps, ConfigOps, Kinds
<1>2. w \in Webs /\ w.store \in [Kinds -> Stores]
  BY DEF Coherent, Webs
<1>3. s \in Stores
  BY <1>2 DEF Stores, Maybe
<1>4. w1 \in Webs
  BY <1>2, <1>3 DEF Webs
<1>5. /\ w1.calls = w.calls
      /\ w1.cached = w.cached /\ w1.current = w.current /\ w1.saving = w.saving
      /\ w1.config = w.config /\ w1.speed = w.speed /\ w1.page = w.page
      /\ \A j \in Kinds : w1.store[j].loading => w.store[j].loading \/ j = k
  BY <1>2 DEF Webs
<1>6. v = Send(w1, r)
  BY DEF Load
<1> HIDE DEF v, w1, r
<1>7. /\ v \in Webs /\ Sends(w, v, r)
      /\ v.cached = w.cached /\ v.current = w.current /\ v.saving = w.saving
      /\ v.config = w.config /\ v.speed = w.speed /\ v.page = w.page
      /\ \A j \in Kinds : v.store[j].loading => w.store[j].loading \/ j = k
  BY <1>1, <1>4, <1>5, <1>6, Sent, SentFields DEF Sends
<1>8. Coherent(v, due)
  BY <1>1, <1>7, Grown
<1>9. ASSUME c.for = "speed", c.mounted PROVE Coherent(v, "nothing")
  <2>1. r.op \in SpeedOps /\ r.for = "speed" /\ r.mounted
    BY <1>1, <1>9 DEF SpeedOps
  <2> QED
    BY <1>1, <1>7, <2>1, Grown
<1>10. QED
  BY <1>8, <1>9 DEF v

LEMMA ResetCoheres ==
  ASSUME NEW w, NEW due, Coherent(w, due), NEW k \in Kinds
  PROVE  Coherent(ResetRows(w, k), due)
<1> DEFINE s == [w.store[k] EXCEPT !.farm = None, !.rows = Nothing, !.failed = FALSE]
           v == [w EXCEPT !.store[k] = s]
<1>1. w \in Webs /\ w.store \in [Kinds -> Stores] /\ w.store[k] \in Stores
  BY DEF Coherent, Webs
<1>2. Nothing \in RowMaps
  BY DEF Nothing, RowMaps
<1>3. s \in Stores /\ s.loading = w.store[k].loading
  BY <1>1, <1>2 DEF Stores, Maybe
<1>4. v = ResetRows(w, k)
  BY DEF ResetRows
<1>5. v \in Webs
  BY <1>1, <1>3 DEF Webs
<1>6. /\ v.calls = w.calls
      /\ v.cached = w.cached /\ v.current = w.current /\ v.saving = w.saving
      /\ v.config = w.config /\ v.speed = w.speed /\ v.page = w.page
      /\ \A j \in Kinds : v.store[j].loading => w.store[j].loading
  BY <1>1, <1>3 DEF Webs
<1> HIDE DEF v
<1>7. Coherent(v, due)
  BY <1>5, <1>6, CalmCoheres DEF Calm
<1>8. QED
  BY <1>4, <1>7

LEMMA AppliedCoheres ==
  ASSUME NEW w, NEW due, Coherent(w, due), NEW inputs \in Inputs, NEW saved \in BOOLEAN
  PROVE  Coherent(Applied(w, inputs, saved), due)
<1> DEFINE s == [w.config EXCEPT !.inputs = inputs, !.saved = saved, !.dirty = FALSE]
           v == [w EXCEPT !.config = s]
<1>1. w \in Webs /\ w.config \in Configs
  BY DEF Coherent, Webs
<1>2. s \in Configs /\ s.loading = w.config.loading /\ s.saving = w.config.saving
  BY <1>1 DEF Configs
<1>3. Applied(w, inputs, saved) = v
  BY DEF Applied
<1>4. v \in Webs
  BY <1>1, <1>2 DEF Webs
<1>5. Calm(w, v)
  BY <1>1, <1>2, <1>4 DEF Webs, Calm
<1>6. QED
  BY <1>3, <1>5, CalmCoheres

LEMMA ConfigCoheres ==
  ASSUME NEW w, NEW due, Coherent(w, due)
  PROVE  Coherent(LoadConfig(w), due)
<1>1. /\ w \in Webs /\ w.config \in Configs /\ w.active \in Maybe(Farms)
      /\ Default \in Inputs
  BY DEF Coherent, Webs, Inputs
<1>2. CASE w.active = None
  BY <1>1, <1>2, AppliedCoheres DEF LoadConfig
<1>3. CASE w.active # None
  <2> DEFINE r == Call(For("herd"), "config", None, w.active, None, None)
             s == [w.config EXCEPT !.loading = TRUE]
             w1 == [w EXCEPT !.config = s]
             v == Send(w1, r)
  <2>1. r \in Calls /\ r.op = "config" /\ r.mounted
    BY <1>1, <1>3 DEF Call, For, Calls, Senders, Bootstrapping, Maybe, RowOps, FarmOps, ConfigOps
  <2>2. s \in Configs /\ s.saving = w.config.saving
    BY <1>1 DEF Configs
  <2>3. w1 \in Webs
    BY <1>1, <2>2 DEF Webs
  <2>4. /\ w1.calls = w.calls
        /\ w1.cached = w.cached /\ w1.current = w.current /\ w1.saving = w.saving
        /\ w1.store = w.store /\ w1.speed = w.speed /\ w1.page = w.page
        /\ w1.config.saving = w.config.saving
    BY <1>1, <2>2 DEF Webs
  <2>5. LoadConfig(w) = v
    BY <1>3 DEF LoadConfig
  <2> HIDE DEF v, w1, r
  <2>6. /\ v \in Webs /\ Sends(w, v, r)
        /\ v.cached = w.cached /\ v.current = w.current /\ v.saving = w.saving
        /\ v.store = w.store /\ v.speed = w.speed /\ v.page = w.page
        /\ v.config.saving = w.config.saving
    BY <2>1, <2>3, <2>4, Sent, SentFields DEF Sends, v
  <2>7. Coherent(v, due)
    BY <2>1, <2>6, Grown
  <2> QED
    BY <2>5, <2>7
<1>4. QED
  BY <1>2, <1>3

\* A version that is not there is fetched, or waited for.
LEMMA FetchCoheres ==
  ASSUME NEW w, NEW due, Coherent(w, due), NEW key \in Keys, key \notin w.cached,
         NEW c, Sender(c)
  PROVE  Coherent(FetchCatalog(w, key, c), due)
<1> DEFINE kind == IF Fetching(w, key) THEN "wait" ELSE "fetch"
           r == Call(c, "catalog", kind, None, None, key)
           v == Send(w, r)
<1>1. /\ w \in Webs /\ Flags(w) /\ Fetches(w) /\ (due = "speed" \/ SpeedFlag(w))
      /\ w.calls \in Seq(Calls)
  BY DEF Coherent, Webs
<1>2. /\ r \in Calls /\ r.op = "catalog" /\ r.body = key
      /\ r.kind = kind /\ kind \in {"fetch", "wait"}
  BY DEF Call, Calls, Sender, Maybe, RowOps, FarmOps, ConfigOps
<1>3. kind = "wait" <=> \E i \in DOMAIN w.calls : Asks(w, i, "fetch") /\ w.calls[i].body = key
  BY DEF Fetching, InFlight, Asks
<1>4. FetchCatalog(w, key, c) = v
  BY DEF FetchCatalog
<1> HIDE DEF r, kind
<1>5. v \in Webs /\ v.calls = Append(w.calls, r)
  BY <1>1, <1>2, Sent DEF Sends
<1>6. /\ v.cached = w.cached /\ v.current = w.current /\ v.saving = w.saving
      /\ v.config = w.config /\ v.speed = w.speed /\ v.page = w.page
      /\ v.store = w.store
  BY <1>1, SentFields
<1> HIDE DEF v
<1>7. /\ DOMAIN w.calls \subseteq DOMAIN v.calls
      /\ \A i \in DOMAIN w.calls : v.calls[i] = w.calls[i]
      /\ \A i \in DOMAIN v.calls \ DOMAIN w.calls : v.calls[i] = r
      /\ \A i, j \in DOMAIN v.calls \ DOMAIN w.calls : i = j
  BY <1>1, <1>5
<1>8. Flags(v)
  <2>1. ASSUME NEW k \in Kinds, v.store[k].loading PROVE Loads(v, k)
    BY <1>1, <1>6, <1>7, <2>1 DEF Flags, Loads
  <2>2. v.saving => Saves(v)
    BY <1>1, <1>6, <1>7 DEF Flags, Saves
  <2>3. v.config.loading => LoadsConfig(v)
    BY <1>1, <1>6, <1>7 DEF Flags, LoadsConfig
  <2>4. v.config.saving => SavesConfig(v)
    BY <1>1, <1>6, <1>7 DEF Flags, SavesConfig
  <2> QED
    BY <2>1, <2>2, <2>3, <2>4 DEF Flags
<1>9. due = "speed" \/ SpeedFlag(v)
  BY <1>1, <1>6, <1>7 DEF SpeedFlag, Hydrates
<1>10. Fetches(v)
  <2>1. \A i \in DOMAIN w.calls : \A x : Asks(v, i, x) <=> Asks(w, i, x)
    BY <1>7 DEF Asks
  <2>2. \A i \in DOMAIN v.calls : \A x : Asks(v, i, x) =>
          \/ Asks(w, i, x) /\ i \in DOMAIN w.calls
          \/ x = kind /\ v.calls[i] = r /\ i \notin DOMAIN w.calls
    BY <1>2, <1>7 DEF Asks
  <2>3. ASSUME NEW i \in DOMAIN v.calls, NEW j \in DOMAIN v.calls,
               Asks(v, i, "fetch"), Asks(v, j, "fetch"), v.calls[i].body = v.calls[j].body
        PROVE  i = j
    BY <1>1, <1>2, <1>3, <1>7, <2>2, <2>3 DEF Fetches
  <2>4. \A i \in DOMAIN v.calls : Asks(v, i, "fetch") => v.calls[i].body \notin v.cached
    BY <1>1, <1>2, <1>6, <1>7, <2>2 DEF Fetches
  <2>5. ASSUME NEW i \in DOMAIN v.calls, Asks(v, i, "wait")
        PROVE  \E j \in DOMAIN v.calls :
                 Asks(v, j, "fetch") /\ v.calls[j].body = v.calls[i].body
    <3>1. PICK j \in DOMAIN w.calls :
            Asks(w, j, "fetch") /\ w.calls[j].body = v.calls[i].body
      BY <1>1, <1>2, <1>3, <1>7, <2>2, <2>5 DEF Fetches
    <3> QED
      BY <1>7, <2>1, <3>1
  <2> QED
    BY <1>1, <1>6, <2>3, <2>4, <2>5 DEF Fetches
<1>11. QED
  BY <1>4, <1>5, <1>8, <1>9, <1>10 DEF Coherent

LEMMA CurrentCoheres ==
  ASSUME NEW w, NEW due, Coherent(w, due), NEW key \in w.cached
  PROVE  Coherent([w EXCEPT !.current = key], due)
<1> DEFINE v == [w EXCEPT !.current = key]
<1>1. w \in Webs /\ key \in Keys
  BY DEF Coherent, Webs
<1>2. v \in Webs
  BY <1>1 DEF Webs, Maybe
<1>3. /\ v.calls = w.calls /\ v.cached = w.cached /\ v.current = key
      /\ v.saving = w.saving /\ v.store = w.store
      /\ v.config = w.config /\ v.speed = w.speed /\ v.page = w.page
  BY <1>1 DEF Webs
<1> HIDE DEF v
<1>4. Flags(v) /\ (due = "speed" \/ SpeedFlag(v))
  BY <1>3 DEF Coherent, Flags, SpeedFlag, Loads, Saves, LoadsConfig, SavesConfig, Hydrates
<1>5. Fetches(v)
  BY <1>3 DEF Coherent, Fetches, Asks
<1> QED
  BY <1>2, <1>4, <1>5 DEF Coherent, v
-----------------------------------------------------------------------------
(* What pages load.                                                          *)
LEMMA InFarms ==
  ASSUME NEW w, NEW due, Coherent(w, due)
  PROVE  /\ w.active # None => w.active \in Farms
         /\ \A f : f \in DOMAIN w.farms => f \in Farms /\ w.farms[f] \in Versions
BY DEF Coherent, Webs, Maybe, FarmMaps

LEMMA PageSender == \A whom \in Senders : Sender(For(whom))
BY DEF Sender, For

LEMMA HerdStablesCoheres ==
  ASSUME NEW w, NEW due, Coherent(w, due), NEW c, Sender(c)
  PROVE  Coherent(HerdStables(w, c), due)
BY InFarms, LoadCoheres, ConfigCoheres DEF HerdStables, HerdConfig, Kinds

LEMMA CatalogCoheres ==
  ASSUME NEW w, NEW due, Coherent(w, due), NEW key \in Keys, NEW c, Sender(c)
  PROVE  Coherent(LoadCatalog(w, key, c), due)
<1>1. CASE key \notin w.cached
  BY <1>1, FetchCoheres DEF LoadCatalog
<1>2. CASE key \in w.cached
  <2> DEFINE w1 == [w EXCEPT !.current = key]
  <2>1. Coherent(w1, due)
    BY <1>2, CurrentCoheres
  <2> HIDE DEF w1
  <2>2. Coherent(HerdStables(w1, c), due)
    BY <2>1, HerdStablesCoheres
  <2>3. LoadCatalog(w, key, c) = IF c.for = "herd" THEN HerdStables(w1, c) ELSE w1
    BY <1>2 DEF LoadCatalog, w1
  <2> QED
    BY <2>1, <2>2, <2>3
<1>3. QED
  BY <1>1, <1>2

LEMMA VersionsAreKeys ==
  ASSUME NEW w, NEW due, Coherent(w, due), NEW f, Version(w, f) # None
  PROVE  Version(w, f) \in Keys
BY InFarms DEF Version, Keys

LEMMA CatalogOfCoheres ==
  ASSUME NEW w, NEW due, Coherent(w, due), NEW f, NEW c, Sender(c)
  PROVE  Coherent(LoadCatalogOf(w, f, c), due)
BY VersionsAreKeys, CatalogCoheres DEF LoadCatalogOf

LEMMA HerdCatalogCoheres ==
  ASSUME NEW w, NEW due, Coherent(w, due), NEW c, Sender(c)
  PROVE  Coherent(HerdCatalog(w, c), due)
BY VersionsAreKeys, CatalogCoheres DEF HerdCatalog, Keys

\* Nothing of the farms changes with a load.
LEMMA LoadKeeps ==
  ASSUME NEW w, NEW due, Coherent(w, due), NEW k \in Kinds, NEW f \in Farms, NEW c, Sender(c)
  PROVE  LET v == Load(w, k, f, c) IN
         v.farms = w.farms /\ v.active = w.active /\ v.speed = w.speed /\ v.page = w.page
<1> DEFINE w1 == [w EXCEPT !.store[k] = [farm |-> f, rows |-> w.store[k].rows,
                                         loading |-> TRUE, failed |-> FALSE]]
<1>1. w \in Webs
  BY DEF Coherent
<1>2. w1 = [w EXCEPT !.store = w1.store]
  BY <1>1 DEF Webs
<1>3. QED
  BY <1>1 DEF Load, Send, Webs

LEMMA CatalogKeeps ==
  ASSUME NEW w, NEW due, Coherent(w, due), NEW f, NEW c, Sender(c), c.for # "herd"
  PROVE  LET v == LoadCatalogOf(w, f, c) IN
         v.farms = w.farms /\ v.active = w.active /\ v.speed = w.speed /\ v.page = w.page
<1>1. w \in Webs
  BY DEF Coherent
<1>2. QED
  BY <1>1, SentFields DEF LoadCatalogOf, LoadCatalog, FetchCatalog, Webs

LEMMA LoadMissingCoheres ==
  ASSUME NEW w, NEW due, Coherent(w, due), NEW k \in Kinds, w.active \in Farms,
         NEW c, Sender(c)
  PROVE  LET v == LoadMissing(w, k, c) IN
         /\ Coherent(v, due)
         /\ v.farms = w.farms /\ v.active = w.active /\ v.speed = w.speed /\ v.page = w.page
BY LoadCoheres, LoadKeeps DEF LoadMissing

LEMMA ReloadCoheres ==
  ASSUME NEW w, NEW due, Coherent(w, due), NEW k \in Kinds
  PROVE  Coherent(Reload(w, k), due)
BY LoadCoheres, InFarms, PageSender DEF Reload, Senders

LEMMA FarmDataCoheres ==
  ASSUME NEW w, NEW due, Coherent(w, due), w.active \in Farms, NEW c, Sender(c),
         c.for # "herd"
  PROVE  Coherent(LoadFarmData(w, c), due)
<1> DEFINE w1 == LoadCatalogOf(w, w.active, c)
           w2 == Load(w1, "fields", w.active, c)
<1>1. Coherent(w1, due)
  BY CatalogOfCoheres
<1>2. Coherent(w2, due)
  BY <1>1, LoadCoheres DEF Kinds
<1> HIDE DEF w1
<1>3. Coherent(Load(w2, "stables", w.active, c), due)
  <2> HIDE DEF w2
  <2> QED
    BY <1>2, LoadCoheres DEF Kinds
<1> QED
  BY <1>3 DEF LoadFarmData, w1

LEMMA ResetFarmDataCoheres ==
  ASSUME NEW w, NEW due, Coherent(w, due)
  PROVE  Coherent(ResetFarmData(w), due)
<1>1. Coherent(ResetRows(w, "fields"), due)
  BY ResetCoheres DEF Kinds
<1> QED
  BY <1>1, ResetCoheres DEF ResetFarmData, Kinds

LEMMA ProductionCoheres ==
  ASSUME NEW w, NEW due, Coherent(w, due), w.active \in Farms
  PROVE  Coherent(LoadProduction(w), due)
<1>1. Sender(For("page"))
  BY PageSender DEF Senders
<1>2. Coherent(Load(w, "buildings", w.active, For("page")), due)
  BY <1>1, LoadCoheres DEF Kinds
<1> QED
  BY <1>1, <1>2, CatalogCoheres DEF LoadProduction, Keys
-----------------------------------------------------------------------------
(* What answers set off.  What a sender does last settles what was due.      *)
Settles(c, due) == due = "nothing" \/ (c.for = "speed" /\ c.mounted)

LEMMA NothingDue ==
  ASSUME NEW w, NEW due, Coherent(w, due),
         due = "nothing" \/ ~w.speed.hydrating \/ w.page # "speed"
  PROVE  Coherent(w, "nothing")
BY DEF Coherent, SpeedFlag

\* A function that changes the speed calculator, but not to hydrating again.
LEMMA SpeedCoheres ==
  ASSUME NEW w, NEW due, Coherent(w, due), NEW s \in Speeds,
         s.hydrating => w.speed.hydrating
  PROVE  Coherent([w EXCEPT !.speed = s], due)
<1> DEFINE v == [w EXCEPT !.speed = s]
<1>1. w \in Webs
  BY DEF Coherent
<1>2. v \in Webs
  BY <1>1 DEF Webs
<1>3. Calm(w, v)
  BY <1>1, <1>2 DEF Calm, Webs
<1> QED
  BY <1>3, CalmCoheres

LEMMA Hydrated ==
  ASSUME NEW w, NEW due, Coherent(w, due), NEW picks \in Selections
  PROVE  Coherent([w EXCEPT !.speed.hydrating = FALSE, !.speed.picks = picks], "nothing")
<1> DEFINE s == [w.speed EXCEPT !.hydrating = FALSE, !.picks = picks]
           v == [w EXCEPT !.speed = s]
<1>1. w \in Webs /\ w.speed \in Speeds
  BY DEF Coherent, Webs
<1>2. s \in Speeds /\ ~s.hydrating
  BY <1>1 DEF Speeds
<1>3. Coherent(v, due)
  BY <1>2, SpeedCoheres
<1>4. v.speed = s
  BY <1>1 DEF Webs
<1>5. v = [w EXCEPT !.speed.hydrating = FALSE, !.speed.picks = picks]
  OBVIOUS
<1> HIDE DEF v, s
<1>6. Coherent(v, "nothing")
  BY <1>2, <1>3, <1>4, NothingDue
<1>7. QED
  BY <1>5, <1>6

LEMMA NoLongerHydrating ==
  ASSUME NEW w, NEW due, Coherent(w, due)
  PROVE  Coherent([w EXCEPT !.speed.hydrating = FALSE], "nothing")
<1>1. w \in Webs /\ w.speed \in Speeds
  BY DEF Coherent, Webs
<1>2. w.speed.picks \in Selections
  BY <1>1 DEF Speeds
<1>3. [w EXCEPT !.speed.hydrating = FALSE, !.speed.picks = w.speed.picks]
        = [w EXCEPT !.speed.hydrating = FALSE]
  BY <1>1 DEF Webs, Speeds
<1>4. QED
  BY <1>2, <1>3, Hydrated

LEMMA AbortedCoheres ==
  ASSUME NEW w, NEW c, NEW due, Coherent(w, due), Settles(c, due)
  PROVE  Coherent(Aborted(w, c), "nothing")
<1>1. CASE c.mounted /\ c.for = "speed"
  BY <1>1, NoLongerHydrating DEF Aborted
<1>2. CASE ~(c.mounted /\ c.for = "speed")
  <2> DEFINE v == [w EXCEPT !.initializing = FALSE]
  <2>1. w \in Webs /\ Coherent(w, "nothing")
    BY <1>2 DEF Coherent, Settles
  <2>2. v \in Webs
    BY <2>1 DEF Webs
  <2>3. Calm(w, v)
    BY <2>1, <2>2 DEF Calm, Webs
  <2>4. Coherent(v, "nothing")
    BY <2>1, <2>3, CalmCoheres
  <2> HIDE DEF v
  <2>5. Aborted(w, c) \in {w, v}
    BY <1>2 DEF Aborted, v
  <2> QED
    BY <2>1, <2>4, <2>5
<1>3. QED
  BY <1>1, <1>2

LEMMA LoadStateCoheres ==
  ASSUME NEW w, NEW c, Sender(c), NEW due, Coherent(w, due), Settles(c, due)
  PROVE  Coherent(LoadState(w, c), "nothing")
<1> DEFINE listed == InFlight(w, LAMBDA d : d.op = "list" /\ d.for = "speed" /\ d.mounted)
           r == Call(c, "state", None, w.speed.farm, None, None)
<1>1. CASE ~c.mounted \/ ~w.speed.hydrating
  <2>1. LoadState(w, c) = w
    BY <1>1 DEF LoadState
  <2> QED
    BY <1>1, <2>1, NothingDue DEF Settles
<1>2. CASE listed
  <2>1. LoadState(w, c) = w
    BY <1>2 DEF LoadState
  <2>2. Hydrates(w)
    BY <1>2 DEF InFlight, Hydrates, SpeedOps
  <2> QED
    BY <2>1, <2>2 DEF Coherent, SpeedFlag
<1>3. CASE c.mounted /\ w.speed.hydrating /\ ~listed
  <2>1. LoadState(w, c) = Send(w, r)
    BY <1>3 DEF LoadState
  <2>2. w.speed.farm \in Maybe(Farms)
    BY DEF Coherent, Webs, Speeds
  <2>3. r \in Calls /\ r.op = "state" /\ r.for = c.for /\ r.mounted = c.mounted
    BY <2>2 DEF Call, Calls, Sender, Maybe, RowOps, FarmOps, ConfigOps
  <2> HIDE DEF r
  <2> QED
    BY <1>3, <2>1, <2>3, SendCoheres DEF Settles, SpeedOps
<1>4. QED
  BY <1>1, <1>2, <1>3

LEMMA BootstrapCoheres ==
  ASSUME NEW w, NEW c, c.for \in Bootstrapping, c.mounted \in BOOLEAN,
         NEW due, Coherent(w, due), Settles(c, due)
  PROVE  Coherent(Bootstrapped(w, c), "nothing")
<1>1. Sender(c) /\ (c.for # "speed" => Coherent(w, "nothing"))
  BY DEF Sender, Senders, Settles
<1>2. CASE c.for = "dashboard"
  <2>1. w.active # None => w.active \in Farms
    BY InFarms
  <2> QED
    BY <1>1, <1>2, <2>1, ResetFarmDataCoheres, FarmDataCoheres DEF Bootstrapped
<1>3. CASE c.for \in {"fields", "harvests"}
  <2>1. w.active \in DOMAIN w.farms => w.active \in Farms
    BY InFarms
  <2>2. Coherent(LoadCatalogOf(w, w.active, c), "nothing")
    BY <1>1, <1>3, CatalogOfCoheres
  <2>3. Bootstrapped(w, c) = IF w.active \notin DOMAIN w.farms THEN w
                             ELSE Load(LoadCatalogOf(w, w.active, c), c.for, w.active, c)
    BY <1>3 DEF Bootstrapped
  <2> QED
    BY <1>1, <1>3, <2>1, <2>2, <2>3, LoadCoheres DEF Kinds
<1>4. CASE c.for = "herd"
  BY <1>1, <1>4, HerdCatalogCoheres DEF Bootstrapped
<1>5. CASE c.for = "speed"
  <2>1. CASE w.active = None
    <3> DEFINE v == [w EXCEPT !.speed.hydrating = @ /\ ~c.mounted]
    <3>1. Bootstrapped(w, c) = v
      BY <1>5, <2>1 DEF Bootstrapped
    <3>2. w \in Webs /\ w.speed \in Speeds
      BY DEF Coherent, Webs
    <3>3. CASE c.mounted
      <4>1. v = [w EXCEPT !.speed.hydrating = FALSE]
        BY <3>3
      <4> QED
        BY <3>1, <4>1, NoLongerHydrating
    <3>4. CASE ~c.mounted
      <4>1. v = w
        BY <3>2, <3>4 DEF Webs, Speeds
      <4> QED
        BY <3>1, <3>4, <4>1 DEF Settles
    <3> QED
      BY <3>3, <3>4
  <2>2. CASE w.active # None
    <3> DEFINE s == [w.speed EXCEPT !.farm = w.active]
               v == [w EXCEPT !.speed = s]
    <3>1. w.active \in Farms /\ w \in Webs /\ w.speed \in Speeds
      BY <2>2, InFarms DEF Coherent, Webs
    <3>2. s \in Speeds /\ s.hydrating = w.speed.hydrating
      BY <3>1 DEF Speeds, Maybe
    <3>3. Coherent(v, due)
      BY <3>2, SpeedCoheres
    <3>4. v.active = w.active
      BY <3>1 DEF Webs
    <3>5. v = [w EXCEPT !.speed.farm = w.active]
      OBVIOUS
    <3> HIDE DEF v
    <3>6. PICK w1 : w1 = IF c.mounted THEN v ELSE w
      OBVIOUS
    <3>7. Coherent(w1, due) /\ w1.active = w.active
      BY <3>3, <3>4, <3>6
    <3>8. PICK w2 : w2 = LoadMissing(w1, "fields", c)
      OBVIOUS
    <3>9. Coherent(w2, due) /\ w2.active = w.active
      BY <1>1, <3>1, <3>7, <3>8, LoadMissingCoheres DEF Kinds
    <3>10. PICK w3 : w3 = LoadMissing(w2, "machinery", c)
      OBVIOUS
    <3>11. Coherent(w3, due)
      BY <1>1, <3>1, <3>9, <3>10, LoadMissingCoheres DEF Kinds
    <3>12. Bootstrapped(w, c) = LoadState(w3, c)
      BY <1>5, <2>2, <3>5, <3>6, <3>8, <3>10 DEF Bootstrapped
    <3> QED
      BY <1>1, <3>11, <3>12, LoadStateCoheres
  <2> QED
    BY <2>1, <2>2
<1>6. QED
  BY <1>2, <1>3, <1>4, <1>5 DEF Bootstrapping
-----------------------------------------------------------------------------
(* The active farm.                                                          *)
LEMMA ChangedCoheres ==
  ASSUME NEW w, NEW due, Coherent(w, due)
  PROVE  Coherent(ActiveFarmChanged(w), due)
<1>1. Sender(For("page")) /\ For("page").for = "page"
  BY PageSender DEF Senders, For
<1>2. w.active # None => w.active \in Farms
  BY InFarms
<1>3. CASE w.page = "dashboard" /\ ~w.initializing
  <2>1. ActiveFarmChanged(w) = IF w.active = None THEN ResetFarmData(w)
                               ELSE LoadFarmData(w, For("page"))
    BY <1>3 DEF ActiveFarmChanged
  <2> QED
    BY <1>1, <1>2, <2>1, ResetFarmDataCoheres, FarmDataCoheres
<1>4. CASE w.page \in {"stables", "machinery"}
  <2>1. ActiveFarmChanged(w) = Reload(w, w.page) /\ w.page \in Kinds
    BY <1>4 DEF ActiveFarmChanged, Kinds
  <2> QED
    BY <2>1, ReloadCoheres
<1>5. CASE w.page = "production"
  <2>1. ActiveFarmChanged(w) = IF w.active = None THEN ResetRows(w, "buildings")
                               ELSE LoadProduction(w)
    BY <1>5 DEF ActiveFarmChanged
  <2> QED
    BY <1>2, <2>1, ResetCoheres, ProductionCoheres DEF Kinds
<1>6. CASE w.page = "herd"
  <2>1. PICK w1 : w1 = LoadConfig(w)
    OBVIOUS
  <2>2. Coherent(w1, due)
    BY <2>1, ConfigCoheres
  <2>3. PICK w2 : w2 = HerdCatalog(w1, For("page"))
    OBVIOUS
  <2>4. Coherent(w2, due)
    BY <1>1, <2>2, <2>3, HerdCatalogCoheres
  <2>5. w2.active # None => w2.active \in Farms
    BY <2>4, InFarms
  <2>6. ActiveFarmChanged(w) = IF w.active = None THEN w1
                               ELSE LoadMissing(w2, "stables", For("page"))
    BY <1>6, <2>1, <2>3 DEF ActiveFarmChanged
  <2>7. w.active # None => w2.active \in Farms
    <3>1. w1.active = w.active
      <4>1. w \in Webs
        BY DEF Coherent
      <4> QED
        BY <2>1, <4>1 DEF LoadConfig, Applied, Send, Webs
    <3>2. w2.active = w1.active
      <4>1. w1 \in Webs
        BY <2>2 DEF Coherent
      <4> QED
        BY <1>1, <2>3, <4>1, SentFields DEF HerdCatalog, LoadCatalog, FetchCatalog, Webs
    <3> QED
      BY <1>2, <3>1, <3>2
  <2> QED
    BY <1>1, <2>2, <2>4, <2>6, <2>7, LoadMissingCoheres DEF Kinds
<1>7. CASE w.page \notin {"stables", "machinery", "production", "herd"}
           /\ ~(w.page = "dashboard" /\ ~w.initializing)
  <2>1. ActiveFarmChanged(w) = w
    BY <1>7 DEF ActiveFarmChanged
  <2> QED
    BY <2>1
<1>8. QED
  BY <1>3, <1>4, <1>5, <1>6, <1>7

LEMMA ActivateCoheres ==
  ASSUME NEW w, NEW due, Coherent(w, due), NEW f \in Maybe(Farms)
  PROVE  Coherent(Activate(w, f), due)
<1> DEFINE v == [w EXCEPT !.active = f]
<1>1. w \in Webs
  BY DEF Coherent
<1>2. v \in Webs
  BY <1>1 DEF Webs
<1>3. Calm(w, v)
  BY <1>1, <1>2 DEF Calm, Webs
<1>4. Coherent(v, due)
  BY <1>3, CalmCoheres
<1> HIDE DEF v
<1>5. Coherent(ActiveFarmChanged(v), due)
  BY <1>4, ChangedCoheres
<1>6. Activate(w, f) = IF w.active = f THEN w ELSE ActiveFarmChanged(v)
  BY DEF Activate, v
<1>7. QED
  BY <1>5, <1>6

\* A request of the farm store, with the flag it puts up.
LEMMA SavingCoheres ==
  ASSUME NEW w, NEW due, Coherent(w, due), NEW r \in Calls, r.op \in FarmOps
  PROVE  /\ Coherent(Send([w EXCEPT !.saving = TRUE], r), due)
         /\ r.op = "pin" /\ r.for = "speed" /\ r.mounted =>
              Coherent(Send([w EXCEPT !.saving = TRUE], r), "nothing")
<1> DEFINE w1 == [w EXCEPT !.saving = TRUE]
           v == Send(w1, r)
<1>1. w \in Webs
  BY DEF Coherent
<1>2. w1 \in Webs
  BY <1>1 DEF Webs
<1>3. /\ w1.calls = w.calls
      /\ w1.cached = w.cached /\ w1.current = w.current
      /\ w1.store = w.store /\ w1.speed = w.speed /\ w1.page = w.page
      /\ w1.config = w.config
  BY <1>1 DEF Webs
<1> HIDE DEF w1
<1>4. /\ v \in Webs /\ Sends(w, v, r)
      /\ v.cached = w.cached /\ v.current = w.current
      /\ v.store = w.store /\ v.speed = w.speed /\ v.page = w.page
      /\ v.config = w.config
  BY <1>2, <1>3, Sent, SentFields DEF Sends
<1>5. r.op # "catalog"
  BY DEF FarmOps
<1> HIDE DEF v
<1>6. Coherent(v, due)
  BY <1>4, <1>5, Grown
<1>7. ASSUME r.op = "pin", r.for = "speed", r.mounted PROVE Coherent(v, "nothing")
  <2>1. r.op \in SpeedOps
    BY <1>7 DEF SpeedOps
  <2> QED
    BY <1>4, <1>5, <1>7, <2>1, Grown
<1>8. QED
  BY <1>6, <1>7 DEF v, w1

LEMMA SetActiveCoheres ==
  ASSUME NEW w, NEW c, Sender(c), NEW due, Coherent(w, due), Settles(c, due),
         NEW f \in Maybe(Farms), NEW version \in Maybe(Versions)
  PROVE  Coherent(SetActiveFarm(w, f, version, c), "nothing")
<1> DEFINE r == Call(c, "pin", None, f, None, version)
<1>1. /\ r \in Calls /\ r.op = "pin" /\ r.for = c.for /\ r.mounted = c.mounted
      /\ r.op \in FarmOps
  BY DEF Call, Calls, Sender, Maybe, RowOps, FarmOps, ConfigOps, Keys
<1>2. SetActiveFarm(w, f, version, c) = Send([w EXCEPT !.saving = TRUE], r)
  BY DEF SetActiveFarm
<1> HIDE DEF r
<1>3. QED
  BY <1>1, <1>2, SavingCoheres DEF Settles

LEMMA LoadFarmsCoheres ==
  ASSUME NEW w, NEW c, c.for \in Bootstrapping, c.mounted \in BOOLEAN,
         NEW due, Coherent(w, due), Settles(c, due)
  PROVE  Coherent(LoadFarms(w, c), "nothing") /\ Coherent(EnsureActive(w, c), "nothing")
<1>1. ASSUME NEW op \in {"farms", "settings"}
      PROVE  Coherent(Send(w, Call(c, op, None, None, None, None)), "nothing")
  <2> DEFINE r == Call(c, op, None, None, None, None)
  <2>1. r \in Calls /\ r.op = op /\ r.for = c.for /\ r.mounted = c.mounted
    BY DEF Call, Calls, Senders, Maybe, RowOps, FarmOps, ConfigOps
  <2> HIDE DEF r
  <2>2. Coherent(Send(w, r), "nothing")
    BY <2>1, SendCoheres DEF Settles, SpeedOps
  <2> QED
    BY <2>2 DEF r
<1> QED
  BY <1>1 DEF LoadFarms, EnsureActive

LEMMA FirstFarmIsOne ==
  ASSUME NEW w, NEW due, Coherent(w, due)
  PROVE  FirstFarm(w) \in Maybe(Farms)
<1>1. PICK D \in SUBSET Farms : w.farms \in [D -> Versions]
  BY DEF Coherent, Webs, FarmMaps
<1>2. CASE D = {}
  <2>1. w.farms = Nothing
    BY <1>1, <1>2 DEF Nothing
  <2> QED
    BY <2>1 DEF FirstFarm, Maybe
<1>3. CASE D # {}
  <2>1. Min(D) \in D
    BY <1>3, FarmsAssumption, MinIn
  <2> QED
    BY <1>1, <2>1 DEF FirstFarm, Maybe
<1>4. QED
  BY <1>2, <1>3

LEMMA AdoptedCoheres ==
  ASSUME NEW w, NEW c, c.for \in Bootstrapping, c.mounted \in BOOLEAN,
         NEW due, Coherent(w, due), Settles(c, due), NEW pin \in Maybe(Farms)
  PROVE  Coherent(Adopted(w, pin, c), "nothing")
<1>1. Sender(c)
  BY DEF Sender, Senders
<1>2. PICK first \in Maybe(Farms) : first = FirstFarm(w)
  BY FirstFarmIsOne
<1>3. \A f \in Maybe(Farms) : Coherent(Bootstrapped(Activate(w, f), c), "nothing")
  <2> TAKE f \in Maybe(Farms)
  <2>1. PICK v : v = Activate(w, f)
    OBVIOUS
  <2>2. Coherent(v, due)
    BY <2>1, ActivateCoheres
  <2> QED
    BY <2>1, <2>2, BootstrapCoheres
<1>4. None \in Maybe(Versions)
  BY DEF Maybe
<1>5. Coherent(SetActiveFarm(w, first, None, c), "nothing")
  BY <1>1, <1>4, SetActiveCoheres
<1>6. QED
  BY <1>2, <1>3, <1>5 DEF Adopted
-----------------------------------------------------------------------------
(* A call that has been answered is taken out.                               *)
LEMMA TakenOnce ==
  ASSUME NEW S, NEW s \in Seq(S), NEW i \in DOMAIN s, NEW left, left = RemoveAt(s, i)
  PROVE  /\ left \in Seq(S)
         /\ \E from \in [DOMAIN left -> DOMAIN s \ {i}] :
              /\ \A j \in DOMAIN left : left[j] = s[from[j]]
              /\ \A j, k \in DOMAIN left : from[j] = from[k] => j = k
              /\ \A k \in DOMAIN s \ {i} : \E j \in DOMAIN left : from[j] = k
<1>1. left = RemoveAt(s, i)
  OBVIOUS
<1>2. Len(s) \in Nat /\ DOMAIN s = 1..Len(s)
  OBVIOUS
<1>3. /\ left \in Seq(S) /\ Len(left) = Len(s) - 1
      /\ \A j \in 1..(Len(s) - 1) : left[j] = IF j < i THEN s[j] ELSE s[j + 1]
  BY <1>1, Removed
<1>4. DOMAIN left = 1..(Len(s) - 1)
  BY <1>3
<1> DEFINE from == [j \in DOMAIN left |-> IF j < i THEN j ELSE j + 1]
<1>5. from \in [DOMAIN left -> DOMAIN s \ {i}]
  BY <1>2, <1>4
<1>6. \A j \in DOMAIN left : left[j] = s[from[j]]
  BY <1>3, <1>4
<1>7. \A j, k \in DOMAIN left : from[j] = from[k] => j = k
  BY <1>2, <1>4
<1>8. ASSUME NEW k \in DOMAIN s \ {i} PROVE \E j \in DOMAIN left : from[j] = k
  <2>1. CASE k < i
    <3>1. k \in DOMAIN left /\ from[k] = k
      BY <1>2, <1>4, <2>1
    <3> QED
      BY <3>1
  <2>2. CASE ~(k < i)
    <3>1. k - 1 \in DOMAIN left /\ from[k - 1] = k
      BY <1>2, <1>4, <2>2
    <3> QED
      BY <3>1
  <2> QED
    BY <2>1, <2>2
<1> HIDE DEF from
<1>9. QED
  BY <1>1, <1>3, <1>5, <1>6, <1>7, <1>8

\* What the tab owes once the call c is taken out: what only c stood for.
OfSpeed(c) == c.op \in SpeedOps /\ c.for = "speed" /\ c.mounted
Owed(c) == IF OfSpeed(c) THEN "speed" ELSE "nothing"
Owes(w, c) ==
  /\ w \in Webs
  /\ \A k \in Kinds : w.store[k].loading =>
       Loads(w, k) \/ (c.op = "list" /\ c.kind = k)
  /\ w.saving => Saves(w) \/ c.op \in FarmOps
  /\ w.config.loading => LoadsConfig(w) \/ (c.op = "config" /\ c.mounted)
  /\ w.config.saving => SavesConfig(w) \/ (c.op \in ConfigOps /\ c.mounted)
  /\ w.speed.hydrating /\ w.page = "speed" => Hydrates(w) \/ OfSpeed(c)
  /\ \A i, j \in DOMAIN w.calls :
       Asks(w, i, "fetch") /\ Asks(w, j, "fetch") /\ w.calls[i].body = w.calls[j].body
         => i = j
  /\ \A i \in DOMAIN w.calls : Asks(w, i, "fetch") => w.calls[i].body \notin w.cached
  /\ \A i \in DOMAIN w.calls : Asks(w, i, "wait") =>
       \/ c.op = "catalog" /\ w.calls[i].body = c.body
       \/ \E j \in DOMAIN w.calls :
            Asks(w, j, "fetch") /\ w.calls[j].body = w.calls[i].body
  /\ w.current # None => w.current \in w.cached

LEMMA TakenOut ==
  ASSUME NEW w, Coherent(w, "nothing"), NEW i \in DOMAIN w.calls, w.calls[i].kind # "wait"
  PROVE  Owes([w EXCEPT !.calls = RemoveAt(@, i)], w.calls[i])
<1> DEFINE c == w.calls[i]
           v == [w EXCEPT !.calls = RemoveAt(@, i)]
<1>1. /\ w \in Webs /\ Flags(w) /\ Fetches(w) /\ SpeedFlag(w)
      /\ w.calls \in Seq(Calls)
  BY DEF Coherent, Webs
<1>2. /\ v.calls = RemoveAt(w.calls, i) /\ v.saving = w.saving
      /\ v.cached = w.cached /\ v.current = w.current
      /\ v.store = w.store /\ v.speed = w.speed /\ v.page = w.page
      /\ v.config = w.config
  BY <1>1 DEF Webs
<1>3. RemoveAt(w.calls, i) \in Seq(Calls)
  BY <1>1, TakenOnce
<1>4. v \in Webs
  BY <1>1, <1>3 DEF Webs
<1>5. PICK from \in [DOMAIN v.calls -> DOMAIN w.calls \ {i}] :
        /\ \A j \in DOMAIN v.calls : v.calls[j] = w.calls[from[j]]
        /\ \A j, k \in DOMAIN v.calls : from[j] = from[k] => j = k
        /\ \A k \in DOMAIN w.calls \ {i} : \E j \in DOMAIN v.calls : from[j] = k
  <2> HIDE DEF v
  <2>1. PICK left : left = RemoveAt(w.calls, i)
    OBVIOUS
  <2>2. \E from \in [DOMAIN left -> DOMAIN w.calls \ {i}] :
          /\ \A j \in DOMAIN left : left[j] = w.calls[from[j]]
          /\ \A j, k \in DOMAIN left : from[j] = from[k] => j = k
          /\ \A k \in DOMAIN w.calls \ {i} : \E j \in DOMAIN left : from[j] = k
    BY <1>1, <2>1, TakenOnce
  <2>3. v.calls = left
    BY <1>2, <2>1
  <2> QED
    BY <2>2, <2>3
<1> HIDE DEF v
<1>6. \A k \in DOMAIN w.calls : w.calls[k] = c \/ \E j \in DOMAIN v.calls : v.calls[j] = w.calls[k]
  BY <1>5
<1>7. \A k \in Kinds : v.store[k].loading => Loads(v, k) \/ (c.op = "list" /\ c.kind = k)
  BY <1>1, <1>2, <1>6 DEF Flags, Loads
<1>8. v.saving => Saves(v) \/ c.op \in FarmOps
  BY <1>1, <1>2, <1>6 DEF Flags, Saves
<1>9. v.config.loading => LoadsConfig(v) \/ (c.op = "config" /\ c.mounted)
  BY <1>1, <1>2, <1>6 DEF Flags, LoadsConfig
<1>10. v.config.saving => SavesConfig(v) \/ (c.op \in ConfigOps /\ c.mounted)
  BY <1>1, <1>2, <1>6 DEF Flags, SavesConfig
<1>11. v.speed.hydrating /\ v.page = "speed" => Hydrates(v) \/ OfSpeed(c)
  BY <1>1, <1>2, <1>6 DEF SpeedFlag, Hydrates, OfSpeed
<1>12. \A j \in DOMAIN v.calls : \A x : Asks(v, j, x) <=> Asks(w, from[j], x)
  BY <1>5 DEF Asks
<1>13. \A j, k \in DOMAIN v.calls :
         Asks(v, j, "fetch") /\ Asks(v, k, "fetch") /\ v.calls[j].body = v.calls[k].body
           => j = k
  BY <1>1, <1>5, <1>12 DEF Fetches
<1>14. \A j \in DOMAIN v.calls : Asks(v, j, "fetch") => v.calls[j].body \notin v.cached
  BY <1>1, <1>2, <1>5, <1>12 DEF Fetches
<1>15. ASSUME NEW j \in DOMAIN v.calls, Asks(v, j, "wait")
       PROVE  \/ c.op = "catalog" /\ v.calls[j].body = c.body
              \/ \E k \in DOMAIN v.calls :
                   Asks(v, k, "fetch") /\ v.calls[k].body = v.calls[j].body
  <2>1. PICK k \in DOMAIN w.calls : Asks(w, k, "fetch") /\ w.calls[k].body = v.calls[j].body
    BY <1>1, <1>5, <1>12, <1>15 DEF Fetches
  <2>2. CASE k = i
    BY <2>1, <2>2 DEF Asks
  <2>3. CASE k # i
    <3>1. PICK l \in DOMAIN v.calls : from[l] = k
      BY <1>5, <2>3
    <3> QED
      BY <1>5, <1>12, <2>1, <3>1
  <2> QED
    BY <2>2, <2>3
<1>16. v.current # None => v.current \in v.cached
  BY <1>1, <1>2 DEF Fetches
<1>17. Owes(v, c)
  BY <1>4, <1>7, <1>8, <1>9, <1>10, <1>11, <1>13, <1>14, <1>15, <1>16 DEF Owes
<1>18. QED
  BY <1>17 DEF v

\* The flag of the call is taken down; what the speed calculator is owed remains.
LEMMA FlagDown ==
  ASSUME NEW w, NEW c, Owes(w, c), c.op # "catalog",
         NEW v \in Webs, v.calls = w.calls, v.cached = w.cached, v.current = w.current,
         \A k \in Kinds : v.store[k].loading =>
           w.store[k].loading /\ ~(c.op = "list" /\ c.kind = k),
         v.saving => w.saving /\ c.op \notin FarmOps,
         v.config.loading => w.config.loading /\ ~(c.op = "config" /\ c.mounted),
         v.config.saving => w.config.saving /\ ~(c.op \in ConfigOps /\ c.mounted),
         v.speed.hydrating /\ v.page = "speed" => w.speed.hydrating /\ w.page = "speed"
  PROVE  Coherent(v, Owed(c))
<1>1. Flags(v)
  BY DEF Owes, Flags, Loads, Saves, LoadsConfig, SavesConfig
<1>2. Fetches(v)
  BY DEF Owes, Fetches, Asks
<1>3. Owed(c) = "speed" \/ SpeedFlag(v)
  BY DEF Owes, Owed, SpeedFlag, Hydrates
<1>4. QED
  BY <1>1, <1>2, <1>3 DEF Coherent
-----------------------------------------------------------------------------
(* What each answer sets off.                                                *)
Answers(c) ==
  CASE c.op = "farms" -> FarmMaps
    [] c.op \in {"settings", "pin"} -> Maybe(Farms)
    [] c.op = "createFarm" -> Farms
    [] c.op \in {"list", "create", "update", "harvest"} -> RowMaps
    [] c.op = "config" -> Maybe(Inputs)
    [] c.op = "saveConfig" -> Inputs
    [] c.op = "state" -> Maybe(Selections)
    [] OTHER -> {None}

\* The answer has come: what the call c owes, c itself and what it is told.
Told(w, c, answer) ==
  Owes(w, c) /\ c \in Calls /\ (answer = Failed \/ answer \in Answers(c))

LEMMA CallFields ==
  ASSUME NEW c \in Calls
  PROVE  Sender(c) /\ Settles(c, Owed(c)) /\ c.mounted \in BOOLEAN
BY DEF Calls, Sender, Settles, Owed, OfSpeed

LEMMA NothingChanged ==
  ASSUME NEW w, NEW c, Owes(w, c),
         c.op \notin {"catalog", "list", "config"} \cup FarmOps \cup ConfigOps
  PROVE  Coherent(w, Owed(c))
BY FlagDown DEF Owes

LEMMA FarmsLoadedCoheres ==
  ASSUME NEW w, NEW c, NEW answer, Told(w, c, answer), c.op = "farms"
  PROVE  Coherent(FarmsLoaded(w, c, answer), "nothing")
<1>1. /\ w \in Webs /\ c \in Calls /\ Owes(w, c) /\ c.for \in Bootstrapping
      /\ answer = Failed \/ answer \in FarmMaps
  BY DEF Told, Owes, Answers, Calls
<1>2. Settles(c, Owed(c)) /\ c.mounted \in BOOLEAN
  BY <1>1, CallFields
<1>3. Coherent(w, Owed(c))
  BY <1>1, NothingChanged DEF FarmOps, ConfigOps
<1>4. Coherent(Aborted(w, c), "nothing")
  BY <1>2, <1>3, AbortedCoheres
<1> DEFINE v == [w EXCEPT !.farms = answer]
<1>5. ASSUME answer \in FarmMaps PROVE Coherent(v, Owed(c))
  <2>1. v \in Webs
    BY <1>1, <1>5 DEF Webs
  <2>2. Calm(w, v)
    BY <1>1, <2>1 DEF Calm, Webs
  <2> QED
    BY <1>3, <2>2, CalmCoheres
<1>6. PICK w1 : w1 = IF answer = Failed THEN w ELSE v
  OBVIOUS
<1> HIDE DEF v
<1>7. Coherent(w1, Owed(c))
  BY <1>1, <1>3, <1>5, <1>6
<1>8. Coherent(Bootstrapped(w1, c), "nothing") /\ Coherent(EnsureActive(w1, c), "nothing")
  BY <1>1, <1>2, <1>7, BootstrapCoheres, LoadFarmsCoheres
<1>9. FarmsLoaded(w, c, answer) \in {Aborted(w, c), Bootstrapped(w1, c), EnsureActive(w1, c)}
  BY <1>6 DEF FarmsLoaded, v
<1>10. QED
  BY <1>4, <1>8, <1>9

LEMMA SettingsLoadedCoheres ==
  ASSUME NEW w, NEW c, NEW answer, Told(w, c, answer), c.op = "settings"
  PROVE  Coherent(SettingsLoaded(w, c, answer), "nothing")
<1>1. /\ c \in Calls /\ Owes(w, c) /\ c.for \in Bootstrapping
      /\ answer = Failed \/ answer \in Maybe(Farms)
  BY DEF Told, Answers, Calls
<1>2. Settles(c, Owed(c)) /\ c.mounted \in BOOLEAN
  BY <1>1, CallFields
<1>3. Coherent(w, Owed(c))
  BY <1>1, NothingChanged DEF FarmOps, ConfigOps
<1>4. /\ Coherent(Aborted(w, c), "nothing")
      /\ Coherent(Bootstrapped(w, c), "nothing")
      /\ answer # Failed => Coherent(Adopted(w, answer, c), "nothing")
  BY <1>1, <1>2, <1>3, AbortedCoheres, BootstrapCoheres, AdoptedCoheres
<1>5. QED
  BY <1>4 DEF SettingsLoaded

\* The farm store has done saving.
LEMMA SavedCoheres ==
  ASSUME NEW w, NEW c, Owes(w, c), c.op \in FarmOps
  PROVE  LET v == [w EXCEPT !.saving = FALSE] IN
         Coherent(v, Owed(c)) /\ v.farms = w.farms
<1> DEFINE v == [w EXCEPT !.saving = FALSE]
<1>1. w \in Webs
  BY DEF Owes
<1>2. v \in Webs
  BY <1>1 DEF Webs
<1>3. /\ v.calls = w.calls /\ v.cached = w.cached /\ v.current = w.current
      /\ v.store = w.store /\ v.config = w.config /\ v.speed = w.speed
      /\ v.page = w.page /\ v.farms = w.farms /\ v.saving = FALSE
  BY <1>1 DEF Webs
<1> HIDE DEF v
<1>4. c.op \notin {"catalog", "list", "config"} \cup ConfigOps
  BY DEF FarmOps, ConfigOps
<1>5. Coherent(v, Owed(c))
  BY <1>2, <1>3, <1>4, FlagDown
<1>6. QED
  BY <1>3, <1>5 DEF v

LEMMA FarmsChanged ==
  ASSUME NEW w, NEW due, Coherent(w, due), NEW farms \in FarmMaps
  PROVE  Coherent([w EXCEPT !.farms = farms], due)
<1> DEFINE v == [w EXCEPT !.farms = farms]
<1>1. w \in Webs
  BY DEF Coherent
<1>2. v \in Webs
  BY <1>1 DEF Webs
<1>3. Calm(w, v)
  BY <1>1, <1>2 DEF Calm, Webs
<1> QED
  BY <1>3, CalmCoheres

LEMMA OverFarms ==
  ASSUME NEW farms \in FarmMaps, NEW f \in Farms, NEW v \in Versions
  PROVE  Over(Single(f, v), farms) \in FarmMaps
<1>1. PICK D \in SUBSET Farms : farms \in [D -> Versions]
  BY DEF FarmMaps
<1>2. Over(Single(f, v), farms) \in [{f} \cup D -> Versions] /\ {f} \cup D \in SUBSET Farms
  BY <1>1 DEF Over, Single
<1>3. QED
  BY <1>2 DEF FarmMaps

LEMMA WithoutFarms ==
  ASSUME NEW farms \in FarmMaps, NEW gone
  PROVE  Without(farms, gone) \in FarmMaps
<1>1. PICK D \in SUBSET Farms : farms \in [D -> Versions]
  BY DEF FarmMaps
<1>2. Without(farms, gone) \in [D \ gone -> Versions] /\ D \ gone \in SUBSET Farms
  BY <1>1 DEF Without, Restrict
<1>3. QED
  BY <1>2 DEF FarmMaps

LEMMA PinnedCoheres ==
  ASSUME NEW w, NEW c, NEW answer, Told(w, c, answer), c.op = "pin"
  PROVE  Coherent(Pinned(w, c, answer), "nothing")
<1>1. /\ c \in Calls /\ Owes(w, c) /\ c.body \in Maybe(Versions)
      /\ answer = Failed \/ answer \in Maybe(Farms)
  BY DEF Told, Answers, Calls
<1>2. Settles(c, Owed(c)) /\ c.mounted \in BOOLEAN /\ Sender(For("page"))
  BY <1>1, CallFields, PageSender DEF Senders
<1>3. PICK w1 : w1 = [w EXCEPT !.saving = FALSE]
  OBVIOUS
<1>4. Coherent(w1, Owed(c))
  BY <1>1, <1>3, SavedCoheres DEF FarmOps
<1>5. PICK w2 : w2 = IF answer = Failed THEN w1 ELSE Activate(w1, answer)
  OBVIOUS
<1>6. Coherent(w2, Owed(c))
  BY <1>1, <1>4, <1>5, ActivateCoheres
<1>7. /\ c.for \in Bootstrapping =>
           Pinned(w, c, answer) \in {Aborted(w1, c), Bootstrapped(w2, c)}
      /\ c.for \notin Bootstrapping =>
           \/ Pinned(w, c, answer) = w2
           \/ c.body # None /\ Pinned(w, c, answer) = LoadCatalog(w2, c.body, For("page"))
  <2>1. CASE c.for \in Bootstrapping
    BY <1>3, <1>5, <2>1 DEF Pinned, Bootstrapping
  <2>2. CASE c.for \notin Bootstrapping
    BY <1>3, <1>5, <2>2 DEF Pinned, Bootstrapping
  <2> QED
    BY <2>1, <2>2
<1>8. Coherent(Aborted(w1, c), "nothing")
  BY <1>2, <1>4, AbortedCoheres
<1>9. c.for \in Bootstrapping => Coherent(Bootstrapped(w2, c), "nothing")
  BY <1>2, <1>6, BootstrapCoheres
<1>10. ASSUME c.for \notin Bootstrapping
       PROVE  /\ Coherent(w2, "nothing")
              /\ c.body # None => Coherent(LoadCatalog(w2, c.body, For("page")), "nothing")
  <2>1. Coherent(w2, "nothing")
    BY <1>6, <1>10 DEF Owed, OfSpeed, Bootstrapping
  <2>2. c.body # None => c.body \in Keys
    BY <1>1 DEF Maybe, Keys
  <2> QED
    BY <1>2, <2>1, <2>2, CatalogCoheres
<1>11. QED
  BY <1>7, <1>8, <1>9, <1>10

LEMMA FarmCreatedCoheres ==
  ASSUME NEW w, NEW c, NEW answer, Told(w, c, answer), c.op = "createFarm"
  PROVE  Coherent(FarmCreated(w, c, answer), "nothing")
<1>1. /\ w \in Webs /\ c \in Calls /\ Owes(w, c) /\ c.body \in Versions
      /\ answer = Failed \/ answer \in Farms
  BY DEF Told, Answers, Calls, Owes
<1>2. Sender(c) /\ Owed(c) = "nothing"
  BY <1>1, CallFields DEF Owed, OfSpeed, SpeedOps
<1>3. PICK v : v = [w EXCEPT !.saving = FALSE]
  OBVIOUS
<1>4. Coherent(v, "nothing") /\ v.farms = w.farms
  BY <1>1, <1>2, <1>3, SavedCoheres DEF FarmOps
<1>5. CASE answer = Failed
  BY <1>3, <1>4, <1>5 DEF FarmCreated
<1>6. CASE answer # Failed
  <2>1. PICK w1 : w1 = [v EXCEPT !.farms = Over(Single(answer, c.body), v.farms)]
    OBVIOUS
  <2>2. Over(Single(answer, c.body), v.farms) \in FarmMaps
    BY <1>1, <1>4, <1>6, OverFarms DEF Webs
  <2>3. Coherent(w1, "nothing")
    BY <1>4, <2>1, <2>2, FarmsChanged
  <2>4. w1 = [w EXCEPT !.farms = Over(Single(answer, c.body), @), !.saving = FALSE]
    BY <1>1, <1>3, <1>4, <2>1 DEF Webs
  <2>5. answer \in Maybe(Farms) /\ None \in Maybe(Versions) /\ c.body \in Maybe(Versions)
    BY <1>1, <1>6 DEF Maybe
  <2>6. Settles(c, "nothing")
    BY DEF Settles
  <2>7. /\ Coherent(SetActiveFarm(w1, answer, None, c), "nothing")
        /\ Coherent(SetActiveFarm(w1, answer, c.body, c), "nothing")
    BY <1>2, <2>3, <2>5, <2>6, SetActiveCoheres
  <2>8. FarmCreated(w, c, answer) = IF c.for = "dashboard-new"
                                    THEN SetActiveFarm(w1, answer, None, c)
                                    ELSE SetActiveFarm(w1, answer, c.body, c)
    BY <1>6, <2>4 DEF FarmCreated
  <2> QED
    BY <2>7, <2>8
<1>7. QED
  BY <1>5, <1>6

LEMMA OfActiveCoheres ==
  ASSUME NEW w, Coherent(w, "nothing")
  PROVE  Coherent(CatalogOfActive(w), "nothing")
<1>1. Sender(For("page"))
  BY PageSender DEF Senders
<1>2. QED
  BY <1>1, CatalogOfCoheres DEF CatalogOfActive

LEMMA FarmUpdatedCoheres ==
  ASSUME NEW w, NEW c, NEW answer, Told(w, c, answer), c.op = "updateFarm"
  PROVE  Coherent(FarmUpdated(w, c, answer), "nothing")
<1>1. /\ w \in Webs /\ c \in Calls /\ Owes(w, c) /\ c.body \in Versions /\ c.farm \in Farms
  BY DEF Told, Calls, Owes
<1>2. Owed(c) = "nothing"
  BY <1>1 DEF Owed, OfSpeed, SpeedOps
<1>3. PICK w1 : w1 = [w EXCEPT !.saving = FALSE]
  OBVIOUS
<1>4. Coherent(w1, "nothing") /\ w1.farms = w.farms
  BY <1>1, <1>2, <1>3, SavedCoheres DEF FarmOps
<1>5. PICK w2 : w2 = [w1 EXCEPT !.farms = Over(Single(c.farm, c.body), w1.farms)]
  OBVIOUS
<1>6. Over(Single(c.farm, c.body), w1.farms) \in FarmMaps
  BY <1>1, <1>4, OverFarms DEF Webs
<1>7. Coherent(CatalogOfActive(w2), "nothing")
  BY <1>4, <1>5, <1>6, FarmsChanged, OfActiveCoheres
<1>8. FarmUpdated(w, c, answer) = IF answer = Failed THEN w1 ELSE CatalogOfActive(w2)
  BY <1>3, <1>5 DEF FarmUpdated
<1>9. QED
  BY <1>4, <1>7, <1>8

LEMMA FarmDeletedCoheres ==
  ASSUME NEW w, NEW c, NEW answer, Told(w, c, answer), c.op = "deleteFarm"
  PROVE  Coherent(FarmDeleted(w, c, answer), "nothing")
<1>1. w \in Webs /\ c \in Calls /\ Owes(w, c)
  BY DEF Told, Owes
<1>2. Owed(c) = "nothing"
  BY <1>1 DEF Owed, OfSpeed, SpeedOps
<1>3. PICK w1 : w1 = [w EXCEPT !.saving = FALSE]
  OBVIOUS
<1>4. Coherent(w1, "nothing") /\ w1.farms = w.farms
  BY <1>1, <1>2, <1>3, SavedCoheres DEF FarmOps
<1>5. PICK u : u = [w EXCEPT !.farms = Without(@, {c.farm})]
  OBVIOUS
<1>6. PICK w2 : w2 = [w1 EXCEPT !.farms = Without(w1.farms, {c.farm})]
  OBVIOUS
<1>7. w2 = [u EXCEPT !.saving = FALSE]
  BY <1>1, <1>3, <1>4, <1>5, <1>6 DEF Webs
<1>8. [u EXCEPT !.saving = TRUE] = [w2 EXCEPT !.saving = TRUE]
  BY <1>1, <1>3, <1>4, <1>5, <1>6 DEF Webs
<1>9. Without(w1.farms, {c.farm}) \in FarmMaps
  BY <1>1, <1>4, WithoutFarms DEF Webs
<1>10. Coherent(w2, "nothing")
  BY <1>4, <1>6, <1>9, FarmsChanged
<1>11. Sender(For("deleted")) /\ Settles(For("deleted"), "nothing") /\ None \in Maybe(Farms)
       /\ None \in Maybe(Versions)
  BY PageSender DEF Senders, Settles, Maybe
<1>12. Coherent(SetActiveFarm(w2, None, None, For("deleted")), "nothing")
  BY <1>10, <1>11, SetActiveCoheres
<1>13. SetActiveFarm(u, None, None, For("deleted")) = SetActiveFarm(w2, None, None, For("deleted"))
  BY <1>8 DEF SetActiveFarm
<1>14. FarmGone(u, c.farm) = IF u.active = c.farm
                             THEN SetActiveFarm(w2, None, None, For("deleted"))
                             ELSE CatalogOfActive(w2)
  BY <1>7, <1>13 DEF FarmGone
<1>15. FarmDeleted(w, c, answer) = IF answer = Failed THEN w1 ELSE FarmGone(u, c.farm)
  BY <1>3, <1>5 DEF FarmDeleted
<1>16. QED
  BY <1>4, <1>10, <1>12, <1>14, <1>15, OfActiveCoheres
-----------------------------------------------------------------------------
LEMMA ContinuedCoheres ==
  ASSUME NEW w, NEW c \in Calls, NEW due, Coherent(w, due), Settles(c, due),
         c.op = "list" \/ due = "nothing", NEW answer
  PROVE  Coherent(Continued(w, c, answer), "nothing")
<1>1. Sender(c)
  BY CallFields
<1>2. CASE c.for = "herd"
  <2>1. Coherent(w, "nothing")
    BY <1>2 DEF Settles
  <2>2. Coherent(HerdStables(w, c), "nothing") /\ Coherent(HerdConfig(w, c), "nothing")
    BY <1>1, <2>1, HerdStablesCoheres, ConfigCoheres DEF HerdConfig
  <2> QED
    BY <1>2, <2>2 DEF Continued
<1>3. CASE c.for # "herd" /\ answer = Failed
  BY <1>3, AbortedCoheres DEF Continued
<1>4. CASE c.for = "speed" /\ c.op = "list" /\ answer # Failed
  BY <1>1, <1>4, LoadStateCoheres DEF Continued
<1>5. CASE c.for # "herd" /\ ~(c.for = "speed" /\ c.op = "list") /\ answer # Failed
  <2>1. Continued(w, c, answer) = w
    BY <1>5 DEF Continued
  <2> QED
    BY <1>5, <2>1 DEF Settles
<1>6. QED
  BY <1>2, <1>3, <1>4, <1>5

LEMMA RowsLoadedCoheres ==
  ASSUME NEW w, NEW c, NEW answer, Told(w, c, answer), c.op = "list"
  PROVE  Coherent(RowsLoaded(w, c, answer), "nothing")
<1>1. /\ w \in Webs /\ c \in Calls /\ Owes(w, c) /\ c.kind \in Kinds
      /\ answer = Failed \/ answer \in RowMaps
  BY DEF Told, Answers, Calls, Owes
<1>2. Settles(c, Owed(c)) /\ c.mounted \in BOOLEAN
  BY <1>1, CallFields
<1> DEFINE k == c.kind
           s == [farm |-> w.store[k].farm,
                 rows |-> IF answer = Failed THEN w.store[k].rows ELSE answer,
                 loading |-> FALSE, failed |-> (answer = Failed)]
           v == [w EXCEPT !.store[k] = s]
<1>3. w.store \in [Kinds -> Stores] /\ w.store[k] \in Stores
  BY <1>1 DEF Webs
<1>4. s \in Stores /\ ~s.loading
  BY <1>1, <1>3 DEF Stores
<1>5. Loaded(w, c, answer) = v
  BY DEF Loaded
<1>6. v \in Webs
  BY <1>1, <1>3, <1>4 DEF Webs
<1>7. /\ v.calls = w.calls /\ v.cached = w.cached /\ v.current = w.current
      /\ v.saving = w.saving /\ v.config = w.config /\ v.speed = w.speed
      /\ v.page = w.page
      /\ \A j \in Kinds : v.store[j].loading => w.store[j].loading /\ j # k
  BY <1>1, <1>3, <1>4 DEF Webs
<1> HIDE DEF v, s
<1>8. c.op \notin {"catalog", "config"} \cup FarmOps \cup ConfigOps
  BY DEF FarmOps, ConfigOps
<1>9. Coherent(v, Owed(c))
  BY <1>1, <1>6, <1>7, <1>8, FlagDown
<1>10. QED
  BY <1>1, <1>2, <1>5, <1>9, ContinuedCoheres DEF RowsLoaded
LEMMA FetchedCoheres ==
  ASSUME NEW w, NEW c \in Calls, Owes(w, c), c.op = "catalog", NEW answer
  PROVE  Coherent(Fetched(w, c, answer), "nothing")
<1> DEFINE waiting == WaitingFor(w, c.body)
           left == Dropping(w.calls, waiting)
           w1 == [w EXCEPT !.calls = left]
           w2 == [w1 EXCEPT !.cached = @ \cup {c.body}, !.current = c.body]
<1>1. w \in Webs /\ w.calls \in Seq(Calls) /\ c.body \in Keys
  BY DEF Owes, Webs, Calls
<1>2. /\ left \in Seq(Calls)
      /\ \E from \in [DOMAIN left -> DOMAIN w.calls \ waiting] :
           /\ \A j \in DOMAIN left : left[j] = w.calls[from[j]]
           /\ \A j, k \in DOMAIN left : from[j] = from[k] => j = k
           /\ \A i \in DOMAIN w.calls \ waiting : \E j \in DOMAIN left : from[j] = i
  <2> HIDE DEF waiting
  <2> QED
    BY <1>1, Dropped
<1>3. w1 \in Webs /\ w2 \in Webs
  <2>1. w1 \in Webs
    BY <1>1, <1>2 DEF Webs
  <2>2. w1.cached \cup {c.body} \in SUBSET Keys /\ c.body \in Maybe(Keys)
    BY <1>1, <2>1 DEF Webs, Maybe
  <2> QED
    BY <2>1, <2>2 DEF Webs
<1>4. PICK v : v = Fetched(w, c, answer)
  OBVIOUS
<1>5. /\ v \in Webs /\ v.calls = left /\ v.saving = w.saving /\ v.store = w.store
      /\ v.config = w.config /\ v.speed = w.speed /\ v.page = w.page
      /\ v.cached \subseteq w.cached \cup {c.body}
      /\ \/ v.current = w.current /\ v.cached = w.cached
         \/ v.current = c.body /\ c.body \in v.cached
  <2>1. v = IF answer = Failed THEN w1 ELSE w2
    BY <1>4 DEF Fetched
  <2>2. /\ w1.calls = left /\ w1.saving = w.saving /\ w1.store = w.store
        /\ w1.config = w.config /\ w1.speed = w.speed /\ w1.page = w.page
        /\ w1.cached = w.cached /\ w1.current = w.current
    BY <1>1 DEF Webs
  <2>3. /\ w2.calls = left /\ w2.saving = w.saving /\ w2.store = w.store
        /\ w2.config = w.config /\ w2.speed = w.speed /\ w2.page = w.page
        /\ w2.cached = w.cached \cup {c.body} /\ w2.current = c.body
    BY <1>1 DEF Webs
  <2> HIDE DEF w1, w2
  <2> QED
    BY <1>3, <2>1, <2>2, <2>3
<1>6. PICK from \in [DOMAIN v.calls -> DOMAIN w.calls \ waiting] :
        /\ \A j \in DOMAIN v.calls : v.calls[j] = w.calls[from[j]]
        /\ \A j, k \in DOMAIN v.calls : from[j] = from[k] => j = k
        /\ \A i \in DOMAIN w.calls \ waiting : \E j \in DOMAIN v.calls : from[j] = i
  <2> HIDE DEF left, waiting
  <2> QED
    BY <1>2, <1>5
<1>7. \A i \in DOMAIN w.calls : i \in waiting <=> w.calls[i].op = "catalog" /\ w.calls[i].body = c.body
  BY DEF WaitingFor
<1> HIDE DEF left, waiting, w1, w2
<1>8. \A k \in DOMAIN w.calls :
        \/ w.calls[k].op = "catalog" /\ w.calls[k].body = c.body
        \/ \E j \in DOMAIN v.calls : v.calls[j] = w.calls[k]
  BY <1>6, <1>7
<1>9. Flags(v)
  <2>1. ASSUME NEW k \in Kinds, v.store[k].loading PROVE Loads(v, k)
    BY <1>5, <1>8, <2>1 DEF Owes, Loads
  <2>2. v.saving => Saves(v)
    BY <1>5, <1>8 DEF Owes, Saves, FarmOps
  <2>3. v.config.loading => LoadsConfig(v)
    BY <1>5, <1>8 DEF Owes, LoadsConfig
  <2>4. v.config.saving => SavesConfig(v)
    BY <1>5, <1>8 DEF Owes, SavesConfig, ConfigOps
  <2> QED
    BY <2>1, <2>2, <2>3, <2>4 DEF Flags
<1>10. SpeedFlag(v)
  BY <1>5, <1>8 DEF Owes, SpeedFlag, Hydrates, OfSpeed, SpeedOps
<1>11. \A j \in DOMAIN v.calls : \A x : Asks(v, j, x) <=> Asks(w, from[j], x)
  BY <1>6 DEF Asks
<1>12. \A j \in DOMAIN v.calls : \A x : Asks(v, j, x) => v.calls[j].body # c.body
  BY <1>6, <1>7 DEF Asks
<1>13. Fetches(v)
  <2>1. \A j, k \in DOMAIN v.calls :
          Asks(v, j, "fetch") /\ Asks(v, k, "fetch") /\ v.calls[j].body = v.calls[k].body
            => j = k
    BY <1>6, <1>11 DEF Owes
  <2>2. \A j \in DOMAIN v.calls : Asks(v, j, "fetch") => v.calls[j].body \notin v.cached
    BY <1>5, <1>6, <1>11, <1>12 DEF Owes
  <2>3. ASSUME NEW j \in DOMAIN v.calls, Asks(v, j, "wait")
        PROVE  \E k \in DOMAIN v.calls :
                 Asks(v, k, "fetch") /\ v.calls[k].body = v.calls[j].body
    <3>1. PICK k \in DOMAIN w.calls :
            Asks(w, k, "fetch") /\ w.calls[k].body = v.calls[j].body
      BY <1>6, <1>11, <1>12, <2>3 DEF Owes
    <3>2. k \notin waiting
      BY <1>7, <1>12, <2>3, <3>1
    <3>3. PICK l \in DOMAIN v.calls : from[l] = k
      BY <1>6, <3>1, <3>2
    <3> QED
      BY <1>6, <1>11, <3>1, <3>3
  <2>4. v.current # None => v.current \in v.cached
    BY <1>5 DEF Owes
  <2> QED
    BY <2>1, <2>2, <2>3, <2>4 DEF Fetches
<1>14. QED
  BY <1>4, <1>5, <1>9, <1>10, <1>13 DEF Coherent

\* Who fetched goes on, then those who wait, in their order.
LEMMA CatalogSteps ==
  ASSUME NEW w \in Webs, NEW c, NEW answer
  PROVE  \E after :
           /\ after[0] = Continued(Fetched(w, c, answer), c, answer)
           /\ \A n \in 1..Len(w.calls) :
                after[n] = IF n \in WaitingFor(w, c.body)
                           THEN Continued(after[n - 1], w.calls[n], answer)
                           ELSE after[n - 1]
           /\ CatalogLoaded(w, c, answer) = after[Len(w.calls)]
<1>1. w.calls \in Seq(Calls)
  BY DEF Webs
<1>2. Len(w.calls) \in Nat /\ DOMAIN w.calls = 1..Len(w.calls)
  BY <1>1
<1> DEFINE N == Len(w.calls)
           X == Continued(Fetched(w, c, answer), c, answer)
           waiting == WaitingFor(w, c.body)
           Step(g, n) == IF n \in waiting THEN Continued(g[n - 1], w.calls[n], answer)
                                          ELSE g[n - 1]
           Def(g) == [n \in 0..N |-> IF n = 0 THEN X ELSE
                        IF n \in waiting THEN Continued(g[n - 1], w.calls[n], answer)
                                         ELSE g[n - 1]]
           Is(g, m) == /\ g = [n \in 0..m |-> g[n]]
                       /\ g[0] = X
                       /\ \A n \in 1..m : g[n] = Step(g, n)
           Has(m) == \E g : Is(g, m)
           Good == {m \in 0..N : Has(m)}
<1>3. Has(N)
  <2>1. 0 \in Good
    <3>1. Is([n \in 0..0 |-> X], 0)
      <4> HIDE DEF X
      <4> QED
        OBVIOUS
    <3>2. Has(0)
      <4> HIDE DEF Is
      <4> QED
        BY <3>1
    <3> HIDE DEF Has
    <3> QED
      BY <1>2, <3>2
  <2>2. ASSUME NEW m \in 0..(N - 1), m \in Good PROVE m + 1 \in Good
    <3>1. PICK g : Is(g, m)
      <4> HIDE DEF Is
      <4> QED
        BY <2>2
    <3> DEFINE h == [n \in 0..(m + 1) |-> IF n = m + 1 THEN Step(g, m + 1) ELSE g[n]]
    <3>2. h = [n \in 0..(m + 1) |-> h[n]]
      OBVIOUS
    <3>3. h[0] = X
      <4> HIDE DEF X, Step
      <4> QED
        BY <3>1
    <3>4. ASSUME NEW n \in 1..(m + 1) PROVE h[n] = Step(h, n)
      <4>1. n - 1 \in 0..(m + 1) /\ n - 1 # m + 1 /\ n \in 0..(m + 1)
        BY <1>2
      <4>2. h[n - 1] = g[n - 1]
        BY <4>1
      <4>3. h[n] = Step(g, n)
        <5>1. CASE n = m + 1
          BY <4>1, <5>1
        <5>2. CASE n # m + 1
          <6>1. n \in 1..m /\ h[n] = g[n]
            BY <4>1, <5>2
          <6> QED
            BY <3>1, <6>1
        <5> QED
          BY <5>1, <5>2
      <4> HIDE DEF h
      <4> QED
        BY <4>2, <4>3
    <3>5. Is(h, m + 1)
      <4> HIDE DEF h, Step, X
      <4> QED
        BY <3>2, <3>3, <3>4
    <3>6. Has(m + 1)
      <4> HIDE DEF h, Is
      <4> QED
        BY <3>5
    <3> HIDE DEF h, Has
    <3> QED
      BY <1>2, <3>6
  <2> HIDE DEF Has
  <2>3. N \in Good
    <3> HIDE DEF Good
    <3> QED
      BY <1>2, <2>1, <2>2, CountInduction
  <2> QED
    BY <2>3
<1>4. PICK g : Is(g, N)
  <2> HIDE DEF Is
  <2> QED
    BY <1>3
<1>5. g = Def(g)
  <2> DEFINE d == Def(g)
  <2> HIDE DEF X
  <2>1. g = [n \in 0..N |-> g[n]] /\ d = [n \in 0..N |-> d[n]]
    BY <1>4
  <2>2. ASSUME NEW n \in 0..N PROVE g[n] = d[n]
    <3>1. CASE n = 0
      BY <1>2, <1>4, <3>1
    <3>2. CASE n # 0
      <4>1. n \in 1..N
        BY <1>2, <3>2
      <4>2. g[n] = Step(g, n)
        BY <1>4, <4>1
      <4> QED
        BY <3>2, <4>2
    <3> QED
      BY <3>1, <3>2
  <2> HIDE DEF d
  <2>3. g = d
    BY <2>1, <2>2
  <2> QED
    BY <2>3 DEF d
<1> DEFINE after == CHOOSE f : f = Def(f)
<1>6. after = Def(after)
  <2> HIDE DEF Def
  <2> QED
    BY <1>5
<1>7. CatalogLoaded(w, c, answer) = after[N]
  BY DEF CatalogLoaded
<1>8. /\ after[0] = X
      /\ \A n \in 1..N : after[n] = IF n \in waiting
                                    THEN Continued(after[n - 1], w.calls[n], answer)
                                    ELSE after[n - 1]
  <2> HIDE DEF after, X
  <2>1. after[0] = X
    BY <1>2, <1>6
  <2>2. ASSUME NEW n \in 1..N
        PROVE  after[n] = IF n \in waiting
                          THEN Continued(after[n - 1], w.calls[n], answer)
                          ELSE after[n - 1]
    <3>1. n \in 0..N /\ n # 0
      BY <1>2
    <3> QED
      BY <1>6, <3>1
  <2> QED
    BY <2>1, <2>2
<1> HIDE DEF after
<1> QED
  BY <1>7, <1>8

LEMMA CatalogLoadedCoheres ==
  ASSUME NEW w, NEW c, NEW answer, Told(w, c, answer), c.op = "catalog"
  PROVE  Coherent(CatalogLoaded(w, c, answer), "nothing")
<1>1. c \in Calls /\ Owes(w, c) /\ w \in Webs /\ w.calls \in Seq(Calls)
  BY DEF Told, Owes, Webs
<1> DEFINE N == Len(w.calls)
           X == Continued(Fetched(w, c, answer), c, answer)
           waiting == WaitingFor(w, c.body)
<1>2. N \in Nat /\ DOMAIN w.calls = 1..N
  BY <1>1
<1>3. PICK after :
        /\ after[0] = X
        /\ \A n \in 1..N : after[n] = IF n \in waiting
                                      THEN Continued(after[n - 1], w.calls[n], answer)
                                      ELSE after[n - 1]
        /\ CatalogLoaded(w, c, answer) = after[N]
  BY <1>1, CatalogSteps
<1> DEFINE Whole == {n \in 0..N : Coherent(after[n], "nothing")}
<1>4. \A d : Settles(d, "nothing")
  BY DEF Settles
<1>5. 0 \in Whole
  <2>1. PICK v : v = Fetched(w, c, answer)
    OBVIOUS
  <2>2. Coherent(v, "nothing")
    BY <1>1, <2>1, FetchedCoheres
  <2>3. Coherent(Continued(v, c, answer), "nothing")
    BY <1>1, <1>4, <2>2, ContinuedCoheres
  <2> QED
    BY <1>2, <1>3, <2>1, <2>3
<1>6. ASSUME NEW m \in 0..(N - 1), m \in Whole PROVE m + 1 \in Whole
  <2>1. PICK v : v = after[m]
    OBVIOUS
  <2>2. /\ Coherent(v, "nothing") /\ m + 1 \in 1..N /\ (m + 1) - 1 = m
        /\ w.calls[m + 1] \in Calls /\ m + 1 \in 0..N
    BY <1>1, <1>2, <1>6, <2>1
  <2>3. Coherent(Continued(v, w.calls[m + 1], answer), "nothing")
    BY <1>4, <2>2, ContinuedCoheres
  <2>4. after[m + 1] \in {v, Continued(v, w.calls[m + 1], answer)}
    BY <1>3, <2>1, <2>2
  <2> QED
    BY <2>2, <2>3, <2>4
<1>7. N \in Whole
  <2> HIDE DEF Whole
  <2> QED
    BY <1>2, <1>5, <1>6, CountInduction
<1>8. QED
  BY <1>3, <1>7
-----------------------------------------------------------------------------
LEMMA OverRows ==
  ASSUME NEW r \in RowMaps, NEW s \in RowMaps
  PROVE  Over(r, s) \in RowMaps
<1>1. PICK D \in SUBSET Ids : r \in [D -> Int]
  BY DEF RowMaps
<1>2. PICK E \in SUBSET Ids : s \in [E -> Int]
  BY DEF RowMaps
<1>3. Over(r, s) \in [D \cup E -> Int] /\ D \cup E \in SUBSET Ids
  BY <1>1, <1>2 DEF Over
<1>4. QED
  BY <1>3 DEF RowMaps

LEMMA RestrictedRows ==
  ASSUME NEW r \in RowMaps, NEW S
  PROVE  Without(r, S) \in RowMaps /\ (S \subseteq DOMAIN r => Restrict(r, S) \in RowMaps)
<1>1. PICK D \in SUBSET Ids : r \in [D -> Int]
  BY DEF RowMaps
<1>2. Without(r, S) \in [D \ S -> Int] /\ D \ S \in SUBSET Ids
  BY <1>1 DEF Without, Restrict
<1>3. ASSUME S \subseteq D PROVE Restrict(r, S) \in [S -> Int] /\ S \in SUBSET Ids
  BY <1>1, <1>3 DEF Restrict
<1>4. QED
  BY <1>1, <1>2, <1>3 DEF RowMaps

\* New rows, or the failure of a write, leave the flag of the store.
LEMMA RowsCohere ==
  ASSUME NEW w, NEW due, Coherent(w, due), NEW k \in Kinds, NEW rows \in RowMaps
  PROVE  /\ Coherent([w EXCEPT !.store[k].rows = rows], due)
         /\ Coherent([w EXCEPT !.store[k].failed = TRUE], due)
         /\ Coherent([w EXCEPT !.store[k].failed = FALSE], due)
<1>1. w \in Webs /\ w.store \in [Kinds -> Stores] /\ w.store[k] \in Stores
  BY DEF Coherent, Webs
<1>2. ASSUME NEW s \in Stores, s.loading = w.store[k].loading
      PROVE  Coherent([w EXCEPT !.store[k] = s], due)
  <2> DEFINE v == [w EXCEPT !.store[k] = s]
  <2>1. v \in Webs
    BY <1>1, <1>2 DEF Webs
  <2>2. /\ v.calls = w.calls
        /\ v.cached = w.cached /\ v.current = w.current /\ v.saving = w.saving
        /\ v.config = w.config /\ v.speed = w.speed /\ v.page = w.page
        /\ \A j \in Kinds : v.store[j].loading => w.store[j].loading
    BY <1>1, <1>2 DEF Webs
  <2> HIDE DEF v
  <2>3. Coherent(v, due)
    BY <2>1, <2>2, CalmCoheres DEF Calm
  <2> QED
    BY <2>3 DEF v
<1>3. /\ [w.store[k] EXCEPT !.rows = rows] \in Stores
      /\ [w.store[k] EXCEPT !.rows = rows].loading = w.store[k].loading
  BY <1>1 DEF Stores
<1>4. /\ [w.store[k] EXCEPT !.failed = TRUE] \in Stores
      /\ [w.store[k] EXCEPT !.failed = TRUE].loading = w.store[k].loading
  BY <1>1 DEF Stores
<1>5. /\ [w.store[k] EXCEPT !.failed = FALSE] \in Stores
      /\ [w.store[k] EXCEPT !.failed = FALSE].loading = w.store[k].loading
  BY <1>1 DEF Stores
<1>6. Coherent([w EXCEPT !.store[k] = [w.store[k] EXCEPT !.rows = rows]], due)
  BY <1>2, <1>3
<1>7. Coherent([w EXCEPT !.store[k] = [w.store[k] EXCEPT !.failed = TRUE]], due)
  BY <1>2, <1>4
<1>8. Coherent([w EXCEPT !.store[k] = [w.store[k] EXCEPT !.failed = FALSE]], due)
  BY <1>2, <1>5
<1>9. QED
  BY <1>6, <1>7, <1>8

LEMMA WrittenCoheres ==
  ASSUME NEW w, NEW c \in Calls, NEW answer, Coherent(w, "nothing"), c.op \in RowOps,
         answer = Failed \/ answer \in Answers(c)
  PROVE  /\ Coherent(Written(w, c, answer), "nothing")
         /\ Written(w, c, answer).active = w.active
<1>1. /\ c.kind \in Kinds /\ w \in Webs /\ w.store \in [Kinds -> Stores]
      /\ w.store[c.kind].rows \in RowMaps
  BY DEF Calls, RowOps, Coherent, Webs, Stores
<1>2. CASE answer = Failed
  <2>1. Written(w, c, answer) = [w EXCEPT !.store[c.kind].failed = TRUE]
    BY <1>2 DEF Written
  <2>2. [w EXCEPT !.store[c.kind].failed = TRUE].active = w.active
    BY <1>1 DEF Webs
  <2>3. w.store[c.kind].rows \in RowMaps /\ c.kind \in Kinds
    BY <1>1
  <2>4. Coherent([w EXCEPT !.store[c.kind].failed = TRUE], "nothing")
    BY <2>3, RowsCohere
  <2> QED
    BY <2>1, <2>2, <2>4
<1>3. CASE answer # Failed
  <2>1. PICK rows : rows = IF c.op = "create" THEN Appended(w, c, answer)
                           ELSE IF c.op = "remove" THEN Without(w.store[c.kind].rows, {c.id})
                           ELSE Patched(w, c, answer)
    OBVIOUS
  <2>2. c.op # "remove" => answer \in RowMaps
    BY <1>3 DEF Answers, RowOps
  <2>3. rows \in RowMaps
    <3>1. CASE c.op = "remove"
      BY <1>1, <2>1, <3>1, RestrictedRows
    <3>2. CASE c.op # "remove"
      BY <1>1, <2>1, <2>2, <3>2, OverRows DEF Appended, Patched
    <3> QED
      BY <3>1, <3>2
  <2>4. Written(w, c, answer) = [w EXCEPT !.store[c.kind].rows = rows]
    <3>1. CASE c.op = "create"
      BY <1>3, <2>1, <3>1 DEF Written
    <3>2. CASE c.op = "remove"
      BY <1>3, <2>1, <3>2 DEF Written
    <3>3. CASE c.op \notin {"create", "remove"}
      BY <1>3, <2>1, <3>3 DEF Written
    <3> QED
      BY <3>1, <3>2, <3>3
  <2>5. [w EXCEPT !.store[c.kind].rows = rows].active = w.active
    BY <1>1 DEF Webs
  <2>6. Coherent([w EXCEPT !.store[c.kind].rows = rows], "nothing")
    BY <1>1, <2>3, RowsCohere
  <2> QED
    BY <2>4, <2>5, <2>6
<1>4. QED
  BY <1>2, <1>3

LEMMA RowWrittenCoheres ==
  ASSUME NEW w, NEW c, NEW answer, Told(w, c, answer), c.op \in RowOps
  PROVE  Coherent(RowWritten(w, c, answer), "nothing")
<1>1. c \in Calls /\ Owes(w, c) /\ (answer = Failed \/ answer \in Answers(c))
  BY DEF Told
<1>2. /\ c.op \notin {"catalog", "list", "config"} \cup FarmOps \cup ConfigOps
      /\ Owed(c) = "nothing"
  BY DEF RowOps, FarmOps, ConfigOps, Owed, OfSpeed, SpeedOps
<1>3. Coherent(w, "nothing")
  BY <1>1, <1>2, NothingChanged
<1>4. PICK w1 : w1 = Written(w, c, answer)
  OBVIOUS
<1>5. Coherent(w1, "nothing") /\ w1.active = w.active /\ (w.active # None => w.active \in Farms)
  BY <1>1, <1>3, <1>4, WrittenCoheres, InFarms
<1>6. Sender(For("page")) /\ "harvests" \in Kinds
  BY PageSender DEF Senders, Kinds
<1>7. w.active # None => Coherent(Load(w1, "harvests", w.active, For("page")), "nothing")
  BY <1>5, <1>6, LoadCoheres
<1>8. QED
  BY <1>4, <1>5, <1>7 DEF RowWritten

LEMMA ConfigLoadedCoheres ==
  ASSUME NEW w, NEW c, NEW answer, Told(w, c, answer), c.op = "config", c.mounted
  PROVE  Coherent(ConfigLoaded(w, answer), "nothing")
<1>1. /\ w \in Webs /\ Owes(w, c) /\ w.config \in Configs
      /\ answer = Failed \/ answer \in Maybe(Inputs)
  BY DEF Told, Answers, Owes, Webs
<1> DEFINE s == [w.config EXCEPT !.loading = FALSE]
           w1 == [w EXCEPT !.config = s]
<1>2. s \in Configs /\ s.saving = w.config.saving /\ ~s.loading
  BY <1>1 DEF Configs
<1>3. w1 \in Webs
  BY <1>1, <1>2 DEF Webs
<1>4. /\ w1.calls = w.calls /\ w1.cached = w.cached /\ w1.current = w.current
      /\ w1.store = w.store /\ w1.config = s /\ w1.speed = w.speed
      /\ w1.page = w.page /\ w1.saving = w.saving
  BY <1>1 DEF Webs
<1>5. w1 = [w EXCEPT !.config.loading = FALSE]
  OBVIOUS
<1> HIDE DEF w1, s
<1>6. c.op \notin {"catalog", "list"} \cup FarmOps \cup ConfigOps /\ Owed(c) = "nothing"
  BY DEF FarmOps, ConfigOps, Owed, OfSpeed, SpeedOps
<1>7. Coherent(w1, "nothing")
  BY <1>1, <1>2, <1>3, <1>4, <1>6, FlagDown
<1>8. /\ Coherent(Applied(w1, Default, FALSE), "nothing")
      /\ answer \in Inputs => Coherent(Applied(w1, answer, TRUE), "nothing")
  BY <1>7, AppliedCoheres DEF Inputs
<1>9. answer \notin {Failed, None} => answer \in Inputs
  BY <1>1 DEF Maybe
<1>10. QED
  BY <1>5, <1>8, <1>9 DEF ConfigLoaded

LEMMA ConfigSavedCoheres ==
  ASSUME NEW w, NEW c, NEW answer, Told(w, c, answer), c.op \in ConfigOps, c.mounted
  PROVE  Coherent(ConfigSaved(w, c, answer), "nothing")
<1>1. /\ w \in Webs /\ Owes(w, c) /\ w.config \in Configs
      /\ answer = Failed \/ answer \in Answers(c)
  BY DEF Told, Owes, Webs
<1> DEFINE s == [w.config EXCEPT !.saving = FALSE]
           w1 == [w EXCEPT !.config = s]
<1>2. s \in Configs /\ s.loading = w.config.loading /\ ~s.saving
  BY <1>1 DEF Configs
<1>3. w1 \in Webs
  BY <1>1, <1>2 DEF Webs
<1>4. /\ w1.calls = w.calls /\ w1.cached = w.cached /\ w1.current = w.current
      /\ w1.store = w.store /\ w1.config = s /\ w1.speed = w.speed
      /\ w1.page = w.page /\ w1.saving = w.saving
  BY <1>1 DEF Webs
<1>5. w1 = [w EXCEPT !.config.saving = FALSE]
  OBVIOUS
<1> HIDE DEF w1, s
<1>6. c.op \notin {"catalog", "list", "config"} \cup FarmOps /\ Owed(c) = "nothing"
  BY DEF FarmOps, ConfigOps, Owed, OfSpeed, SpeedOps
<1>7. Coherent(w1, "nothing")
  BY <1>1, <1>2, <1>3, <1>4, <1>6, FlagDown
<1>8. c.op = "saveConfig" /\ answer # Failed => answer \in Inputs
  BY <1>1 DEF Answers
<1>9. /\ Coherent(Applied(w1, Default, FALSE), "nothing")
      /\ answer \in Inputs => Coherent(Applied(w1, answer, TRUE), "nothing")
  BY <1>7, AppliedCoheres DEF Inputs
<1>10. QED
  BY <1>5, <1>7, <1>8, <1>9 DEF ConfigSaved

LEMMA StateLoadedCoheres ==
  ASSUME NEW w, NEW c, NEW answer, Told(w, c, answer), c.op = "state"
  PROVE  Coherent(StateLoaded(w, answer), "nothing")
<1>1. /\ w \in Webs /\ Owes(w, c) /\ w.speed \in Speeds
      /\ answer = Failed \/ answer \in Maybe(Selections)
  BY DEF Told, Answers, Owes, Webs
<1>2. Coherent(w, Owed(c))
  BY <1>1, NothingChanged DEF FarmOps, ConfigOps
<1>3. PICK picks : picks = IF answer \in {Failed, None} THEN w.speed.picks
                           ELSE StillThere(w, answer)
  OBVIOUS
<1>4. picks \in Selections
  BY <1>1, <1>3 DEF Maybe, Selections, StillThere, Speeds
<1>5. StateLoaded(w, answer)
        = [w EXCEPT !.speed.hydrating = FALSE, !.speed.picks = picks]
  BY <1>3 DEF StateLoaded
<1>6. QED
  BY <1>2, <1>4, <1>5, Hydrated

LEMMA PersistCoheres ==
  ASSUME NEW w, NEW due, Coherent(w, due), NEW picks \in Selections
  PROVE  Coherent(Persist(w, picks), due)
<1>1. w.active # None => w.active \in Farms
  BY InFarms
<1> DEFINE r == Call(For("page"), "saveState", None, w.active, None, picks)
<1>2. ASSUME w.active # None PROVE r \in Calls /\ r.op = "saveState"
  BY <1>1, <1>2 DEF Call, For, Calls, Senders, Maybe, RowOps, FarmOps, ConfigOps
<1> HIDE DEF r
<1>3. w.active # None => Coherent(Send(w, r), due)
  BY <1>2, SendCoheres
<1>4. QED
  BY <1>3 DEF Persist, r
LEMMA EffectCoheres ==
  ASSUME NEW w, NEW c, NEW answer, Told(w, c, answer)
  PROVE  Coherent(Effect(w, c, answer), "nothing")
<1>1. c \in Calls /\ Owes(w, c) /\ w \in Webs /\ (answer = Failed \/ answer \in Answers(c))
  BY DEF Told, Owes
<1>2. CASE c.op \in {"farms", "settings"}
  BY <1>2, FarmsLoadedCoheres, SettingsLoadedCoheres DEF Effect
<1>3. CASE c.op \in FarmOps
  <2>1. /\ c.op = "pin" => Effect(w, c, answer) = Pinned(w, c, answer)
        /\ c.op = "createFarm" => Effect(w, c, answer) = FarmCreated(w, c, answer)
        /\ c.op = "updateFarm" => Effect(w, c, answer) = FarmUpdated(w, c, answer)
        /\ c.op = "deleteFarm" => Effect(w, c, answer) = FarmDeleted(w, c, answer)
    BY DEF Effect
  <2>2. c.op \in {"pin", "createFarm", "updateFarm", "deleteFarm"}
    BY <1>3 DEF FarmOps
  <2>3. c.op = "pin" => Coherent(Pinned(w, c, answer), "nothing")
    BY PinnedCoheres
  <2>4. c.op = "createFarm" => Coherent(FarmCreated(w, c, answer), "nothing")
    BY FarmCreatedCoheres
  <2>5. c.op = "updateFarm" => Coherent(FarmUpdated(w, c, answer), "nothing")
    BY FarmUpdatedCoheres
  <2>6. c.op = "deleteFarm" => Coherent(FarmDeleted(w, c, answer), "nothing")
    BY FarmDeletedCoheres
  <2> QED
    BY <2>1, <2>2, <2>3, <2>4, <2>5, <2>6
<1>4. CASE c.op \in {"list", "catalog"}
  BY <1>4, RowsLoadedCoheres, CatalogLoadedCoheres DEF Effect
<1>5. CASE c.op \in RowOps
  <2>1. Effect(w, c, answer) = RowWritten(w, c, answer)
    BY <1>5 DEF Effect, RowOps
  <2> QED
    BY <1>5, <2>1, RowWrittenCoheres
<1>6. CASE c.op = "config" /\ c.mounted
  BY <1>6, ConfigLoadedCoheres DEF Effect
<1>7. CASE c.op \in ConfigOps /\ c.mounted
  <2>1. Effect(w, c, answer) = ConfigSaved(w, c, answer)
    BY <1>7 DEF Effect, ConfigOps
  <2> QED
    BY <1>7, <2>1, ConfigSavedCoheres
<1>8. CASE c.op = "state" /\ c.mounted
  BY <1>8, StateLoadedCoheres DEF Effect
<1>9. CASE c.op = "timer"
  <2>1. Coherent(w, "nothing")
    <3>1. Coherent(w, Owed(c))
      BY <1>1, <1>9, NothingChanged DEF FarmOps, ConfigOps
    <3> QED
      BY <1>9, <3>1 DEF Owed, OfSpeed, SpeedOps
  <2>2. c.body \in Selections
    BY <1>1, <1>9 DEF Calls
  <2>3. Effect(w, c, answer) = Persist(w, c.body)
    BY <1>9 DEF Effect
  <2> QED
    BY <2>1, <2>2, <2>3, PersistCoheres
<1>10. CASE c.op = "saveState" \/ (c.op \in {"config", "state"} \cup ConfigOps /\ ~c.mounted)
  <2>1. Effect(w, c, answer) = w
    BY <1>10 DEF Effect, ConfigOps
  <2>2. Owed(c) = "nothing" /\ c.op \notin {"catalog", "list"} \cup FarmOps
    BY <1>10 DEF Owed, OfSpeed, SpeedOps, ConfigOps, FarmOps
  <2>3. ~(c.op = "config" /\ c.mounted) /\ ~(c.op \in ConfigOps /\ c.mounted)
    BY <1>10 DEF ConfigOps
  <2>4. Coherent(w, "nothing")
    BY <1>1, <2>2, <2>3, FlagDown
  <2> QED
    BY <2>1, <2>4
<1>11. c.op \in {"farms", "settings", "list", "catalog", "config", "state",
                 "saveState", "timer"} \cup RowOps \cup FarmOps \cup ConfigOps
       /\ c.mounted \in BOOLEAN
  BY <1>1 DEF Calls
<1>12. QED
  BY <1>2, <1>3, <1>4, <1>5, <1>6, <1>7, <1>8, <1>9, <1>10, <1>11

LEMMA SettleCoheres ==
  ASSUME NEW w, Coherent(w, "nothing")
  PROVE  Coherent(Settle(w), "nothing")
<1>1. w \in Webs
  BY DEF Coherent
<1>2. PICK b : b = (w.initializing /\ InFlight(w, LAMBDA c : c.for = "dashboard" /\ c.mounted))
  OBVIOUS
<1>3. b \in BOOLEAN
  BY <1>2 DEF InFlight
<1> DEFINE v == [w EXCEPT !.initializing = b]
<1>4. v \in Webs
  BY <1>1, <1>3 DEF Webs
<1>5. Calm(w, v)
  BY <1>1, <1>4 DEF Calm, Webs
<1>6. Settle(w) = v
  BY <1>2 DEF Settle
<1> HIDE DEF v
<1>7. QED
  BY <1>5, <1>6, CalmCoheres

LEMMA AfterCoheres ==
  ASSUME Coherent(web, "nothing"), NEW i \in Answerable, NEW answer,
         answer = Failed \/ answer \in Answers(web.calls[i])
  PROVE  Coherent(After(i, answer), "nothing")
<1>1. i \in DOMAIN web.calls /\ web.calls[i].kind # "wait" /\ web.calls[i] \in Calls
  BY DEF Answerable, Coherent, Webs
<1>2. PICK w : w = [web EXCEPT !.calls = RemoveAt(@, i)]
  OBVIOUS
<1>3. Owes(w, web.calls[i])
  BY <1>1, <1>2, TakenOut
<1>4. PICK v : v = Effect(w, web.calls[i], answer)
  OBVIOUS
<1>5. Coherent(v, "nothing")
  BY <1>1, <1>3, <1>4, EffectCoheres DEF Told
<1>6. After(i, answer) = Settle(v)
  BY <1>2, <1>4 DEF After
<1>7. QED
  BY <1>5, <1>6, SettleCoheres
-----------------------------------------------------------------------------
(* The API.                                                                  *)
LEMMA FreeFarmsAreFarms ==
  ASSUME NEW s, FreeFarms(s) # {}
  PROVE  Min(FreeFarms(s)) \in FreeFarms(s) /\ Min(FreeFarms(s)) \in Farms
<1>1. FreeFarms(s) \subseteq Farms /\ FreeFarms(s) \subseteq Nat
  BY FarmsAssumption DEF FreeFarms
<1> QED
  BY <1>1, MinIn

LEMMA NewRowIsARow ==
  ASSUME NEW s, NEW c, FreeIds(s, c.kind, c.farm) # {}
  PROVE  /\ NewRow(s, c) \in RowMaps
         /\ \E id \in FreeIds(s, c.kind, c.farm) : NewRow(s, c) = Single(id, 0)
<1>1. PICK id \in FreeIds(s, c.kind, c.farm) : NewRow(s, c) = Single(id, 0)
  BY DEF NewRow
<1>2. id \in Ids
  BY DEF FreeIds
<1>3. Single(id, 0) \in [{id} -> Int] /\ {id} \in SUBSET Ids
  BY <1>2 DEF Single
<1> QED
  BY <1>1, <1>3 DEF RowMaps

LEMMA RowsOfAreRows ==
  ASSUME NEW s \in Servers, NEW k \in Kinds, NEW f
  PROVE  RowsOf(s, k, f) \in RowMaps /\ DOMAIN RowsOf(s, k, f) \subseteq DOMAIN s.rows[k]
<1>1. s.rows[k] \in RowMaps
  BY DEF Servers
<1>2. {id \in DOMAIN s.rows[k] : OwnerOf[id] = f} \subseteq DOMAIN s.rows[k]
  OBVIOUS
<1>3. DOMAIN RowsOf(s, k, f) = {id \in DOMAIN s.rows[k] : OwnerOf[id] = f}
  BY DEF RowsOf, Restrict
<1> QED
  BY <1>1, <1>2, <1>3, RestrictedRows DEF RowsOf

LEMMA Changed ==
  ASSUME NEW r \in RowMaps, NEW id \in DOMAIN r
  PROVE  LET n == [r EXCEPT ![id] = 1 - @] IN
         n \in RowMaps /\ DOMAIN n = DOMAIN r /\ n[id] \in Int
<1>1. PICK D \in SUBSET Ids : r \in [D -> Int]
  BY DEF RowMaps
<1>2. [r EXCEPT ![id] = 1 - @] \in [D -> Int]
  BY <1>1
<1> QED
  BY <1>1, <1>2 DEF RowMaps

LEMMA CarriedOutTyped ==
  ASSUME NEW s \in Servers, NEW c \in Calls
  PROVE  CarriedOut(s, c) \in Servers
<1>1. CASE Refused(s, c)
  BY <1>1 DEF CarriedOut
<1>2. CASE ~Refused(s, c)
  <2>0. /\ s.farms \in FarmMaps /\ s.rows \in [Kinds -> RowMaps]
        /\ s.configs \in [Farms -> Maybe(Inputs)]
        /\ s.picks \in [Farms -> Maybe(Selections)] /\ s.pin \in Maybe(Farms)
        /\ s.gone \in SUBSET ((Kinds \X Ids) \cup ({"farm"} \X Farms))
    BY DEF Servers
  <2>1. CASE c.op = "createFarm"
    <3>1. CarriedOut(s, c) = [s EXCEPT !.farms = Over(Single(Min(FreeFarms(s)), c.body), s.farms)]
      BY <1>2, <2>1 DEF CarriedOut
    <3>2. FreeFarms(s) # {} /\ c.body \in Versions
      BY <1>2, <2>1 DEF Refused, Calls
    <3>3. Over(Single(Min(FreeFarms(s)), c.body), s.farms) \in FarmMaps
      BY <2>0, <3>2, FreeFarmsAreFarms, OverFarms
    <3> QED
      BY <3>1, <3>3 DEF Servers
  <2>2. CASE c.op = "updateFarm"
    <3>1. c.farm \in DOMAIN s.farms /\ c.body \in Versions
      BY <1>2, <2>2 DEF Refused, Calls
    <3>2. [s.farms EXCEPT ![c.farm] = c.body] \in FarmMaps
      <4>1. PICK D \in SUBSET Farms : s.farms \in [D -> Versions]
        BY <2>0 DEF FarmMaps
      <4>2. [s.farms EXCEPT ![c.farm] = c.body] \in [D -> Versions]
        BY <3>1, <4>1
      <4> QED
        BY <4>2 DEF FarmMaps
    <3>3. CarriedOut(s, c) = [s EXCEPT !.farms = [s.farms EXCEPT ![c.farm] = c.body]]
      BY <1>2, <2>2 DEF CarriedOut
    <3> QED
      BY <3>2, <3>3 DEF Servers
  <2>3. CASE c.op = "deleteFarm"
    <3> DEFINE n == [farms |-> Without(s.farms, {c.farm}),
                     pin |-> IF s.pin = c.farm THEN None ELSE s.pin,
                     rows |-> [k \in Kinds |-> Without(s.rows[k], DOMAIN RowsOf(s, k, c.farm))],
                     gone |-> s.gone \cup {<<"farm", c.farm>>},
                     configs |-> [s.configs EXCEPT ![c.farm] = None],
                     picks |-> [s.picks EXCEPT ![c.farm] = None]]
    <3>1. CarriedOut(s, c) = n
      BY <1>2, <2>3 DEF CarriedOut
    <3>2. c.farm \in Farms
      BY <2>3 DEF Calls
    <3>3. n.farms \in FarmMaps
      BY <2>0, WithoutFarms
    <3>4. n.rows \in [Kinds -> RowMaps]
      BY <2>0, RestrictedRows
    <3>5. n.gone \in SUBSET ((Kinds \X Ids) \cup ({"farm"} \X Farms))
      BY <2>0, <3>2
    <3>6. n.configs \in [Farms -> Maybe(Inputs)] /\ n.picks \in [Farms -> Maybe(Selections)]
      BY <2>0 DEF Maybe
    <3>7. n.pin \in Maybe(Farms)
      BY <2>0 DEF Maybe
    <3>8. n \in [farms : {n.farms}, pin : {n.pin}, rows : {n.rows}, gone : {n.gone},
                 configs : {n.configs}, picks : {n.picks}]
      OBVIOUS
    <3> HIDE DEF n
    <3> QED
      BY <3>1, <3>3, <3>4, <3>5, <3>6, <3>7, <3>8 DEF Servers
  <2>4. CASE c.op = "pin"
    <3>1. CarriedOut(s, c) = [s EXCEPT !.pin = c.farm]
      BY <1>2, <2>4 DEF CarriedOut
    <3>2. c.farm \in Maybe(Farms)
      BY DEF Calls
    <3> QED
      BY <3>1, <3>2 DEF Servers
  <2>5. CASE c.op = "create"
    <3>1. c.kind \in Kinds /\ FreeIds(s, c.kind, c.farm) # {}
      BY <1>2, <2>5 DEF Refused, Calls, RowOps
    <3>2. Over(NewRow(s, c), s.rows[c.kind]) \in RowMaps
      BY <2>0, <3>1, NewRowIsARow, OverRows
    <3>3. CarriedOut(s, c) = [s EXCEPT !.rows[c.kind] = Over(NewRow(s, c), s.rows[c.kind])]
      BY <1>2, <2>5 DEF CarriedOut
    <3>4. [s.rows EXCEPT ![c.kind] = Over(NewRow(s, c), s.rows[c.kind])] \in [Kinds -> RowMaps]
      BY <2>0, <3>1, <3>2
    <3> QED
      BY <3>3, <3>4 DEF Servers
  <2>6. CASE c.op \in {"update", "remove", "harvest"}
    <3>1. /\ c.kind \in Kinds /\ c.id \in Ids
          /\ c.id \in DOMAIN s.rows[c.kind]
      <4>1. c.kind \in Kinds /\ c.id \in Ids
        BY <2>6 DEF Calls, RowOps
      <4>2. c.id \in DOMAIN RowsOf(s, c.kind, c.farm)
        BY <1>2, <2>6 DEF Refused
      <4> QED
        BY <4>1, <4>2, RowsOfAreRows
    <3>2. [s.rows[c.kind] EXCEPT ![c.id] = 1 - @] \in RowMaps
      BY <2>0, <3>1, Changed
    <3>3. CASE c.op = "update"
      <4>1. CarriedOut(s, c)
              = [s EXCEPT !.rows = [s.rows EXCEPT ![c.kind] = [s.rows[c.kind] EXCEPT ![c.id] = 1 - @]]]
        BY <1>2, <3>3 DEF CarriedOut
      <4>2. [s.rows EXCEPT ![c.kind] = [s.rows[c.kind] EXCEPT ![c.id] = 1 - @]] \in [Kinds -> RowMaps]
        BY <2>0, <3>1, <3>2
      <4> QED
        BY <4>1, <4>2 DEF Servers
    <3>4. CASE c.op = "remove"
      <4>1. CarriedOut(s, c)
              = [s EXCEPT !.rows = [s.rows EXCEPT ![c.kind] = Without(s.rows[c.kind], {c.id})],
                          !.gone = s.gone \cup {<<c.kind, c.id>>}]
        BY <1>2, <3>4 DEF CarriedOut
      <4>2. [s.rows EXCEPT ![c.kind] = Without(s.rows[c.kind], {c.id})] \in [Kinds -> RowMaps]
        BY <2>0, <3>1, RestrictedRows
      <4>3. s.gone \cup {<<c.kind, c.id>>} \in SUBSET ((Kinds \X Ids) \cup ({"farm"} \X Farms))
        BY <2>0, <3>1
      <4> QED
        BY <4>1, <4>2, <4>3 DEF Servers
    <3>5. CASE c.op = "harvest"
      <4>1. c.kind = "fields"
        BY <3>5 DEF Calls
      <4>2. PICK d : d = [c EXCEPT !.kind = "harvests"]
        OBVIOUS
      <4>3. d.kind = "harvests" /\ d.farm = c.farm
        BY <4>2 DEF Calls
      <4>4. PICK hs : hs = IF FreeIds(s, "harvests", c.farm) = {} THEN s.rows["harvests"]
                           ELSE Over(NewRow(s, d), s.rows["harvests"])
        OBVIOUS
      <4>5. hs \in RowMaps
        BY <2>0, <4>3, <4>4, NewRowIsARow, OverRows DEF Kinds
      <4> DEFINE r1 == [s.rows EXCEPT !["fields"] = [s.rows["fields"] EXCEPT ![c.id] = 1 - @]]
                 r2 == [r1 EXCEPT !["harvests"] = hs]
      <4>6. r1 \in [Kinds -> RowMaps] /\ r1["harvests"] = s.rows["harvests"]
        BY <2>0, <3>1, <3>2, <4>1 DEF Kinds
      <4>7. r2 \in [Kinds -> RowMaps]
        BY <4>5, <4>6 DEF Kinds
      <4>8. CarriedOut(s, c) = [s EXCEPT !.rows = r2]
        BY <1>2, <2>0, <3>5, <4>2, <4>4, <4>6 DEF CarriedOut, Servers
      <4> QED
        BY <4>7, <4>8 DEF Servers
    <3> QED
      BY <2>6, <3>3, <3>4, <3>5
  <2>7. CASE c.op \in {"saveConfig", "dropConfig"}
    <3>1. CarriedOut(s, c) = [s EXCEPT !.configs = [s.configs EXCEPT ![c.farm] = c.body]]
      BY <1>2, <2>7 DEF CarriedOut
    <3>2. c.body \in Maybe(Inputs)
      BY <2>7 DEF Calls, Maybe
    <3>3. [s.configs EXCEPT ![c.farm] = c.body] \in [Farms -> Maybe(Inputs)]
      BY <2>0, <3>2
    <3> QED
      BY <3>1, <3>3 DEF Servers
  <2>8. CASE c.op = "saveState"
    <3>1. CarriedOut(s, c) = [s EXCEPT !.picks = [s.picks EXCEPT ![c.farm] = c.body]]
      BY <1>2, <2>8 DEF CarriedOut
    <3>2. c.body \in Maybe(Selections)
      BY <2>8 DEF Calls, Maybe
    <3>3. [s.picks EXCEPT ![c.farm] = c.body] \in [Farms -> Maybe(Selections)]
      BY <2>0, <3>2
    <3> QED
      BY <3>1, <3>3 DEF Servers
  <2>9. CASE c.op \in {"farms", "settings", "list", "catalog", "config", "state", "timer"}
    <3>1. CarriedOut(s, c) = s
      BY <1>2, <2>9 DEF CarriedOut
    <3> QED
      BY <3>1
  <2>10. c.op \in {"farms", "settings", "list", "catalog", "config", "state", "saveState", "timer",
                   "create", "update", "remove", "harvest", "pin", "createFarm", "updateFarm",
                   "deleteFarm", "saveConfig", "dropConfig"}
    BY DEF Calls, RowOps, FarmOps, ConfigOps
  <2> QED
    BY <2>1, <2>2, <2>3, <2>4, <2>5, <2>6, <2>7, <2>8, <2>9, <2>10
<1>3. QED
  BY <1>1, <1>2

LEMMA AnsweredTyped ==
  ASSUME NEW s \in Servers, NEW c \in Calls
  PROVE  IF Refused(s, c) THEN Answered(s, c) = Failed ELSE Answered(s, c) \in Answers(c)
<1>1. CASE Refused(s, c)
  BY <1>1 DEF Answered
<1>2. CASE ~Refused(s, c)
  <2>1. CASE c.op \in {"farms", "settings", "pin"}
    BY <1>2, <2>1 DEF Answered, Answers, Servers, Calls
  <2>2. CASE c.op = "createFarm"
    <3>1. FreeFarms(s) # {}
      BY <1>2, <2>2 DEF Refused
    <3> QED
      BY <1>2, <2>2, <3>1, FreeFarmsAreFarms DEF Answered, Answers
  <2>3. CASE c.op = "list"
    <3>1. c.kind \in Kinds
      BY <2>3 DEF Calls
    <3> QED
      BY <1>2, <2>3, <3>1, RowsOfAreRows DEF Answered, Answers
  <2>4. CASE c.op = "create"
    <3>1. FreeIds(s, c.kind, c.farm) # {}
      BY <1>2, <2>4 DEF Refused
    <3> QED
      BY <1>2, <2>4, <3>1, NewRowIsARow DEF Answered, Answers
  <2>5. CASE c.op \in {"update", "harvest"}
    <3>1. /\ c.kind \in Kinds /\ c.id \in Ids
          /\ c.id \in DOMAIN s.rows[c.kind] /\ s.rows \in [Kinds -> RowMaps]
      <4>1. c.kind \in Kinds /\ c.id \in Ids
        BY <2>5 DEF Calls, RowOps
      <4>2. c.id \in DOMAIN RowsOf(s, c.kind, c.farm)
        BY <1>2, <2>5 DEF Refused
      <4> QED
        BY <4>1, <4>2, RowsOfAreRows DEF Servers
    <3>2. CarriedOut(s, c).rows[c.kind] = [s.rows[c.kind] EXCEPT ![c.id] = 1 - @]
      <4>1. CASE c.op = "update"
        BY <1>2, <3>1, <4>1 DEF CarriedOut, Servers
      <4>2. CASE c.op = "harvest"
        <5>1. c.kind = "fields"
          BY <4>2 DEF Calls
        <5> QED
          BY <1>2, <3>1, <4>2, <5>1 DEF CarriedOut, Servers
      <4> QED
        BY <2>5, <4>1, <4>2
    <3>3. CarriedOut(s, c).rows[c.kind][c.id] \in Int
      BY <3>1, <3>2, Changed
    <3>4. Single(c.id, CarriedOut(s, c).rows[c.kind][c.id]) \in [{c.id} -> Int]
      BY <3>3 DEF Single
    <3>5. Single(c.id, CarriedOut(s, c).rows[c.kind][c.id]) \in RowMaps
      BY <3>1, <3>4 DEF RowMaps
    <3> QED
      BY <1>2, <2>5, <3>5 DEF Answered, Answers
  <2>6. CASE c.op \in {"config", "state"}
    <3>1. c.op = "config" => c.farm \in Farms
      BY DEF Calls
    <3>2. c.op = "state" => c.farm \in Farms
      <4>1. c.op = "state" => c.farm \in DOMAIN s.farms
        BY <1>2 DEF Refused
      <4> QED
        BY <4>1 DEF Servers, FarmMaps
    <3>3. s.configs \in [Farms -> Maybe(Inputs)] /\ s.picks \in [Farms -> Maybe(Selections)]
      BY DEF Servers
    <3> QED
      BY <1>2, <2>6, <3>1, <3>2, <3>3 DEF Answered, Answers
  <2>7. CASE c.op = "saveConfig"
    BY <1>2, <2>7 DEF Answered, Answers, Calls
  <2>8. CASE c.op \in {"catalog", "saveState", "timer", "remove", "updateFarm", "deleteFarm", "dropConfig"}
    BY <1>2, <2>8 DEF Answered, Answers
  <2>9. c.op \in {"farms", "settings", "list", "catalog", "config", "state", "saveState", "timer",
                  "create", "update", "remove", "harvest", "pin", "createFarm", "updateFarm",
                  "deleteFarm", "saveConfig", "dropConfig"}
    BY DEF Calls, RowOps, FarmOps, ConfigOps
  <2> QED
    BY <2>1, <2>2, <2>3, <2>4, <2>5, <2>6, <2>7, <2>8, <2>9
<1>3. QED
  BY <1>1, <1>2
-----------------------------------------------------------------------------
(* The user.                                                                 *)
Fresh(w, page) ==
  [w EXCEPT !.page = page, !.initializing = (page = "dashboard"),
            !.config = NewConfig, !.speed = NewSpeed]

LEMMA NewParts == NewConfig \in Configs /\ NewSpeed \in Speeds
BY DEF NewConfig, NewSpeed, Configs, Speeds, Inputs, Selections, Maybe

LEMMA MountedCoheres ==
  ASSUME NEW w, NEW page \in Pages, Coherent(Fresh(w, page), "speed"),
         Fresh(w, page).page = page
  PROVE  Coherent(Mounted(w, page), "nothing")
<1>1. PICK w1 : w1 = Fresh(w, page)
  OBVIOUS
<1>2. PICK c : c = For(page)
  OBVIOUS
<1>3. Coherent(w1, "speed") /\ (page # "speed" => Coherent(w1, "nothing"))
  BY <1>1 DEF Coherent, SpeedFlag
<1>4. c.for = page /\ c.mounted = TRUE
  BY <1>2 DEF For
<1>5. w1.active # None => w1.active \in Farms
  BY <1>3, InFarms
<1>6. CASE page \in {"stables", "machinery"}
  <2>1. Mounted(w, page) = Reload(w1, page)
    BY <1>1, <1>6 DEF Mounted, Fresh, Bootstrapping
  <2> QED
    BY <1>3, <1>6, <2>1, ReloadCoheres DEF Kinds
<1>7. CASE page = "production"
  <2>1. Mounted(w, page) = IF w1.active = None THEN w1 ELSE LoadProduction(w1)
    BY <1>1, <1>7 DEF Mounted, Fresh, Bootstrapping
  <2> QED
    BY <1>3, <1>5, <1>7, <2>1, ProductionCoheres
<1>8. CASE page \in Bootstrapping
  <2>1. Mounted(w, page) \in {LoadFarms(w1, c), EnsureActive(w1, c), Bootstrapped(w1, c)}
    BY <1>1, <1>2, <1>8 DEF Mounted, Fresh, Bootstrapping
  <2>2. \E due : Coherent(w1, due) /\ Settles(c, due)
    <3>1. CASE page = "speed"
      BY <1>3, <1>4, <3>1 DEF Settles
    <3>2. CASE page # "speed"
      BY <1>3, <3>2 DEF Settles
    <3> QED
      BY <3>1, <3>2
  <2>3. c.for \in Bootstrapping /\ c.mounted \in BOOLEAN
    BY <1>4, <1>8
  <2> QED
    BY <2>1, <2>2, <2>3, LoadFarmsCoheres, BootstrapCoheres
<1>9. QED
  BY <1>6, <1>7, <1>8, PagesAssumption DEF Bootstrapping

LEMMA NewTabCoheres ==
  ASSUME NEW page \in Pages
  PROVE  Coherent(Fresh(NewTab, page), "speed") /\ Fresh(NewTab, page).page = page
<1> DEFINE v == Fresh(NewTab, page)
<1>1. Nothing \in FarmMaps /\ Nothing \in RowMaps
  BY DEF Nothing, FarmMaps, RowMaps
<1>2. EmptyStore \in Stores /\ EmptyStore.loading = FALSE
  BY <1>1 DEF EmptyStore, Stores, Maybe
<1>3. PICK store \in [Kinds -> Stores] :
        store = [k \in Kinds |-> EmptyStore] /\ \A k \in Kinds : ~store[k].loading
  <2> DEFINE store == [k \in Kinds |-> EmptyStore]
  <2>1. store \in [Kinds -> Stores]
    BY <1>2
  <2>2. \A k \in Kinds : store[k] = EmptyStore
    OBVIOUS
  <2> HIDE DEF store
  <2>3. \A k \in Kinds : ~store[k].loading
    BY <1>2, <2>2
  <2> QED
    BY <2>1, <2>3 DEF store
<1>4. NewTab = [farms |-> Nothing, active |-> None, saving |-> FALSE, cached |-> {},
                current |-> None, store |-> store, page |-> None,
                initializing |-> FALSE, config |-> NewConfig,
                speed |-> NewSpeed, calls |-> <<>>]
  BY <1>3 DEF NewTab
<1>5. NewTab \in [farms : FarmMaps, active : Maybe(Farms), saving : BOOLEAN,
                  cached : SUBSET Keys, current : Maybe(Keys),
                  store : [Kinds -> Stores], page : {None}, initializing : BOOLEAN,
                  config : Configs, speed : Speeds, calls : Seq(Calls)]
  BY <1>1, <1>4, NewParts DEF Maybe
<1>6. v \in Webs
  BY <1>5, NewParts DEF Fresh, Webs
<1>7. /\ NewTab.calls = <<>> /\ ~NewTab.saving /\ NewTab.current = None
      /\ NewTab.store = store
  BY <1>4
<1>8. /\ v.calls = <<>> /\ ~v.saving /\ v.config = NewConfig
      /\ v.current = None /\ v.page = page /\ v.store = store
  BY <1>5, <1>7 DEF Fresh
<1>9. ~NewConfig.loading /\ ~NewConfig.saving
  BY DEF NewConfig
<1> HIDE DEF v
<1>10. Flags(v) /\ Fetches(v)
  BY <1>3, <1>8, <1>9 DEF Flags, Fetches
<1>11. QED
  BY <1>6, <1>8, <1>10 DEF Coherent, v

LEMMA UnseenCall ==
  ASSUME NEW c \in Calls
  PROVE  LET d == [c EXCEPT !.mounted = FALSE] IN
         d \in Calls /\ d.op = c.op /\ d.kind = c.kind /\ d.body = c.body
<1> DEFINE d == [c EXCEPT !.mounted = FALSE]
<1> DEFINE R == [op : {c.op}, for : {c.for}, mounted : BOOLEAN, kind : {c.kind},
                 farm : {c.farm}, id : {c.id}, body : {c.body}]
<1>0. c \in R
  BY DEF Calls
<1>1. d \in R
  BY <1>0
<1> HIDE DEF d
<1>2. d \in Calls
  <2>1. /\ d.op = c.op /\ d.kind = c.kind /\ d.body = c.body /\ d.for = c.for
        /\ d.farm = c.farm /\ d.id = c.id
    BY <1>1
  <2> QED
    BY <1>1, <2>1 DEF Calls
<1> QED
  BY <1>1, <1>2 DEF d

\* Whoever leaves a page is still answered, with no one to see it.
LEMMA LeftCoheres ==
  ASSUME NEW w, Coherent(w, "nothing"), NEW page \in Pages
  PROVE  Coherent(Fresh(Left(w), page), "speed") /\ Fresh(Left(w), page).page = page
<1> DEFINE late == Call(For("page"), "timer", None, None, None, w.speed.picks)
           calls == IF w.speed.timer THEN Append(w.calls, late) ELSE w.calls
           unseen == [i \in DOMAIN calls |-> [calls[i] EXCEPT !.mounted = FALSE]]
           v == [w EXCEPT !.page = page, !.initializing = (page = "dashboard"),
                          !.config = NewConfig, !.speed = NewSpeed, !.calls = unseen]
<1>1. /\ w \in Webs /\ w.calls \in Seq(Calls) /\ w.speed \in Speeds
      /\ w.speed.picks \in Selections
  BY DEF Coherent, Webs, Speeds
<1>2. late \in Calls /\ late.op = "timer"
  BY <1>1 DEF Call, For, Calls, Senders, Maybe, RowOps, FarmOps, ConfigOps
<1>3. calls \in Seq(Calls)
  <2> HIDE DEF late
  <2> QED
    BY <1>1, <1>2
<1>4. /\ DOMAIN w.calls \subseteq DOMAIN calls
      /\ \A i \in DOMAIN w.calls : calls[i] = w.calls[i]
      /\ \A i \in DOMAIN calls \ DOMAIN w.calls : calls[i].op = "timer"
  <2> HIDE DEF late
  <2> QED
    BY <1>1, <1>2
<1> HIDE DEF late, calls
<1>5. \A i \in DOMAIN calls :
        /\ unseen[i] \in Calls
        /\ unseen[i].op = calls[i].op /\ unseen[i].kind = calls[i].kind
        /\ unseen[i].body = calls[i].body
  <2> TAKE i \in DOMAIN calls
  <2>1. calls[i] \in Calls
    BY <1>3
  <2> QED
    BY <2>1, UnseenCall
<1>6. unseen \in Seq(Calls) /\ DOMAIN unseen = DOMAIN calls
  <2>1. DOMAIN calls = 1..Len(calls) /\ Len(calls) \in Nat
    BY <1>3
  <2>2. unseen \in [1..Len(calls) -> Calls]
    BY <1>5, <2>1
  <2> QED
    BY <2>1, <2>2, SeqDef
<1> HIDE DEF unseen
<1>7. v = Fresh(Left(w), page)
  BY <1>1 DEF Fresh, Left, unseen, calls, late, Webs
<1>8. v \in Webs
  BY <1>1, <1>6, NewParts DEF Webs
<1>9. /\ v.calls = unseen /\ v.cached = w.cached /\ v.current = w.current
      /\ v.saving = w.saving /\ v.store = w.store /\ v.config = NewConfig
      /\ v.page = page
  BY <1>1 DEF Webs
<1> HIDE DEF v
<1>10. \A i \in DOMAIN w.calls :
         /\ i \in DOMAIN v.calls /\ v.calls[i].op = w.calls[i].op
         /\ v.calls[i].kind = w.calls[i].kind /\ v.calls[i].body = w.calls[i].body
  BY <1>4, <1>5, <1>6, <1>9
<1>11. \A i \in DOMAIN v.calls : v.calls[i].op # "timer" => i \in DOMAIN w.calls
  BY <1>4, <1>5, <1>6, <1>9
<1>12. Flags(w) /\ Fetches(w)
  BY DEF Coherent
<1>13. Flags(v)
  <2>1. ASSUME NEW k \in Kinds, v.store[k].loading PROVE Loads(v, k)
    BY <1>9, <1>10, <1>12, <2>1 DEF Flags, Loads
  <2>2. v.saving => Saves(v)
    BY <1>9, <1>10, <1>12 DEF Flags, Saves
  <2>3. ~v.config.loading /\ ~v.config.saving
    BY <1>9 DEF NewConfig
  <2> QED
    BY <2>1, <2>2, <2>3 DEF Flags
<1>14. Fetches(v)
  <2>1. \A i \in DOMAIN v.calls : \A x : Asks(v, i, x) =>
          i \in DOMAIN w.calls /\ Asks(w, i, x) /\ v.calls[i].body = w.calls[i].body
    BY <1>10, <1>11 DEF Asks
  <2>2. \A i \in DOMAIN w.calls : \A x : Asks(w, i, x) => i \in DOMAIN v.calls /\ Asks(v, i, x)
    BY <1>10 DEF Asks
  <2>3. \A i, j \in DOMAIN v.calls :
          Asks(v, i, "fetch") /\ Asks(v, j, "fetch") /\ v.calls[i].body = v.calls[j].body
            => i = j
    BY <1>12, <2>1 DEF Fetches
  <2>4. \A i \in DOMAIN v.calls : Asks(v, i, "fetch") => v.calls[i].body \notin v.cached
    BY <1>9, <1>12, <2>1 DEF Fetches
  <2>5. ASSUME NEW i \in DOMAIN v.calls, Asks(v, i, "wait")
        PROVE  \E j \in DOMAIN v.calls :
                 Asks(v, j, "fetch") /\ v.calls[j].body = v.calls[i].body
    <3>1. PICK j \in DOMAIN w.calls : Asks(w, j, "fetch") /\ w.calls[j].body = w.calls[i].body
      BY <1>12, <2>1, <2>5 DEF Fetches
    <3> QED
      BY <1>10, <2>1, <2>2, <2>5, <3>1
  <2>6. v.current # None => v.current \in v.cached
    BY <1>9, <1>12 DEF Fetches
  <2> QED
    BY <2>3, <2>4, <2>5, <2>6 DEF Fetches
<1>15. QED
  BY <1>7, <1>8, <1>9, <1>13, <1>14 DEF Coherent
-----------------------------------------------------------------------------
(* What the user asks for.                                                   *)
LEMMA CreateCoheres ==
  ASSUME NEW w, Coherent(w, "nothing"), NEW v \in Versions, NEW c, Sender(c)
  PROVE  Coherent(CreateFarm(w, v, c), "nothing")
<1> DEFINE r == Call(c, "createFarm", None, None, None, v)
<1>1. r \in Calls /\ r.op \in FarmOps
  BY DEF Call, Calls, Sender, Maybe, RowOps, FarmOps, ConfigOps, Keys
<1> HIDE DEF r
<1>2. Coherent(Send([w EXCEPT !.saving = TRUE], r), "nothing")
  BY <1>1, SavingCoheres
<1> QED
  BY <1>2 DEF CreateFarm, r

LEMMA UpdateCoheres ==
  ASSUME NEW w, Coherent(w, "nothing"), NEW f \in Farms, NEW v \in Versions, NEW c, Sender(c)
  PROVE  Coherent(UpdateFarm(w, f, v, c), "nothing")
<1> DEFINE r == Call(c, "updateFarm", None, f, None, v)
<1>1. r \in Calls /\ r.op \in FarmOps
  BY DEF Call, Calls, Sender, Maybe, RowOps, FarmOps, ConfigOps, Keys
<1> HIDE DEF r
<1>2. Coherent(Send([w EXCEPT !.saving = TRUE], r), "nothing")
  BY <1>1, SavingCoheres
<1> QED
  BY <1>2 DEF UpdateFarm, r

LEMMA DeleteCoheres ==
  ASSUME NEW w, Coherent(w, "nothing"), NEW f \in Farms, NEW c, Sender(c)
  PROVE  Coherent(DeleteFarm(w, f, c), "nothing")
<1> DEFINE r == Call(c, "deleteFarm", None, f, None, None)
<1>1. r \in Calls /\ r.op \in FarmOps
  BY DEF Call, Calls, Sender, Maybe, RowOps, FarmOps, ConfigOps, Keys
<1> HIDE DEF r
<1>2. Coherent(Send([w EXCEPT !.saving = TRUE], r), "nothing")
  BY <1>1, SavingCoheres
<1> QED
  BY <1>2 DEF DeleteFarm, r

LEMMA WriteCoheres ==
  ASSUME NEW w, Coherent(w, "nothing"), NEW k \in Kinds, w.active \in Farms,
         NEW op \in RowOps, NEW id \in Maybe(Ids), op # "create" => id \in Ids,
         op = "harvest" => k = "fields"
  PROVE  Coherent(Write(w, op, k, id), "nothing")
<1> DEFINE r == Call(For("page"), op, k, w.active, id, None)
<1>1. r \in Calls /\ r.op \in RowOps
  BY DEF Call, For, Calls, Senders, Maybe, RowOps, FarmOps, ConfigOps
<1>2. r.op # "catalog"
  BY <1>1 DEF RowOps
<1> HIDE DEF r
<1>3. PICK w1 : w1 = [w EXCEPT !.store[k].failed = FALSE]
  OBVIOUS
<1>4. w.store[k].rows \in RowMaps
  BY DEF Coherent, Webs, Stores
<1>5. Coherent(w1, "nothing")
  BY <1>3, <1>4, RowsCohere
<1>6. Coherent(Send(w1, r), "nothing")
  BY <1>1, <1>2, <1>5, SendCoheres
<1> QED
  BY <1>3, <1>6 DEF Write, r

LEMMA ConfigChanged ==
  ASSUME NEW w, Coherent(w, "nothing"), NEW s \in Configs,
         s.loading = w.config.loading, s.saving = w.config.saving
  PROVE  Coherent([w EXCEPT !.config = s], "nothing")
<1> DEFINE v == [w EXCEPT !.config = s]
<1>1. w \in Webs
  BY DEF Coherent
<1>2. v \in Webs
  BY <1>1 DEF Webs
<1>3. Calm(w, v)
  BY <1>1, <1>2 DEF Calm, Webs
<1> QED
  BY <1>3, CalmCoheres

LEMMA ConfigSentCoheres ==
  ASSUME NEW w, Coherent(w, "nothing"), NEW r \in Calls, r.op \in ConfigOps, r.mounted
  PROVE  Coherent(Send([w EXCEPT !.config.saving = TRUE], r), "nothing")
<1> DEFINE s == [w.config EXCEPT !.saving = TRUE]
           w1 == [w EXCEPT !.config = s]
           v == Send(w1, r)
<1>1. w \in Webs /\ w.config \in Configs
  BY DEF Coherent, Webs
<1>2. s \in Configs /\ s.loading = w.config.loading
  BY <1>1 DEF Configs
<1>3. w1 \in Webs
  BY <1>1, <1>2 DEF Webs
<1>4. /\ w1.calls = w.calls
      /\ w1.cached = w.cached /\ w1.current = w.current /\ w1.saving = w.saving
      /\ w1.store = w.store /\ w1.speed = w.speed /\ w1.page = w.page
      /\ w1.config.loading = w.config.loading
  BY <1>1, <1>2 DEF Webs
<1>5. w1 = [w EXCEPT !.config.saving = TRUE]
  OBVIOUS
<1> HIDE DEF w1
<1>6. /\ v \in Webs /\ Sends(w, v, r)
      /\ v.cached = w.cached /\ v.current = w.current /\ v.saving = w.saving
      /\ v.store = w.store /\ v.speed = w.speed /\ v.page = w.page
      /\ v.config.loading = w.config.loading
  BY <1>3, <1>4, Sent, SentFields DEF Sends
<1>7. r.op # "catalog"
  BY DEF ConfigOps
<1> HIDE DEF v
<1>8. Coherent(v, "nothing")
  BY <1>6, <1>7, Grown
<1>9. QED
  BY <1>5, <1>8 DEF v

LEMMA SaveConfigCoheres ==
  ASSUME NEW w, Coherent(w, "nothing"), w.active \in Farms
  PROVE  Coherent(Send([w EXCEPT !.config.saving = TRUE],
                       Call(For("herd"), "saveConfig", None, w.active, None,
                            w.config.inputs)), "nothing")
<1> DEFINE r == Call(For("herd"), "saveConfig", None, w.active, None, w.config.inputs)
<1>1. w.config.inputs \in Inputs
  BY DEF Coherent, Webs, Configs
<1>2. r \in Calls /\ r.op \in ConfigOps /\ r.mounted
  BY <1>1 DEF Call, For, Calls, Senders, Bootstrapping, Maybe, RowOps, FarmOps, ConfigOps
<1> HIDE DEF r
<1>3. Coherent(Send([w EXCEPT !.config.saving = TRUE], r), "nothing")
  BY <1>2, ConfigSentCoheres
<1> QED
  BY <1>3 DEF r

LEMMA ResetConfigCoheres ==
  ASSUME NEW w, Coherent(w, "nothing"), w.active \in Farms
  PROVE  Coherent(Reset(w), "nothing")
<1> DEFINE r == Call(For("herd"), "dropConfig", None, w.active, None, None)
<1>1. r \in Calls /\ r.op \in ConfigOps /\ r.mounted
  BY DEF Call, For, Calls, Senders, Bootstrapping, Maybe, RowOps, FarmOps, ConfigOps
<1> HIDE DEF r
<1>2. Coherent(Send([w EXCEPT !.config.saving = TRUE], r), "nothing")
  BY <1>1, ConfigSentCoheres
<1>3. Coherent(Applied(w, Default, FALSE), "nothing")
  BY AppliedCoheres DEF Inputs
<1> QED
  BY <1>2, <1>3 DEF Reset, r
-----------------------------------------------------------------------------
(* The theorem.                                                              *)
ScreensInv == server \in Servers /\ Coherent(web, "nothing")

LEMMA ScreensInit ==
  ASSUME Init
  PROVE  ScreensInv
<1>1. server \in Servers
  <2>0. PICK farms \in {Farms, {Min(Farms)}} : \E pin \in farms \cup {None} :
          LET there(f) == {i \in First : OwnerOf[i] = f /\ f \in farms}
          IN server = [farms |-> Restrict(VersionOf, farms), pin |-> pin, gone |-> {},
                       rows |-> [k \in Kinds |->
                                   [id \in UNION {there(f) : f \in farms} |-> 0]],
                       configs |-> [f \in Farms |-> IF f \in farms THEN f ELSE None],
                       picks |-> [f \in Farms |-> IF f \notin farms THEN None
                                    ELSE {<<"machinery", i>> : i \in there(f)}]]
    BY DEF Init, InitServer
  <2>1. PICK pin \in farms \cup {None} :
          LET there(f) == {i \in First : OwnerOf[i] = f /\ f \in farms}
          IN server = [farms |-> Restrict(VersionOf, farms), pin |-> pin, gone |-> {},
                       rows |-> [k \in Kinds |->
                                   [id \in UNION {there(f) : f \in farms} |-> 0]],
                       configs |-> [f \in Farms |-> IF f \in farms THEN f ELSE None],
                       picks |-> [f \in Farms |-> IF f \notin farms THEN None
                                    ELSE {<<"machinery", i>> : i \in there(f)}]]
    BY <2>0
  <2> DEFINE there(f) == {i \in First : OwnerOf[i] = f /\ f \in farms}
             rows == [id \in UNION {there(f) : f \in farms} |-> 0]
             configs == [f \in Farms |-> IF f \in farms THEN f ELSE None]
             picks == [f \in Farms |-> IF f \notin farms THEN None
                         ELSE {<<"machinery", i>> : i \in there(f)}]
             allRows == [k \in Kinds |-> rows]
  <2>2. farms \subseteq Farms
    <3>1. Min(Farms) \in Farms
      BY FarmsAssumption, OpenedAssumption, MinIn
    <3> QED
      BY <3>1
  <2>3. Restrict(VersionOf, farms) \in [farms -> Versions]
    BY <2>2, OpenedAssumption DEF Restrict
  <2>4. Restrict(VersionOf, farms) \in FarmMaps
    BY <2>2, <2>3 DEF FarmMaps
  <2>5. UNION {there(f) : f \in farms} \in SUBSET Ids
    BY OpenedAssumption
  <2>6. rows \in RowMaps
    <3>1. rows \in [UNION {there(f) : f \in farms} -> Int]
      OBVIOUS
    <3> QED
      BY <2>5, <3>1 DEF RowMaps
  <2>7. configs \in [Farms -> Maybe(Inputs)]
    BY DEF Maybe, Inputs
  <2>8. \A f \in farms : {<<"machinery", i>> : i \in there(f)} \in Selections
    BY OpenedAssumption DEF Selections, Kinds
  <2>9. picks \in [Farms -> Maybe(Selections)]
    <3> HIDE DEF there
    <3> QED
      BY <2>8 DEF Maybe
  <2>10. pin \in Maybe(Farms)
    BY <2>2 DEF Maybe
  <2>11. allRows \in [Kinds -> RowMaps]
    <3> HIDE DEF rows
    <3> QED
      BY <2>6
  <2>12. server = [farms |-> Restrict(VersionOf, farms), pin |-> pin, gone |-> {},
                   rows |-> allRows, configs |-> configs, picks |-> picks]
    BY <2>1
  <2> HIDE DEF allRows, configs, picks
  <2> QED
    BY <2>4, <2>7, <2>9, <2>10, <2>11, <2>12 DEF Servers
<1>2. Coherent(web, "nothing")
  <2>1. PICK page \in Pages : web = Mounted(NewTab, page)
    BY DEF Init
  <2> QED
    BY <2>1, NewTabCoheres, MountedCoheres
<1> QED
  BY <1>1, <1>2 DEF ScreensInv

LEMMA ScreensNext ==
  ASSUME ScreensInv, [Next]_vars
  PROVE  ScreensInv'
<1>0. server \in Servers /\ Coherent(web, "nothing") /\ web \in Webs
  BY DEF ScreensInv, Coherent
<1>a. /\ web.active # None => web.active \in Farms
      /\ \A f \in DOMAIN web.farms : f \in Farms /\ web.farms[f] \in Versions
  BY <1>0, InFarms
<1>b. \A i \in Answerable : web.calls[i] \in Calls
  BY <1>0 DEF Answerable, Webs
<1>c. ASSUME NEW w, Act(w), Coherent(w, "nothing") PROVE ScreensInv'
  BY <1>0, <1>c DEF Act, ScreensInv
<1>d. \A k \in Kinds : \A id \in DOMAIN web.store[k].rows : id \in Ids
  BY <1>0 DEF Webs, Stores, RowMaps
<1>1. CASE Answer
  <2>1. PICK i \in Answerable :
          /\ web' = After(i, Answered(server, web.calls[i]))
          /\ server' = CarriedOut(server, web.calls[i])
    BY <1>1 DEF Answer
  <2>2. server' \in Servers
    BY <1>0, <1>b, <2>1, CarriedOutTyped
  <2>3. PICK answer : answer = Answered(server, web.calls[i])
    OBVIOUS
  <2>4. answer = Failed \/ answer \in Answers(web.calls[i])
    BY <1>0, <1>b, <2>3, AnsweredTyped
  <2>5. Coherent(After(i, answer), "nothing")
    BY <1>0, <2>4, AfterCoheres
  <2> QED
    BY <2>1, <2>2, <2>3, <2>5 DEF ScreensInv
<1>2. CASE Lose
  <2>1. PICK i \in Answerable :
          /\ web' = After(i, Failed)
          /\ server' \in {server, CarriedOut(server, web.calls[i])}
    BY <1>2 DEF Lose
  <2>2. server' \in Servers
    BY <1>0, <1>b, <2>1, CarriedOutTyped
  <2>3. Coherent(After(i, Failed), "nothing")
    BY <1>0, AfterCoheres
  <2> QED
    BY <2>1, <2>2, <2>3 DEF ScreensInv
<1>3. CASE SaveTimer
  <2> DEFINE s == [web.speed EXCEPT !.timer = FALSE]
             w1 == [web EXCEPT !.speed = s]
  <2>1. web.speed \in Speeds /\ web.speed.picks \in Selections
    BY <1>0 DEF Webs, Speeds
  <2>2. s \in Speeds /\ s.hydrating = web.speed.hydrating
    BY <2>1 DEF Speeds
  <2>3. Coherent(w1, "nothing")
    BY <1>0, <2>2, SpeedCoheres
  <2>4. w1 = [web EXCEPT !.speed.timer = FALSE]
    OBVIOUS
  <2> HIDE DEF w1
  <2>5. Coherent(Persist(w1, web.speed.picks), "nothing")
    BY <2>1, <2>3, PersistCoheres
  <2> QED
    BY <1>0, <1>3, <2>4, <2>5 DEF SaveTimer, ScreensInv
<1>4. CASE OpenPage
  <2>1. PICK page \in Pages : Act(Mounted(Left(web), page))
    BY <1>4 DEF OpenPage
  <2>2. PICK w : w = Mounted(Left(web), page)
    OBVIOUS
  <2>3. Coherent(w, "nothing")
    BY <1>0, <2>2, LeftCoheres, MountedCoheres
  <2> QED
    BY <1>c, <2>1, <2>2, <2>3
<1>5. CASE ReloadTab
  <2>1. PICK page \in Pages : Act(Mounted(NewTab, page))
    BY <1>5 DEF ReloadTab
  <2>2. PICK w : w = Mounted(NewTab, page)
    OBVIOUS
  <2>3. Coherent(w, "nothing")
    BY <2>2, NewTabCoheres, MountedCoheres
  <2> QED
    BY <1>c, <2>1, <2>2, <2>3
<1>6. CASE SelectFarm
  <2>1. PICK f \in DOMAIN web.farms \ {web.active} :
          Act(SetActiveFarm(web, f, web.farms[f], For("switcher")))
    BY <1>6 DEF SelectFarm
  <2>2. PICK w : w = SetActiveFarm(web, f, web.farms[f], For("switcher"))
    OBVIOUS
  <2>3. /\ f \in Maybe(Farms) /\ web.farms[f] \in Maybe(Versions)
        /\ Sender(For("switcher")) /\ Settles(For("switcher"), "nothing")
    BY <1>a, PageSender DEF Maybe, Senders, Settles
  <2>4. Coherent(w, "nothing")
    BY <1>0, <2>2, <2>3, SetActiveCoheres
  <2> QED
    BY <1>c, <2>1, <2>2, <2>4
<1>7. CASE ManageFarm
  <2>1. /\ Sender(For("switcher")) /\ Sender(For("dashboard-new"))
    BY PageSender DEF Senders
  <2>2. PICK v \in Versions :
          \/ Act(CreateFarm(web, v, For("switcher")))
          \/ Act(CreateFarm(web, v, For("dashboard-new")))
          \/ \E f \in DOMAIN web.farms : Act(UpdateFarm(web, f, v, For("switcher")))
          \/ \E f \in DOMAIN web.farms : Act(DeleteFarm(web, f, For("switcher")))
    BY <1>7 DEF ManageFarm
  <2>3. /\ Coherent(CreateFarm(web, v, For("switcher")), "nothing")
        /\ Coherent(CreateFarm(web, v, For("dashboard-new")), "nothing")
    BY <1>0, <2>1, CreateCoheres
  <2>4. \A f \in DOMAIN web.farms :
          /\ Coherent(UpdateFarm(web, f, v, For("switcher")), "nothing")
          /\ Coherent(DeleteFarm(web, f, For("switcher")), "nothing")
    BY <1>0, <1>a, <2>1, UpdateCoheres, DeleteCoheres
  <2> QED
    BY <1>c, <2>2, <2>3, <2>4
<1>8. CASE WriteRow
  <2>1. web.active \in Farms /\ web.page \in {"fields", "stables", "machinery", "production"}
    BY <1>8, <1>a DEF WriteRow
  <2>2. KindsOf(web.page) \subseteq Kinds
    BY <2>1 DEF KindsOf, Kinds
  <2>3. PICK k \in KindsOf(web.page) :
          \/ Act(Write(web, "create", k, None))
          \/ \E id \in DOMAIN web.store[k].rows, op \in {"update", "remove"} :
               Act(Write(web, op, k, id))
          \/ /\ k = "fields"
             /\ \E id \in DOMAIN web.store[k].rows : Act(Write(web, "harvest", k, id))
    BY <1>8 DEF WriteRow
  <2>4. k \in Kinds /\ None \in Maybe(Ids) /\ \A id \in Ids : id \in Maybe(Ids)
    BY <2>2 DEF Maybe
  <2>5. /\ "create" \in RowOps /\ "update" \in RowOps /\ "remove" \in RowOps
        /\ "harvest" \in RowOps
    BY DEF RowOps
  <2>6. CASE Act(Write(web, "create", k, None))
    <3>1. Coherent(Write(web, "create", k, None), "nothing")
      BY <1>0, <2>1, <2>4, <2>5, WriteCoheres
    <3> QED
      BY <1>c, <2>6, <3>1
  <2>7. CASE \E id \in DOMAIN web.store[k].rows, op \in {"update", "remove"} :
               Act(Write(web, op, k, id))
    <3>1. PICK id \in DOMAIN web.store[k].rows, op \in {"update", "remove"} :
            Act(Write(web, op, k, id))
      BY <2>7
    <3>2. Coherent(Write(web, op, k, id), "nothing")
      BY <1>0, <1>d, <2>1, <2>4, <2>5, WriteCoheres
    <3> QED
      BY <1>c, <3>1, <3>2
  <2>8. CASE k = "fields" /\ \E id \in DOMAIN web.store[k].rows :
               Act(Write(web, "harvest", k, id))
    <3>1. PICK id \in DOMAIN web.store[k].rows : Act(Write(web, "harvest", k, id))
      BY <2>8
    <3>2. Coherent(Write(web, "harvest", k, id), "nothing")
      BY <1>0, <1>d, <2>1, <2>4, <2>5, <2>8, WriteCoheres
    <3> QED
      BY <1>c, <3>1, <3>2
  <2> QED
    BY <2>3, <2>6, <2>7, <2>8
<1>9. CASE EditConfig
  <2>1. PICK w : /\ w = [web EXCEPT !.config.inputs = OrElse(web.active, Default),
                     !.config.dirty = (OrElse(web.active, Default) # web.config.inputs) \/ @]
                 /\ Act(w)
    BY <1>9 DEF EditConfig
  <2> DEFINE s == [web.config EXCEPT !.inputs = OrElse(web.active, Default),
                     !.dirty = (OrElse(web.active, Default) # web.config.inputs) \/ @]
  <2>2. OrElse(web.active, Default) \in Inputs /\ web.config \in Configs
    BY <1>0, <1>a DEF OrElse, Inputs, Webs
  <2>3. s \in Configs /\ s.loading = web.config.loading /\ s.saving = web.config.saving
    BY <2>2 DEF Configs
  <2>4. w = [web EXCEPT !.config = s]
    BY <2>1
  <2> HIDE DEF s
  <2>5. Coherent(w, "nothing")
    BY <1>0, <2>3, <2>4, ConfigChanged
  <2> QED
    BY <1>c, <2>1, <2>5
<1>10. CASE LinkStable
  <2>1. PICK id \in DOMAIN web.store["stables"].rows :
          Act([web EXCEPT !.config.inputs = OwnerOf[id], !.config.dirty = TRUE])
    BY <1>10 DEF LinkStable
  <2> DEFINE s == [web.config EXCEPT !.inputs = OwnerOf[id], !.dirty = TRUE]
  <2>2. OwnerOf[id] \in Inputs /\ web.config \in Configs
    BY <1>0, <1>d, OwnerAssumption DEF Inputs, Webs, Kinds
  <2>3. s \in Configs /\ s.loading = web.config.loading /\ s.saving = web.config.saving
    BY <2>2 DEF Configs
  <2>4. [web EXCEPT !.config.inputs = OwnerOf[id], !.config.dirty = TRUE]
          = [web EXCEPT !.config = s]
    OBVIOUS
  <2> HIDE DEF s
  <2>5. Coherent([web EXCEPT !.config = s], "nothing")
    BY <1>0, <2>3, ConfigChanged
  <2> QED
    BY <1>c, <2>1, <2>4, <2>5
<1>11. CASE SaveConfig
  <2>1. web.active \in Farms
    BY <1>11, <1>a DEF SaveConfig, Configuring
  <2>2. PICK w : /\ w = Send([web EXCEPT !.config.saving = TRUE],
                             Call(For("herd"), "saveConfig", None, web.active, None,
                                  web.config.inputs))
                 /\ Act(w)
    BY <1>11 DEF SaveConfig
  <2>3. Coherent(w, "nothing")
    BY <1>0, <2>1, <2>2, SaveConfigCoheres
  <2> QED
    BY <1>c, <2>2, <2>3
<1>12. CASE ResetConfig
  <2>1. web.active \in Farms /\ Act(Reset(web))
    BY <1>12, <1>a DEF ResetConfig, Configuring
  <2>2. Coherent(Reset(web), "nothing")
    BY <1>0, <2>1, ResetConfigCoheres
  <2> QED
    BY <1>c, <2>1, <2>2
<1>13. CASE Toggle
  <2>0. PICK k \in {"fields", "machinery"} : \E id \in DOMAIN web.store[k].rows :
          LET picks == web.speed.picks
              others == IF k = "fields" THEN {p \in picks : p[1] # k} ELSE picks
          IN Act([web EXCEPT
               !.speed.picks = IF <<k, id>> \in picks THEN picks \ {<<k, id>>}
                                                      ELSE others \cup {<<k, id>>},
               !.speed.timer = @ \/ ~web.speed.hydrating])
    BY <1>13 DEF Toggle
  <2>1. PICK id \in DOMAIN web.store[k].rows :
          LET picks == web.speed.picks
              others == IF k = "fields" THEN {p \in picks : p[1] # k} ELSE picks
          IN Act([web EXCEPT
               !.speed.picks = IF <<k, id>> \in picks THEN picks \ {<<k, id>>}
                                                      ELSE others \cup {<<k, id>>},
               !.speed.timer = @ \/ ~web.speed.hydrating])
    BY <2>0
  <2> DEFINE picks == web.speed.picks
             others == IF k = "fields" THEN {p \in picks : p[1] # k} ELSE picks
  <2>2. PICK new : new = IF <<k, id>> \in picks THEN picks \ {<<k, id>>}
                         ELSE others \cup {<<k, id>>}
    OBVIOUS
  <2>3. web.speed \in Speeds /\ picks \in Selections /\ k \in Kinds /\ id \in Ids
    BY <1>0, <1>d DEF Webs, Speeds, Kinds
  <2>4. new \in Selections
    BY <2>2, <2>3 DEF Selections
  <2> DEFINE s == [web.speed EXCEPT !.picks = new, !.timer = @ \/ ~web.speed.hydrating]
  <2>5. s \in Speeds /\ s.hydrating = web.speed.hydrating
    BY <2>3, <2>4 DEF Speeds
  <2>6. Act([web EXCEPT !.speed = s])
    BY <2>1, <2>2
  <2> HIDE DEF s
  <2>7. Coherent([web EXCEPT !.speed = s], "nothing")
    BY <1>0, <2>5, SpeedCoheres
  <2> QED
    BY <1>c, <2>6, <2>7
<1>14. CASE UNCHANGED vars
  BY <1>0, <1>14 DEF vars, ScreensInv
<1>15. QED
  BY <1>1, <1>2, <1>3, <1>4, <1>5, <1>6, <1>7, <1>8, <1>9, <1>10, <1>11, <1>12, <1>13,
     <1>14 DEF Next

\* What the parts of the property ask of a coherent tab.
LEMMA CoherentIsTyped ==
  ASSUME ScreensInv
  PROVE  TypeOK
<1>1. server \in Servers /\ web \in Webs
  BY DEF ScreensInv, Coherent
<1>2. /\ web.active \in Farms \cup {None} /\ web.page \in Pages
      /\ DOMAIN web.farms \subseteq Farms /\ web.cached \subseteq Keys
      /\ web.current \in Keys \cup {None}
  BY <1>1 DEF Webs, Maybe, FarmMaps
<1>3. ASSUME NEW k \in Kinds
      PROVE  web.store[k].farm \in Farms \cup {None} /\ DOMAIN web.store[k].rows \subseteq Ids
  BY <1>1 DEF Webs, Stores, Maybe, RowMaps
<1>4. web.config.inputs \in Farms \cup {Default}
  BY <1>1 DEF Webs, Configs, Inputs
<1>5. ASSUME NEW f \in Farms, server.picks[f] # None
      PROVE  server.picks[f] \subseteq Kinds \X Ids
  BY <1>1, <1>5 DEF Servers, Selections, Maybe
<1>6. QED
  BY <1>2, <1>3, <1>4, <1>5 DEF TypeOK

LEMMA CoherentFetchesOnce ==
  ASSUME Fetches(web)
  PROVE  OneFetchPerVersion /\ CurrentIsCached
<1>1. ASSUME NEW key \in Keys
      PROVE  LET asking(kind) == {i \in DOMAIN web.calls : /\ web.calls[i].op = "catalog"
                                                          /\ web.calls[i].body = key
                                                          /\ web.calls[i].kind = kind}
             IN /\ Cardinality(asking("fetch")) <= 1
                /\ key \in web.cached => asking("fetch") = {}
                /\ asking("wait") # {} => asking("fetch") # {}
  <2> DEFINE fetching == {i \in DOMAIN web.calls : /\ web.calls[i].op = "catalog"
                                                   /\ web.calls[i].body = key
                                                   /\ web.calls[i].kind = "fetch"}
             waiting == {i \in DOMAIN web.calls : /\ web.calls[i].op = "catalog"
                                                  /\ web.calls[i].body = key
                                                  /\ web.calls[i].kind = "wait"}
  <2>1. Cardinality(fetching) <= 1
    <3>1. CASE fetching = {}
      <4> HIDE DEF fetching
      <4> QED
        BY <3>1, FS_EmptySet
    <3>2. CASE fetching # {}
      <4>1. PICK i \in fetching : TRUE
        BY <3>2
      <4>2. fetching = {i}
        BY <4>1 DEF Fetches, Asks
      <4> HIDE DEF fetching
      <4>3. Cardinality({i}) = 1
        BY FS_Singleton
      <4> QED
        BY <4>2, <4>3
    <3> QED
      BY <3>1, <3>2
  <2>2. key \in web.cached => fetching = {}
    BY DEF Fetches, Asks
  <2>3. waiting # {} => fetching # {}
    BY DEF Fetches, Asks
  <2> QED
    BY <2>1, <2>2, <2>3
<1>2. QED
  BY <1>1 DEF OneFetchPerVersion, CurrentIsCached, Fetches

LEMMA CoherentFlagsComeDown ==
  ASSUME Flags(web), SpeedFlag(web)
  PROVE  FlagsComeDown
<1>1. ASSUME NEW k \in Kinds, web.store[k].loading
      PROVE  InFlight(web, LAMBDA c : c.op \in {"list"} /\ c.kind = k)
  BY <1>1 DEF Flags, Loads, InFlight
<1>2. web.saving =>
        InFlight(web, LAMBDA c : c.op \in {"pin", "createFarm", "updateFarm", "deleteFarm"})
  BY DEF Flags, Saves, InFlight, FarmOps
<1>3. web.config.loading => InFlight(web, LAMBDA c : c.op \in {"config"} /\ c.mounted)
  BY DEF Flags, LoadsConfig, InFlight
<1>4. web.config.saving =>
        InFlight(web, LAMBDA c : c.op \in {"saveConfig", "dropConfig"} /\ c.mounted)
  BY DEF Flags, SavesConfig, InFlight, ConfigOps
<1>5. web.speed.hydrating /\ web.page = "speed" =>
        InFlight(web, LAMBDA c : c.op \in {"farms", "settings", "pin", "list", "state"}
                                 /\ c.for = "speed" /\ c.mounted)
  BY DEF SpeedFlag, Hydrates, InFlight, SpeedOps
<1>6. QED
  BY <1>1, <1>2, <1>3, <1>4, <1>5 DEF FlagsComeDown, InFlight

\* At any moment, for any user and any network, each version is fetched once at a
\* time and never again, the current catalog is one that is there, and a flag
\* that is up has a request in flight which takes it down (WebStores' Load,
\* FetchCatalog and SetActiveFarm, LoadConfig, the chains of the pages).
THEOREM StoresStayCoherent == Spec => []StoresAreCoherent
<1>1. Init => ScreensInv
  BY ScreensInit
<1>2. ScreensInv /\ [Next]_vars => ScreensInv'
  BY ScreensNext
<1>3. ScreensInv => StoresAreCoherent
  BY CoherentIsTyped, CoherentFetchesOnce, CoherentFlagsComeDown
     DEF ScreensInv, Coherent, StoresAreCoherent
<1>4. QED
  BY <1>1, <1>2, <1>3, PTL DEF Spec

-----------------------------------------------------------------------------
(* A user who waits, on a network that loses nothing.  The invariant speaks  *)
(* of the set of the calls in flight.                                        *)
Fly(w) == {w.calls[i] : i \in DOMAIN w.calls}

LEMMA FlySent ==
  ASSUME NEW w \in Webs, NEW r \in Calls
  PROVE  Fly(Send(w, r)) = Fly(w) \cup {r}
<1>1. PICK v : v = Send(w, r)
  OBVIOUS
<1>2. v.calls = Append(w.calls, r) /\ w.calls \in Seq(Calls)
  BY <1>1, Sent DEF Sends, Webs
<1>3. /\ DOMAIN v.calls = DOMAIN w.calls \cup {Len(w.calls) + 1}
      /\ \A i \in DOMAIN w.calls : v.calls[i] = w.calls[i]
      /\ v.calls[Len(w.calls) + 1] = r
  BY <1>2
<1> QED
  BY <1>1, <1>3 DEF Fly

LEMMA FlyCalls ==
  ASSUME NEW w \in Webs
  PROVE  /\ Fly(w) \subseteq Calls
         /\ w.calls = <<>> <=> Fly(w) = {}
<1>1. w.calls \in Seq(Calls)
  BY DEF Webs
<1>2. w.calls = <<>> <=> DOMAIN w.calls = {}
  BY <1>1
<1>3. \A i \in DOMAIN w.calls : w.calls[i] \in Calls
  BY <1>1
<1> QED
  BY <1>2, <1>3 DEF Fly

LEMMA FlySame ==
  ASSUME NEW w, NEW v, v.calls = w.calls
  PROVE  Fly(v) = Fly(w)
BY DEF Fly

\* The catalog of the farm that is active; the pages that need it.
KeyOf(w) == IF Version(w, w.active) = None THEN Active ELSE Version(w, w.active)
Fitting == {"dashboard", "fields", "harvests", "herd"}

\* A call that reads for the page that is open.
Reads == {"list", "catalog", "config", "state"}
ReadOf(w, d) ==
  /\ d.op \in Reads /\ d.mounted /\ d.for \in {w.page, "page"}
  /\ d.op \in {"list", "config"} => d.farm = w.active /\ w.active # None
  /\ d.op = "list" => d.kind \in Kinds
  /\ d.op = "config" => w.page = "herd"
  /\ d.op = "catalog" /\ w.page \in Fitting => d.body = KeyOf(w)
  /\ d.op = "list" /\ w.page = "speed" => d.for = "speed" /\ w.speed.farm = w.active
  /\ d.op = "state" => /\ w.page = "speed" /\ d.for = "speed" /\ d.farm = w.active
                       /\ w.speed.farm = w.active /\ w.active # None

\* What a function of the stores does that reads for the active farm.
ReadsOn(w, v) ==
  /\ v.farms = w.farms /\ v.active = w.active /\ v.page = w.page
  /\ v.initializing = w.initializing /\ v.speed = w.speed
  /\ Fly(w) \subseteq Fly(v)
  /\ \A d \in Fly(v) \ Fly(w) : ReadOf(w, d)
  /\ \A d \in Fly(v) \ Fly(w) : d.op = "list" => v.store[d.kind].farm = w.active
  /\ \A k \in Kinds :
       \/ v.store[k].farm = w.store[k].farm /\ v.store[k].rows = w.store[k].rows
       \/ /\ v.store[k].farm = w.active
          /\ w.active = None \/ \E d \in Fly(v) : d.op = "list" /\ d.kind = k
          /\ w.page = "speed" => w.speed.farm = w.active
  /\ v.current = w.current \/ (w.page \in Fitting => v.current = KeyOf(w))
  /\ w.active # None => /\ v.config.inputs = w.config.inputs
                        /\ v.config.saved = w.config.saved
                        /\ v.config.dirty = w.config.dirty

LEMMA ReadsNothing ==
  ASSUME NEW w
  PROVE  ReadsOn(w, w)
BY DEF ReadsOn

LEMMA ReadsOnAndOn ==
  ASSUME NEW u, NEW v, NEW w, ReadsOn(u, v), ReadsOn(v, w)
  PROVE  ReadsOn(u, w)
<1>1. /\ v.farms = u.farms /\ v.active = u.active /\ v.page = u.page
      /\ v.speed = u.speed /\ v.initializing = u.initializing
      /\ KeyOf(v) = KeyOf(u)
  BY DEF ReadsOn, KeyOf, Version
<1>2. \A d : ReadOf(v, d) <=> ReadOf(u, d)
  BY <1>1 DEF ReadOf, Reads
<1>3. Fly(u) \subseteq Fly(v) /\ Fly(v) \subseteq Fly(w)
  BY DEF ReadsOn
<1>4. \A d \in Fly(w) \ Fly(u) : ReadOf(u, d)
  BY <1>2 DEF ReadsOn
<1>5. \A k \in Kinds : v.store[k].farm = u.active => w.store[k].farm = u.active
  BY <1>1 DEF ReadsOn
<1>6. \A d \in Fly(w) \ Fly(u) : d.op = "list" => w.store[d.kind].farm = u.active
  BY <1>1, <1>2, <1>4, <1>5 DEF ReadsOn, ReadOf
<1>7. \A k \in Kinds :
       \/ w.store[k].farm = u.store[k].farm /\ w.store[k].rows = u.store[k].rows
       \/ /\ w.store[k].farm = u.active
          /\ u.active = None \/ \E d \in Fly(w) : d.op = "list" /\ d.kind = k
          /\ u.page = "speed" => u.speed.farm = u.active
  BY <1>1, <1>3 DEF ReadsOn
<1>8. w.current = u.current \/ (u.page \in Fitting => w.current = KeyOf(u))
  BY <1>1 DEF ReadsOn
<1> QED
  BY <1>1, <1>3, <1>4, <1>6, <1>7, <1>8 DEF ReadsOn

\* A request of the store, as the function that sends it changes the tab.
LEMMA SentReads ==
  ASSUME NEW u \in Webs, NEW w \in Webs, NEW r \in Calls, ReadsOn(u, w), ReadOf(u, r),
         r.op = "list" => w.store[r.kind].farm = u.active
  PROVE  ReadsOn(u, Send(w, r)) /\ r \in Fly(Send(w, r))
<1>1. PICK v : v = Send(w, r)
  OBVIOUS
<1>2. Fly(v) = Fly(w) \cup {r}
  BY <1>1, FlySent
<1>3. /\ v.farms = w.farms /\ v.active = w.active
      /\ v.current = w.current /\ v.store = w.store /\ v.page = w.page
      /\ v.initializing = w.initializing /\ v.config = w.config /\ v.speed = w.speed
  BY <1>1, SentFields
<1>4. \A d \in Fly(v) \ Fly(u) : ReadOf(u, d)
  BY <1>2 DEF ReadsOn
<1>5. \A d \in Fly(v) \ Fly(u) : d.op = "list" => v.store[d.kind].farm = u.active
  BY <1>2, <1>3 DEF ReadsOn
<1>6. \A k \in Kinds :
       \/ v.store[k].farm = u.store[k].farm /\ v.store[k].rows = u.store[k].rows
       \/ /\ v.store[k].farm = u.active
          /\ u.active = None \/ \E d \in Fly(v) : d.op = "list" /\ d.kind = k
          /\ u.page = "speed" => u.speed.farm = u.active
  BY <1>2, <1>3 DEF ReadsOn
<1>7. Fly(u) \subseteq Fly(v)
  BY <1>2 DEF ReadsOn
<1> QED
  BY <1>1, <1>2, <1>3, <1>4, <1>5, <1>6, <1>7 DEF ReadsOn

\* Who asks: the page that is open, or one of its lists.
Seen(w, c) == Sender(c) /\ c.mounted /\ c.for \in {w.page, "page"}

LEMMA SeenPage ==
  ASSUME NEW w
  PROVE  Seen(w, For("page")) /\ For("page").for = "page"
BY PageSender DEF Seen, Senders, For

Listed(w, k, c) ==
  \E d \in Fly(w) : d.op = "list" /\ d.kind = k /\ d.for = c.for

LEMMA LoadReads ==
  ASSUME NEW w \in Webs, NEW k \in Kinds, w.active \in Farms, NEW c, Seen(w, c),
         w.page = "speed" => c.for = "speed" /\ w.speed.farm = w.active
  PROVE  LET v == Load(w, k, w.active, c) IN
         /\ v \in Webs /\ ReadsOn(w, v) /\ Listed(v, k, c)
         /\ v.store[k].farm = w.active
         /\ v.current = w.current
<1> DEFINE r == Call(c, "list", k, w.active, None, None)
           s == [farm |-> w.active, rows |-> w.store[k].rows, loading |-> TRUE, failed |-> FALSE]
           w1 == [w EXCEPT !.store[k] = s]
           v == Send(w1, r)
<1>1. /\ r \in Calls /\ r.op = "list" /\ r.kind = k /\ r.for = c.for /\ r.mounted = c.mounted
      /\ r.farm = w.active
  BY DEF Call, Calls, Seen, Sender, Maybe, RowOps, FarmOps, ConfigOps, Kinds
<1>2. w.store \in [Kinds -> Stores] /\ s \in Stores /\ s.farm = w.active
  BY DEF Webs, Stores, Maybe
<1>3. w1 \in Webs
  BY <1>2 DEF Webs
<1>4. /\ w1.farms = w.farms /\ w1.active = w.active /\ w1.calls = w.calls
      /\ w1.current = w.current /\ w1.page = w.page
      /\ w1.initializing = w.initializing /\ w1.config = w.config /\ w1.speed = w.speed
      /\ \A j \in Kinds \ {k} : w1.store[j] = w.store[j]
      /\ w1.store[k].farm = w.active
  BY <1>2 DEF Webs
<1>5. ReadOf(w, r)
  BY <1>1, MarksAssumption DEF ReadOf, Reads, Seen
<1>6. Load(w, k, w.active, c) = v
  BY DEF Load
<1> HIDE DEF w1, r
<1>7. Fly(v) = Fly(w) \cup {r}
  BY <1>1, <1>3, <1>4, FlySame, FlySent
<1>8. /\ v.farms = w.farms /\ v.active = w.active
      /\ v.current = w.current /\ v.page = w.page
      /\ v.initializing = w.initializing /\ v.config = w.config /\ v.speed = w.speed
      /\ \A j \in Kinds \ {k} : v.store[j] = w.store[j]
      /\ v.store[k].farm = w.active
      /\ v \in Webs
  BY <1>1, <1>3, <1>4, Sent, SentFields
<1> HIDE DEF v
<1>9. \A j \in Kinds :
       \/ v.store[j].farm = w.store[j].farm /\ v.store[j].rows = w.store[j].rows
       \/ /\ v.store[j].farm = w.active
          /\ w.active = None \/ \E d \in Fly(v) : d.op = "list" /\ d.kind = j
          /\ w.page = "speed" => w.speed.farm = w.active
  BY <1>1, <1>7, <1>8
<1>10. ReadsOn(w, v)
  BY <1>1, <1>5, <1>7, <1>8, <1>9 DEF ReadsOn
<1>11. Listed(v, k, c)
  BY <1>1, <1>7 DEF Listed
<1> QED
  BY <1>6, <1>8, <1>10, <1>11

Configured(w) == \E d \in Fly(w) : d.op = "config"

LEMMA ConfigReads ==
  ASSUME NEW w, NEW due, Coherent(w, due), w.page = "herd"
  PROVE  LET v == LoadConfig(w) IN
         ReadsOn(w, v) /\ (w.active # None => Configured(v))
<1>1. /\ w \in Webs /\ w.config \in Configs /\ w.active \in Maybe(Farms)
      /\ Default \in Inputs
  BY DEF Coherent, Webs, Inputs
<1>2. CASE w.active = None
  <2> DEFINE s == [w.config EXCEPT !.inputs = Default, !.saved = FALSE, !.dirty = FALSE]
             v == [w EXCEPT !.config = s]
  <2>1. LoadConfig(w) = v
    BY <1>2 DEF LoadConfig, Applied
  <2>2. /\ v.farms = w.farms /\ v.active = w.active /\ v.calls = w.calls
        /\ v.current = w.current /\ v.store = w.store /\ v.page = w.page
        /\ v.initializing = w.initializing /\ v.speed = w.speed
    BY <1>1 DEF Webs
  <2> HIDE DEF v
  <2>3. Fly(v) = Fly(w)
    BY <2>2, FlySame
  <2> QED
    BY <1>2, <2>1, <2>2, <2>3 DEF ReadsOn
<1>3. CASE w.active # None
  <2> DEFINE r == Call(For("herd"), "config", None, w.active, None, None)
             s == [w.config EXCEPT !.loading = TRUE]
             w1 == [w EXCEPT !.config = s]
  <2>1. /\ r \in Calls /\ r.op = "config" /\ r.mounted /\ r.farm = w.active
        /\ r.for = "herd"
    BY <1>1, <1>3 DEF Call, For, Calls, Senders, Bootstrapping, Maybe, RowOps, FarmOps, ConfigOps
  <2>2. /\ s \in Configs /\ s.saved = w.config.saved /\ s.dirty = w.config.dirty
        /\ s.inputs = w.config.inputs
    BY <1>1 DEF Configs
  <2>3. w1 \in Webs
    BY <1>1, <2>2 DEF Webs
  <2>4. /\ w1.farms = w.farms /\ w1.active = w.active /\ w1.calls = w.calls
        /\ w1.current = w.current /\ w1.store = w.store /\ w1.page = w.page
        /\ w1.initializing = w.initializing /\ w1.speed = w.speed /\ w1.config = s
    BY <1>1, <2>2 DEF Webs
  <2>5. LoadConfig(w) = Send(w1, r)
    BY <1>3 DEF LoadConfig
  <2> HIDE DEF w1, r, s
  <2>6. ReadsOn(w, w1)
    BY <2>2, <2>4, FlySame DEF ReadsOn
  <2>7. ReadOf(w, r)
    BY <1>3, <2>1 DEF ReadOf, Reads
  <2>8. ReadsOn(w, Send(w1, r)) /\ r \in Fly(Send(w1, r))
    BY <1>1, <2>1, <2>3, <2>6, <2>7, SentReads
  <2> QED
    BY <2>1, <2>5, <2>8 DEF Configured
<1>4. QED
  BY <1>2, <1>3

\* The chain of the animal calculators, after the catalog.
Chaining(w) ==
  w.active # None =>
    /\ w.store["stables"].farm = w.active
    /\ Configured(w) \/ \E d \in Fly(w) : d.op = "list" /\ d.for = "herd"

LEMMA HerdStablesReads ==
  ASSUME NEW w, NEW due, Coherent(w, due), NEW c, Seen(w, c), c.for = "herd"
  PROVE  LET v == HerdStables(w, c) IN ReadsOn(w, v) /\ Chaining(v)
<1>1. w.page = "herd" /\ c.mounted /\ w \in Webs
  BY DEF Seen, Coherent
<1>2. CASE w.active # None /\ w.store["stables"].farm # w.active
  <2>1. PICK v : v = Load(w, "stables", w.active, c)
    OBVIOUS
  <2>2. HerdStables(w, c) = v
    BY <1>2, <2>1 DEF HerdStables
  <2>3. w.active \in Farms
    BY <1>2, InFarms
  <2>4. ReadsOn(w, v) /\ Listed(v, "stables", c) /\ v.store["stables"].farm = w.active
    BY <1>1, <2>1, <2>3, LoadReads DEF Kinds
  <2>5. Chaining(v)
    BY <2>4 DEF Chaining, Listed, ReadsOn
  <2> QED
    BY <2>2, <2>4, <2>5
<1>3. CASE ~(w.active # None /\ w.store["stables"].farm # w.active)
  <2>1. PICK v : v = LoadConfig(w)
    OBVIOUS
  <2>2. HerdStables(w, c) = v
    BY <1>1, <1>3, <2>1 DEF HerdStables, HerdConfig
  <2>3. ReadsOn(w, v) /\ (w.active # None => Configured(v))
    BY <1>1, <2>1, ConfigReads
  <2>4. Chaining(v)
    BY <1>3, <2>3 DEF Chaining, ReadsOn, Kinds
  <2> QED
    BY <2>2, <2>3, <2>4
<1> QED
  BY <1>2, <1>3

\* The catalog of a key is current, or was asked for; for the calculators the
\* chain goes on with it.
Asked(w, key, c) ==
  \E d \in Fly(w) : d.op = "catalog" /\ d.body = key /\ d.for = c.for
Provided(w, key, c) ==
  \/ Asked(w, key, c)
  \/ w.current = key /\ (c.for = "herd" => Chaining(w))

LEMMA CatalogReads ==
  ASSUME NEW w, NEW due, Coherent(w, due), NEW key \in Keys, NEW c, Seen(w, c),
         w.page \in Fitting => key = KeyOf(w)
  PROVE  LET v == LoadCatalog(w, key, c) IN ReadsOn(w, v) /\ Provided(v, key, c)
<1>1. w \in Webs
  BY DEF Coherent
<1>2. CASE key \notin w.cached
  <2> DEFINE kind == IF Fetching(w, key) THEN "wait" ELSE "fetch"
             r == Call(c, "catalog", kind, None, None, key)
  <2>1. /\ r \in Calls /\ r.op = "catalog" /\ r.body = key
        /\ r.for = c.for /\ r.mounted = c.mounted
    BY DEF Call, Calls, Seen, Sender, Maybe, RowOps, FarmOps, ConfigOps
  <2>2. LoadCatalog(w, key, c) = Send(w, r)
    BY <1>2 DEF LoadCatalog, FetchCatalog
  <2> HIDE DEF r
  <2>3. ReadOf(w, r)
    BY <2>1 DEF ReadOf, Reads, Seen
  <2>4. ReadsOn(w, Send(w, r)) /\ r \in Fly(Send(w, r))
    BY <1>1, <2>1, <2>3, ReadsNothing, SentReads
  <2>5. Provided(Send(w, r), key, c)
    BY <2>1, <2>4 DEF Provided, Asked
  <2> QED
    BY <2>2, <2>4, <2>5
<1>3. CASE key \in w.cached
  <2> DEFINE w1 == [w EXCEPT !.current = key]
  <2>1. Coherent(w1, due)
    BY <1>3, CurrentCoheres
  <2>2. /\ w1.farms = w.farms /\ w1.active = w.active /\ w1.calls = w.calls
        /\ w1.current = key /\ w1.store = w.store /\ w1.page = w.page
        /\ w1.initializing = w.initializing /\ w1.speed = w.speed
        /\ w1.config = w.config
    BY <1>1 DEF Webs
  <2>3. LoadCatalog(w, key, c) = IF c.for = "herd" THEN HerdStables(w1, c) ELSE w1
    BY <1>3 DEF LoadCatalog
  <2> HIDE DEF w1
  <2>4. ReadsOn(w, w1)
    BY <2>2, FlySame DEF ReadsOn
  <2>5. CASE c.for # "herd"
    BY <2>2, <2>3, <2>4, <2>5 DEF Provided
  <2>6. CASE c.for = "herd"
    <3>1. PICK v : v = HerdStables(w1, c)
      OBVIOUS
    <3>2. Seen(w1, c)
      BY <2>2 DEF Seen
    <3>3. ReadsOn(w1, v) /\ Chaining(v)
      BY <2>1, <2>6, <3>1, <3>2, HerdStablesReads
    <3>4. ReadsOn(w, v)
      BY <2>4, <3>3, ReadsOnAndOn
    <3>5. w.page = "herd"
      BY <2>6 DEF Seen
    <3>6. v.current = key
      <4>1. KeyOf(w1) = KeyOf(w)
        BY <2>2 DEF KeyOf, Version
      <4> QED
        BY <2>2, <3>3, <3>5, <4>1 DEF ReadsOn, Fitting
    <3> QED
      BY <2>3, <2>6, <3>1, <3>3, <3>4, <3>6 DEF Provided
  <2> QED
    BY <2>5, <2>6
<1>4. QED
  BY <1>2, <1>3

LEMMA KeyIsAKey ==
  ASSUME NEW w, NEW due, Coherent(w, due)
  PROVE  /\ KeyOf(w) \in Keys
         /\ w.active \in DOMAIN w.farms => KeyOf(w) = w.farms[w.active]
                                           /\ Version(w, w.active) = KeyOf(w)
<1>1. Version(w, w.active) # None => Version(w, w.active) \in Keys
  BY VersionsAreKeys
<1>2. w.active \in DOMAIN w.farms => w.farms[w.active] # None
  BY InFarms, MarksAssumption
<1> QED
  BY <1>1, <1>2 DEF KeyOf, Keys, Version

LEMMA CatalogOfReads ==
  ASSUME NEW w, NEW due, Coherent(w, due), NEW c, Seen(w, c)
  PROVE  LET v == LoadCatalogOf(w, w.active, c) IN
         /\ ReadsOn(w, v)
         /\ w.active \in DOMAIN w.farms => Provided(v, KeyOf(w), c)
<1>1. KeyOf(w) \in Keys /\ (Version(w, w.active) # None => Version(w, w.active) = KeyOf(w))
  BY KeyIsAKey DEF KeyOf
<1>2. CASE Version(w, w.active) = None
  <2>1. w.active \notin DOMAIN w.farms
    BY <1>2, InFarms, MarksAssumption DEF Version
  <2> QED
    BY <1>2, <2>1, ReadsNothing DEF LoadCatalogOf
<1>3. CASE Version(w, w.active) # None
  BY <1>1, <1>3, CatalogReads DEF LoadCatalogOf
<1> QED
  BY <1>2, <1>3

LEMMA HerdCatalogReads ==
  ASSUME NEW w, NEW due, Coherent(w, due), NEW c, Seen(w, c)
  PROVE  LET v == HerdCatalog(w, c) IN ReadsOn(w, v) /\ Provided(v, KeyOf(w), c)
<1>1. KeyOf(w) \in Keys /\ HerdCatalog(w, c) = LoadCatalog(w, KeyOf(w), c)
  BY KeyIsAKey DEF HerdCatalog, KeyOf
<1> QED
  BY <1>1, CatalogReads

LEMMA LoadMissingReads ==
  ASSUME NEW w, NEW due, Coherent(w, due), NEW k \in Kinds, w.active \in Farms,
         NEW c, Seen(w, c),
         w.page = "speed" => c.for = "speed" /\ w.speed.farm = w.active
  PROVE  LET v == LoadMissing(w, k, c) IN
         ReadsOn(w, v) /\ v.store[k].farm = w.active
<1>1. w \in Webs
  BY DEF Coherent
<1> QED
  BY <1>1, ReadsNothing, LoadReads DEF LoadMissing

LEMMA ReloadReads ==
  ASSUME NEW w, NEW due, Coherent(w, due), NEW k \in Kinds, w.page # "speed"
  PROVE  LET v == Reload(w, k) IN
         ReadsOn(w, v) /\ (w.active # None => v.store[k].farm = w.active)
<1>1. w \in Webs /\ (w.active # None => w.active \in Farms)
  BY InFarms DEF Coherent
<1>2. CASE w.active = None \/ (w.store[k].farm = w.active /\ ~w.store[k].failed)
  <2>1. Reload(w, k) = w
    BY <1>2 DEF Reload
  <2> QED
    BY <1>2, <2>1, ReadsNothing
<1>3. CASE ~(w.active = None \/ (w.store[k].farm = w.active /\ ~w.store[k].failed))
  <2>1. Reload(w, k) = Load(w, k, w.active, For("page"))
    BY <1>3 DEF Reload
  <2> QED
    BY <1>1, <1>3, <2>1, SeenPage, LoadReads
<1> QED
  BY <1>2, <1>3

(* What the pages show once the active farm is settled.                      *)
\* The pages that follow the active farm have its rows, or will ask for them.
Follows(w) ==
  w.page \in Following /\ w.active # None =>
    \/ \A k \in KindsOf(w.page) : w.store[k].farm = w.active
    \/ w.page = "herd" /\ \E d \in Fly(w) : d.op = "catalog" /\ d.for = "herd"
\* The pages that need the catalog of its version have it, or asked for it.
Fits(w) ==
  w.page \in Fitting /\ w.active \in DOMAIN w.farms =>
    \/ w.current = KeyOf(w)
    \/ \E d \in Fly(w) : d.op = "catalog" /\ d.body = KeyOf(w)

LEMMA FollowsOn ==
  ASSUME NEW w, NEW v, ReadsOn(w, v), Follows(w), w.page \in Pages
  PROVE  Follows(v)
<1>1. \A k \in KindsOf(w.page) : w.page \in Following => k \in Kinds
  BY DEF KindsOf, Following, Kinds
<1> QED
  BY <1>1 DEF ReadsOn, Follows

LEMMA FitsOn ==
  ASSUME NEW w, NEW v, ReadsOn(w, v), Fits(w)
  PROVE  Fits(v)
<1>1. KeyOf(v) = KeyOf(w)
  BY DEF ReadsOn, KeyOf, Version
<1> QED
  BY <1>1 DEF ReadsOn, Fits

LEMMA ProvidedFits ==
  ASSUME NEW w, NEW v, NEW c, ReadsOn(w, v), Provided(v, KeyOf(w), c)
  PROVE  Fits(v)
<1>1. KeyOf(v) = KeyOf(w)
  BY DEF ReadsOn, KeyOf, Version
<1> QED
  BY <1>1 DEF Fits, Provided, Asked

LEMMA FarmDataReads ==
  ASSUME NEW w, NEW due, Coherent(w, due), w.active \in Farms, w.page = "dashboard",
         NEW c, Seen(w, c)
  PROVE  LET v == LoadFarmData(w, c) IN ReadsOn(w, v) /\ Follows(v) /\ Fits(v)
<1>1. PICK w1 : w1 = LoadCatalogOf(w, w.active, c)
  OBVIOUS
<1>2. /\ ReadsOn(w, w1) /\ (w.active \in DOMAIN w.farms => Provided(w1, KeyOf(w), c))
      /\ Coherent(w1, due)
  BY <1>1, CatalogOfReads, CatalogOfCoheres DEF Seen
<1>3. w1.active = w.active /\ w1.page = w.page /\ w1.farms = w.farms
  BY <1>2 DEF ReadsOn
<1>4. Fits(w1)
  <2>1. CASE w.active \in DOMAIN w.farms
    BY <1>2, <2>1, ProvidedFits
  <2>2. CASE w.active \notin DOMAIN w.farms
    BY <1>3, <2>2 DEF Fits
  <2> QED
    BY <2>1, <2>2
<1>5. PICK w2 : w2 = Load(w1, "fields", w.active, c)
  OBVIOUS
<1>6. /\ ReadsOn(w1, w2) /\ w2.store["fields"].farm = w.active /\ w2.active = w.active
      /\ w2.page = w.page /\ w2 \in Webs
  <2>1. Seen(w1, c) /\ w1 \in Webs
    BY <1>2, <1>3 DEF Seen, Coherent
  <2>2. ReadsOn(w1, w2) /\ w2.store["fields"].farm = w.active /\ w2 \in Webs
    BY <1>3, <1>5, <2>1, LoadReads DEF Kinds
  <2> QED
    BY <1>3, <2>2 DEF ReadsOn
<1>7. PICK v : v = Load(w2, "stables", w.active, c)
  OBVIOUS
<1>8. ReadsOn(w2, v) /\ v.store["stables"].farm = w.active
  <2>1. Seen(w2, c)
    BY <1>6 DEF Seen
  <2> QED
    BY <1>6, <1>7, <2>1, LoadReads DEF Kinds
<1>9. ReadsOn(w, v)
  BY <1>2, <1>6, <1>8, ReadsOnAndOn
<1>10. Fits(v)
  BY <1>4, <1>6, <1>8, FitsOn
<1>11. Follows(v)
  <2>1. v.store["fields"].farm = w.active
    BY <1>6, <1>8 DEF ReadsOn, Kinds
  <2> QED
    BY <1>8, <1>9, <2>1 DEF Follows, KindsOf, ReadsOn
<1>12. LoadFarmData(w, c) = v
  BY <1>1, <1>5, <1>7 DEF LoadFarmData
<1> QED
  BY <1>9, <1>10, <1>11, <1>12

LEMMA ResetReads ==
  ASSUME NEW w \in Webs, w.active = None, NEW k \in Kinds, w.page # "speed"
  PROVE  ReadsOn(w, ResetRows(w, k))
<1> DEFINE s == [w.store[k] EXCEPT !.farm = None, !.rows = Nothing, !.failed = FALSE]
           v == [w EXCEPT !.store[k] = s]
<1>1. w.store \in [Kinds -> Stores] /\ w.store[k] \in Stores
  BY DEF Webs
<1>2. s.farm = None
  BY <1>1 DEF Stores
<1>3. v = ResetRows(w, k)
  BY DEF ResetRows
<1> HIDE DEF s
<1>4. /\ v.farms = w.farms /\ v.active = w.active /\ v.calls = w.calls
      /\ v.current = w.current /\ v.page = w.page
      /\ v.initializing = w.initializing /\ v.speed = w.speed /\ v.config = w.config
      /\ \A j \in Kinds \ {k} : v.store[j] = w.store[j]
      /\ v.store[k].farm = None
  BY <1>1, <1>2 DEF Webs
<1> HIDE DEF v
<1>5. \A j \in Kinds :
       \/ v.store[j].farm = w.store[j].farm /\ v.store[j].rows = w.store[j].rows
       \/ v.store[j].farm = w.active
  BY <1>4
<1>6. Fly(v) = Fly(w)
  BY <1>4, FlySame
<1> QED
  BY <1>3, <1>4, <1>5, <1>6 DEF ReadsOn

LEMMA ResetFarmDataReads ==
  ASSUME NEW w, NEW due, Coherent(w, due), w.active = None, w.page # "speed"
  PROVE  ReadsOn(w, ResetFarmData(w))
<1>1. PICK w1 : w1 = ResetRows(w, "fields")
  OBVIOUS
<1>2. w \in Webs /\ w1 \in Webs
  BY <1>1, ResetCoheres DEF Coherent, Kinds
<1>3. ReadsOn(w, w1)
  BY <1>1, <1>2, ResetReads DEF Kinds
<1>4. ReadsOn(w1, ResetRows(w1, "stables"))
  <2>1. w1.active = None /\ w1.page # "speed"
    BY <1>3 DEF ReadsOn
  <2> QED
    BY <1>2, <2>1, ResetReads DEF Kinds
<1> QED
  BY <1>1, <1>3, <1>4, ReadsOnAndOn DEF ResetFarmData

LEMMA ProductionReads ==
  ASSUME NEW w, NEW due, Coherent(w, due), w.active \in Farms, w.page = "production"
  PROVE  LET v == LoadProduction(w) IN ReadsOn(w, v) /\ Follows(v)
<1>1. PICK w1 : w1 = Load(w, "buildings", w.active, For("page"))
  OBVIOUS
<1>2. /\ w1 \in Webs /\ ReadsOn(w, w1) /\ w1.store["buildings"].farm = w.active
      /\ Coherent(w1, due)
  <2>1. Coherent(w1, due)
    BY <1>1, PageSender, LoadCoheres DEF Senders, Kinds
  <2>2. w \in Webs
    BY DEF Coherent
  <2> QED
    BY <1>1, <2>1, <2>2, SeenPage, LoadReads DEF Kinds, Coherent
<1>3. w1.page = w.page
  BY <1>2 DEF ReadsOn
<1>4. PICK v : v = LoadCatalog(w1, Active, For("page"))
  OBVIOUS
<1>5. ReadsOn(w1, v)
  BY <1>2, <1>3, <1>4, SeenPage, CatalogReads DEF Fitting, Keys
<1>6. ReadsOn(w, v)
  BY <1>2, <1>5, ReadsOnAndOn
<1>7. v.store["buildings"].farm = w.active
  BY <1>2, <1>5 DEF ReadsOn, Kinds
<1>8. LoadProduction(w) = v
  BY <1>1, <1>4 DEF LoadProduction
<1> QED
  BY <1>6, <1>7, <1>8 DEF Follows, KindsOf, ReadsOn

\* The configuration of the active farm was asked for.
Asking(w) == w.page = "herd" /\ w.active # None => Configured(w)
\* Or the chain is under way that will ask for it.
Underway(w) ==
  w.page = "herd" /\ w.active # None =>
    \/ Configured(w)
    \/ \E d \in Fly(w) : d.for = "herd" /\ d.op \in {"catalog", "list"}

LEMMA AskingOn ==
  ASSUME NEW w, NEW v, ReadsOn(w, v)
  PROVE  /\ Asking(w) => Asking(v)
         /\ Underway(w) => Underway(v)
BY DEF ReadsOn, Asking, Underway, Configured

LEMMA ChangedReads ==
  ASSUME NEW w, NEW due, Coherent(w, due)
  PROVE  LET v == ActiveFarmChanged(w) IN
         /\ ReadsOn(w, v)
         /\ w.page = "dashboard" => (~w.initializing => Follows(v) /\ Fits(v))
         /\ w.page # "dashboard" => Follows(v) /\ Asking(v)
         /\ w.page = "herd" => Fits(v)
<1>1. w \in Webs /\ (w.active # None => w.active \in Farms) /\ w.page \in Pages
  BY InFarms DEF Coherent, Webs
<1>2. CASE w.page = "dashboard"
  <2>1. CASE w.initializing
    <3>1. ActiveFarmChanged(w) = w
      BY <1>2, <2>1 DEF ActiveFarmChanged
    <3> QED
      BY <1>2, <2>1, <3>1, ReadsNothing
  <2>2. CASE ~w.initializing /\ w.active = None
    <3>1. ActiveFarmChanged(w) = ResetFarmData(w)
      BY <1>2, <2>2 DEF ActiveFarmChanged
    <3>2. ReadsOn(w, ResetFarmData(w))
      BY <1>2, <2>2, ResetFarmDataReads
    <3> QED
      BY <1>1, <1>2, <2>2, <3>1, <3>2, InFarms, MarksAssumption DEF Follows, Fits, ReadsOn
  <2>3. CASE ~w.initializing /\ w.active # None
    <3>1. ActiveFarmChanged(w) = LoadFarmData(w, For("page"))
      BY <1>2, <2>3 DEF ActiveFarmChanged
    <3> QED
      BY <1>1, <1>2, <2>3, <3>1, SeenPage, FarmDataReads
  <2> QED
    BY <1>1, <2>1, <2>2, <2>3 DEF Webs
<1>3. CASE w.page \in {"stables", "machinery"}
  <2>1. PICK v : v = Reload(w, w.page)
    OBVIOUS
  <2>2. ActiveFarmChanged(w) = v /\ w.page \in Kinds
    BY <1>3, <2>1 DEF ActiveFarmChanged, Kinds
  <2>3. ReadsOn(w, v) /\ (w.active # None => v.store[w.page].farm = w.active)
    BY <1>3, <2>1, <2>2, ReloadReads
  <2>4. Follows(v) /\ Asking(v)
    BY <1>3, <2>3 DEF Follows, KindsOf, ReadsOn, Asking
  <2> QED
    BY <1>3, <2>2, <2>3, <2>4
<1>4. CASE w.page = "production"
  <2>1. CASE w.active = None
    <3>1. ActiveFarmChanged(w) = ResetRows(w, "buildings")
      BY <1>4, <2>1 DEF ActiveFarmChanged
    <3>2. ReadsOn(w, ResetRows(w, "buildings"))
      BY <1>1, <1>4, <2>1, ResetReads DEF Kinds
    <3> QED
      BY <1>4, <2>1, <3>1, <3>2 DEF Follows, Asking, ReadsOn
  <2>2. CASE w.active # None
    <3>1. ActiveFarmChanged(w) = LoadProduction(w)
      BY <1>4, <2>2 DEF ActiveFarmChanged
    <3> QED
      BY <1>1, <1>4, <2>2, <3>1, ProductionReads DEF Asking, ReadsOn
  <2> QED
    BY <2>1, <2>2
<1>5. CASE w.page = "herd"
  <2>1. PICK w1 : w1 = LoadConfig(w)
    OBVIOUS
  <2>2. Coherent(w1, due) /\ ReadsOn(w, w1) /\ (w.active # None => Configured(w1))
    BY <1>5, <2>1, ConfigCoheres, ConfigReads
  <2>3. w1.page = "herd" /\ w1.active = w.active /\ w1.farms = w.farms
    BY <1>5, <2>2 DEF ReadsOn
  <2>4. CASE w.active = None
    <3>1. ActiveFarmChanged(w) = w1
      BY <1>5, <2>1, <2>4 DEF ActiveFarmChanged
    <3> QED
      BY <1>1, <1>5, <2>2, <2>3, <2>4, <3>1, InFarms, MarksAssumption DEF Follows, Fits, Asking
  <2>5. CASE w.active # None
    <3>1. PICK w2 : w2 = HerdCatalog(w1, For("page"))
      OBVIOUS
    <3>2. /\ Coherent(w2, due) /\ ReadsOn(w1, w2) /\ Provided(w2, KeyOf(w1), For("page"))
      BY <2>2, <3>1, SeenPage, PageSender, HerdCatalogCoheres, HerdCatalogReads DEF Senders
    <3>3. Fits(w2)
      BY <3>2, ProvidedFits
    <3>4. w2.active = w.active /\ w2.page = "herd"
      BY <2>3, <3>2 DEF ReadsOn
    <3>5. PICK v : v = LoadMissing(w2, "stables", For("page"))
      OBVIOUS
    <3>6. ReadsOn(w2, v) /\ v.store["stables"].farm = w.active
      BY <1>1, <2>5, <3>2, <3>4, <3>5, SeenPage, LoadMissingReads DEF Kinds
    <3>7. ReadsOn(w, v)
      BY <2>2, <3>2, <3>6, ReadsOnAndOn
    <3>8. Fits(v)
      BY <3>3, <3>6, FitsOn
    <3>9. Asking(v)
      BY <2>2, <2>3, <2>5, <3>2, <3>6, AskingOn DEF Asking
    <3>10. Follows(v)
      BY <1>5, <3>6, <3>7 DEF Follows, KindsOf, ReadsOn
    <3>11. ActiveFarmChanged(w) = v
      BY <1>5, <2>1, <2>5, <3>1, <3>5 DEF ActiveFarmChanged
    <3> QED
      BY <1>5, <3>7, <3>8, <3>9, <3>10, <3>11
  <2> QED
    BY <2>4, <2>5
<1>6. CASE w.page \in {"fields", "harvests", "speed"}
  <2>1. ActiveFarmChanged(w) = w
    BY <1>6 DEF ActiveFarmChanged
  <2> QED
    BY <1>6, <2>1, ReadsNothing DEF Follows, Following, Asking
<1> QED
  BY <1>1, <1>2, <1>3, <1>4, <1>5, <1>6, PagesAssumption

\* The farm that was active may still be: then nothing happens.
Turned(w, f) == [w EXCEPT !.active = f]

LEMMA ActivateReads ==
  ASSUME NEW w, NEW due, Coherent(w, due), NEW f \in Maybe(Farms), w.active # f
  PROVE  LET v == Activate(w, f) IN
         /\ ReadsOn(Turned(w, f), v)
         /\ w.page = "dashboard" => (~w.initializing => Follows(v) /\ Fits(v))
         /\ w.page # "dashboard" => Follows(v) /\ Asking(v)
         /\ w.page = "herd" => Fits(v)
<1> DEFINE a == Turned(w, f)
<1>1. w \in Webs
  BY DEF Coherent
<1>2. /\ a \in Webs /\ a.page = w.page /\ a.initializing = w.initializing
      /\ Calm(w, a)
  BY <1>1 DEF Turned, Webs, Calm
<1>3. Coherent(a, due)
  BY <1>2, CalmCoheres
<1>4. Activate(w, f) = ActiveFarmChanged(a)
  BY DEF Activate, Turned
<1> HIDE DEF a
<1> QED
  BY <1>2, <1>3, <1>4, ChangedReads DEF a

LEMMA BootstrappedReads ==
  ASSUME NEW w, NEW due, Coherent(w, due), NEW c, Seen(w, c), c.for \in Bootstrapping,
         c.for # "speed"
  PROVE  LET v == Bootstrapped(w, c) IN
         ReadsOn(w, v) /\ Follows(v) /\ Fits(v) /\ Underway(v)
<1>1. /\ w \in Webs /\ (w.active # None => w.active \in Farms) /\ w.page = c.for
      /\ \A f \in DOMAIN w.farms : f \in Farms
  BY InFarms DEF Coherent, Seen, Bootstrapping
<1>2. CASE c.for = "dashboard" /\ w.active = None
  <2>1. Bootstrapped(w, c) = ResetFarmData(w)
    BY <1>2 DEF Bootstrapped
  <2> QED
    BY <1>1, <1>2, <2>1, ResetFarmDataReads, MarksAssumption
       DEF Follows, Fits, Underway, ReadsOn
<1>3. CASE c.for = "dashboard" /\ w.active # None
  <2>1. Bootstrapped(w, c) = LoadFarmData(w, c)
    BY <1>3 DEF Bootstrapped
  <2> QED
    BY <1>1, <1>3, <2>1, FarmDataReads DEF Underway, ReadsOn
<1>4. CASE c.for \in {"fields", "harvests"} /\ w.active \notin DOMAIN w.farms
  <2>1. Bootstrapped(w, c) = w
    BY <1>4 DEF Bootstrapped
  <2> QED
    BY <1>1, <1>4, <2>1, ReadsNothing DEF Follows, Following, Fits, Underway
<1>5. CASE c.for \in {"fields", "harvests"} /\ w.active \in DOMAIN w.farms
  <2>1. PICK w1 : w1 = LoadCatalogOf(w, w.active, c)
    OBVIOUS
  <2>2. /\ Coherent(w1, due) /\ ReadsOn(w, w1) /\ Provided(w1, KeyOf(w), c)
    BY <1>5, <2>1, CatalogOfCoheres, CatalogOfReads DEF Seen
  <2>3. w1 \in Webs /\ w1.active = w.active /\ w1.page = w.page /\ w.active \in Farms /\ Fits(w1)
    BY <1>1, <1>5, <2>2, ProvidedFits DEF ReadsOn, Coherent
  <2>4. PICK v : v = Load(w1, c.for, w.active, c)
    OBVIOUS
  <2>5. ReadsOn(w1, v)
    BY <1>1, <1>5, <2>3, <2>4, LoadReads DEF Seen, Kinds
  <2>6. ReadsOn(w, v) /\ Fits(v)
    BY <2>2, <2>3, <2>5, ReadsOnAndOn, FitsOn
  <2>7. Bootstrapped(w, c) = v
    BY <1>5, <2>1, <2>4 DEF Bootstrapped
  <2>8. v.page = w.page
    BY <2>6 DEF ReadsOn
  <2> QED
    BY <1>1, <1>5, <2>6, <2>7, <2>8 DEF Follows, Following, Underway
<1>6. CASE c.for = "herd"
  <2>1. PICK v : v = HerdCatalog(w, c)
    OBVIOUS
  <2>2. ReadsOn(w, v) /\ Provided(v, KeyOf(w), c)
    BY <2>1, HerdCatalogReads
  <2>3. Bootstrapped(w, c) = v
    BY <1>6, <2>1 DEF Bootstrapped
  <2>4. v.page = "herd" /\ v.active = w.active
    BY <1>1, <1>6, <2>2 DEF ReadsOn
  <2>5. Follows(v)
    BY <1>6, <2>2, <2>4 DEF Follows, KindsOf, Provided, Asked, Chaining
  <2>6. Underway(v)
    BY <1>6, <2>2, <2>4 DEF Underway, Provided, Asked, Chaining
  <2> QED
    BY <2>2, <2>3, <2>5, <2>6, ProvidedFits
<1> QED
  BY <1>2, <1>3, <1>4, <1>5, <1>6 DEF Bootstrapping

\* The speed calculator: both lists, and then the saved selection.
Opened(w) == [w EXCEPT !.speed.farm = w.active]
Unlisted(w) ==
  (\E d \in Fly(w) : d.op = "state") => \A d \in Fly(w) : d.op # "list"

LEMMA LoadSends ==
  ASSUME NEW w \in Webs, NEW k \in Kinds, NEW f, NEW c
  PROVE  \A d \in Fly(Load(w, k, f, c)) : d \in Fly(w) \/ d.op = "list"
<1> DEFINE r == Call(c, "list", k, f, None, None)
           w1 == [w EXCEPT !.store[k] = [farm |-> f, rows |-> w.store[k].rows,
                                         loading |-> TRUE, failed |-> FALSE]]
<1>1. w1 = [w EXCEPT !.store = w1.store]
  BY DEF Webs
<1>2. w1.calls = w.calls /\ Load(w, k, f, c) = [w1 EXCEPT !.calls = Append(w1.calls, r)]
  BY <1>1 DEF Load, Send, Webs
<1>3. [w1 EXCEPT !.calls = Append(w1.calls, r)].calls = Append(w.calls, r)
  BY <1>1, <1>2 DEF Webs
<1>4. w.calls \in Seq(Calls) /\ r.op = "list"
  BY DEF Webs, Call
<1> HIDE DEF r, w1
<1>5. \A i \in DOMAIN Append(w.calls, r) :
        Append(w.calls, r)[i] = r \/ (i \in DOMAIN w.calls /\ Append(w.calls, r)[i] = w.calls[i])
  BY <1>4
<1> QED
  BY <1>2, <1>3, <1>4, <1>5 DEF Fly

LEMMA LoadStateReads ==
  ASSUME NEW u \in Webs, NEW w \in Webs, NEW c, Seen(w, c), c.for = "speed", ReadsOn(u, w),
         u.active # None, u.speed.farm = u.active, Unlisted(w),
         \A d \in Fly(w) : d.op = "list" => d.for = "speed" /\ d.mounted
  PROVE  LET v == LoadState(w, c) IN
         /\ ReadsOn(u, v) /\ Unlisted(v)
         /\ v.store = w.store
         /\ w.speed.hydrating => \E d \in Fly(v) : d.op \in {"list", "state"}
<1> DEFINE listed == InFlight(w, LAMBDA d : d.op = "list" /\ d.for = "speed" /\ d.mounted)
           r == Call(c, "state", None, w.speed.farm, None, None)
<1>1. c.mounted /\ w.page = "speed"
  BY DEF Seen
<1>2. listed <=> \E d \in Fly(w) : d.op = "list"
  BY DEF InFlight, Fly
<1>3. CASE ~w.speed.hydrating \/ listed
  <2>1. LoadState(w, c) = w
    BY <1>3 DEF LoadState
  <2> QED
    BY <1>2, <1>3, <2>1
<1>4. CASE w.speed.hydrating /\ ~listed
  <2>1. LoadState(w, c) = Send(w, r)
    BY <1>1, <1>4 DEF LoadState
  <2>2. w.speed.farm \in Maybe(Farms) /\ w.speed = u.speed /\ w.active = u.active
        /\ w.page = u.page
    BY DEF ReadsOn, Webs, Speeds
  <2>3. r \in Calls /\ r.op = "state" /\ r.for = c.for /\ r.mounted = c.mounted
        /\ r.farm = w.speed.farm
    BY <2>2 DEF Call, Calls, Seen, Sender, Maybe, RowOps, FarmOps, ConfigOps
  <2> HIDE DEF r
  <2>4. ReadOf(u, r)
    BY <1>1, <2>2, <2>3 DEF ReadOf, Reads
  <2>5. ReadsOn(u, Send(w, r))
    BY <2>3, <2>4, SentReads
  <2>6. Fly(Send(w, r)) = Fly(w) \cup {r} /\ Send(w, r).store = w.store
    BY <2>3, FlySent, SentFields
  <2>7. \A d \in Fly(Send(w, r)) : d.op # "list"
    BY <1>2, <1>4, <2>3, <2>6
  <2> QED
    BY <1>1, <2>1, <2>3, <2>5, <2>6, <2>7 DEF Unlisted
<1> QED
  BY <1>3, <1>4

LEMMA SpeedReads ==
  ASSUME NEW w, NEW due, Coherent(w, due), NEW c, Seen(w, c), c.for = "speed",
         w.active # None, Fly(w) = {}
  PROVE  LET v == Bootstrapped(w, c) IN
         /\ ReadsOn(Opened(w), v) /\ Unlisted(v)
         /\ v.store["fields"].farm = w.active /\ v.store["machinery"].farm = w.active
         /\ w.speed.hydrating => \E d \in Fly(v) : d.op \in {"list", "state"}
<1> DEFINE s == [w.speed EXCEPT !.farm = w.active]
           w1 == [w EXCEPT !.speed = s]
<1>1. /\ w.active \in Farms /\ w \in Webs /\ w.speed \in Speeds
      /\ w.page = "speed" /\ c.mounted
  BY InFarms DEF Coherent, Webs, Seen
<1>2. s \in Speeds /\ s.hydrating = w.speed.hydrating /\ s.farm = w.active
  BY <1>1 DEF Speeds, Maybe
<1>3. Coherent(w1, due)
  BY <1>2, SpeedCoheres
<1>4. /\ w1.active = w.active /\ w1.page = w.page /\ w1.calls = w.calls
      /\ w1.speed = s /\ w1 \in Webs
  BY <1>1, <1>3 DEF Webs, Coherent
<1>5. w1 = Opened(w)
  BY DEF Opened
<1> HIDE DEF w1, s
<1>6. Fly(w1) = {}
  BY <1>4, FlySame
<1>7. PICK w2 : w2 = LoadMissing(w1, "fields", c)
  OBVIOUS
<1>8. /\ Coherent(w2, due) /\ ReadsOn(w1, w2) /\ w2.store["fields"].farm = w.active
      /\ w2.active = w.active /\ w2.page = w.page /\ w2.speed = s
  <2>1. Seen(w1, c) /\ Sender(c)
    BY <1>4 DEF Seen
  <2>2. Coherent(w2, due) /\ ReadsOn(w1, w2) /\ w2.store["fields"].farm = w.active
    BY <1>1, <1>2, <1>3, <1>4, <1>7, <2>1, LoadMissingCoheres, LoadMissingReads DEF Kinds
  <2> QED
    BY <1>4, <2>2 DEF ReadsOn
<1>9. PICK w3 : w3 = LoadMissing(w2, "machinery", c)
  OBVIOUS
<1>10. /\ Coherent(w3, due) /\ ReadsOn(w2, w3) /\ w3.store["machinery"].farm = w.active
       /\ w3.active = w.active /\ w3.page = w.page /\ w3.speed = s
  <2>1. Seen(w2, c) /\ Sender(c)
    BY <1>8 DEF Seen
  <2>2. Coherent(w3, due) /\ ReadsOn(w2, w3) /\ w3.store["machinery"].farm = w.active
    BY <1>1, <1>2, <1>8, <1>9, <2>1, LoadMissingCoheres, LoadMissingReads DEF Kinds
  <2> QED
    BY <1>8, <2>2 DEF ReadsOn
<1>11. ReadsOn(w1, w3)
  BY <1>8, <1>10, ReadsOnAndOn
<1>12. w3.store["fields"].farm = w.active
  BY <1>8, <1>10 DEF ReadsOn, Kinds
<1>13. \A d \in Fly(w3) : ReadOf(w1, d)
  BY <1>6, <1>11 DEF ReadsOn
<1>14. \A d \in Fly(w2) : d.op # "state"
  <2>1. CASE w1.store["fields"].farm = w1.active
    BY <1>6, <1>7, <2>1 DEF LoadMissing
  <2>2. CASE w1.store["fields"].farm # w1.active
    <3>1. w2 = Load(w1, "fields", w.active, c)
      BY <1>4, <1>7, <2>2 DEF LoadMissing
    <3> QED
      BY <1>4, <1>6, <3>1, LoadSends DEF Kinds
  <2> QED
    BY <2>1, <2>2
<1>15. \A d \in Fly(w3) : d.op # "state"
  <2>1. CASE w2.store["machinery"].farm = w2.active
    BY <1>9, <1>14, <2>1 DEF LoadMissing
  <2>2. CASE w2.store["machinery"].farm # w2.active
    <3>1. w3 = Load(w2, "machinery", w.active, c) /\ w2 \in Webs
      BY <1>8, <1>9, <2>2 DEF LoadMissing, Coherent
    <3> QED
      BY <1>14, <3>1, LoadSends DEF Kinds
  <2> QED
    BY <2>1, <2>2
<1>16. PICK v : v = LoadState(w3, c)
  OBVIOUS
<1>17. /\ ReadsOn(w1, v) /\ Unlisted(v) /\ v.store = w3.store
       /\ w3.speed.hydrating => \E d \in Fly(v) : d.op \in {"list", "state"}
  <2>1. w3 \in Webs /\ Seen(w3, c)
    BY <1>10 DEF Coherent, Seen
  <2>2. \A d \in Fly(w3) : d.op = "list" => d.for = "speed" /\ d.mounted
    BY <1>1, <1>4, <1>13 DEF ReadOf, Reads
  <2>3. Unlisted(w3)
    BY <1>15 DEF Unlisted
  <2>4. w1.active # None /\ w1.speed.farm = w1.active
    BY <1>2, <1>4
  <2> QED
    BY <1>4, <1>11, <1>16, <2>1, <2>2, <2>3, <2>4, LoadStateReads
<1>18. Bootstrapped(w, c) = v
  BY <1>1, <1>5, <1>7, <1>9, <1>16 DEF Bootstrapped, Opened
<1> QED
  BY <1>2, <1>5, <1>10, <1>12, <1>17, <1>18

-----------------------------------------------------------------------------
(* The inductive invariant for the user who waits: Fine, of the API s and    *)
(* the tab w.                                                                *)
\* The calls on which the active farm depends.
Moves == {"farms", "settings", "pin"}
Moving(w) == \E c \in Fly(w) : c.op \in Moves
Pinning(w) == \E c \in Fly(w) : c.op = "pin"
NoneGone(s) == s.gone \cap ({"farm"} \X Farms) = {}

\* A call that reads is about the farm that is active; the other calls are in
\* flight alone, and what they are about does not change before the answer.
Read(w, c) ==
  ReadOf(w, c) /\ (c.op = "list" => w.store[c.kind].farm = w.active)
\* A farm that the tab knows is to be pinned; or none, when that farm was deleted.
Repins(s, w, c) ==
  IF c.farm = None
  THEN s.pin = None /\ c.for = "deleted" /\ ~NoneGone(s)
  ELSE /\ c.farm \in DOMAIN w.farms
       /\ \/ c.for \in Bootstrapping
          \/ c.for = "dashboard-new" /\ c.farm # w.active
          \/ c.for = "switcher" /\ c.farm # w.active /\ c.body = w.farms[c.farm]
\* The active farm is looked for, or pinned.
Moved(s, w, c) ==
  /\ c.op = "settings" => w.farms # Nothing \/ s.farms = Nothing
  /\ c.op = "pin" => Repins(s, w, c)
  /\ c.for = "herd" => w.active = None
  /\ c.for = "speed" => w.speed.hydrating
\* What is written is written for the active farm.
Wrote(w, c) ==
  /\ c.op \in RowOps \cup ConfigOps \cup {"saveState"} => c.farm = w.active
  /\ c.op \in RowOps => w.page # "speed"
  /\ c.op = "harvest" => w.page = "fields"
  /\ c.op \in ConfigOps => w.page = "herd"
  /\ c.op = "saveConfig" => c.body \in {Default, c.farm}
  /\ c.op = "saveState" => w.page = "speed" /\ c.body = w.speed.picks
Sound(s, w, c) ==
  IF c.op \in Reads THEN Read(w, c)
  ELSE /\ c.mounted /\ c.op # "timer"
       /\ c.for \in Bootstrapping => c.for = w.page
       /\ c.for = "dashboard-new" => w.page = "dashboard"
       /\ c.op \in {"createFarm", "updateFarm", "deleteFarm"} =>
            c.for \in {"switcher", "dashboard-new"}
       /\ c.op \in Moves => Moved(s, w, c)
       /\ Wrote(w, c)
Orderly(s, w) ==
  /\ Len(w.calls) <= 1 \/ \A c \in Fly(w) : c.op \in Reads
  /\ w.speed.timer => w.calls = <<>> /\ w.page = "speed"
  /\ \A c \in Fly(w) : Sound(s, w, c)
  /\ Unlisted(w)
\* The dashboard is initializing while it has a call in flight.
Initializes(w) ==
  w.initializing => w.page = "dashboard" /\ \E c \in Fly(w) : c.for = "dashboard"

\* The farms the tab knows and the one that is active.
Known(s, w) ==
  /\ \A f \in DOMAIN w.farms : f \in DOMAIN s.farms /\ w.farms[f] = s.farms[f]
  /\ s.pin \in DOMAIN s.farms \cup {None}
  /\ \A f \in DOMAIN s.farms : <<"farm", f>> \notin s.gone
FarmsFit(s, w) ==
  /\ Known(s, w)
  /\ w.active # None /\ ~Pinning(w) => w.active = s.pin /\ w.active \in DOMAIN w.farms

\* A store shows the rows of the farm it names, or has asked for them.
RowsFit(s, w) ==
  \A k \in Kinds :
    /\ w.store[k].farm \in DOMAIN s.farms =>
         \/ w.store[k].rows = RowsOf(s, k, w.store[k].farm)
         \/ \E c \in Fly(w) : c.op = "list" /\ c.kind = k
    /\ w.store[k].farm # None =>
         w.store[k].farm \in DOMAIN s.farms \/ <<"farm", w.store[k].farm>> \in s.gone

ConfigsFit(s) == \A f \in Farms : s.configs[f] \in {None, Default, f}

\* The selection of the speed calculator: what was saved of what there is, unless
\* it is about to be saved.
SpeedKinds == {"fields", "machinery"}
Own(s, f) == {p \in Kinds \X Ids : p[2] \in DOMAIN RowsOf(s, p[1], f)}
Selected(s, w) ==
  /\ w.speed.picks \subseteq Own(s, w.speed.farm)
  /\ \/ w.speed.timer
     \/ \E c \in Fly(w) : c.op = "saveState"
     \/ \E f \in Farms :
          w.speed.picks = OrElse(s.picks[f], {}) \cap Own(s, w.speed.farm)
SpeedFits(s, w) ==
  /\ \A f \in Farms : s.picks[f] # None => s.picks[f] \subseteq SpeedKinds \X Ids
  /\ w.speed.picks \subseteq SpeedKinds \X Ids
  /\ w.page = "speed" =>
      /\ w.speed.hydrating => w.speed.picks = {} /\ ~w.speed.timer
      /\ w.speed.farm # None =>
           /\ \A k \in SpeedKinds : w.store[k].farm = w.speed.farm
           /\ NoneGone(s) => w.active # None
           /\ NoneGone(s) /\ ~w.speed.hydrating => Selected(s, w)

\* The inputs of the animal calculators: those that were saved, unless they have
\* been touched, or are on their way.
Returned(s, w) ==
  /\ w.config.saved <=> s.configs[w.active] # None
  /\ ~w.config.dirty => w.config.inputs = OrElse(s.configs[w.active], Default)
InputsFit(s, w) ==
  w.page = "herd" /\ w.active # None =>
    \/ Configured(w)
    \/ /\ w.config.inputs \in {Default, w.active}
       /\ \/ \E c \in Fly(w) : c.for = "herd" /\ c.op \in {"catalog", "list"}
          \/ Returned(s, w)

\* What the page shows, once the active farm is settled.
Shown(s, w) ==
  \/ Moving(w)
  \/ /\ w.page \in Bootstrapping => w.active = s.pin
     /\ Follows(w) /\ Fits(w) /\ InputsFit(s, w)

Fine(s, w) ==
  /\ Orderly(s, w) /\ Initializes(w) /\ FarmsFit(s, w) /\ RowsFit(s, w)
  /\ ConfigsFit(s) /\ SpeedFits(s, w) /\ Shown(s, w)
\* As long as nothing is lost.
PatientInv == lost \in Nat /\ (patient /\ lost = 0 => Fine(server, web))

\* An answer is told from a failure.
LEMMA Different ==
  ASSUME NEW s \in Servers, NEW c \in Calls, ~Refused(s, c)
  PROVE  Answered(s, c) # Failed
<1>1. Answered(s, c) \in Answers(c)
  BY AnsweredTyped
<1>2. Failed \notin FarmMaps /\ Failed \notin RowMaps
  BY MarksAssumption DEF FarmMaps, RowMaps
<1>3. /\ Failed \notin Maybe(Farms) /\ Failed \notin Farms /\ Failed \notin Maybe(Inputs)
      /\ Failed \notin Inputs /\ Failed \notin Maybe(Selections) /\ Failed \notin {None}
  BY MarksAssumption DEF Maybe, Inputs, Selections
<1>4. QED
  BY <1>1, <1>2, <1>3 DEF Answers

LEMMA TakenElements ==
  ASSUME NEW q \in Seq(Calls), NEW i \in DOMAIN q, NEW left, left = RemoveAt(q, i)
  PROVE  /\ left \in Seq(Calls)
         /\ \A j \in DOMAIN left : \E k \in DOMAIN q : left[j] = q[k]
         /\ \A k \in DOMAIN q \ {i} : \E j \in DOMAIN left : left[j] = q[k]
         /\ Len(q) <= 1 => DOMAIN left = {}
<1>1. /\ left \in Seq(Calls)
      /\ \E from \in [DOMAIN left -> DOMAIN q \ {i}] :
           /\ \A j \in DOMAIN left : left[j] = q[from[j]]
           /\ \A j, k \in DOMAIN left : from[j] = from[k] => j = k
           /\ \A k \in DOMAIN q \ {i} : \E j \in DOMAIN left : from[j] = k
  BY TakenOnce, SMTT(30)
<1>2. PICK from \in [DOMAIN left -> DOMAIN q \ {i}] :
        /\ \A j \in DOMAIN left : left[j] = q[from[j]]
        /\ \A k \in DOMAIN q \ {i} : \E j \in DOMAIN left : from[j] = k
  BY <1>1
<1>3. Len(q) <= 1 => DOMAIN q \ {i} = {}
  OBVIOUS
<1> QED
  BY <1>1, <1>2, <1>3

\* The tab without a call that has been answered.
LEMMA TakenFly ==
  ASSUME NEW w \in Webs, NEW i \in DOMAIN w.calls, NEW u,
         u = [w EXCEPT !.calls = RemoveAt(w.calls, i)]
  PROVE  /\ u \in Webs /\ w.calls[i] \in Calls /\ w.calls[i] \in Fly(w)
         /\ u.farms = w.farms /\ u.active = w.active /\ u.saving = w.saving
         /\ u.cached = w.cached /\ u.current = w.current /\ u.store = w.store
         /\ u.page = w.page /\ u.initializing = w.initializing
         /\ u.config = w.config /\ u.speed = w.speed
         /\ Fly(u) \subseteq Fly(w) /\ Fly(w) \subseteq Fly(u) \cup {w.calls[i]}
         /\ Len(w.calls) <= 1 => Fly(u) = {} /\ Fly(w) = {w.calls[i]}
         /\ w.calls # <<>>
<1>1. w.calls \in Seq(Calls)
  BY DEF Webs
<1>2. PICK left : left = RemoveAt(w.calls, i)
  OBVIOUS
<1>3. u = [w EXCEPT !.calls = left]
  BY <1>2
<1>4. PICK q : q = w.calls
  OBVIOUS
<1>5. /\ left \in Seq(Calls)
      /\ \A j \in DOMAIN left : \E k \in DOMAIN q : left[j] = q[k]
      /\ \A k \in DOMAIN q \ {i} : \E j \in DOMAIN left : left[j] = q[k]
      /\ Len(q) <= 1 => DOMAIN left = {}
  <2>1. q \in Seq(Calls) /\ i \in DOMAIN q /\ left = RemoveAt(q, i)
    BY <1>1, <1>2, <1>4
  <2> QED
    BY <2>1, TakenElements
<1>6. /\ u \in Webs /\ u.calls = left
      /\ u.farms = w.farms /\ u.active = w.active /\ u.saving = w.saving
      /\ u.cached = w.cached /\ u.current = w.current /\ u.store = w.store
      /\ u.page = w.page /\ u.initializing = w.initializing
      /\ u.config = w.config /\ u.speed = w.speed
  BY <1>3, <1>5 DEF Webs
<1>7. w.calls[i] \in Calls /\ w.calls[i] \in Fly(w) /\ w.calls # <<>>
  BY <1>1 DEF Fly
<1>8. Fly(u) \subseteq Fly(w) /\ Fly(w) \subseteq Fly(u) \cup {w.calls[i]}
  BY <1>4, <1>5, <1>6, SMTT(30) DEF Fly
<1>9. ASSUME Len(w.calls) <= 1 PROVE Fly(u) = {} /\ Fly(w) = {w.calls[i]}
  <2>1. Fly(u) = {}
    BY <1>4, <1>5, <1>6, <1>9 DEF Fly
  <2> QED
    BY <1>7, <1>8, <2>1
<1> QED
  BY <1>6, <1>7, <1>8, <1>9

\* Reading leaves everything in order.
LEMMA OrderlyOn ==
  ASSUME NEW s, NEW w, NEW v, ReadsOn(w, v), Orderly(s, w), ~w.speed.timer,
         \A c \in Fly(w) : c.op \in Reads, Unlisted(v)
  PROVE  Orderly(s, v)
<1>1. /\ v.farms = w.farms /\ v.active = w.active /\ v.page = w.page
      /\ v.speed = w.speed /\ KeyOf(v) = KeyOf(w)
  BY DEF ReadsOn, KeyOf, Version
<1>2. \A d : ReadOf(v, d) <=> ReadOf(w, d)
  BY <1>1 DEF ReadOf
<1>3. \A c \in Fly(v) : c.op \in Reads
  BY DEF ReadsOn, ReadOf
<1>4. ASSUME NEW c \in Fly(v) PROVE Read(v, c)
  <2>1. CASE c \in Fly(w)
    <3>1. ReadOf(w, c) /\ (c.op = "list" => w.store[c.kind].farm = w.active)
      BY <2>1 DEF Orderly, Sound, Read
    <3>2. c.op = "list" => v.store[c.kind].farm = w.active
      BY <3>1 DEF ReadsOn, ReadOf
    <3> QED
      BY <1>1, <1>2, <3>1, <3>2 DEF Read
  <2>2. CASE c \notin Fly(w)
    BY <1>1, <1>2, <2>2 DEF ReadsOn, Read
  <2> QED
    BY <2>1, <2>2
<1> QED
  BY <1>1, <1>3, <1>4 DEF Orderly, Sound

LEMMA UnlistedOn ==
  ASSUME NEW s, NEW w, NEW v, ReadsOn(w, v), Orderly(s, w), w.page # "speed"
  PROVE  Unlisted(v)
<1>1. \A c \in Fly(v) : c.op # "state"
  <2> SUFFICES ASSUME NEW c \in Fly(v), c.op = "state" PROVE FALSE
    OBVIOUS
  <2>1. ReadOf(w, c)
    BY DEF ReadsOn, Orderly, Sound, Read, Reads
  <2> QED
    BY <2>1 DEF ReadOf
<1> QED
  BY <1>1 DEF Unlisted

LEMMA FarmsOn ==
  ASSUME NEW s, NEW w, NEW v, ReadsOn(w, v), FarmsFit(s, w),
         \A c \in Fly(w) : c.op \in Reads
  PROVE  FarmsFit(s, v) /\ (w.active # None => w.active \in DOMAIN s.farms)
<1>1. ~Pinning(w)
  BY DEF Pinning, Reads
<1>2. v.farms = w.farms /\ v.active = w.active
  BY DEF ReadsOn
<1> QED
  BY <1>1, <1>2 DEF FarmsFit, Known

LEMMA RowsOn ==
  ASSUME NEW s, NEW w, NEW v, ReadsOn(w, v), RowsFit(s, w),
         w.active # None => w.active \in DOMAIN s.farms, None \notin DOMAIN s.farms
  PROVE  RowsFit(s, v)
<1>1. ASSUME NEW k \in Kinds
      PROVE  /\ v.store[k].farm \in DOMAIN s.farms =>
                  \/ v.store[k].rows = RowsOf(s, k, v.store[k].farm)
                  \/ \E c \in Fly(v) : c.op = "list" /\ c.kind = k
             /\ v.store[k].farm # None =>
                  v.store[k].farm \in DOMAIN s.farms \/ <<"farm", v.store[k].farm>> \in s.gone
  <2>1. CASE v.store[k].farm = w.store[k].farm /\ v.store[k].rows = w.store[k].rows
    BY <2>1 DEF RowsFit, ReadsOn
  <2>2. CASE /\ v.store[k].farm = w.active
             /\ w.active = None \/ \E d \in Fly(v) : d.op = "list" /\ d.kind = k
    BY <2>2
  <2> QED
    BY <2>1, <2>2 DEF ReadsOn
<1> QED
  BY <1>1 DEF RowsFit

LEMMA SpeedOn ==
  ASSUME NEW s, NEW w, NEW v, ReadsOn(w, v), SpeedFits(s, w),
         w.page # "speed" \/ v.store = w.store
  PROVE  SpeedFits(s, v)
<1>1. /\ v.active = w.active /\ v.page = w.page /\ v.speed = w.speed
      /\ Fly(w) \subseteq Fly(v)
  BY DEF ReadsOn
<1>2. Selected(s, w) => Selected(s, v)
  BY <1>1 DEF Selected
<1> QED
  BY <1>1, <1>2 DEF SpeedFits

LEMMA InputsOn ==
  ASSUME NEW s, NEW w, NEW v, ReadsOn(w, v), InputsFit(s, w)
  PROVE  InputsFit(s, v)
<1>1. /\ v.active = w.active /\ v.page = w.page /\ Fly(w) \subseteq Fly(v)
      /\ w.active # None => /\ v.config.inputs = w.config.inputs
                            /\ v.config.saved = w.config.saved
                            /\ v.config.dirty = w.config.dirty
  BY DEF ReadsOn
<1>2. Configured(w) => Configured(v)
  BY <1>1 DEF Configured
<1>3. w.active # None => (Returned(s, w) => Returned(s, v))
  BY <1>1 DEF Returned
<1> QED
  BY <1>1, <1>2, <1>3 DEF InputsFit

\* All of it but what the end of a step sees to.
Nearly(s, w) ==
  /\ Orderly(s, w) /\ FarmsFit(s, w) /\ RowsFit(s, w) /\ ConfigsFit(s)
  /\ SpeedFits(s, w) /\ Shown(s, w)
  /\ w.initializing => w.page = "dashboard"

\* What the invariant does not look at.
Alike(w, v) ==
  /\ v.farms = w.farms /\ v.active = w.active /\ v.current = w.current
  /\ v.store = w.store /\ v.page = w.page /\ v.config = w.config
  /\ v.speed = w.speed /\ v.calls = w.calls

LEMMA AlikeNearly ==
  ASSUME NEW s, NEW w, NEW v, Alike(w, v), Nearly(s, w),
         v.initializing => v.page = "dashboard"
  PROVE  Nearly(s, v)
<1>1. Fly(v) = Fly(w) /\ KeyOf(v) = KeyOf(w)
  BY DEF Alike, Fly, KeyOf, Version
<1>2. \A d : ReadOf(v, d) <=> ReadOf(w, d)
  BY <1>1 DEF Alike, ReadOf
<1>3. \A d : Sound(s, w, d) => Sound(s, v, d)
  <2> TAKE d
  <2>1. Read(w, d) => Read(v, d)
    BY <1>2 DEF Read, Alike
  <2>2. Moved(s, w, d) => Moved(s, v, d)
    BY DEF Moved, Repins, Alike
  <2>3. Wrote(w, d) => Wrote(v, d)
    BY DEF Wrote, Alike
  <2> QED
    BY <2>1, <2>2, <2>3 DEF Sound, Alike
<1>4. Orderly(s, v)
  BY <1>1, <1>3 DEF Nearly, Orderly, Unlisted, Alike
<1>5. FarmsFit(s, v)
  BY <1>1 DEF Nearly, FarmsFit, Known, Pinning, Alike
<1>6. RowsFit(s, v)
  BY <1>1 DEF Nearly, RowsFit, Alike
<1>7. SpeedFits(s, v)
  BY <1>1 DEF Nearly, SpeedFits, Selected, Alike
<1>8. Shown(s, v)
  <2>1. Moving(w) => Moving(v)
    BY <1>1 DEF Moving
  <2>2. Follows(w) => Follows(v)
    BY <1>1 DEF Follows, Alike
  <2>3. Fits(w) => Fits(v)
    BY <1>1 DEF Fits, Alike
  <2>4. InputsFit(s, w) => InputsFit(s, v)
    BY <1>1 DEF InputsFit, Configured, Returned, Alike
  <2> QED
    BY <2>1, <2>2, <2>3, <2>4 DEF Nearly, Shown, Alike
<1> QED
  BY <1>4, <1>5, <1>6, <1>7, <1>8 DEF Nearly

LEMMA SettledFine ==
  ASSUME NEW s, NEW w \in Webs, Nearly(s, w)
  PROVE  Fine(s, Settle(w))
<1>1. PICK v : v = Settle(w)
  OBVIOUS
<1>2. /\ Alike(w, v)
      /\ v.initializing <=> w.initializing
                            /\ InFlight(w, LAMBDA c : c.for = "dashboard" /\ c.mounted)
  BY <1>1 DEF Settle, Alike, Webs
<1>3. v.initializing => v.page = "dashboard" /\ \E c \in Fly(v) : c.for = "dashboard"
  BY <1>2 DEF InFlight, Nearly, Alike, Fly
<1>4. Nearly(s, v)
  BY <1>2, <1>3, AlikeNearly
<1> QED
  BY <1>1, <1>3, <1>4 DEF Nearly, Fine, Initializes

\* A tab with nothing in flight, for the farm that is to be shown.
Idle(s, w) ==
  /\ w \in Webs /\ Fly(w) = {} /\ ~w.speed.timer
  /\ FarmsFit(s, w) /\ RowsFit(s, w) /\ ConfigsFit(s) /\ SpeedFits(s, w)
  /\ w.page \in Bootstrapping => w.active = s.pin
  /\ w.initializing => w.page = "dashboard"

LEMMA NoneIsNoFarm ==
  ASSUME NEW s \in Servers
  PROVE  None \notin DOMAIN s.farms
BY MarksAssumption DEF Servers, FarmMaps

LEMMA ReadNearly ==
  ASSUME NEW s \in Servers, NEW w, Idle(s, w), NEW v, ReadsOn(w, v),
         w.page = "speed" => Unlisted(v) /\ SpeedFits(s, v),
         Follows(v), Fits(v), InputsFit(s, v)
  PROVE  Nearly(s, v)
<1>1. Fly(w) = {} /\ w.calls = <<>> /\ Len(w.calls) <= 1
  <2>1. w.calls = <<>>
    BY FlyCalls DEF Idle
  <2> QED
    BY <2>1 DEF Idle
<1>2. Orderly(s, w)
  BY <1>1 DEF Orderly, Unlisted, Idle
<1>3. Unlisted(v) /\ SpeedFits(s, v)
  BY <1>2, UnlistedOn, SpeedOn DEF Idle
<1>4. Orderly(s, v)
  BY <1>1, <1>2, <1>3, OrderlyOn DEF Idle
<1>5. FarmsFit(s, v) /\ (w.active # None => w.active \in DOMAIN s.farms)
  BY <1>1, FarmsOn DEF Idle
<1>6. RowsFit(s, v)
  BY <1>5, NoneIsNoFarm, RowsOn DEF Idle
<1>7. Shown(s, v)
  BY DEF Shown, Idle, ReadsOn
<1> QED
  BY <1>3, <1>4, <1>5, <1>6, <1>7 DEF Nearly, Idle, ReadsOn

\* A tab with nothing in flight that is about to turn to the farm that is pinned.
Turning(s, w, f) ==
  /\ w \in Webs /\ Fly(w) = {} /\ ~w.speed.timer
  /\ Known(s, w) /\ RowsFit(s, w) /\ ConfigsFit(s) /\ SpeedFits(s, w)
  /\ f = s.pin /\ f \in DOMAIN w.farms \cup {None}
  /\ f = None => w.active = None \/ ~NoneGone(s)
  /\ w.initializing => w.page = "dashboard"

LEMMA TurnedFields ==
  ASSUME NEW w \in Webs, NEW f \in Maybe(Farms)
  PROVE  LET v == Turned(w, f) IN
         /\ v \in Webs /\ v.active = f
         /\ v.farms = w.farms /\ v.saving = w.saving /\ v.cached = w.cached
         /\ v.current = w.current /\ v.store = w.store /\ v.page = w.page
         /\ v.initializing = w.initializing /\ v.config = w.config
         /\ v.speed = w.speed /\ v.calls = w.calls /\ Fly(v) = Fly(w)
<1> DEFINE v == Turned(w, f)
<1>1. /\ v \in Webs /\ v.active = f
      /\ v.farms = w.farms /\ v.saving = w.saving /\ v.cached = w.cached
      /\ v.current = w.current /\ v.store = w.store /\ v.page = w.page
      /\ v.initializing = w.initializing /\ v.config = w.config
      /\ v.speed = w.speed /\ v.calls = w.calls
  BY DEF Turned, Webs
<1> HIDE DEF v
<1>2. Fly(v) = Fly(w)
  BY <1>1, FlySame
<1> QED
  BY <1>1, <1>2 DEF v

LEMMA TurningIsOfFarms ==
  ASSUME NEW s, NEW w, NEW f, Turning(s, w, f)
  PROVE  f \in Maybe(Farms)
BY DEF Turning, Webs, FarmMaps, Maybe

LEMMA TurningIdle ==
  ASSUME NEW s, NEW w, NEW f, Turning(s, w, f)
  PROVE  Idle(s, Turned(w, f))
<1>1. PICK v : v = Turned(w, f)
  OBVIOUS
<1>2. /\ v \in Webs /\ v.active = f
      /\ v.farms = w.farms /\ v.store = w.store /\ v.page = w.page
      /\ v.initializing = w.initializing
      /\ v.speed = w.speed /\ Fly(v) = Fly(w)
  BY <1>1, TurningIsOfFarms, TurnedFields DEF Turning
<1>3. FarmsFit(s, v)
  BY <1>2 DEF Turning, FarmsFit, Known
<1>4. RowsFit(s, v)
  BY <1>2 DEF Turning, RowsFit
<1>5. SpeedFits(s, v)
  <2>1. Selected(s, w) => Selected(s, v)
    BY <1>2 DEF Selected
  <2>2. f = None /\ NoneGone(s) => w.active = None
    BY DEF Turning
  <2> QED
    BY <1>2, <2>1, <2>2 DEF Turning, SpeedFits
<1> QED
  BY <1>1, <1>2, <1>3, <1>4, <1>5 DEF Idle, Turning

LEMMA TurnedReads ==
  ASSUME NEW w, NEW due, Coherent(w, due), NEW f \in Maybe(Farms)
  PROVE  LET v == Activate(w, f) IN
         /\ ReadsOn(Turned(w, f), v) /\ Coherent(v, due)
         /\ w.page = "speed" => v = Turned(w, f)
<1>1. w \in Webs /\ Coherent(Activate(w, f), due)
  BY ActivateCoheres DEF Coherent
<1>2. CASE w.active = f
  <2>1. Turned(w, f) = w /\ Activate(w, f) = w
    BY <1>1, <1>2 DEF Turned, Activate, Webs
  <2> QED
    BY <1>1, <2>1, ReadsNothing
<1>3. CASE w.active # f
  <2>1. ReadsOn(Turned(w, f), Activate(w, f))
    BY <1>3, ActivateReads
  <2>2. Turned(w, f).page = w.page
    BY <1>1, TurnedFields
  <2>3. w.page = "speed" => Activate(w, f) = Turned(w, f)
    <3>1. PICK t : t = Turned(w, f)
      OBVIOUS
    <3>2. Activate(w, f) = ActiveFarmChanged(t)
      BY <1>3, <3>1 DEF Activate, Turned
    <3>3. t.page = "speed" => ActiveFarmChanged(t) = t
      BY DEF ActiveFarmChanged
    <3> QED
      BY <2>2, <3>1, <3>2, <3>3
  <2> QED
    BY <1>1, <2>1, <2>3
<1> QED
  BY <1>2, <1>3

\* A bootstrap ends: the active farm is the pinned one, and the page loads.
LEMMA BootstrapNearly ==
  ASSUME NEW s \in Servers, NEW w, NEW f, Turning(s, w, f), NEW due, Coherent(w, due),
         NEW c, Seen(w, c), c.for \in Bootstrapping,
         c.for = "herd" => w.active = None
                           \/ (w.active = f /\ w.config.inputs \in {Default, f}),
         c.for = "speed" => w.speed.hydrating /\ (f = None => w.active = None)
  PROVE  Nearly(s, Bootstrapped(Activate(w, f), c))
<1>1. /\ w \in Webs /\ f \in Maybe(Farms) /\ w.page = c.for /\ Fly(w) = {}
      /\ w.page \in Bootstrapping
  BY TurningIsOfFarms DEF Turning, Seen, Bootstrapping
<1>2. PICK t : t = Turned(w, f)
  OBVIOUS
<1>3. /\ Idle(s, t) /\ t \in Webs /\ t.active = f /\ t.page = w.page /\ Fly(t) = {}
      /\ t.speed = w.speed /\ t.store = w.store /\ t.config = w.config
      /\ t.farms = w.farms
  BY <1>1, <1>2, TurningIdle, TurnedFields
<1>4. PICK a : a = Activate(w, f)
  OBVIOUS
<1>5. ReadsOn(t, a) /\ Coherent(a, due) /\ (w.page = "speed" => a = t)
  BY <1>1, <1>2, <1>4, TurnedReads
<1>6. a.page = w.page /\ a.active = f /\ Seen(a, c)
  BY <1>3, <1>5 DEF ReadsOn, Seen
<1>7. PICK v : v = Bootstrapped(a, c)
  OBVIOUS
<1>8. CASE c.for # "speed"
  <2>1. ReadsOn(a, v) /\ Follows(v) /\ Fits(v) /\ Underway(v)
    BY <1>5, <1>6, <1>7, <1>8, BootstrappedReads
  <2>2. ReadsOn(t, v)
    BY <1>5, <2>1, ReadsOnAndOn
  <2>3. v.page = w.page /\ v.active = f
    BY <1>3, <2>2 DEF ReadsOn
  <2>4. InputsFit(s, v)
    <3>1. CASE w.page # "herd" \/ f = None
      BY <2>3, <3>1 DEF InputsFit
    <3>2. CASE w.page = "herd" /\ f # None /\ w.active # f
      <4>1. Asking(a)
        BY <1>1, <1>4, <3>2, ActivateReads
      <4>2. Asking(v)
        BY <2>1, <4>1, AskingOn
      <4> QED
        BY <2>3, <3>2, <4>2 DEF Asking, InputsFit
    <3>3. CASE w.page = "herd" /\ f # None /\ w.active = f
      <4>1. t.config.inputs \in {Default, f}
        BY <1>1, <1>3, <3>3
      <4>2. v.config.inputs \in {Default, f}
        BY <1>3, <2>2, <3>3, <4>1 DEF ReadsOn
      <4> QED
        BY <2>1, <2>3, <3>3, <4>2 DEF Underway, InputsFit
    <3> QED
      BY <3>1, <3>2, <3>3
  <2>5. Nearly(s, v)
    BY <1>1, <1>3, <1>8, <2>1, <2>2, <2>4, ReadNearly
  <2> QED
    BY <1>4, <1>7, <2>5
<1>9. CASE c.for = "speed" /\ f = None
  <2> DEFINE x == [t.speed EXCEPT !.hydrating = FALSE]
             z == [t EXCEPT !.speed = x]
  <2>0. a = t /\ t.active = None /\ c.mounted
    BY <1>1, <1>3, <1>5, <1>9 DEF Seen
  <2>1. v = z
    <3>1. v = [t EXCEPT !.speed.hydrating = @ /\ ~c.mounted]
      BY <1>7, <1>9, <2>0 DEF Bootstrapped
    <3>2. [t.speed EXCEPT !.hydrating = @ /\ ~c.mounted] = x
      BY <1>3, <2>0 DEF Webs, Speeds
    <3> QED
      BY <3>1, <3>2
  <2>2. /\ x.farm = t.speed.farm /\ x.picks = t.speed.picks /\ x.timer = t.speed.timer
        /\ x.hydrating = FALSE
    BY <1>3 DEF Webs, Speeds
  <2>3. /\ z.farms = t.farms /\ z.active = None /\ z.store = t.store /\ z.page = "speed"
        /\ z.initializing = t.initializing /\ z.calls = t.calls /\ z.speed = x
        /\ z.current = t.current /\ z.config = t.config
    BY <1>1, <1>3, <1>9 DEF Webs
  <2> HIDE DEF x, z
  <2>4. Fly(z) = {} /\ z.calls = <<>> /\ Len(z.calls) <= 1
    <3>1. t.calls = <<>>
      BY <1>3, FlyCalls
    <3> QED
      BY <1>3, <2>3, <3>1, FlySame
  <2>5. Orderly(s, z)
    BY <1>3, <2>2, <2>3, <2>4 DEF Orderly, Unlisted, Idle
  <2>6. FarmsFit(s, z)
    BY <1>3, <2>3 DEF Idle, FarmsFit, Known
  <2>7. RowsFit(s, z)
    BY <1>3, <2>3, <2>4 DEF Idle, RowsFit
  <2>8. SpeedFits(s, z)
    <3>1. SpeedFits(s, t)
      BY <1>3 DEF Idle
    <3>2. t.page = "speed" /\ (t.speed.farm # None => ~NoneGone(s))
      BY <1>1, <1>3, <1>9, <2>0, <3>1 DEF SpeedFits
    <3> QED
      BY <2>2, <2>3, <3>1, <3>2 DEF SpeedFits
  <2>9. Shown(s, z)
    <3>1. z.active = s.pin
      BY <1>9, <2>3 DEF Turning
    <3>2. Follows(z) /\ Fits(z) /\ InputsFit(s, z)
      BY <2>3 DEF Follows, Following, Fits, Fitting, InputsFit
    <3> QED
      BY <3>1, <3>2 DEF Shown
  <2>10. Nearly(s, z)
    <3>1. ~z.initializing
      BY <1>1, <1>3, <1>9, <2>3 DEF Idle
    <3> QED
      BY <1>3, <2>5, <2>6, <2>7, <2>8, <2>9, <3>1 DEF Nearly, Idle
  <2> QED
    BY <1>4, <1>7, <2>1, <2>10
<1>10. CASE c.for = "speed" /\ f # None
  <2>1. a = t /\ t.active # None /\ t.page = "speed" /\ t.speed.hydrating
    BY <1>1, <1>3, <1>5, <1>10
  <2>2. /\ ReadsOn(Opened(t), v) /\ Unlisted(v)
        /\ v.store["fields"].farm = t.active /\ v.store["machinery"].farm = t.active
        /\ \E d \in Fly(v) : d.op \in {"list", "state"}
    BY <1>3, <1>5, <1>6, <1>7, <1>10, <2>1, SpeedReads
  <2> DEFINE x == [t.speed EXCEPT !.farm = t.active]
             o == [t EXCEPT !.speed = x]
  <2>3. o = Opened(t)
    BY DEF Opened
  <2>4. /\ x \in Speeds /\ x.farm = f /\ x.picks = t.speed.picks /\ x.timer = t.speed.timer
        /\ x.hydrating = t.speed.hydrating
    BY <1>1, <1>3 DEF Webs, Speeds
  <2>5. /\ o \in Webs /\ o.farms = t.farms /\ o.active = f /\ o.store = t.store
        /\ o.page = "speed" /\ o.initializing = t.initializing /\ o.calls = t.calls
        /\ o.speed = x
    BY <1>3, <2>1, <2>4 DEF Webs
  <2> HIDE DEF x, o
  <2>6. v.speed = x /\ v.page = "speed" /\ v.active = f
    BY <2>2, <2>3, <2>5 DEF ReadsOn
  <2>7. SpeedFits(s, t) /\ x.picks = {} /\ ~x.timer /\ x.hydrating
    BY <1>3, <2>1, <2>4 DEF Idle, SpeedFits
  <2>8. SpeedFits(s, v)
    BY <1>3, <1>10, <2>2, <2>4, <2>6, <2>7 DEF SpeedFits, SpeedKinds
  <2>9. Orderly(s, v) /\ FarmsFit(s, v) /\ RowsFit(s, v)
    <3>1. Fly(o) = {} /\ o.calls = <<>> /\ Len(o.calls) <= 1
      <4>1. t.calls = <<>>
        BY <1>3, FlyCalls
      <4>2. Fly(o) = Fly(t)
        BY <2>5, FlySame
      <4> QED
        BY <1>3, <2>5, <4>1, <4>2
    <3>2. Orderly(s, o)
      BY <2>5, <2>7, <3>1 DEF Orderly, Unlisted
    <3>3. FarmsFit(s, o)
      BY <1>3, <2>5 DEF Idle, FarmsFit, Known, Pinning
    <3>4. RowsFit(s, o)
      BY <1>3, <2>5, <3>1 DEF Idle, RowsFit
    <3>5. Orderly(s, v)
      <4>1. ~o.speed.timer /\ ReadsOn(o, v) /\ Unlisted(v)
            /\ \A d \in Fly(o) : d.op \in Reads
        BY <2>2, <2>3, <2>5, <2>7, <3>1
      <4> QED
        BY <3>2, <4>1, OrderlyOn
    <3>6. FarmsFit(s, v) /\ (o.active # None => o.active \in DOMAIN s.farms)
      <4>1. ReadsOn(o, v) /\ \A d \in Fly(o) : d.op \in Reads
        BY <2>2, <2>3, <3>1
      <4> QED
        BY <3>3, <4>1, FarmsOn
    <3>7. RowsFit(s, v)
      <4>1. ReadsOn(o, v) /\ None \notin DOMAIN s.farms
        BY <2>2, <2>3, NoneIsNoFarm
      <4> QED
        BY <3>4, <3>6, <4>1, RowsOn
    <3> QED
      BY <3>5, <3>6, <3>7
  <2>10. Shown(s, v)
    <3>1. v.active = s.pin
      BY <2>6 DEF Turning
    <3>2. Follows(v) /\ Fits(v) /\ InputsFit(s, v)
      BY <2>6 DEF Follows, Following, Fits, Fitting, InputsFit
    <3> QED
      BY <3>1, <3>2 DEF Shown
  <2>11. v.initializing => v.page = "dashboard"
    BY <1>3, <2>1, <2>2, <2>3, <2>5 DEF ReadsOn, Idle
  <2>12. Nearly(s, v)
    BY <1>3, <2>8, <2>9, <2>10, <2>11 DEF Nearly, Idle
  <2> QED
    BY <1>4, <1>7, <2>12
<1> QED
  BY <1>8, <1>9, <1>10

\* A tab with nothing in flight sends a request that does not read.
LEMMA SentNearly ==
  ASSUME NEW s, NEW w, NEW u \in Webs, Alike(w, u), Fly(w) = {}, ~w.speed.timer,
         NEW r \in Calls, r.op \notin Reads, Sound(s, w, r),
         Known(s, w), r.op = "pin" \/ FarmsFit(s, w),
         RowsFit(s, w), ConfigsFit(s),
         SpeedFits(s, w) \/ SpeedFits(s, Send(u, r)),
         \/ r.op \in Moves
         \/ /\ w.page \in Bootstrapping => w.active = s.pin
            /\ Follows(w) /\ Fits(w) /\ InputsFit(s, w),
         u.initializing => u.page = "dashboard"
  PROVE  Nearly(s, Send(u, r))
<1>1. PICK v : v = Send(u, r)
  OBVIOUS
<1>2. /\ v.farms = w.farms /\ v.active = w.active /\ v.current = w.current
      /\ v.store = w.store /\ v.page = w.page /\ v.config = w.config
      /\ v.speed = w.speed /\ v.initializing = u.initializing
  BY <1>1, SentFields DEF Alike
<1>3. Fly(u) = {} /\ u.calls = <<>>
  <2>1. Fly(u) = {}
    BY FlySame DEF Alike
  <2> QED
    BY <2>1, FlyCalls
<1>4. Fly(v) = {r}
  BY <1>1, <1>3, FlySent
<1>5. Len(v.calls) <= 1
  <2>1. v.calls = Append(u.calls, r)
    BY <1>1, Sent DEF Sends
  <2> QED
    BY <1>3, <2>1
<1>6. Sound(s, v, r)
  <2>1. Moved(s, w, r) => Moved(s, v, r)
    BY <1>2 DEF Moved, Repins
  <2>2. Wrote(w, r) => Wrote(v, r)
    BY <1>2 DEF Wrote
  <2> QED
    BY <1>2, <2>1, <2>2 DEF Sound
<1>7. Orderly(s, v)
  BY <1>2, <1>4, <1>5, <1>6 DEF Orderly, Unlisted, Reads
<1>8. Known(s, v)
  BY <1>2 DEF Known
<1>9. FarmsFit(s, v)
  <2>1. CASE r.op = "pin"
    BY <1>4, <1>8, <2>1 DEF FarmsFit, Pinning
  <2>2. CASE FarmsFit(s, w)
    BY <1>2, <1>8, <2>2 DEF FarmsFit, Pinning
  <2> QED
    BY <2>1, <2>2
<1>10. RowsFit(s, v)
  BY <1>2 DEF RowsFit
<1>11. SpeedFits(s, v)
  <2>1. CASE SpeedFits(s, Send(u, r))
    BY <1>1, <2>1
  <2>2. CASE SpeedFits(s, w)
    <3>1. Selected(s, w) => Selected(s, v)
      BY <1>2 DEF Selected
    <3> QED
      BY <1>2, <2>2, <3>1 DEF SpeedFits
  <2> QED
    BY <2>1, <2>2
<1>12. Shown(s, v)
  <2>1. CASE r.op \in Moves
    BY <1>4, <2>1 DEF Shown, Moving
  <2>2. CASE /\ w.page \in Bootstrapping => w.active = s.pin
             /\ Follows(w) /\ Fits(w) /\ InputsFit(s, w)
    <3>1. KeyOf(v) = KeyOf(w)
      BY <1>2 DEF KeyOf, Version
    <3>2. Follows(v)
      BY <1>2, <2>2 DEF Follows
    <3>3. Fits(v)
      BY <1>2, <2>2, <3>1 DEF Fits
    <3>4. InputsFit(s, v)
      BY <1>2, <2>2 DEF InputsFit, Returned, Configured
    <3> QED
      BY <1>2, <2>2, <3>2, <3>3, <3>4 DEF Shown
  <2> QED
    BY <2>1, <2>2
<1> QED
  BY <1>1, <1>2, <1>7, <1>9, <1>10, <1>11, <1>12 DEF Nearly, Alike

\* The tab once a call that does not read has been taken out: it was alone.
LEMMA Freed ==
  ASSUME NEW s \in Servers, NEW w \in Webs, Fine(s, w), NEW i \in DOMAIN w.calls,
         w.calls[i].op \notin Reads, NEW u, u = [w EXCEPT !.calls = RemoveAt(w.calls, i)]
  PROVE  LET c == w.calls[i] IN
         /\ Fly(u) = {} /\ ~u.speed.timer /\ Sound(s, u, c)
         /\ Known(s, u) /\ RowsFit(s, u) /\ ConfigsFit(s)
         /\ c.op # "saveState" => SpeedFits(s, u)
         /\ u.initializing => u.page = "dashboard" /\ c.for = "dashboard"
         /\ c.op # "pin" => FarmsFit(s, u)
         /\ c.op \notin Moves =>
              /\ u.page \in Bootstrapping => u.active = s.pin
              /\ Follows(u) /\ Fits(u) /\ InputsFit(s, u)
<1>1. PICK c : c = w.calls[i]
  OBVIOUS
<1>2. /\ u \in Webs /\ c \in Calls /\ c \in Fly(w)
      /\ u.farms = w.farms /\ u.active = w.active /\ u.current = w.current
      /\ u.store = w.store /\ u.page = w.page /\ u.initializing = w.initializing
      /\ u.config = w.config /\ u.speed = w.speed /\ w.calls # <<>>
      /\ Len(w.calls) <= 1 => Fly(u) = {} /\ Fly(w) = {c}
  BY <1>1, TakenFly
<1>3. Orderly(s, w) /\ Fly(u) = {} /\ Fly(w) = {c} /\ ~w.speed.timer /\ Sound(s, w, c)
  BY <1>1, <1>2 DEF Fine, Orderly
<1>4. Sound(s, u, c)
  <2>1. Moved(s, w, c) => Moved(s, u, c)
    BY <1>2 DEF Moved, Repins
  <2>2. Wrote(w, c) => Wrote(u, c)
    BY <1>2 DEF Wrote
  <2> QED
    BY <1>1, <1>2, <1>3, <2>1, <2>2 DEF Sound
<1>5. Known(s, u)
  BY <1>2 DEF Fine, FarmsFit, Known
<1>6. RowsFit(s, u)
  BY <1>1, <1>2, <1>3 DEF Fine, RowsFit, Reads
<1>7. c.op # "saveState" => SpeedFits(s, u)
  <2>1. c.op # "saveState" => (Selected(s, w) => Selected(s, u))
    BY <1>2, <1>3 DEF Selected
  <2> QED
    BY <1>2, <2>1 DEF Fine, SpeedFits
<1>8. u.initializing => u.page = "dashboard" /\ c.for = "dashboard"
  BY <1>2, <1>3 DEF Fine, Initializes
<1>9. c.op # "pin" => FarmsFit(s, u)
  <2>1. c.op # "pin" => ~Pinning(w)
    BY <1>3 DEF Pinning
  <2> QED
    BY <1>2, <1>5, <2>1 DEF Fine, FarmsFit
<1>10. ASSUME c.op \notin Moves
       PROVE  /\ u.page \in Bootstrapping => u.active = s.pin
              /\ Follows(u) /\ Fits(u) /\ InputsFit(s, u)
  <2>1. c.op \notin {"catalog", "list", "config"}
    BY <1>1 DEF Reads
  <2>2. /\ w.page \in Bootstrapping => w.active = s.pin
        /\ Follows(w) /\ Fits(w) /\ InputsFit(s, w)
    BY <1>3, <1>10 DEF Fine, Shown, Moving
  <2>3. KeyOf(u) = KeyOf(w)
    BY <1>2 DEF KeyOf, Version
  <2>4. Follows(u)
    BY <1>2, <1>3, <2>1, <2>2 DEF Follows
  <2>5. Fits(u)
    BY <1>2, <1>3, <2>1, <2>2, <2>3 DEF Fits
  <2>6. InputsFit(s, u)
    BY <1>2, <1>3, <2>1, <2>2 DEF InputsFit, Configured, Returned
  <2> QED
    BY <1>2, <2>2, <2>4, <2>5, <2>6
<1> QED
  BY <1>1, <1>2, <1>3, <1>4, <1>5, <1>6, <1>7, <1>8, <1>9, <1>10 DEF Fine

\* A call of the user who waits is answered.
Answering(s, w, c, u) ==
  /\ s \in Servers /\ Coherent(w, "nothing") /\ Fine(s, w)
  /\ \E i \in DOMAIN w.calls : /\ c = w.calls[i] /\ c.kind # "wait"
                               /\ u = [w EXCEPT !.calls = RemoveAt(w.calls, i)]

LEMMA Alone ==
  ASSUME NEW s, NEW w, NEW c, NEW u, Answering(s, w, c, u), c.op \notin Reads
  PROVE  /\ s \in Servers /\ u \in Webs /\ c \in Calls /\ Owes(u, c)
         /\ Fly(u) = {} /\ ~u.speed.timer /\ Sound(s, u, c)
         /\ c.mounted /\ c.op # "timer"
         /\ Known(s, u) /\ RowsFit(s, u) /\ ConfigsFit(s)
         /\ c.op # "saveState" => SpeedFits(s, u)
         /\ u.initializing => u.page = "dashboard" /\ c.for = "dashboard"
         /\ c.op # "pin" => FarmsFit(s, u)
         /\ c.op \notin Moves =>
              /\ u.page \in Bootstrapping => u.active = s.pin
              /\ Follows(u) /\ Fits(u) /\ InputsFit(s, u)
<1>1. PICK i \in DOMAIN w.calls : /\ c = w.calls[i] /\ c.kind # "wait"
                                  /\ u = [w EXCEPT !.calls = RemoveAt(w.calls, i)]
  BY DEF Answering
<1>2. s \in Servers /\ Coherent(w, "nothing") /\ Fine(s, w) /\ w \in Webs
  BY DEF Answering, Coherent
<1>3. Owes(u, c)
  BY <1>1, <1>2, TakenOut
<1>4. u \in Webs /\ c \in Calls
  BY <1>1, <1>2, TakenFly
<1>5. /\ Fly(u) = {} /\ ~u.speed.timer /\ Sound(s, u, c)
      /\ Known(s, u) /\ RowsFit(s, u) /\ ConfigsFit(s)
      /\ c.op # "saveState" => SpeedFits(s, u)
      /\ u.initializing => u.page = "dashboard" /\ c.for = "dashboard"
      /\ c.op # "pin" => FarmsFit(s, u)
      /\ c.op \notin Moves =>
           /\ u.page \in Bootstrapping => u.active = s.pin
           /\ Follows(u) /\ Fits(u) /\ InputsFit(s, u)
  BY <1>1, <1>2, Freed
<1>6. c.mounted /\ c.op # "timer"
  BY <1>5 DEF Sound
<1> QED
  BY <1>2, <1>3, <1>4, <1>5, <1>6

\* A page asks for the active farm, or for what it is to be.
LEMMA AskedNearly ==
  ASSUME NEW s, NEW w, NEW due, Coherent(w, due), Fly(w) = {}, ~w.speed.timer,
         FarmsFit(s, w), RowsFit(s, w), ConfigsFit(s), SpeedFits(s, w),
         w.initializing => w.page = "dashboard",
         NEW c, c.for \in Bootstrapping, c.for = w.page, c.mounted,
         c.for = "herd" => w.active = None, c.for = "speed" => w.speed.hydrating
  PROVE  /\ Nearly(s, LoadFarms(w, c))
         /\ w.farms # Nothing \/ s.farms = Nothing => Nearly(s, EnsureActive(w, c))
<1>1. w \in Webs /\ Alike(w, w) /\ Known(s, w)
  BY DEF Coherent, Alike, FarmsFit
<1>2. ASSUME NEW op \in {"farms", "settings"},
             op = "settings" => w.farms # Nothing \/ s.farms = Nothing
      PROVE  Nearly(s, Send(w, Call(c, op, None, None, None, None)))
  <2> DEFINE r == Call(c, op, None, None, None, None)
  <2>1. /\ r \in Calls /\ r.op = op /\ r.for = c.for /\ r.mounted = c.mounted
        /\ r.farm = None
    BY DEF Call, Calls, Senders, Maybe, RowOps, FarmOps, ConfigOps
  <2> HIDE DEF r
  <2>2. Moved(s, w, r)
    BY <1>2, <2>1 DEF Moved
  <2>3. Wrote(w, r)
    BY <2>1 DEF Wrote, RowOps, ConfigOps
  <2>4. Sound(s, w, r)
    BY <2>1, <2>2, <2>3 DEF Sound, Reads, Bootstrapping
  <2>5. r.op \in Moves /\ r.op \notin Reads
    BY <2>1 DEF Moves, Reads
  <2>6. Nearly(s, Send(w, r))
    BY <1>1, <2>1, <2>4, <2>5, SentNearly
  <2> QED
    BY <2>6 DEF r
<1> QED
  BY <1>2 DEF LoadFarms, EnsureActive

LEMMA FarmsNearly ==
  ASSUME NEW s, NEW w, NEW c, NEW u, Answering(s, w, c, u), c.op = "farms"
  PROVE  Nearly(s, FarmsLoaded(u, c, s.farms))
<1>1. /\ s \in Servers /\ u \in Webs /\ c \in Calls /\ Owes(u, c)
      /\ Fly(u) = {} /\ ~u.speed.timer /\ Sound(s, u, c) /\ c.mounted
      /\ RowsFit(s, u) /\ ConfigsFit(s) /\ SpeedFits(s, u) /\ FarmsFit(s, u)
      /\ u.initializing => u.page = "dashboard"
  BY Alone DEF Reads
<1>2. c.for \in Bootstrapping /\ c.for = u.page
      /\ (c.for = "herd" => u.active = None) /\ (c.for = "speed" => u.speed.hydrating)
  BY <1>1 DEF Calls, Sound, Moved, Moves, Reads
<1>3. Coherent(u, Owed(c)) /\ Sender(c)
  BY <1>1, NothingChanged, CallFields DEF FarmOps, ConfigOps
<1>4. s.farms \in FarmMaps /\ s.farms # Failed
  BY <1>1, MarksAssumption DEF Servers, FarmMaps
<1>5. PICK w1 : w1 = [u EXCEPT !.farms = s.farms]
  OBVIOUS
<1>6. Coherent(w1, Owed(c))
  BY <1>3, <1>4, <1>5, FarmsChanged
<1>7. /\ w1 \in Webs /\ w1.farms = s.farms /\ w1.active = u.active /\ w1.store = u.store
      /\ w1.page = u.page /\ w1.initializing = u.initializing /\ w1.config = u.config
      /\ w1.speed = u.speed /\ w1.calls = u.calls
  BY <1>1, <1>5, <1>6 DEF Coherent, Webs
<1>8. Fly(w1) = {}
  BY <1>1, <1>7, FlySame
<1>9. Known(s, w1) /\ FarmsFit(s, w1)
  <2>1. Known(s, w1)
    BY <1>1, <1>7 DEF FarmsFit, Known
  <2>2. u.active # None => u.active = s.pin /\ u.active \in DOMAIN s.farms
    BY <1>1 DEF FarmsFit, Known, Pinning
  <2> QED
    BY <1>7, <2>1, <2>2 DEF FarmsFit
<1>10. RowsFit(s, w1)
  BY <1>1, <1>7, <1>8 DEF RowsFit
<1>11. SpeedFits(s, w1)
  <2>1. Selected(s, u) => Selected(s, w1)
    BY <1>1, <1>7, <1>8 DEF Selected
  <2> QED
    BY <1>1, <1>7, <2>1 DEF SpeedFits
<1>12. CASE c.for \in {"fields", "harvests"} /\ u.active # None
  <2>1. FarmsLoaded(u, c, s.farms) = Bootstrapped(w1, c)
    BY <1>4, <1>5, <1>12 DEF FarmsLoaded
  <2>2. PICK f : f = w1.active
    OBVIOUS
  <2>3. f = s.pin /\ f \in DOMAIN w1.farms /\ f # None
    BY <1>1, <1>7, <1>12, <2>2 DEF FarmsFit, Known, Pinning
  <2>4. Turning(s, w1, f)
    BY <1>1, <1>7, <1>8, <1>9, <1>10, <1>11, <2>3 DEF Turning
  <2>5. Seen(w1, c)
    BY <1>1, <1>2, <1>3, <1>7 DEF Seen
  <2>6. Nearly(s, Bootstrapped(Activate(w1, f), c))
    BY <1>1, <1>2, <1>6, <1>12, <2>4, <2>5, BootstrapNearly
  <2>7. Activate(w1, f) = w1
    BY <2>2 DEF Activate
  <2> QED
    BY <2>1, <2>6, <2>7
<1>13. CASE ~(c.for \in {"fields", "harvests"} /\ u.active # None)
  <2>1. FarmsLoaded(u, c, s.farms) = EnsureActive(w1, c)
    BY <1>4, <1>5, <1>13 DEF FarmsLoaded
  <2>2. Nearly(s, EnsureActive(w1, c))
    BY <1>1, <1>2, <1>6, <1>7, <1>8, <1>9, <1>10, <1>11, AskedNearly
  <2> QED
    BY <2>1, <2>2
<1> QED
  BY <1>12, <1>13

LEMMA FirstOfFarms ==
  ASSUME NEW w, NEW due, Coherent(w, due)
  PROVE  IF w.farms = Nothing THEN FirstFarm(w) = None ELSE FirstFarm(w) \in DOMAIN w.farms
<1>1. PICK D \in SUBSET Farms : w.farms \in [D -> Versions]
  BY DEF Coherent, Webs, FarmMaps
<1>2. CASE w.farms = Nothing
  BY <1>2 DEF FirstFarm
<1>3. CASE w.farms # Nothing
  <2>1. D # {}
    BY <1>1, <1>3 DEF Nothing
  <2>2. Min(D) \in D
    BY <2>1, FarmsAssumption, MinIn
  <2> QED
    BY <1>1, <1>3, <2>2 DEF FirstFarm
<1>4. QED
  BY <1>2, <1>3

\* The farm that is to be active is saved as the pinned one.
LEMMA PinNearly ==
  ASSUME NEW s, NEW w \in Webs, Fly(w) = {}, ~w.speed.timer,
         Known(s, w), RowsFit(s, w), ConfigsFit(s), SpeedFits(s, w),
         w.initializing => w.page = "dashboard",
         NEW c, Sender(c), c.mounted, NEW f \in Maybe(Farms), NEW version \in Maybe(Versions),
         c.for \in Bootstrapping => c.for = w.page,
         c.for = "dashboard-new" => w.page = "dashboard",
         c.for = "herd" => w.active = None, c.for = "speed" => w.speed.hydrating,
         Repins(s, w, Call(c, "pin", None, f, None, version))
  PROVE  Nearly(s, SetActiveFarm(w, f, version, c))
<1> DEFINE r == Call(c, "pin", None, f, None, version)
<1>1. r \in Calls /\ r.op = "pin" /\ r.for = c.for /\ r.mounted = c.mounted
  BY DEF Call, Calls, Sender, Maybe, RowOps, FarmOps, ConfigOps, Keys
<1>2. Repins(s, w, r)
  OBVIOUS
<1>3. SetActiveFarm(w, f, version, c) = Send([w EXCEPT !.saving = TRUE], r)
  BY DEF SetActiveFarm
<1> HIDE DEF r
<1>4. PICK u : u = [w EXCEPT !.saving = TRUE]
  OBVIOUS
<1>5. u \in Webs /\ Alike(w, u) /\ u.initializing = w.initializing
  BY <1>4 DEF Webs, Alike
<1>6. Moved(s, w, r)
  BY <1>1, <1>2 DEF Moved
<1>7. Wrote(w, r)
  BY <1>1 DEF Wrote, RowOps, ConfigOps
<1>8. Sound(s, w, r)
  BY <1>1, <1>6, <1>7 DEF Sound, Reads
<1>9. r.op \in Moves /\ r.op \notin Reads /\ u.page = w.page
  BY <1>1, <1>5 DEF Moves, Reads, Alike
<1>10. Nearly(s, Send(u, r))
  BY <1>1, <1>5, <1>8, <1>9, SentNearly
<1> QED
  BY <1>3, <1>4, <1>10

LEMMA SettingsNearly ==
  ASSUME NEW s, NEW w, NEW c, NEW u, Answering(s, w, c, u), c.op = "settings"
  PROVE  Nearly(s, SettingsLoaded(u, c, s.pin))
<1>1. /\ s \in Servers /\ u \in Webs /\ c \in Calls /\ Owes(u, c)
      /\ Fly(u) = {} /\ ~u.speed.timer /\ Sound(s, u, c) /\ c.mounted
      /\ Known(s, u) /\ RowsFit(s, u) /\ ConfigsFit(s) /\ SpeedFits(s, u) /\ FarmsFit(s, u)
      /\ u.initializing => u.page = "dashboard"
  BY Alone DEF Reads
<1>2. /\ c.for \in Bootstrapping /\ c.for = u.page
      /\ c.for = "herd" => u.active = None
      /\ c.for = "speed" => u.speed.hydrating
      /\ u.farms # Nothing \/ s.farms = Nothing
  BY <1>1 DEF Calls, Sound, Moved, Moves, Reads
<1>3. Coherent(u, Owed(c)) /\ Sender(c) /\ Seen(u, c)
  <2>1. Coherent(u, Owed(c)) /\ Sender(c)
    BY <1>1, NothingChanged, CallFields DEF FarmOps, ConfigOps
  <2> QED
    BY <1>1, <1>2, <2>1 DEF Seen
<1>4. PICK pin : pin = s.pin
  OBVIOUS
<1>5. pin \in DOMAIN s.farms \cup {None} /\ pin \in Maybe(Farms) /\ pin # Failed
  BY <1>1, <1>4, MarksAssumption DEF Known, Servers, Maybe
<1>6. PICK first : first = FirstFarm(u)
  OBVIOUS
<1>7. /\ u.farms = Nothing => first = None
      /\ u.farms # Nothing => first \in DOMAIN u.farms
      /\ first \in Maybe(Farms)
  BY <1>3, <1>6, FirstOfFarms, FirstFarmIsOne
<1>8. SettingsLoaded(u, c, pin) =
        IF pin \in DOMAIN u.farms THEN Bootstrapped(Activate(u, pin), c)
        ELSE IF first # pin THEN SetActiveFarm(u, first, None, c)
        ELSE Bootstrapped(Activate(u, first), c)
  BY <1>5, <1>6 DEF SettingsLoaded, Adopted
<1>9. u.active # None => u.active = pin
  BY <1>1, <1>4 DEF FarmsFit, Pinning
<1>10. CASE pin \in DOMAIN u.farms
  <2>1. Turning(s, u, pin)
    BY <1>1, <1>4, <1>10, <1>9 DEF Turning
  <2>2. Nearly(s, Bootstrapped(Activate(u, pin), c))
    <3>1. c.for = "speed" => u.speed.hydrating /\ (pin = None => u.active = None)
      BY <1>2, <1>9
    <3> QED
      BY <1>1, <1>2, <1>3, <2>1, <3>1, BootstrapNearly
  <2> QED
    BY <1>4, <1>8, <1>10, <2>2
<1>11. CASE pin \notin DOMAIN u.farms /\ first # pin
  <2>1. first \in DOMAIN u.farms
    <3>1. CASE u.farms = Nothing
      <4>1. s.farms = Nothing
        BY <1>2, <3>1
      <4>2. pin = None /\ first = None
        BY <1>5, <1>7, <3>1, <4>1 DEF Nothing
      <4> QED
        BY <1>11, <4>2
    <3> QED
      BY <1>7, <3>1
  <2>2. first # None
    BY <1>1, <2>1, NoneIsNoFarm DEF Known
  <2> DEFINE r == Call(c, "pin", None, first, None, None)
  <2>3. r.farm = first /\ r.for = c.for
    BY DEF Call
  <2> HIDE DEF r
  <2>4. Repins(s, u, r)
    BY <1>2, <2>1, <2>2, <2>3 DEF Repins
  <2>5. None \in Maybe(Versions) /\ (c.for = "dashboard-new" => u.page = "dashboard")
    BY <1>2 DEF Maybe, Bootstrapping
  <2>6. Nearly(s, SetActiveFarm(u, first, None, c))
    BY <1>1, <1>2, <1>3, <1>7, <2>4, <2>5, PinNearly DEF r
  <2> QED
    BY <1>4, <1>8, <1>11, <2>6
<1>12. CASE pin \notin DOMAIN u.farms /\ first = pin
  <2>1. pin = None
    BY <1>7, <1>12
  <2>2. u.active = None
    BY <1>9, <2>1
  <2>3. Turning(s, u, pin)
    BY <1>1, <1>4, <2>1, <2>2 DEF Turning
  <2>4. Nearly(s, Bootstrapped(Activate(u, pin), c))
    BY <1>1, <1>2, <1>3, <2>2, <2>3, BootstrapNearly
  <2> QED
    BY <1>4, <1>8, <1>12, <2>4
<1> QED
  BY <1>10, <1>11, <1>12

\* The catalog that is not asked for the animal calculators brings nothing else.
LEMMA CatalogOnly ==
  ASSUME NEW w \in Webs, NEW key, NEW c, c.for # "herd"
  PROVE  LET v == LoadCatalog(w, key, c) IN
         /\ v.store = w.store
         /\ \A d \in Fly(v) : d \in Fly(w) \/ d.op = "catalog"
<1>1. PICK v : v = LoadCatalog(w, key, c)
  OBVIOUS
<1>2. CASE key \in w.cached
  <2>1. v = [w EXCEPT !.current = key]
    BY <1>1, <1>2 DEF LoadCatalog
  <2>2. v.store = w.store /\ v.calls = w.calls
    BY <2>1 DEF Webs
  <2> QED
    BY <1>1, <2>2, FlySame
<1>3. CASE key \notin w.cached
  <2>1. PICK r : /\ r.op = "catalog" /\ v = Send(w, r)
    BY <1>1, <1>3 DEF LoadCatalog, FetchCatalog, Call
  <2>2. v.store = w.store /\ v.calls = Append(w.calls, r)
    BY <2>1 DEF Send, Webs
  <2>3. \A j \in DOMAIN v.calls : v.calls[j] = r \/ \E i \in DOMAIN w.calls : v.calls[j] = w.calls[i]
    BY <2>2 DEF Webs
  <2> QED
    BY <1>1, <2>1, <2>2, <2>3 DEF Fly
<1> QED
  BY <1>2, <1>3

LEMMA CatalogOfOnly ==
  ASSUME NEW w \in Webs, NEW f, NEW c, c.for # "herd"
  PROVE  LET v == LoadCatalogOf(w, f, c) IN
         /\ v.store = w.store
         /\ \A d \in Fly(v) : d \in Fly(w) \/ d.op = "catalog"
BY CatalogOnly DEF LoadCatalogOf

\* The tab has turned to the farm, and that was all.
LEMMA TurnNearly ==
  ASSUME NEW s \in Servers, NEW w, NEW f, Turning(s, w, f), NEW due, Coherent(w, due),
         f = None \/ (f # w.active /\ ~w.initializing /\ w.page = "dashboard")
  PROVE  Nearly(s, Activate(w, f))
<1>1. w \in Webs /\ f \in Maybe(Farms) /\ Fly(w) = {}
  BY TurningIsOfFarms DEF Turning
<1>2. PICK t : t = Turned(w, f)
  OBVIOUS
<1>3. Idle(s, t) /\ t \in Webs /\ t.active = f /\ t.page = w.page /\ Fly(t) = {}
  BY <1>1, <1>2, TurningIdle, TurnedFields
<1>4. PICK a : a = Activate(w, f)
  OBVIOUS
<1>5. ReadsOn(t, a) /\ Coherent(a, due) /\ (w.page = "speed" => a = t)
  BY <1>1, <1>2, <1>4, TurnedReads
<1>6. a.page = w.page /\ a.active = f /\ a \in Webs
  BY <1>3, <1>5 DEF ReadsOn, Coherent
<1>7. w.page = "speed" => Unlisted(a) /\ SpeedFits(s, a)
  BY <1>3, <1>5 DEF Idle, Unlisted
<1>8. Follows(a) /\ Fits(a) /\ InputsFit(s, a)
  <2>1. CASE f = None
    <3>1. None \notin DOMAIN a.farms
      BY <1>6, MarksAssumption DEF Webs, FarmMaps
    <3> QED
      BY <1>6, <2>1, <3>1 DEF Follows, Fits, InputsFit
  <2>2. CASE f # w.active /\ ~w.initializing /\ w.page = "dashboard"
    <3>1. Follows(a) /\ Fits(a)
      BY <1>1, <1>4, <2>2, ActivateReads
    <3> QED
      BY <1>6, <2>2, <3>1 DEF InputsFit
  <2> QED
    BY <2>1, <2>2
<1> QED
  BY <1>3, <1>4, <1>5, <1>7, <1>8, ReadNearly

\* The user has switched to another farm: its catalog is asked for as well.
LEMMA SwitchNearly ==
  ASSUME NEW s \in Servers, NEW w, NEW f, Turning(s, w, f), NEW due, Coherent(w, due),
         f # w.active, f \in DOMAIN w.farms, ~w.initializing
  PROVE  Nearly(s, LoadCatalog(Activate(w, f), w.farms[f], For("page")))
<1>1. w \in Webs /\ f \in Maybe(Farms) /\ Fly(w) = {}
  BY TurningIsOfFarms DEF Turning
<1>2. PICK t : t = Turned(w, f)
  OBVIOUS
<1>3. /\ Idle(s, t) /\ t \in Webs /\ t.active = f /\ t.page = w.page /\ Fly(t) = {}
      /\ t.farms = w.farms
  BY <1>1, <1>2, TurningIdle, TurnedFields
<1>4. PICK a : a = Activate(w, f)
  OBVIOUS
<1>5. ReadsOn(t, a) /\ Coherent(a, due) /\ (w.page = "speed" => a = t)
  BY <1>1, <1>2, <1>4, TurnedReads
<1>6. a.page = w.page /\ a.active = f /\ a \in Webs /\ a.farms = w.farms
  BY <1>3, <1>5 DEF ReadsOn, Coherent
<1>7. PICK key : key = w.farms[f]
  OBVIOUS
<1>8. key = KeyOf(a) /\ key \in Keys
  BY <1>5, <1>6, <1>7, KeyIsAKey
<1>9. PICK c : c = For("page")
  OBVIOUS
<1>10. Seen(a, c) /\ c.for = "page"
  BY <1>9, SeenPage
<1>11. PICK v : v = LoadCatalog(a, key, c)
  OBVIOUS
<1>12. ReadsOn(a, v) /\ Provided(v, KeyOf(a), c)
  <2>1. a.page \in Fitting => key = KeyOf(a)
    BY <1>8
  <2>2. ReadsOn(a, v) /\ Provided(v, key, c)
    BY <1>5, <1>8, <1>10, <1>11, <2>1, CatalogReads
  <2> QED
    BY <1>8, <2>2
<1>13. ReadsOn(t, v) /\ v.page = w.page /\ v.active = f
  <2>1. ReadsOn(t, v)
    BY <1>5, <1>12, ReadsOnAndOn
  <2>2. v.page = a.page /\ v.active = a.active
    BY <1>12 DEF ReadsOn
  <2> QED
    BY <1>6, <2>1, <2>2
<1>14. Follows(a) /\ (w.page # "dashboard" => Asking(a))
  BY <1>1, <1>4, ActivateReads
<1>15. Follows(v) /\ Fits(v)
  <2>1. a.page \in Pages
    BY <1>6 DEF Webs
  <2> QED
    BY <1>12, <1>14, <2>1, FollowsOn, ProvidedFits
<1>16. InputsFit(s, v)
  <2>1. w.page = "herd" => Asking(v)
    BY <1>12, <1>14, AskingOn
  <2> QED
    BY <1>13, <2>1 DEF InputsFit, Asking
<1>17. ASSUME w.page = "speed"
       PROVE  Unlisted(v) /\ SpeedFits(s, v)
  <2>1. v.store = t.store /\ \A d \in Fly(v) : d.op = "catalog"
    BY <1>3, <1>5, <1>10, <1>11, <1>17, CatalogOnly
  <2>2. SpeedFits(s, v)
    BY <1>3, <1>13, <2>1, SpeedOn DEF Idle
  <2> QED
    BY <2>1, <2>2 DEF Unlisted
<1>18. Nearly(s, v)
  BY <1>3, <1>13, <1>15, <1>16, <1>17, ReadNearly
<1> QED
  BY <1>4, <1>7, <1>9, <1>11, <1>18

\* Only the pin of the user changes.
LEMMA Repinned ==
  ASSUME NEW s \in Servers, NEW f \in Maybe(Farms), NEW s1, s1 = [s EXCEPT !.pin = f]
  PROVE  /\ s1 \in Servers /\ s1.pin = f /\ s1.farms = s.farms /\ s1.gone = s.gone
         /\ s1.rows = s.rows /\ s1.configs = s.configs /\ s1.picks = s.picks
         /\ NoneGone(s1) = NoneGone(s)
         /\ \A k, g : RowsOf(s1, k, g) = RowsOf(s, k, g)
         /\ \A g : Own(s1, g) = Own(s, g)
<1>1. /\ s1 \in Servers /\ s1.pin = f /\ s1.farms = s.farms /\ s1.gone = s.gone
      /\ s1.rows = s.rows /\ s1.configs = s.configs /\ s1.picks = s.picks
  BY DEF Servers
<1>2. \A k, g : RowsOf(s1, k, g) = RowsOf(s, k, g)
  BY <1>1 DEF RowsOf
<1> QED
  BY <1>1, <1>2 DEF NoneGone, Own

LEMMA PinnedNearly ==
  ASSUME NEW s, NEW w, NEW c, NEW u, Answering(s, w, c, u), c.op = "pin"
  PROVE  Nearly(CarriedOut(s, c), Pinned(u, c, Answered(s, c)))
<1>1. /\ s \in Servers /\ u \in Webs /\ c \in Calls /\ Owes(u, c)
      /\ Fly(u) = {} /\ ~u.speed.timer /\ Sound(s, u, c) /\ c.mounted
      /\ Known(s, u) /\ RowsFit(s, u) /\ ConfigsFit(s) /\ SpeedFits(s, u)
      /\ u.initializing => u.page = "dashboard" /\ c.for = "dashboard"
  BY Alone DEF Reads
<1>2. Moved(s, u, c) /\ Repins(s, u, c)
  BY <1>1 DEF Sound, Moved, Moves, Reads
<1>3. PICK f : f = c.farm
  OBVIOUS
<1>4. f \in DOMAIN u.farms \cup {None} /\ f \in Maybe(Farms) /\ f # Failed
  BY <1>1, <1>2, <1>3, MarksAssumption DEF Repins, Calls, Maybe
<1>5. f \in DOMAIN s.farms \cup {None} /\ ~Refused(s, c)
  BY <1>1, <1>3, <1>4 DEF Known, Refused
<1>6. PICK s1 : s1 = CarriedOut(s, c)
  OBVIOUS
<1>7. s1 = [s EXCEPT !.pin = f] /\ Answered(s, c) = f
  BY <1>3, <1>5, <1>6 DEF CarriedOut, Answered
<1>8. /\ s1 \in Servers /\ s1.pin = f /\ s1.farms = s.farms /\ s1.gone = s.gone
      /\ s1.rows = s.rows /\ s1.configs = s.configs /\ s1.picks = s.picks
      /\ NoneGone(s1) = NoneGone(s)
      /\ \A k, g : RowsOf(s1, k, g) = RowsOf(s, k, g)
      /\ \A g : Own(s1, g) = Own(s, g)
  BY <1>1, <1>4, <1>7, Repinned
<1>9. PICK w1 : w1 = [u EXCEPT !.saving = FALSE]
  OBVIOUS
<1>10. Coherent(w1, Owed(c))
  BY <1>1, <1>9, SavedCoheres DEF FarmOps
<1>11. /\ w1 \in Webs /\ w1.farms = u.farms /\ w1.active = u.active /\ w1.store = u.store
       /\ w1.page = u.page /\ w1.initializing = u.initializing /\ w1.config = u.config
       /\ w1.speed = u.speed /\ Fly(w1) = {}
  <2>1. /\ w1.farms = u.farms /\ w1.active = u.active /\ w1.store = u.store
        /\ w1.page = u.page /\ w1.initializing = u.initializing /\ w1.config = u.config
        /\ w1.speed = u.speed /\ w1.calls = u.calls
    BY <1>1, <1>9 DEF Webs
  <2> QED
    BY <1>1, <1>10, <2>1, FlySame DEF Coherent
<1>12. Turning(s1, w1, f)
  <2>1. Known(s1, w1)
    BY <1>1, <1>5, <1>8, <1>11 DEF Known
  <2>2. RowsFit(s1, w1)
    BY <1>1, <1>8, <1>11 DEF RowsFit
  <2>3. ConfigsFit(s1)
    BY <1>1, <1>8 DEF ConfigsFit
  <2>4. SpeedFits(s1, w1)
    <3>1. Selected(s, u) => Selected(s1, w1)
      BY <1>1, <1>8, <1>11 DEF Selected
    <3> QED
      BY <1>1, <1>8, <1>11, <3>1 DEF SpeedFits
  <2>5. f = None => ~NoneGone(s1)
    BY <1>2, <1>3, <1>8 DEF Repins
  <2> QED
    BY <1>1, <1>4, <1>8, <1>11, <2>1, <2>2, <2>3, <2>4, <2>5 DEF Turning
<1>13. Pinned(u, c, f) =
         IF c.for \in Bootstrapping THEN Bootstrapped(Activate(w1, f), c)
         ELSE IF c.for = "switcher" /\ c.body # None
         THEN LoadCatalog(Activate(w1, f), c.body, For("page"))
         ELSE Activate(w1, f)
  BY <1>4, <1>9 DEF Pinned, Bootstrapping
<1>14. CASE c.for \in Bootstrapping
  <2>1. c.for = w1.page /\ Seen(w1, c)
    BY <1>1, <1>11, <1>14, CallFields DEF Sound, Seen, Reads
  <2>2. f # None
    BY <1>2, <1>3, <1>14 DEF Repins, Bootstrapping
  <2>3. (c.for = "herd" => w1.active = None) /\ (c.for = "speed" => w1.speed.hydrating)
    BY <1>2, <1>11 DEF Moved
  <2>4. Nearly(s1, Bootstrapped(Activate(w1, f), c))
    BY <1>8, <1>10, <1>12, <1>14, <2>1, <2>2, <2>3, BootstrapNearly
  <2> QED
    BY <1>6, <1>7, <1>13, <1>14, <2>4
<1>15. CASE c.for = "switcher"
  <2>1. f \in DOMAIN w1.farms /\ f # w1.active /\ c.body = w1.farms[f] /\ ~w1.initializing
    BY <1>1, <1>2, <1>3, <1>11, <1>15 DEF Repins, Bootstrapping
  <2>2. c.body # None
    <3>1. w1.farms[f] \in Versions
      BY <1>11, <2>1 DEF Webs, FarmMaps
    <3> QED
      BY <2>1, <3>1, MarksAssumption
  <2>3. Pinned(u, c, f) = LoadCatalog(Activate(w1, f), w1.farms[f], For("page"))
    BY <1>13, <1>15, <2>1, <2>2 DEF Bootstrapping
  <2>4. Nearly(s1, LoadCatalog(Activate(w1, f), w1.farms[f], For("page")))
    BY <1>8, <1>10, <1>12, <2>1, SwitchNearly
  <2> QED
    BY <1>6, <1>7, <2>3, <2>4
<1>16. CASE c.for \notin Bootstrapping \cup {"switcher"}
  <2>1. f = None \/ (f # w1.active /\ ~w1.initializing /\ w1.page = "dashboard")
    BY <1>1, <1>2, <1>3, <1>11, <1>16 DEF Repins, Sound, Reads, Bootstrapping
  <2>2. Nearly(s1, Activate(w1, f))
    BY <1>8, <1>10, <1>12, <2>1, TurnNearly
  <2> QED
    BY <1>6, <1>7, <1>13, <1>16, <2>2
<1> QED
  BY <1>14, <1>15, <1>16

\* Nothing is in flight and the page shows the active farm.
Resting(s, w) == Idle(s, w) /\ Follows(w) /\ Fits(w) /\ InputsFit(s, w)

LEMMA AloneRests ==
  ASSUME NEW s, NEW w, NEW c, NEW u, Answering(s, w, c, u),
         c.op \notin Reads \cup Moves \cup {"saveState"}
  PROVE  Resting(s, u)
<1>1. /\ s \in Servers /\ u \in Webs
      /\ Fly(u) = {} /\ ~u.speed.timer
      /\ RowsFit(s, u) /\ ConfigsFit(s) /\ SpeedFits(s, u) /\ FarmsFit(s, u)
      /\ u.initializing => u.page = "dashboard"
      /\ u.page \in Bootstrapping => u.active = s.pin
      /\ Follows(u) /\ Fits(u) /\ InputsFit(s, u)
  BY Alone DEF Moves
<1> QED
  BY <1>1 DEF Resting, Idle

LEMMA RestingAlike ==
  ASSUME NEW s, NEW w, NEW v \in Webs, Alike(w, v), v.initializing = w.initializing,
         Resting(s, w)
  PROVE  Resting(s, v)
<1>1. Fly(v) = Fly(w) /\ KeyOf(v) = KeyOf(w)
  BY FlySame DEF Alike, KeyOf, Version
<1>2. FarmsFit(s, v) /\ RowsFit(s, v)
  BY <1>1 DEF Resting, Idle, FarmsFit, Known, Pinning, RowsFit, Alike
<1>3. SpeedFits(s, v)
  <2>1. Selected(s, w) => Selected(s, v)
    BY <1>1 DEF Selected, Alike
  <2> QED
    BY <2>1 DEF Resting, Idle, SpeedFits, Alike
<1>4. Follows(v) /\ Fits(v) /\ InputsFit(s, v)
  <2>1. Follows(v)
    BY <1>1 DEF Resting, Follows, Alike
  <2>2. Fits(v)
    BY <1>1 DEF Resting, Fits, Alike
  <2>3. InputsFit(s, v)
    BY <1>1 DEF Resting, InputsFit, Configured, Returned, Alike
  <2> QED
    BY <2>1, <2>2, <2>3
<1> QED
  BY <1>1, <1>2, <1>3, <1>4 DEF Resting, Idle, Alike

LEMMA RestNearly ==
  ASSUME NEW s \in Servers, NEW w, Resting(s, w)
  PROVE  Nearly(s, w)
<1>1. Unlisted(w) /\ ReadsOn(w, w)
  BY ReadsNothing DEF Resting, Idle, Unlisted
<1>2. Idle(s, w) /\ SpeedFits(s, w) /\ Follows(w) /\ Fits(w) /\ InputsFit(s, w)
  BY DEF Resting, Idle
<1> QED
  BY <1>1, <1>2, ReadNearly

LEMMA CatalogNearly ==
  ASSUME NEW s \in Servers, NEW w, NEW due, Coherent(w, due), Idle(s, w),
         Follows(w), InputsFit(s, w)
  PROVE  Nearly(s, CatalogOfActive(w))
<1>1. w \in Webs /\ Fly(w) = {}
  BY DEF Idle
<1>2. PICK c : c = For("page")
  OBVIOUS
<1>3. Seen(w, c) /\ c.for = "page"
  BY <1>2, SeenPage
<1>4. PICK v : v = LoadCatalogOf(w, w.active, c)
  OBVIOUS
<1>5. ReadsOn(w, v) /\ (w.active \in DOMAIN w.farms => Provided(v, KeyOf(w), c))
  BY <1>3, <1>4, CatalogOfReads
<1>6. Follows(v)
  <2>1. w.page \in Pages
    BY <1>1 DEF Webs
  <2> QED
    BY <1>5, <2>1, FollowsOn
<1>7. Fits(v)
  <2>1. CASE w.active \in DOMAIN w.farms
    BY <1>5, <2>1, ProvidedFits
  <2>2. CASE w.active \notin DOMAIN w.farms
    BY <1>5, <2>2 DEF Fits, ReadsOn
  <2> QED
    BY <2>1, <2>2
<1>8. InputsFit(s, v)
  BY <1>5, InputsOn
<1>9. ASSUME w.page = "speed"
      PROVE  Unlisted(v) /\ SpeedFits(s, v)
  <2>1. v.store = w.store /\ \A d \in Fly(v) : d.op = "catalog"
    BY <1>1, <1>3, <1>4, CatalogOfOnly
  <2>2. SpeedFits(s, v)
    BY <1>5, <2>1, SpeedOn DEF Idle
  <2> QED
    BY <2>1, <2>2 DEF Unlisted
<1>10. Nearly(s, v)
  BY <1>5, <1>6, <1>7, <1>8, <1>9, ReadNearly
<1> QED
  BY <1>2, <1>4, <1>10 DEF CatalogOfActive

\* A call of the farms was refused: the store is no longer saving.
LEMMA RefusedNearly ==
  ASSUME NEW s, NEW w, NEW c, NEW u, Answering(s, w, c, u),
         c.op \in {"createFarm", "updateFarm", "deleteFarm"}
  PROVE  Nearly(s, [u EXCEPT !.saving = FALSE])
<1>1. PICK v : v = [u EXCEPT !.saving = FALSE]
  OBVIOUS
<1>2. s \in Servers /\ u \in Webs
  BY Alone DEF Reads
<1>3. Resting(s, u)
  BY AloneRests DEF Reads, Moves
<1>4. v \in Webs /\ Alike(u, v) /\ v.initializing = u.initializing
  BY <1>1, <1>2 DEF Webs, Alike
<1>5. Resting(s, v)
  BY <1>3, <1>4, RestingAlike
<1> QED
  BY <1>1, <1>2, <1>5, RestNearly

LEMMA CreatedNearly ==
  ASSUME NEW s, NEW w, NEW c, NEW u, Answering(s, w, c, u), c.op = "createFarm"
  PROVE  Nearly(CarriedOut(s, c), FarmCreated(u, c, Answered(s, c)))
<1>1. /\ s \in Servers /\ u \in Webs /\ c \in Calls /\ Owes(u, c)
      /\ Fly(u) = {} /\ ~u.speed.timer /\ Sound(s, u, c) /\ c.mounted
      /\ Known(s, u) /\ RowsFit(s, u) /\ ConfigsFit(s) /\ SpeedFits(s, u) /\ FarmsFit(s, u)
      /\ u.initializing => u.page = "dashboard"
  BY Alone DEF Reads
<1>2. CASE FreeFarms(s) = {}
  <2>1. Refused(s, c)
    BY <1>2 DEF Refused
  <2>2. CarriedOut(s, c) = s /\ Answered(s, c) = Failed
    BY <2>1 DEF CarriedOut, Answered
  <2>3. FarmCreated(u, c, Failed) = [u EXCEPT !.saving = FALSE]
    BY DEF FarmCreated
  <2> QED
    BY <2>2, <2>3, RefusedNearly
<1>3. CASE FreeFarms(s) # {}
  <2>1. PICK n : n = Min(FreeFarms(s))
    OBVIOUS
  <2>2. /\ n \in Farms /\ n \notin DOMAIN s.farms /\ <<"farm", n>> \notin s.gone
        /\ n # None /\ n # Failed
    <3>1. n \in FreeFarms(s) /\ n \in Farms
      BY <1>3, <2>1, FreeFarmsAreFarms
    <3>2. n \notin DOMAIN s.farms /\ <<"farm", n>> \notin s.gone
      BY <3>1 DEF FreeFarms
    <3> QED
      BY <3>1, <3>2, MarksAssumption
  <2>3. ~Refused(s, c)
    BY <1>3 DEF Refused
  <2>4. PICK v : v = c.body
    OBVIOUS
  <2>5. v \in Versions
    BY <1>1, <2>4 DEF Calls
  <2>6. PICK s1 : s1 = CarriedOut(s, c)
    OBVIOUS
  <2>7. s1 = [s EXCEPT !.farms = Over(Single(n, v), @)] /\ Answered(s, c) = n
    BY <2>1, <2>3, <2>4, <2>6 DEF CarriedOut, Answered
  <2>8. /\ s1.farms = Over(Single(n, v), s.farms) /\ s1.pin = s.pin /\ s1.gone = s.gone
        /\ s1.rows = s.rows /\ s1.configs = s.configs /\ s1.picks = s.picks
    BY <1>1, <2>7 DEF Servers
  <2>9. /\ DOMAIN s1.farms = DOMAIN s.farms \cup {n} /\ s1.farms[n] = v
        /\ \A f \in DOMAIN s.farms : s1.farms[f] = s.farms[f]
    BY <2>2, <2>8 DEF Over, Single
  <2>10. PICK w1 : w1 = [u EXCEPT !.farms = Over(Single(n, v), @), !.saving = FALSE]
    OBVIOUS
  <2>11. /\ w1.farms = Over(Single(n, v), u.farms) /\ w1.active = u.active
         /\ w1.store = u.store /\ w1.page = u.page /\ w1.initializing = u.initializing
         /\ w1.config = u.config /\ w1.speed = u.speed /\ w1.calls = u.calls
    BY <1>1, <2>10 DEF Webs
  <2>12. w1 \in Webs /\ Fly(w1) = {}
    <3>1. Over(Single(n, v), u.farms) \in FarmMaps
      BY <1>1, <2>2, <2>5, OverFarms DEF Webs
    <3>2. w1 \in Webs
      BY <1>1, <2>10, <3>1 DEF Webs
    <3> QED
      BY <1>1, <2>11, <3>2, FlySame
  <2>13. /\ DOMAIN w1.farms = DOMAIN u.farms \cup {n} /\ w1.farms[n] = v
         /\ \A f \in DOMAIN u.farms : f # n /\ w1.farms[f] = u.farms[f]
    BY <1>1, <2>2, <2>11 DEF Over, Single, Known
  <2>14. Known(s1, w1)
    BY <1>1, <2>2, <2>8, <2>9, <2>13 DEF Known
  <2>15. RowsFit(s1, w1)
    <3>1. \A k, g : RowsOf(s1, k, g) = RowsOf(s, k, g)
      BY <2>8 DEF RowsOf
    <3>2. \A k \in Kinds : w1.store[k].farm # n
      BY <1>1, <2>2, <2>11 DEF RowsFit
    <3> QED
      BY <1>1, <2>8, <2>9, <2>11, <2>12, <3>1, <3>2 DEF RowsFit
  <2>16. ConfigsFit(s1)
    BY <1>1, <2>8 DEF ConfigsFit
  <2>17. SpeedFits(s1, w1)
    <3>1. NoneGone(s1) = NoneGone(s)
      BY <2>8 DEF NoneGone
    <3>2. \A g : Own(s1, g) = Own(s, g)
      BY <2>8 DEF Own, RowsOf
    <3>3. Selected(s, u) => Selected(s1, w1)
      BY <1>1, <2>8, <2>11, <2>12, <3>2 DEF Selected
    <3> QED
      BY <1>1, <2>8, <2>11, <3>1, <3>3 DEF SpeedFits
  <2>18. c.for \in {"switcher", "dashboard-new"} /\ (c.for = "dashboard-new" => w1.page = "dashboard")
    BY <1>1, <2>11 DEF Sound, Reads
  <2>19. Sender(c)
    BY <1>1, CallFields
  <2>20. PICK version : version = IF c.for = "dashboard-new" THEN None ELSE v
    OBVIOUS
  <2>21. FarmCreated(u, c, n) = SetActiveFarm(w1, n, version, c)
    BY <2>2, <2>4, <2>10, <2>20 DEF FarmCreated
  <2> DEFINE r == Call(c, "pin", None, n, None, version)
  <2>22. r.farm = n /\ r.for = c.for /\ r.body = version
    BY DEF Call
  <2> HIDE DEF r
  <2>23. Repins(s1, w1, r)
    <3>1. w1.active # n
      BY <1>1, <2>2, <2>11, <2>13 DEF FarmsFit, Pinning
    <3> QED
      BY <2>2, <2>13, <2>18, <2>20, <2>22, <3>1 DEF Repins
  <2>24. n \in Maybe(Farms) /\ version \in Maybe(Versions)
    BY <2>2, <2>5, <2>20 DEF Maybe
  <2>25. c.for \notin Bootstrapping /\ ~w1.speed.timer
         /\ (w1.initializing => w1.page = "dashboard")
    BY <1>1, <2>11, <2>18 DEF Bootstrapping
  <2>26. Nearly(s1, SetActiveFarm(w1, n, version, c))
    BY <1>1, <2>12, <2>14, <2>15, <2>16, <2>17, <2>18, <2>19, <2>23, <2>24, <2>25,
       PinNearly DEF r, Bootstrapping
  <2> QED
    BY <2>6, <2>7, <2>21, <2>26
<1> QED
  BY <1>2, <1>3

LEMMA UpdatedNearly ==
  ASSUME NEW s, NEW w, NEW c, NEW u, Answering(s, w, c, u), c.op = "updateFarm"
  PROVE  Nearly(CarriedOut(s, c), FarmUpdated(u, c, Answered(s, c)))
<1>1. /\ s \in Servers /\ u \in Webs /\ c \in Calls /\ Owes(u, c)
      /\ Known(s, u)
  BY Alone DEF Reads
<1>2. PICK f, v : f = c.farm /\ v = c.body
  OBVIOUS
<1>3. f \in Farms /\ v \in Versions
  BY <1>1, <1>2 DEF Calls
<1>4. CASE f \notin DOMAIN s.farms
  <2>1. Refused(s, c)
    BY <1>2, <1>4 DEF Refused
  <2>2. CarriedOut(s, c) = s /\ Answered(s, c) = Failed
    BY <2>1 DEF CarriedOut, Answered
  <2>3. FarmUpdated(u, c, Failed) = [u EXCEPT !.saving = FALSE]
    BY DEF FarmUpdated
  <2> QED
    BY <2>2, <2>3, RefusedNearly
<1>5. CASE f \in DOMAIN s.farms
  <2>1. ~Refused(s, c)
    BY <1>2, <1>5 DEF Refused
  <2>2. PICK s1 : s1 = CarriedOut(s, c)
    OBVIOUS
  <2>3. s1 = [s EXCEPT !.farms[f] = v] /\ Answered(s, c) # Failed
    <3>1. Answered(s, c) = None
      BY <2>1 DEF Answered
    <3> QED
      BY <1>2, <2>1, <2>2, <3>1, MarksAssumption DEF CarriedOut
  <2>4. /\ DOMAIN s1.farms = DOMAIN s.farms /\ s1.farms[f] = v
        /\ \A g \in DOMAIN s.farms \ {f} : s1.farms[g] = s.farms[g]
        /\ s1.pin = s.pin /\ s1.gone = s.gone
        /\ s1.rows = s.rows /\ s1.configs = s.configs /\ s1.picks = s.picks
    BY <1>1, <1>5, <2>3 DEF Servers, FarmMaps
  <2>5. PICK w1 : w1 = [u EXCEPT !.saving = FALSE]
    OBVIOUS
  <2>6. w1 \in Webs /\ Alike(u, w1) /\ w1.initializing = u.initializing
    BY <1>1, <2>5 DEF Webs, Alike
  <2>7. Coherent(w1, Owed(c))
    BY <1>1, <2>5, SavedCoheres DEF FarmOps
  <2>8. Resting(s, w1)
    <3>1. Resting(s, u)
      BY AloneRests DEF Reads, Moves
    <3> QED
      BY <2>6, <3>1, RestingAlike
  <2>9. PICK w2 : w2 = [w1 EXCEPT !.farms = Over(Single(f, v), @)]
    OBVIOUS
  <2>10. Over(Single(f, v), w1.farms) \in FarmMaps
    BY <1>3, <2>6, OverFarms DEF Webs
  <2>11. Coherent(w2, Owed(c)) /\ w2 \in Webs
    BY <2>7, <2>9, <2>10, FarmsChanged DEF Coherent
  <2>12. /\ w2.farms = Over(Single(f, v), w1.farms) /\ w2.active = w1.active
         /\ w2.store = w1.store /\ w2.page = w1.page /\ w2.initializing = w1.initializing
         /\ w2.config = w1.config /\ w2.speed = w1.speed /\ w2.calls = w1.calls
    BY <2>6, <2>9 DEF Webs
  <2>13. Fly(w2) = Fly(w1)
    BY <2>12, FlySame
  <2>14. /\ DOMAIN w2.farms = DOMAIN w1.farms \cup {f} /\ w2.farms[f] = v
         /\ \A g \in DOMAIN w1.farms \ {f} : w2.farms[g] = w1.farms[g]
    BY <2>12 DEF Over, Single
  <2>15. FarmsFit(s1, w2)
    <3>1. Known(s1, w2)
      BY <1>5, <2>4, <2>8, <2>14 DEF Resting, Idle, FarmsFit, Known
    <3> QED
      BY <2>4, <2>8, <2>12, <2>13, <2>14, <3>1 DEF Resting, Idle, FarmsFit, Pinning
  <2>16. RowsFit(s1, w2)
    <3>1. \A k, g : RowsOf(s1, k, g) = RowsOf(s, k, g)
      BY <2>4 DEF RowsOf
    <3> QED
      BY <2>4, <2>8, <2>12, <2>13, <3>1 DEF Resting, Idle, RowsFit
  <2>17. ConfigsFit(s1)
    BY <2>4, <2>8 DEF Resting, Idle, ConfigsFit
  <2>18. SpeedFits(s1, w2)
    <3>1. NoneGone(s1) = NoneGone(s)
      BY <2>4 DEF NoneGone
    <3>2. \A g : Own(s1, g) = Own(s, g)
      BY <2>4 DEF Own, RowsOf
    <3>3. Selected(s, w1) => Selected(s1, w2)
      BY <2>4, <2>12, <2>13, <3>2 DEF Selected
    <3> QED
      BY <2>4, <2>8, <2>12, <3>1, <3>3 DEF Resting, Idle, SpeedFits
  <2>19. Idle(s1, w2)
    BY <2>4, <2>8, <2>11, <2>12, <2>13, <2>15, <2>16, <2>17, <2>18 DEF Resting, Idle
  <2>20. Follows(w2) /\ InputsFit(s1, w2)
    <3>1. Follows(w2)
      BY <2>8, <2>12, <2>13 DEF Resting, Follows
    <3>2. InputsFit(s1, w2)
      BY <2>4, <2>8, <2>12, <2>13 DEF Resting, InputsFit, Configured, Returned
    <3> QED
      BY <3>1, <3>2
  <2>21. s1 \in Servers
    BY <1>1, <2>2, CarriedOutTyped
  <2>22. Nearly(s1, CatalogOfActive(w2))
    BY <2>11, <2>19, <2>20, <2>21, CatalogNearly
  <2>23. FarmUpdated(u, c, Answered(s, c)) = CatalogOfActive(w2)
    BY <1>2, <2>3, <2>5, <2>9 DEF FarmUpdated
  <2> QED
    BY <2>2, <2>22, <2>23
<1> QED
  BY <1>4, <1>5

\* What is left when a farm is deleted.
LEMMA Deleted ==
  ASSUME NEW s \in Servers, NEW c \in Calls, c.op = "deleteFarm", c.farm \in DOMAIN s.farms,
         NEW s1, s1 = CarriedOut(s, c)
  PROVE  /\ s1 \in Servers /\ Answered(s, c) = None
         /\ DOMAIN s1.farms = DOMAIN s.farms \ {c.farm}
         /\ \A g \in DOMAIN s1.farms : s1.farms[g] = s.farms[g]
         /\ s1.pin = IF s.pin = c.farm THEN None ELSE s.pin
         /\ \A k \in Kinds, g \in Farms \ {c.farm} : RowsOf(s1, k, g) = RowsOf(s, k, g)
         /\ s1.gone = s.gone \cup {<<"farm", c.farm>>} /\ ~NoneGone(s1)
         /\ s1.configs[c.farm] = None /\ s1.picks[c.farm] = None
         /\ \A g \in Farms \ {c.farm} : /\ s1.configs[g] = s.configs[g]
                                        /\ s1.picks[g] = s.picks[g]
<1>1. c.farm \in Farms
  BY DEF Calls
<1>2. ~Refused(s, c)
  BY DEF Refused
<1>3. s1 \in Servers /\ Answered(s, c) = None
  BY <1>2, CarriedOutTyped DEF Answered
<1>4. s1 = [farms |-> Without(s.farms, {c.farm}),
          pin |-> IF s.pin = c.farm THEN None ELSE s.pin,
          rows |-> [k \in Kinds |-> Without(s.rows[k], DOMAIN RowsOf(s, k, c.farm))],
          gone |-> s.gone \cup {<<"farm", c.farm>>},
          configs |-> [s.configs EXCEPT ![c.farm] = None],
          picks |-> [s.picks EXCEPT ![c.farm] = None]]
  BY <1>2 DEF CarriedOut
<1>5. /\ s1.farms = Without(s.farms, {c.farm})
      /\ s1.pin = IF s.pin = c.farm THEN None ELSE s.pin
      /\ s1.rows = [k \in Kinds |-> Without(s.rows[k], DOMAIN RowsOf(s, k, c.farm))]
      /\ s1.gone = s.gone \cup {<<"farm", c.farm>>}
      /\ s1.configs = [s.configs EXCEPT ![c.farm] = None]
      /\ s1.picks = [s.picks EXCEPT ![c.farm] = None]
  BY <1>4
<1>6. /\ DOMAIN s1.farms = DOMAIN s.farms \ {c.farm}
      /\ \A g \in DOMAIN s1.farms : s1.farms[g] = s.farms[g]
  BY <1>5 DEF Without, Restrict
<1>7. ~NoneGone(s1)
  <2>1. <<"farm", c.farm>> \in s1.gone
    BY <1>5
  <2>2. <<"farm", c.farm>> \in {"farm"} \X Farms
    BY <1>1
  <2> QED
    BY <2>1, <2>2 DEF NoneGone
<1>8. ASSUME NEW k \in Kinds, NEW g \in Farms \ {c.farm}
      PROVE  RowsOf(s1, k, g) = RowsOf(s, k, g)
  <2>1. PICK r : r = s.rows[k]
    OBVIOUS
  <2>2. PICK r1 : r1 = s1.rows[k]
    OBVIOUS
  <2>3. r1 = Without(r, DOMAIN RowsOf(s, k, c.farm))
    BY <1>5, <2>1, <2>2
  <2>4. DOMAIN RowsOf(s, k, c.farm) = {id \in DOMAIN r : OwnerOf[id] = c.farm}
    BY <2>1 DEF RowsOf, Restrict
  <2>5. /\ DOMAIN r1 = {id \in DOMAIN r : OwnerOf[id] # c.farm}
        /\ \A id \in DOMAIN r1 : r1[id] = r[id]
    BY <2>3, <2>4 DEF Without, Restrict
  <2>6. {id \in DOMAIN r1 : OwnerOf[id] = g} = {id \in DOMAIN r : OwnerOf[id] = g}
    BY <2>5
  <2>7. Restrict(r1, {id \in DOMAIN r1 : OwnerOf[id] = g})
        = Restrict(r, {id \in DOMAIN r : OwnerOf[id] = g})
    <3>1. PICK S : S = {id \in DOMAIN r : OwnerOf[id] = g}
      OBVIOUS
    <3>2. S \subseteq DOMAIN r1
      BY <2>6, <3>1
    <3>3. [id \in S |-> r1[id]] = [id \in S |-> r[id]]
      BY <2>5, <3>2
    <3>4. Restrict(r1, S) = Restrict(r, S)
      BY <3>3 DEF Restrict
    <3> QED
      BY <2>6, <3>1, <3>4
  <2> QED
    BY <2>1, <2>2, <2>7 DEF RowsOf
<1>9. /\ s1.configs[c.farm] = None /\ s1.picks[c.farm] = None
      /\ \A g \in Farms \ {c.farm} : s1.configs[g] = s.configs[g] /\ s1.picks[g] = s.picks[g]
  BY <1>1, <1>5 DEF Servers
<1> QED
  BY <1>3, <1>5, <1>6, <1>7, <1>8, <1>9

LEMMA DeletedNearly ==
  ASSUME NEW s, NEW w, NEW c, NEW u, Answering(s, w, c, u), c.op = "deleteFarm"
  PROVE  Nearly(CarriedOut(s, c), FarmDeleted(u, c, Answered(s, c)))
<1>1. /\ s \in Servers /\ u \in Webs /\ c \in Calls /\ Owes(u, c)
      /\ Fly(u) = {} /\ ~u.speed.timer
      /\ Known(s, u) /\ RowsFit(s, u) /\ ConfigsFit(s) /\ SpeedFits(s, u) /\ FarmsFit(s, u)
      /\ u.initializing => u.page = "dashboard"
      /\ u.page \in Bootstrapping => u.active = s.pin
      /\ Follows(u) /\ InputsFit(s, u)
  BY Alone DEF Reads, Moves
<1>2. PICK f : f = c.farm
  OBVIOUS
<1>3. f \in Farms /\ f # None
  BY <1>1, <1>2, MarksAssumption DEF Calls
<1>4. CASE f \notin DOMAIN s.farms
  <2>1. Refused(s, c)
    BY <1>2, <1>4 DEF Refused
  <2>2. CarriedOut(s, c) = s /\ Answered(s, c) = Failed
    BY <2>1 DEF CarriedOut, Answered
  <2>3. FarmDeleted(u, c, Failed) = [u EXCEPT !.saving = FALSE]
    BY DEF FarmDeleted
  <2> QED
    BY <2>2, <2>3, RefusedNearly
<1>5. CASE f \in DOMAIN s.farms
  <2>1. PICK s1 : s1 = CarriedOut(s, c)
    OBVIOUS
  <2>2. /\ s1 \in Servers /\ Answered(s, c) = None
        /\ DOMAIN s1.farms = DOMAIN s.farms \ {f}
        /\ \A g \in DOMAIN s1.farms : s1.farms[g] = s.farms[g]
        /\ s1.pin = IF s.pin = f THEN None ELSE s.pin
        /\ \A k \in Kinds, g \in Farms \ {f} : RowsOf(s1, k, g) = RowsOf(s, k, g)
        /\ s1.gone = s.gone \cup {<<"farm", f>>} /\ ~NoneGone(s1)
        /\ s1.configs[f] = None /\ s1.picks[f] = None
        /\ \A g \in Farms \ {f} : s1.configs[g] = s.configs[g] /\ s1.picks[g] = s.picks[g]
    BY <1>1, <1>2, <1>5, <2>1, Deleted
  <2>3. PICK w1 : w1 = [u EXCEPT !.farms = Without(@, {f})]
    OBVIOUS
  <2>4. Without(u.farms, {f}) \in FarmMaps
    BY <1>1, WithoutFarms DEF Webs
  <2>5. /\ w1 \in Webs
        /\ w1.farms = Without(u.farms, {f}) /\ w1.active = u.active
        /\ w1.store = u.store /\ w1.page = u.page /\ w1.initializing = u.initializing
        /\ w1.config = u.config /\ w1.speed = u.speed /\ w1.calls = u.calls
    BY <1>1, <2>3, <2>4 DEF Webs
  <2>6. Fly(w1) = {}
    BY <1>1, <2>5, FlySame
  <2>7. /\ DOMAIN w1.farms = DOMAIN u.farms \ {f}
        /\ \A g \in DOMAIN w1.farms : w1.farms[g] = u.farms[g]
    BY <2>5 DEF Without, Restrict
  <2>8. Known(s1, w1)
    BY <1>1, <2>2, <2>7 DEF Known
  <2>9. RowsFit(s1, w1)
    <3>1. DOMAIN s1.farms \subseteq Farms \ {f}
      BY <1>1, <2>2 DEF Servers, FarmMaps
    <3> QED
      BY <1>1, <2>2, <2>5, <2>6, <3>1 DEF RowsFit
  <2>10. ConfigsFit(s1)
    BY <1>1, <2>2 DEF ConfigsFit
  <2>11. SpeedFits(s1, w1)
    <3>1. \A g \in Farms : s1.picks[g] # None => s1.picks[g] \subseteq SpeedKinds \X Ids
      BY <1>1, <2>2 DEF SpeedFits
    <3> QED
      BY <1>1, <2>2, <2>5, <3>1 DEF SpeedFits
  <2>12. FarmDeleted(u, c, None) = FarmGone(w1, f)
    BY <1>2, <2>3, MarksAssumption DEF FarmDeleted
  <2>13. CASE u.active = f
    <3> DEFINE d == For("deleted")
               r == Call(d, "pin", None, None, None, None)
    <3>1. FarmGone(w1, f) = SetActiveFarm(w1, None, None, d)
      BY <2>5, <2>13 DEF FarmGone
    <3>2. Sender(d) /\ d.for = "deleted" /\ d.mounted
      BY PageSender DEF Senders, For
    <3>3. r.farm = None /\ r.for = "deleted"
      BY DEF Call, For
    <3> HIDE DEF d, r
    <3>4. s1.pin = None
      BY <1>1, <1>3, <2>2, <2>13 DEF FarmsFit, Pinning
    <3>5. Repins(s1, w1, r)
      BY <2>2, <3>3, <3>4 DEF Repins
    <3>6. None \in Maybe(Farms) /\ None \in Maybe(Versions) /\ d.for \notin Bootstrapping
      BY <3>2 DEF Maybe, Bootstrapping
    <3>7. ~w1.speed.timer /\ (w1.initializing => w1.page = "dashboard")
      BY <1>1, <2>5
    <3>8. Nearly(s1, SetActiveFarm(w1, None, None, d))
      BY <2>5, <2>6, <2>8, <2>9, <2>10, <2>11, <3>2, <3>5, <3>6, <3>7, PinNearly
         DEF r, Bootstrapping
    <3> QED
      BY <2>1, <2>2, <2>12, <3>1, <3>8
  <2>14. CASE u.active # f
    <3>1. PICK w2 : w2 = [w1 EXCEPT !.saving = FALSE]
      OBVIOUS
    <3>2. FarmGone(w1, f) = CatalogOfActive(w2)
      BY <2>5, <2>14, <3>1 DEF FarmGone
    <3>3. w2 \in Webs /\ Alike(w1, w2) /\ w2.initializing = w1.initializing
      BY <2>5, <3>1 DEF Webs, Alike
    <3>4. Fly(w2) = {}
      BY <2>6, <3>3, FlySame DEF Alike
    <3>5. Coherent(w2, Owed(c))
      <4>1. PICK w3 : w3 = [u EXCEPT !.saving = FALSE]
        OBVIOUS
      <4>2. Coherent(w3, Owed(c)) /\ w3.farms = u.farms
        BY <1>1, <4>1, SavedCoheres DEF FarmOps
      <4>3. Coherent([w3 EXCEPT !.farms = Without(u.farms, {f})], Owed(c))
        BY <2>4, <4>2, FarmsChanged
      <4>4. w2 = [w3 EXCEPT !.farms = Without(u.farms, {f})]
        BY <1>1, <2>3, <3>1, <4>1 DEF Webs
      <4> QED
        BY <4>3, <4>4
    <3>6. u.active # None => /\ u.active = s.pin /\ u.active \in DOMAIN u.farms
                             /\ s1.pin = u.active /\ u.active \in Farms \ {f}
      <4>1. u.active # None => u.active \in Farms
        BY <1>1 DEF Webs, Maybe
      <4> QED
        BY <1>1, <2>2, <2>14, <4>1 DEF FarmsFit, Pinning
    <3>7. FarmsFit(s1, w2)
      <4>1. Known(s1, w2)
        BY <2>8, <3>3 DEF Known, Alike
      <4> QED
        BY <2>5, <2>7, <2>14, <3>3, <3>6, <4>1 DEF FarmsFit, Alike
    <3>8. RowsFit(s1, w2)
      BY <2>6, <2>9, <3>3, <3>4 DEF RowsFit, Alike
    <3>9. SpeedFits(s1, w2)
      BY <2>2, <2>11, <3>3 DEF SpeedFits, Alike
    <3>10. w2.page \in Bootstrapping => w2.active = s1.pin
      BY <1>1, <2>2, <2>5, <2>14, <3>3 DEF Alike
    <3>11. Idle(s1, w2)
      BY <1>1, <2>5, <2>10, <3>3, <3>4, <3>7, <3>8, <3>9, <3>10 DEF Idle, Alike
    <3>12. Follows(w2)
      BY <1>1, <2>5, <3>3, <3>4 DEF Follows, Alike
    <3>13. InputsFit(s1, w2)
      BY <1>1, <2>2, <2>5, <3>3, <3>4, <3>6 DEF InputsFit, Configured, Returned, Alike
    <3>14. Nearly(s1, CatalogOfActive(w2))
      BY <2>2, <3>5, <3>11, <3>12, <3>13, CatalogNearly
    <3> QED
      BY <2>1, <2>2, <2>12, <3>2, <3>14
  <2> QED
    BY <2>13, <2>14
<1> QED
  BY <1>4, <1>5

\* The rows of a farm among rows: RowsOf for one of the tables.
OwnedBy(r, f) == Restrict(r, {id \in DOMAIN r : OwnerOf[id] = f})

LEMMA RowsOwned ==
  ASSUME NEW s, NEW k, NEW g
  PROVE  RowsOf(s, k, g) = OwnedBy(s.rows[k], g)
BY DEF RowsOf, OwnedBy

LEMMA AddedOwned ==
  ASSUME NEW r, NEW id, NEW x, NEW g
  PROVE  OwnedBy(Over(Single(id, x), r), g) =
           IF g = OwnerOf[id] THEN Over(Single(id, x), OwnedBy(r, g)) ELSE OwnedBy(r, g)
<1>1. PICK q : q = Over(Single(id, x), r)
  OBVIOUS
<1>2. DOMAIN q = {id} \cup DOMAIN r /\ \A y \in DOMAIN q : q[y] = IF y = id THEN x ELSE r[y]
  BY <1>1 DEF Over, Single
<1>3. PICK S : S = {y \in DOMAIN q : OwnerOf[y] = g}
  OBVIOUS
<1>4. OwnedBy(q, g) = [y \in S |-> q[y]]
  BY <1>3 DEF OwnedBy, Restrict
<1>5. PICK T : T = {y \in DOMAIN r : OwnerOf[y] = g}
  OBVIOUS
<1>6. OwnedBy(r, g) = [y \in T |-> r[y]]
  BY <1>5 DEF OwnedBy, Restrict
<1>7. CASE g = OwnerOf[id]
  <2>1. S = {id} \cup T
    BY <1>2, <1>3, <1>5, <1>7
  <2>2. Over(Single(id, x), OwnedBy(r, g)) =
          [y \in {id} \cup T |-> IF y = id THEN x ELSE r[y]]
    BY <1>6 DEF Over, Single
  <2>3. [y \in S |-> q[y]] = [y \in {id} \cup T |-> IF y = id THEN x ELSE r[y]]
    BY <1>2, <1>5, <2>1
  <2> QED
    BY <1>1, <1>4, <1>7, <2>2, <2>3
<1>8. CASE g # OwnerOf[id]
  <2>1. S = T /\ id \notin T
    BY <1>2, <1>3, <1>5, <1>8
  <2>2. [y \in S |-> q[y]] = [y \in T |-> r[y]]
    BY <1>2, <1>5, <2>1
  <2> QED
    BY <1>1, <1>4, <1>6, <1>8, <2>2
<1> QED
  BY <1>7, <1>8

LEMMA ChangedOver ==
  ASSUME NEW r \in RowMaps, NEW id \in DOMAIN r, NEW x
  PROVE  [r EXCEPT ![id] = x] = Over(Single(id, x), r)
<1>1. PICK D : r \in [D -> Int]
  BY DEF RowMaps
<1>2. PICK n : n = [r EXCEPT ![id] = x]
  OBVIOUS
<1>3. n = [y \in D |-> IF y = id THEN x ELSE r[y]]
  BY <1>1, <1>2
<1>4. {id} \cup D = D
  BY <1>1
<1>5. Over(Single(id, x), r) = [y \in {id} \cup D |-> IF y = id THEN x ELSE r[y]]
  BY <1>1 DEF Over, Single
<1> QED
  BY <1>2, <1>3, <1>4, <1>5

LEMMA RemovedOwned ==
  ASSUME NEW r, NEW id, NEW g
  PROVE  OwnedBy(Without(r, {id}), g) = Without(OwnedBy(r, g), {id})
<1>1. PICK q : q = Without(r, {id})
  OBVIOUS
<1>2. DOMAIN q = DOMAIN r \ {id} /\ \A y \in DOMAIN q : q[y] = r[y]
  BY <1>1 DEF Without, Restrict
<1>3. PICK S : S = {y \in DOMAIN q : OwnerOf[y] = g}
  OBVIOUS
<1>4. OwnedBy(q, g) = [y \in S |-> q[y]]
  BY <1>3 DEF OwnedBy, Restrict
<1>5. PICK T : T = {y \in DOMAIN r : OwnerOf[y] = g}
  OBVIOUS
<1>6. OwnedBy(r, g) = [y \in T |-> r[y]]
  BY <1>5 DEF OwnedBy, Restrict
<1>7. S = T \ {id}
  BY <1>2, <1>3, <1>5
<1>8. [y \in S |-> q[y]] = [y \in T \ {id} |-> r[y]]
  BY <1>2, <1>3, <1>7
<1>9. Without(OwnedBy(r, g), {id}) = [y \in T \ {id} |-> r[y]]
  BY <1>6 DEF Without, Restrict
<1> QED
  BY <1>1, <1>4, <1>8, <1>9

LEMMA SingleRow ==
  ASSUME NEW id \in Ids, NEW x \in Int
  PROVE  Single(id, x) \in RowMaps
<1>1. Single(id, x) \in [{id} -> Int] /\ {id} \in SUBSET Ids
  BY DEF Single
<1> QED
  BY <1>1 DEF RowMaps

\* Only rows changed at the API, and what has been deleted for good.
RowsOnly(s, s1) ==
  /\ s1 \in Servers
  /\ s1.farms = s.farms /\ s1.pin = s.pin /\ s1.configs = s.configs /\ s1.picks = s.picks
  /\ \A g : <<"farm", g>> \in s1.gone <=> <<"farm", g>> \in s.gone
\* And only what a store shows at the tab.
StoresOnly(w, v) ==
  /\ v \in Webs
  /\ v.farms = w.farms /\ v.active = w.active /\ v.current = w.current
  /\ v.page = w.page /\ v.initializing = w.initializing
  /\ v.config = w.config /\ v.speed = w.speed /\ v.calls = w.calls

LEMMA RowsRest ==
  ASSUME NEW s, NEW s1, RowsOnly(s, s1), NEW w, NEW v, StoresOnly(w, v), Resting(s, w),
         w.page # "speed", RowsFit(s1, v),
         w.page \in Following => \A k \in Kinds : v.store[k].farm = w.store[k].farm
  PROVE  Resting(s1, v)
<1>1. Fly(v) = Fly(w) /\ Fly(w) = {} /\ KeyOf(v) = KeyOf(w)
  BY FlySame DEF StoresOnly, Resting, Idle, KeyOf, Version
<1>2. FarmsFit(s1, v)
  BY <1>1 DEF Resting, Idle, FarmsFit, Known, Pinning, StoresOnly, RowsOnly
<1>3. ConfigsFit(s1)
  BY DEF Resting, Idle, ConfigsFit, RowsOnly
<1>4. SpeedFits(s1, v)
  BY DEF Resting, Idle, SpeedFits, StoresOnly, RowsOnly
<1>5. Idle(s1, v)
  BY <1>1, <1>2, <1>3, <1>4 DEF Resting, Idle, StoresOnly, RowsOnly
<1>6. Follows(v)
  <2>1. w.page \in Following => KindsOf(w.page) \subseteq Kinds
    BY DEF Following, KindsOf, Kinds
  <2> QED
    BY <1>1, <2>1 DEF Resting, Follows, StoresOnly
<1>7. Fits(v)
  BY <1>1 DEF Resting, Fits, StoresOnly
<1>8. InputsFit(s1, v)
  BY <1>1 DEF Resting, InputsFit, Configured, Returned, StoresOnly, RowsOnly
<1> QED
  BY <1>5, <1>6, <1>7, <1>8 DEF Resting

\* The stores that show something of a farm there is show what the API has.
LEMMA RowsFitAgain ==
  ASSUME NEW s, NEW s1, RowsOnly(s, s1), NEW w, NEW v, RowsFit(s, w),
         \A k \in Kinds : v.store[k].farm \in {w.store[k].farm, None},
         \A k \in Kinds : v.store[k].farm \in DOMAIN s.farms =>
           v.store[k].rows = RowsOf(s1, k, v.store[k].farm)
  PROVE  RowsFit(s1, v)
BY DEF RowsOnly, RowsFit

\* A row of the table k is there, or is there again, and nothing else changed.
Adds(s, s1, k, id, x) ==
  \A g : RowsOf(s1, k, g) = IF g = OwnerOf[id] THEN Over(Single(id, x), RowsOf(s, k, g))
                            ELSE RowsOf(s, k, g)

LEMMA RowMade ==
  ASSUME NEW s \in Servers, NEW c \in Calls, c.op = "create", ~Refused(s, c),
         NEW s1, s1 = CarriedOut(s, c)
  PROVE  /\ RowsOnly(s, s1)
         /\ \E id \in Ids, x \in Int :
              /\ Answered(s, c) = Single(id, x) /\ OwnerOf[id] = c.farm
              /\ Adds(s, s1, c.kind, id, x)
         /\ \A k \in Kinds \ {c.kind} : \A g : RowsOf(s1, k, g) = RowsOf(s, k, g)
<1>1. c.kind \in Kinds /\ FreeIds(s, c.kind, c.farm) # {}
  BY DEF Refused, Calls, RowOps
<1>2. PICK row : row = NewRow(s, c)
  OBVIOUS
<1>3. PICK id \in FreeIds(s, c.kind, c.farm) : row = Single(id, 0)
  BY <1>1, <1>2, NewRowIsARow
<1>4. id \in Ids /\ OwnerOf[id] = c.farm
  BY DEF FreeIds
<1>5. s1 = [s EXCEPT !.rows = [s.rows EXCEPT ![c.kind] = Over(row, s.rows[c.kind])]]
  BY <1>2 DEF CarriedOut
<1>6. s1 \in Servers
  BY CarriedOutTyped
<1>7. /\ s1.rows = [s.rows EXCEPT ![c.kind] = Over(row, s.rows[c.kind])]
      /\ s1.farms = s.farms /\ s1.pin = s.pin /\ s1.configs = s.configs
      /\ s1.picks = s.picks /\ s1.gone = s.gone
  BY <1>5 DEF Servers
<1>8. /\ s1.rows[c.kind] = Over(Single(id, 0), s.rows[c.kind])
      /\ \A k \in Kinds \ {c.kind} : s1.rows[k] = s.rows[k]
  BY <1>1, <1>3, <1>7 DEF Servers
<1>9. RowsOnly(s, s1)
  BY <1>6, <1>7 DEF RowsOnly
<1>10. Adds(s, s1, c.kind, id, 0)
  BY <1>8, AddedOwned, RowsOwned DEF Adds
<1>11. \A k \in Kinds \ {c.kind} : \A g : RowsOf(s1, k, g) = RowsOf(s, k, g)
  BY <1>8 DEF RowsOf
<1>12. Answered(s, c) = Single(id, 0)
  BY <1>2, <1>3 DEF Answered
<1> QED
  BY <1>4, <1>9, <1>10, <1>11, <1>12

\* The row that an update and a harvest change.
LEMMA RowChanged ==
  ASSUME NEW r \in RowMaps, NEW id \in DOMAIN r, NEW n, n = [r EXCEPT ![id] = 1 - @]
  PROVE  n[id] \in Int /\ n = Over(Single(id, n[id]), r)
<1>1. n[id] \in Int /\ n[id] = 1 - r[id]
  BY Changed DEF RowMaps
<1>2. PICK x : x = 1 - r[id]
  OBVIOUS
<1>3. n = [r EXCEPT ![id] = x]
  BY <1>2
<1> QED
  BY <1>1, <1>2, <1>3, ChangedOver

LEMMA RowUpdated ==
  ASSUME NEW s \in Servers, NEW c \in Calls, c.op \in {"update", "harvest"}, ~Refused(s, c),
         NEW s1, s1 = CarriedOut(s, c)
  PROVE  /\ RowsOnly(s, s1)
         /\ c.id \in DOMAIN RowsOf(s, c.kind, c.farm) /\ OwnerOf[c.id] = c.farm
         /\ \E x \in Int : Answered(s, c) = Single(c.id, x) /\ Adds(s, s1, c.kind, c.id, x)
         /\ \A k \in Kinds \ {c.kind} : \A g :
              g # c.farm \/ k # "harvests" \/ c.op = "update" =>
                RowsOf(s1, k, g) = RowsOf(s, k, g)
<1>1. /\ c.kind \in Kinds /\ c.id \in Ids /\ c.id \in DOMAIN RowsOf(s, c.kind, c.farm)
      /\ c.op = "harvest" => c.kind = "fields"
  BY DEF Refused, Calls, RowOps
<1>2. PICK r : r = s.rows[c.kind]
  OBVIOUS
<1>3. r \in RowMaps /\ c.id \in DOMAIN r /\ OwnerOf[c.id] = c.farm
  <2>1. r \in RowMaps
    BY <1>1, <1>2 DEF Servers
  <2> QED
    BY <1>1, <1>2, <2>1 DEF RowsOf, Restrict
<1>4. PICK n : n = [r EXCEPT ![c.id] = 1 - @]
  OBVIOUS
<1>5. PICK x : x = n[c.id]
  OBVIOUS
<1>6. x \in Int /\ n = Over(Single(c.id, x), r)
  BY <1>3, <1>4, <1>5, RowChanged
<1>7. s1 \in Servers
  BY CarriedOutTyped
<1>8. /\ s1.rows[c.kind] = n
      /\ \A k \in Kinds \ {c.kind} :
           \/ s1.rows[k] = s.rows[k]
           \/ /\ k = "harvests" /\ c.op = "harvest"
              /\ \E id : OwnerOf[id] = c.farm /\ s1.rows[k] = Over(Single(id, 0), s.rows[k])
      /\ s1.farms = s.farms /\ s1.pin = s.pin /\ s1.configs = s.configs
      /\ s1.picks = s.picks /\ s1.gone = s.gone
  <2>1. CASE c.op = "update"
    <3>1. s1 = [s EXCEPT !.rows = [s.rows EXCEPT ![c.kind] = [s.rows[c.kind] EXCEPT ![c.id] = 1 - @]]]
      BY <2>1 DEF CarriedOut
    <3>2. s1 = [s EXCEPT !.rows = [s.rows EXCEPT ![c.kind] = n]]
      BY <1>2, <1>4, <3>1
    <3> QED
      BY <1>1, <3>2 DEF Servers
  <2>2. CASE c.op = "harvest"
    <3>1. PICK d : d = [c EXCEPT !.kind = "harvests"]
      OBVIOUS
    <3>2. d.kind = "harvests" /\ d.farm = c.farm
      BY <3>1 DEF Calls
    <3>3. PICK hs : hs = IF FreeIds(s, "harvests", c.farm) = {} THEN s.rows["harvests"]
                         ELSE Over(NewRow(s, d), s.rows["harvests"])
      OBVIOUS
    <3>4. hs = s.rows["harvests"]
          \/ \E id : OwnerOf[id] = c.farm /\ hs = Over(Single(id, 0), s.rows["harvests"])
      <4>1. CASE FreeIds(s, "harvests", c.farm) # {}
        <5>1. PICK id \in FreeIds(s, "harvests", c.farm) : NewRow(s, d) = Single(id, 0)
          BY <3>2, <4>1, NewRowIsARow
        <5>2. OwnerOf[id] = c.farm
          BY DEF FreeIds
        <5> QED
          BY <3>3, <4>1, <5>1, <5>2
      <4> QED
        BY <3>3, <4>1
    <3> DEFINE r1 == [s.rows EXCEPT !["fields"] = n]
               r2 == [r1 EXCEPT !["harvests"] = hs]
    <3>5. s.rows \in [Kinds -> RowMaps] /\ c.kind = "fields"
      BY <1>1, <2>2 DEF Servers
    <3>6. r1["harvests"] = s.rows["harvests"]
      BY <3>5 DEF Kinds
    <3>7. s1 = [s EXCEPT !.rows = r2]
      BY <1>2, <1>4, <2>2, <3>1, <3>3, <3>5, <3>6 DEF CarriedOut, Servers
    <3>8. /\ r2["fields"] = n /\ r2["harvests"] = hs
          /\ \A k \in Kinds \ {"fields", "harvests"} : r2[k] = s.rows[k]
      BY <3>5 DEF Kinds
    <3> HIDE DEF r1, r2
    <3>9. /\ s1.rows = r2
          /\ s1.farms = s.farms /\ s1.pin = s.pin /\ s1.configs = s.configs
          /\ s1.picks = s.picks /\ s1.gone = s.gone
      BY <3>7 DEF Servers
    <3> QED
      BY <2>2, <3>4, <3>5, <3>8, <3>9
  <2> QED
    BY <2>1, <2>2
<1>9. RowsOnly(s, s1)
  BY <1>7, <1>8 DEF RowsOnly
<1>10. Adds(s, s1, c.kind, c.id, x)
  BY <1>2, <1>6, <1>8, AddedOwned, RowsOwned DEF Adds
<1>11. \A k \in Kinds \ {c.kind} : \A g :
         g # c.farm \/ k # "harvests" \/ c.op = "update" =>
           RowsOf(s1, k, g) = RowsOf(s, k, g)
  <2> TAKE k \in Kinds \ {c.kind}
  <2> SUFFICES ASSUME NEW g,
                      g # c.farm \/ k # "harvests" \/ c.op = "update"
               PROVE  RowsOf(s1, k, g) = RowsOf(s, k, g)
    OBVIOUS
  <2>1. CASE s1.rows[k] = s.rows[k]
    BY <2>1, RowsOwned
  <2>2. CASE s1.rows[k] # s.rows[k]
    <3>1. PICK id : OwnerOf[id] = c.farm /\ s1.rows[k] = Over(Single(id, 0), s.rows[k])
      BY <1>8, <2>2
    <3>2. g # OwnerOf[id]
      BY <1>8, <2>2, <3>1
    <3> QED
      BY <3>1, <3>2, AddedOwned, RowsOwned
  <2> QED
    BY <2>1, <2>2
<1>12. Answered(s, c) = Single(c.id, x)
  BY <1>5, <1>8 DEF Answered
<1> QED
  BY <1>1, <1>3, <1>6, <1>9, <1>10, <1>11, <1>12

Drops(s, s1, k, id) ==
  \A g : RowsOf(s1, k, g) = Without(RowsOf(s, k, g), {id})

LEMMA RowRemoved ==
  ASSUME NEW s \in Servers, NEW c \in Calls, c.op = "remove", ~Refused(s, c),
         NEW s1, s1 = CarriedOut(s, c)
  PROVE  /\ RowsOnly(s, s1) /\ Answered(s, c) = None /\ OwnerOf[c.id] = c.farm
         /\ Drops(s, s1, c.kind, c.id)
         /\ \A k \in Kinds \ {c.kind} : \A g : RowsOf(s1, k, g) = RowsOf(s, k, g)
<1>1. /\ c.kind \in Kinds /\ c.id \in Ids /\ c.id \in DOMAIN RowsOf(s, c.kind, c.farm)
  BY DEF Refused, Calls, RowOps
<1>2. OwnerOf[c.id] = c.farm
  BY <1>1 DEF RowsOf, Restrict
<1>3. s1 = [s EXCEPT !.rows = [s.rows EXCEPT ![c.kind] = Without(s.rows[c.kind], {c.id})],
                     !.gone = s.gone \cup {<<c.kind, c.id>>}]
  BY DEF CarriedOut
<1>4. s1 \in Servers
  BY CarriedOutTyped
<1>5. /\ s1.rows = [s.rows EXCEPT ![c.kind] = Without(s.rows[c.kind], {c.id})]
      /\ s1.farms = s.farms /\ s1.pin = s.pin /\ s1.configs = s.configs
      /\ s1.picks = s.picks /\ s1.gone = s.gone \cup {<<c.kind, c.id>>}
  BY <1>3 DEF Servers
<1>6. /\ s1.rows[c.kind] = Without(s.rows[c.kind], {c.id})
      /\ \A k \in Kinds \ {c.kind} : s1.rows[k] = s.rows[k]
  BY <1>1, <1>5 DEF Servers
<1>7. RowsOnly(s, s1)
  <2>1. c.kind # "farm"
    BY <1>1 DEF Kinds
  <2> QED
    BY <1>4, <1>5, <2>1 DEF RowsOnly
<1>8. Drops(s, s1, c.kind, c.id)
  <2> SUFFICES \A g : RowsOf(s1, c.kind, g) = Without(RowsOf(s, c.kind, g), {c.id})
    BY DEF Drops
  <2> TAKE g
  <2>1. RowsOf(s1, c.kind, g) = OwnedBy(Without(s.rows[c.kind], {c.id}), g)
    BY <1>6, RowsOwned
  <2>2. RowsOf(s, c.kind, g) = OwnedBy(s.rows[c.kind], g)
    BY RowsOwned
  <2> QED
    BY <2>1, <2>2, RemovedOwned
<1>9. \A k \in Kinds \ {c.kind} : \A g : RowsOf(s1, k, g) = RowsOf(s, k, g)
  BY <1>6 DEF RowsOf
<1>10. Answered(s, c) = None
  BY DEF Answered
<1> QED
  BY <1>2, <1>7, <1>8, <1>9, <1>10

LEMMA StoreWritten ==
  ASSUME NEW u \in Webs, NEW k \in Kinds, NEW rows \in RowMaps,
         NEW v, v = [u EXCEPT !.store[k].rows = rows]
  PROVE  /\ StoresOnly(u, v) /\ v.store[k].rows = rows
         /\ \A j \in Kinds : v.store[j].farm = u.store[j].farm
         /\ \A j \in Kinds \ {k} : v.store[j].rows = u.store[j].rows
<1>1. PICK t : t = [u.store EXCEPT ![k] = [u.store[k] EXCEPT !.rows = rows]]
  OBVIOUS
<1>2. /\ t \in [Kinds -> Stores] /\ t[k].rows = rows
      /\ \A j \in Kinds : t[j].farm = u.store[j].farm
      /\ \A j \in Kinds \ {k} : t[j].rows = u.store[j].rows
  <2>1. u.store \in [Kinds -> Stores]
    BY DEF Webs
  <2>2. /\ [u.store[k] EXCEPT !.rows = rows] \in Stores
        /\ [u.store[k] EXCEPT !.rows = rows].rows = rows
        /\ [u.store[k] EXCEPT !.rows = rows].farm = u.store[k].farm
    BY <2>1 DEF Stores
  <2> QED
    BY <1>1, <2>1, <2>2
<1>3. v = [u EXCEPT !.store = t]
  BY <1>1
<1>4. v.store = t /\ StoresOnly(u, v)
  BY <1>2, <1>3 DEF Webs, StoresOnly
<1> QED
  BY <1>2, <1>4

LEMMA StoreFailed ==
  ASSUME NEW u \in Webs, NEW k \in Kinds,
         NEW v, v = [u EXCEPT !.store[k].failed = TRUE]
  PROVE  /\ StoresOnly(u, v)
         /\ \A j \in Kinds : /\ v.store[j].farm = u.store[j].farm
                             /\ v.store[j].rows = u.store[j].rows
<1>1. PICK t : t = [u.store EXCEPT ![k] = [u.store[k] EXCEPT !.failed = TRUE]]
  OBVIOUS
<1>2. /\ t \in [Kinds -> Stores]
      /\ \A j \in Kinds : t[j].farm = u.store[j].farm /\ t[j].rows = u.store[j].rows
  <2>1. u.store \in [Kinds -> Stores]
    BY DEF Webs
  <2>2. /\ [u.store[k] EXCEPT !.failed = TRUE] \in Stores
        /\ [u.store[k] EXCEPT !.failed = TRUE].rows = u.store[k].rows
        /\ [u.store[k] EXCEPT !.failed = TRUE].farm = u.store[k].farm
    BY <2>1 DEF Stores
  <2> QED
    BY <1>1, <2>1, <2>2
<1>3. v = [u EXCEPT !.store = t]
  BY <1>1
<1>4. v.store = t /\ StoresOnly(u, v)
  BY <1>2, <1>3 DEF Webs, StoresOnly
<1> QED
  BY <1>2, <1>4

LEMMA WritingAlone ==
  ASSUME NEW s, NEW w, NEW c, NEW u, Answering(s, w, c, u), c.op \in RowOps
  PROVE  /\ s \in Servers /\ u \in Webs /\ c \in Calls /\ Resting(s, u)
         /\ c.kind \in Kinds /\ c.farm = u.active /\ u.page # "speed"
         /\ c.op = "harvest" => u.page = "fields" /\ c.kind = "fields"
         /\ Coherent(u, "nothing") /\ RowsFit(s, u)
         /\ \A k \in Kinds : u.store[k].farm \in DOMAIN s.farms =>
              u.store[k].rows = RowsOf(s, k, u.store[k].farm)
<1>1. /\ s \in Servers /\ u \in Webs /\ c \in Calls /\ Owes(u, c)
      /\ Fly(u) = {} /\ Sound(s, u, c) /\ RowsFit(s, u)
  BY Alone DEF Reads, RowOps
<1>2. Resting(s, u)
  BY AloneRests DEF Reads, Moves, RowOps
<1>3. c.kind \in Kinds /\ (c.op = "harvest" => c.kind = "fields")
  BY <1>1 DEF Calls
<1>4. c.farm = u.active /\ u.page # "speed" /\ (c.op = "harvest" => u.page = "fields")
  BY <1>1 DEF Sound, Wrote, Reads, RowOps
<1>5. Coherent(u, "nothing")
  BY <1>1, NothingChanged DEF Owed, OfSpeed, SpeedOps, FarmOps, ConfigOps, RowOps
<1>6. \A k \in Kinds : u.store[k].farm \in DOMAIN s.farms =>
        u.store[k].rows = RowsOf(s, k, u.store[k].farm)
  BY <1>1 DEF RowsFit
<1> QED
  BY <1>1, <1>2, <1>3, <1>4, <1>5, <1>6

LEMMA WrittenFits ==
  ASSUME NEW s, NEW w, NEW c, NEW u, Answering(s, w, c, u), c.op \in RowOps,
         ~Refused(s, c), NEW s1, s1 = CarriedOut(s, c),
         NEW v, v = Written(u, c, Answered(s, c))
  PROVE  /\ RowsOnly(s, s1) /\ StoresOnly(u, v)
         /\ \A k \in Kinds : v.store[k].farm = u.store[k].farm
         /\ \A k \in Kinds :
              v.store[k].farm \in DOMAIN s.farms
                /\ (c.op # "harvest" \/ k # "harvests") =>
                v.store[k].rows = RowsOf(s1, k, v.store[k].farm)
<1>1. /\ s \in Servers /\ u \in Webs /\ c \in Calls
      /\ c.kind \in Kinds /\ u.page # "speed"
      /\ \A k \in Kinds : u.store[k].farm \in DOMAIN s.farms =>
           u.store[k].rows = RowsOf(s, k, u.store[k].farm)
  BY WritingAlone
<1>2. PICK k : k = c.kind
  OBVIOUS
<1>3. PICK rows : rows = u.store[k].rows
  OBVIOUS
<1>4. k \in Kinds /\ rows \in RowMaps /\ u.store \in [Kinds -> Stores]
  BY <1>1, <1>2, <1>3 DEF Webs, Stores
<1>5. Answered(s, c) # Failed
  BY <1>1, Different
<1>6. CASE c.op = "create"
  <2>1. /\ RowsOnly(s, s1)
        /\ \E id \in Ids, x \in Int :
             /\ Answered(s, c) = Single(id, x) /\ OwnerOf[id] = c.farm
             /\ Adds(s, s1, c.kind, id, x)
        /\ \A j \in Kinds \ {c.kind} : \A g : RowsOf(s1, j, g) = RowsOf(s, j, g)
    BY <1>1, <1>6, RowMade
  <2>2. PICK id \in Ids, x \in Int :
          /\ Answered(s, c) = Single(id, x) /\ OwnerOf[id] = c.farm
          /\ Adds(s, s1, c.kind, id, x)
    BY <2>1
  <2>3. PICK r : r = IF u.store[k].farm = c.farm THEN Over(Single(id, x), rows) ELSE rows
    OBVIOUS
  <2>4. v = [u EXCEPT !.store[k].rows = r]
    BY <1>2, <1>3, <1>5, <1>6, <2>2, <2>3 DEF Written, Appended
  <2>5. r \in RowMaps
    <3>1. Single(id, x) \in RowMaps
      BY SingleRow
    <3> QED
      BY <1>4, <2>3, <3>1, OverRows
  <2>6. /\ StoresOnly(u, v) /\ v.store[k].rows = r
        /\ \A j \in Kinds : v.store[j].farm = u.store[j].farm
        /\ \A j \in Kinds \ {k} : v.store[j].rows = u.store[j].rows
    BY <1>1, <1>4, <2>4, <2>5, StoreWritten
  <2>7. u.store[k].farm \in DOMAIN s.farms => v.store[k].rows = RowsOf(s1, k, u.store[k].farm)
    BY <1>1, <1>2, <1>3, <1>4, <2>2, <2>3, <2>6 DEF Adds
  <2> QED
    BY <1>1, <1>2, <2>1, <2>6, <2>7
<1>7. CASE c.op \in {"update", "harvest"}
  <2>1. /\ RowsOnly(s, s1)
        /\ c.id \in DOMAIN RowsOf(s, c.kind, c.farm) /\ OwnerOf[c.id] = c.farm
        /\ \E x \in Int : Answered(s, c) = Single(c.id, x) /\ Adds(s, s1, c.kind, c.id, x)
        /\ \A j \in Kinds \ {c.kind} : \A g :
             g # c.farm \/ j # "harvests" \/ c.op = "update" =>
               RowsOf(s1, j, g) = RowsOf(s, j, g)
    BY <1>1, <1>7, RowUpdated
  <2>2. PICK x \in Int : Answered(s, c) = Single(c.id, x) /\ Adds(s, s1, c.kind, c.id, x)
    BY <2>1
  <2>3. PICK r : r = IF c.id \in DOMAIN rows THEN Over(Single(c.id, x), rows) ELSE rows
    OBVIOUS
  <2>4. v = [u EXCEPT !.store[k].rows = r]
    BY <1>2, <1>3, <1>5, <1>7, <2>2, <2>3 DEF Written, Patched
  <2>5. r \in RowMaps
    <3>1. Single(c.id, x) \in RowMaps
      <4>1. c.id \in Ids
        BY <1>1, <1>7 DEF Calls
      <4> QED
        BY <2>2, <4>1, SingleRow
    <3> QED
      BY <1>4, <2>3, <3>1, OverRows
  <2>6. /\ StoresOnly(u, v) /\ v.store[k].rows = r
        /\ \A j \in Kinds : v.store[j].farm = u.store[j].farm
        /\ \A j \in Kinds \ {k} : v.store[j].rows = u.store[j].rows
    BY <1>1, <1>4, <2>4, <2>5, StoreWritten
  <2>7. ASSUME u.store[k].farm \in DOMAIN s.farms
        PROVE  v.store[k].rows = RowsOf(s1, k, u.store[k].farm)
    <3>1. PICK g : g = u.store[k].farm
      OBVIOUS
    <3>2. rows = RowsOf(s, k, g)
      BY <1>1, <1>3, <1>4, <2>7, <3>1
    <3>3. c.id \in DOMAIN rows <=> g = c.farm
      <4>1. c.id \in DOMAIN RowsOf(s, k, g) => OwnerOf[c.id] = g
        BY DEF RowsOf, Restrict
      <4> QED
        BY <1>2, <2>1, <3>2, <4>1
    <3> QED
      BY <1>2, <2>1, <2>2, <2>3, <2>6, <3>1, <3>2, <3>3 DEF Adds
  <2>8. ASSUME NEW j \in Kinds \ {k}, u.store[j].farm \in DOMAIN s.farms,
               c.op # "harvest" \/ j # "harvests"
        PROVE  v.store[j].rows = RowsOf(s1, j, u.store[j].farm)
    <3>1. PICK g : g = u.store[j].farm
      OBVIOUS
    <3>2. v.store[j].rows = RowsOf(s, j, g)
      BY <1>1, <2>6, <2>8, <3>1
    <3>3. RowsOf(s1, j, g) = RowsOf(s, j, g)
      <4>1. j # "harvests" \/ c.op = "update"
        BY <1>7, <2>8
      <4>2. j \in Kinds \ {c.kind}
        BY <1>2
      <4> QED
        BY <2>1, <4>1, <4>2
    <3> QED
      BY <3>1, <3>2, <3>3
  <2> QED
    BY <2>1, <2>6, <2>7, <2>8
<1>8. CASE c.op = "remove"
  <2>1. /\ RowsOnly(s, s1) /\ Answered(s, c) = None /\ OwnerOf[c.id] = c.farm
        /\ Drops(s, s1, c.kind, c.id)
        /\ \A j \in Kinds \ {c.kind} : \A g : RowsOf(s1, j, g) = RowsOf(s, j, g)
    BY <1>1, <1>8, RowRemoved
  <2>2. PICK r : r = Without(rows, {c.id})
    OBVIOUS
  <2>3. v = [u EXCEPT !.store[k].rows = r]
    BY <1>2, <1>3, <1>5, <1>8, <2>2 DEF Written
  <2>4. r \in RowMaps
    BY <1>4, <2>2, RestrictedRows
  <2>5. /\ StoresOnly(u, v) /\ v.store[k].rows = r
        /\ \A j \in Kinds : v.store[j].farm = u.store[j].farm
        /\ \A j \in Kinds \ {k} : v.store[j].rows = u.store[j].rows
    BY <1>1, <1>4, <2>3, <2>4, StoreWritten
  <2>6. u.store[k].farm \in DOMAIN s.farms => v.store[k].rows = RowsOf(s1, k, u.store[k].farm)
    BY <1>1, <1>2, <1>3, <1>4, <2>1, <2>2, <2>5 DEF Drops
  <2> QED
    BY <1>1, <1>2, <2>1, <2>5, <2>6
<1> QED
  BY <1>6, <1>7, <1>8 DEF RowOps

\* The harvests are loaded again, whatever farm they were of before.
LEMMA LoadedAnew ==
  ASSUME NEW v \in Webs, NEW k \in Kinds, NEW f, NEW c
  PROVE  \E w \in Webs :
           /\ Load(w, k, f, c) = Load(v, k, f, c) /\ StoresOnly(v, w)
           /\ \A j \in Kinds : w.store[j].farm = IF j = k THEN None ELSE v.store[j].farm
           /\ \A j \in Kinds : w.store[j].rows = v.store[j].rows
<1>1. PICK t : t = [v.store EXCEPT ![k] = [v.store[k] EXCEPT !.farm = None]]
  OBVIOUS
<1>2. v.store \in [Kinds -> Stores]
  BY DEF Webs
<1>3. /\ t \in [Kinds -> Stores]
      /\ \A j \in Kinds : t[j].rows = v.store[j].rows
      /\ \A j \in Kinds : t[j].farm = IF j = k THEN None ELSE v.store[j].farm
      /\ \A j \in Kinds \ {k} : t[j] = v.store[j]
  <2>1. /\ [v.store[k] EXCEPT !.farm = None] \in Stores
        /\ [v.store[k] EXCEPT !.farm = None].rows = v.store[k].rows
        /\ [v.store[k] EXCEPT !.farm = None].farm = None
    BY <1>2 DEF Stores, Maybe
  <2> QED
    BY <1>1, <1>2, <2>1
<1>4. PICK w : w = [v EXCEPT !.store = t]
  OBVIOUS
<1>5. w.store = t /\ StoresOnly(v, w)
  BY <1>3, <1>4 DEF Webs, StoresOnly
<1>6. PICK x : x = [farm |-> f, rows |-> v.store[k].rows, loading |-> TRUE, failed |-> FALSE]
  OBVIOUS
<1>7. [w.store EXCEPT ![k] = x] = [v.store EXCEPT ![k] = x]
  BY <1>2, <1>3, <1>5
<1>8. [w EXCEPT !.store[k] = x] = [v EXCEPT !.store[k] = x]
  <2>1. PICK z : z = [v.store EXCEPT ![k] = x]
    OBVIOUS
  <2>2. [w EXCEPT !.store = z] = [v EXCEPT !.store = z]
    BY <1>4 DEF Webs
  <2> QED
    BY <1>7, <2>1, <2>2
<1>9. w.store[k].rows = v.store[k].rows
  BY <1>3, <1>5
<1>10. Load(w, k, f, c) = Load(v, k, f, c)
  BY <1>6, <1>8, <1>9 DEF Load
<1> QED
  BY <1>3, <1>5, <1>10 DEF StoresOnly

LEMMA RowWrittenNearly ==
  ASSUME NEW s, NEW w, NEW c, NEW u, Answering(s, w, c, u), c.op \in RowOps
  PROVE  Nearly(CarriedOut(s, c), RowWritten(u, c, Answered(s, c)))
<1>1. /\ s \in Servers /\ u \in Webs /\ c \in Calls /\ Resting(s, u)
      /\ c.kind \in Kinds /\ c.farm = u.active /\ u.page # "speed"
      /\ c.op = "harvest" => u.page = "fields" /\ c.kind = "fields"
      /\ Coherent(u, "nothing") /\ RowsFit(s, u)
      /\ \A k \in Kinds : u.store[k].farm \in DOMAIN s.farms =>
           u.store[k].rows = RowsOf(s, k, u.store[k].farm)
  BY WritingAlone
<1>2. CASE Refused(s, c)
  <2>1. CarriedOut(s, c) = s /\ Answered(s, c) = Failed
    BY <1>2 DEF CarriedOut, Answered
  <2>2. PICK v : v = [u EXCEPT !.store[c.kind].failed = TRUE]
    OBVIOUS
  <2>3. RowWritten(u, c, Failed) = v
    BY <2>2 DEF RowWritten, Written
  <2>4. /\ StoresOnly(u, v)
        /\ \A j \in Kinds : /\ v.store[j].farm = u.store[j].farm
                            /\ v.store[j].rows = u.store[j].rows
    BY <1>1, <2>2, StoreFailed
  <2>5. RowsOnly(s, s)
    BY <1>1 DEF RowsOnly
  <2>6. RowsFit(s, v)
    BY <1>1, <2>4, <2>5, RowsFitAgain
  <2>7. Resting(s, v)
    BY <1>1, <2>4, <2>5, <2>6, RowsRest
  <2> QED
    BY <1>1, <2>1, <2>3, <2>7, RestNearly
<1>3. CASE ~Refused(s, c)
  <2>1. PICK s1 : s1 = CarriedOut(s, c)
    OBVIOUS
  <2>2. PICK v : v = Written(u, c, Answered(s, c))
    OBVIOUS
  <2>3. /\ RowsOnly(s, s1) /\ StoresOnly(u, v)
        /\ \A k \in Kinds : v.store[k].farm = u.store[k].farm
        /\ \A k \in Kinds :
             v.store[k].farm \in DOMAIN s.farms
               /\ (c.op # "harvest" \/ k # "harvests") =>
               v.store[k].rows = RowsOf(s1, k, v.store[k].farm)
    BY <1>3, <2>1, <2>2, WrittenFits
  <2>4. s1 \in Servers
    BY <2>3 DEF RowsOnly
  <2>5. CASE c.op # "harvest"
    <3>1. RowWritten(u, c, Answered(s, c)) = v
      BY <2>2, <2>5 DEF RowWritten
    <3>2. RowsFit(s1, v)
      <4>1. \A k \in Kinds : v.store[k].farm \in DOMAIN s.farms =>
              v.store[k].rows = RowsOf(s1, k, v.store[k].farm)
        BY <2>3, <2>5
      <4>2. \A k \in Kinds : v.store[k].farm \in {u.store[k].farm, None}
        BY <2>3
      <4> QED
        BY <1>1, <2>3, <4>1, <4>2, RowsFitAgain
    <3>3. Resting(s1, v)
      BY <1>1, <2>3, <3>2, RowsRest
    <3> QED
      BY <2>1, <2>4, <3>1, <3>3, RestNearly
  <2>6. CASE c.op = "harvest"
    <3>1. u.active \in Farms /\ u.active # None
      BY <1>1, <2>6, MarksAssumption DEF Calls
    <3>2. Answered(s, c) # Failed
      BY <1>1, <1>3, Different
    <3>3. v \in Webs /\ v.active = u.active /\ v.page = "fields"
      BY <1>1, <2>3, <2>6 DEF StoresOnly
    <3>4. PICK d : d = For("page")
      OBVIOUS
    <3>5. PICK x : x = Load(v, "harvests", v.active, d)
      OBVIOUS
    <3>6. RowWritten(u, c, Answered(s, c)) = x
      BY <2>2, <2>6, <3>1, <3>2, <3>3, <3>4, <3>5 DEF RowWritten
    <3>7. "harvests" \in Kinds
      BY DEF Kinds
    <3>8. PICK y \in Webs :
            /\ Load(y, "harvests", v.active, d) = Load(v, "harvests", v.active, d)
            /\ StoresOnly(v, y)
            /\ \A j \in Kinds : y.store[j].farm = IF j = "harvests" THEN None ELSE v.store[j].farm
            /\ \A j \in Kinds : y.store[j].rows = v.store[j].rows
      BY <3>3, <3>7, LoadedAnew
    <3>9. StoresOnly(u, y) /\ y \in Webs /\ y.active = u.active /\ y.page = "fields"
      BY <1>1, <2>3, <2>6, <3>8 DEF StoresOnly
    <3>10. RowsFit(s1, y)
      <4>1. \A k \in Kinds : y.store[k].farm \in DOMAIN s.farms =>
              y.store[k].rows = RowsOf(s1, k, y.store[k].farm)
        BY <1>1, <2>3, <3>8, NoneIsNoFarm
      <4>2. \A k \in Kinds : y.store[k].farm \in {u.store[k].farm, None}
        BY <2>3, <3>8
      <4> QED
        BY <1>1, <2>3, <4>1, <4>2, RowsFitAgain
    <3>11. Resting(s1, y)
      <4>1. u.page \notin Following
        BY <1>1, <2>6 DEF Following
      <4> QED
        BY <1>1, <2>3, <3>9, <3>10, <4>1, RowsRest
    <3>12. Seen(y, d)
      BY <3>4, SeenPage
    <3>13. ReadsOn(y, x)
      <4>1. x = Load(y, "harvests", y.active, d) /\ y.active \in Farms /\ y.page # "speed"
        BY <3>1, <3>3, <3>5, <3>8, <3>9
      <4> QED
        BY <3>7, <3>9, <3>12, <4>1, LoadReads
    <3>14. Follows(x) /\ Fits(x) /\ InputsFit(s1, x)
      <4>1. x.page = "fields"
        BY <3>9, <3>13 DEF ReadsOn
      <4>2. Follows(x) /\ InputsFit(s1, x)
        BY <4>1 DEF Follows, Following, InputsFit
      <4>3. Fits(x)
        BY <3>11, <3>13, FitsOn DEF Resting
      <4> QED
        BY <4>2, <4>3
    <3>15. Idle(s1, y) /\ y.page # "speed"
      BY <3>9, <3>11 DEF Resting
    <3>16. Nearly(s1, x)
      BY <2>4, <3>13, <3>14, <3>15, ReadNearly
    <3> QED
      BY <2>1, <3>6, <3>16
  <2> QED
    BY <2>5, <2>6
<1> QED
  BY <1>2, <1>3

\* The configuration of the active farm was saved or dropped.
LEMMA ConfigNearly ==
  ASSUME NEW s, NEW w, NEW c, NEW u, Answering(s, w, c, u), c.op \in ConfigOps
  PROVE  Nearly(CarriedOut(s, c), ConfigSaved(u, c, Answered(s, c)))
<1>1. /\ s \in Servers /\ u \in Webs /\ c \in Calls /\ Sound(s, u, c)
      /\ Known(s, u) /\ FarmsFit(s, u) /\ Fly(u) = {}
  BY Alone DEF Reads, ConfigOps
<1>2. Resting(s, u)
  BY AloneRests DEF Reads, Moves, ConfigOps
<1>3. PICK f, b : f = c.farm /\ b = c.body
  OBVIOUS
<1>4. /\ f = u.active /\ f \in Farms /\ u.page = "herd" /\ f # None
      /\ c.op = "saveConfig" => b \in {Default, f}
      /\ c.op = "dropConfig" => b = None
  BY <1>1, <1>3, MarksAssumption DEF Sound, Wrote, Reads, ConfigOps, Calls
<1>5. f \in DOMAIN s.farms
  BY <1>1, <1>4 DEF FarmsFit, Known, Pinning
<1>6. ~Refused(s, c)
  BY <1>3, <1>5 DEF Refused, ConfigOps
<1>7. PICK s1 : s1 = CarriedOut(s, c)
  OBVIOUS
<1>8. s1 = [s EXCEPT !.configs = [s.configs EXCEPT ![f] = b]]
  BY <1>3, <1>6, <1>7 DEF CarriedOut, ConfigOps
<1>9. /\ s1 \in Servers /\ s1.configs[f] = b
      /\ \A g \in Farms \ {f} : s1.configs[g] = s.configs[g]
      /\ s1.farms = s.farms /\ s1.pin = s.pin /\ s1.gone = s.gone /\ s1.rows = s.rows
      /\ s1.picks = s.picks
  <2>1. s1 \in Servers
    BY <1>1, <1>7, CarriedOutTyped
  <2> QED
    BY <1>1, <1>4, <1>8, <2>1 DEF Servers
<1>10. ConfigsFit(s1)
  BY <1>2, <1>4, <1>9 DEF Resting, Idle, ConfigsFit, ConfigOps
<1>11. PICK in, saved : /\ in = IF c.op = "saveConfig" THEN b ELSE Default
                        /\ saved = (c.op = "saveConfig")
  OBVIOUS
<1> DEFINE x == [u.config EXCEPT !.saving = FALSE, !.inputs = in, !.saved = saved, !.dirty = FALSE]
           v == [u EXCEPT !.config = x]
<1>12. ConfigSaved(u, c, Answered(s, c)) = v
  <2>1. CASE c.op = "saveConfig"
    <3>1. Answered(s, c) = b /\ b # Failed
      <4>1. Answered(s, c) = b
        BY <1>3, <1>6, <2>1 DEF Answered
      <4> QED
        BY <1>1, <1>6, <4>1, Different
    <3> QED
      BY <1>1, <1>11, <2>1, <3>1 DEF ConfigSaved, Applied, Webs, Configs
  <2>2. CASE c.op = "dropConfig"
    <3>1. Answered(s, c) = None /\ None # Failed
      <4>1. Answered(s, c) = None
        BY <1>6, <2>2 DEF Answered
      <4> QED
        BY <4>1, MarksAssumption
    <3> QED
      BY <1>1, <1>11, <2>2, <3>1 DEF ConfigSaved, Applied, Webs, Configs
  <2> QED
    BY <2>1, <2>2 DEF ConfigOps
<1>13. x \in Configs /\ x.inputs = in /\ x.saved = saved /\ x.dirty = FALSE
  <2>1. in \in Inputs /\ saved \in BOOLEAN
    BY <1>4, <1>11 DEF Inputs
  <2> QED
    BY <1>1, <2>1 DEF Webs, Configs
<1>14. /\ v \in Webs /\ v.farms = u.farms /\ v.active = u.active /\ v.current = u.current
       /\ v.store = u.store /\ v.page = u.page /\ v.initializing = u.initializing
       /\ v.config = x /\ v.speed = u.speed /\ v.calls = u.calls
  BY <1>1, <1>13 DEF Webs
<1> HIDE DEF x, v
<1>15. Fly(v) = {} /\ KeyOf(v) = KeyOf(u)
  BY <1>1, <1>14, FlySame DEF KeyOf, Version
<1>16. FarmsFit(s1, v)
  BY <1>1, <1>9, <1>14, <1>15 DEF FarmsFit, Known, Pinning
<1>17. RowsFit(s1, v)
  <2>1. \A k, g : RowsOf(s1, k, g) = RowsOf(s, k, g)
    BY <1>9 DEF RowsOf
  <2> QED
    BY <1>1, <1>2, <1>9, <1>14, <1>15, <2>1 DEF Resting, Idle, RowsFit
<1>18. SpeedFits(s1, v)
  BY <1>2, <1>4, <1>9, <1>14 DEF Resting, Idle, SpeedFits
<1>19. Idle(s1, v)
  BY <1>2, <1>9, <1>10, <1>14, <1>15, <1>16, <1>17, <1>18 DEF Resting, Idle
<1>20. Follows(v)
  BY <1>1, <1>2, <1>14, <1>15 DEF Resting, Follows
<1>21. Fits(v)
  BY <1>1, <1>2, <1>14, <1>15 DEF Resting, Fits
<1>22. InputsFit(s1, v)
  <2>1. Returned(s1, v)
    <3>1. s1.configs[v.active] = b
      BY <1>4, <1>9, <1>14
    <3>2. saved <=> b # None
      BY <1>4, <1>11, MarksAssumption DEF ConfigOps
    <3>3. in = OrElse(b, Default)
      BY <1>4, <1>11, MarksAssumption DEF ConfigOps, OrElse
    <3> QED
      BY <1>13, <1>14, <3>1, <3>2, <3>3 DEF Returned
  <2>2. v.config.inputs \in {Default, v.active}
    BY <1>4, <1>11, <1>13, <1>14
  <2> QED
    BY <2>1, <2>2 DEF InputsFit
<1>23. Resting(s1, v)
  BY <1>19, <1>20, <1>21, <1>22 DEF Resting
<1> QED
  BY <1>7, <1>9, <1>12, <1>23, RestNearly

\* The selection was saved.
LEMMA StateSavedNearly ==
  ASSUME NEW s, NEW w, NEW c, NEW u, Answering(s, w, c, u), c.op = "saveState"
  PROVE  Nearly(CarriedOut(s, c), u)
<1>1. /\ s \in Servers /\ u \in Webs /\ c \in Calls /\ Sound(s, u, c)
      /\ Fly(u) = {} /\ ~u.speed.timer /\ ConfigsFit(s) /\ RowsFit(s, u)
      /\ u.initializing => u.page = "dashboard"
      /\ FarmsFit(s, u) /\ (u.page \in Bootstrapping => u.active = s.pin)
      /\ Follows(u) /\ Fits(u) /\ InputsFit(s, u)
  BY Alone DEF Reads, Moves
<1>2. PICK f, b : f = c.farm /\ b = c.body
  OBVIOUS
<1>3. /\ f = u.active /\ f \in Farms /\ f # None /\ u.page = "speed"
      /\ b = u.speed.picks /\ b \in Selections
  BY <1>1, <1>2, MarksAssumption DEF Sound, Wrote, Reads, Calls
<1>4. f \in DOMAIN s.farms
  BY <1>1, <1>3 DEF FarmsFit, Known, Pinning
<1>5. ~Refused(s, c)
  BY <1>2, <1>4 DEF Refused
<1>6. PICK s1 : s1 = CarriedOut(s, c)
  OBVIOUS
<1>7. s1 = [s EXCEPT !.picks = [s.picks EXCEPT ![f] = b]]
  BY <1>2, <1>5, <1>6 DEF CarriedOut
<1>8. /\ s1 \in Servers /\ s1.picks[f] = b
      /\ \A g \in Farms \ {f} : s1.picks[g] = s.picks[g]
      /\ s1.farms = s.farms /\ s1.pin = s.pin /\ s1.gone = s.gone /\ s1.rows = s.rows
      /\ s1.configs = s.configs
  <2>1. s1 \in Servers
    BY <1>1, <1>6, CarriedOutTyped
  <2> QED
    BY <1>1, <1>3, <1>7, <2>1 DEF Servers
<1>9. /\ \A k, g : RowsOf(s1, k, g) = RowsOf(s, k, g)
      /\ NoneGone(s1) = NoneGone(s)
  BY <1>8 DEF RowsOf, NoneGone
<1>10. \A g : Own(s1, g) = Own(s, g)
  BY <1>9 DEF Own
<1>11. SpeedFits(s, w) /\ u.speed = w.speed /\ u.store = w.store /\ u.page = w.page
       /\ u.active = w.active /\ w \in Webs
  <2>1. Fine(s, w) /\ w \in Webs
    BY DEF Answering, Coherent
  <2>2. PICK i \in DOMAIN w.calls : c = w.calls[i] /\ u = [w EXCEPT !.calls = RemoveAt(w.calls, i)]
    BY DEF Answering
  <2> QED
    BY <2>1, <2>2, TakenFly DEF Fine
<1>12. SpeedFits(s1, u)
  <2>1. \A g \in Farms : s1.picks[g] # None => s1.picks[g] \subseteq SpeedKinds \X Ids
    BY <1>3, <1>8, <1>11 DEF SpeedFits
  <2>2. ASSUME u.speed.picks \subseteq Own(s, u.speed.farm) PROVE Selected(s1, u)
    <3>1. b # None
      BY <1>3, MarksAssumption DEF Selections
    <3>2. OrElse(s1.picks[f], {}) \cap Own(s1, u.speed.farm) = u.speed.picks
      BY <1>3, <1>8, <1>10, <2>2, <3>1 DEF OrElse
    <3> QED
      BY <1>3, <1>10, <2>2, <3>2 DEF Selected
  <2>3. Selected(s, w) => Selected(s1, u)
    BY <1>11, <2>2 DEF Selected
  <2> QED
    BY <1>8, <1>9, <1>11, <2>1, <2>3 DEF SpeedFits
<1>13. FarmsFit(s1, u) /\ ConfigsFit(s1) /\ RowsFit(s1, u)
  <2>1. FarmsFit(s1, u)
    BY <1>1, <1>8 DEF FarmsFit, Known
  <2>2. ConfigsFit(s1)
    BY <1>1, <1>8 DEF ConfigsFit
  <2>3. RowsFit(s1, u)
    BY <1>1, <1>8, <1>9 DEF RowsFit
  <2> QED
    BY <2>1, <2>2, <2>3
<1>14. Resting(s1, u)
  <2>1. InputsFit(s1, u)
    BY <1>3 DEF InputsFit
  <2>2. Idle(s1, u)
    BY <1>1, <1>8, <1>12, <1>13 DEF Idle
  <2> QED
    BY <1>1, <2>1, <2>2 DEF Resting
<1> QED
  BY <1>6, <1>8, <1>14, RestNearly

-----------------------------------------------------------------------------
(* The answers to the calls that read.                                       *)
\* Nothing but such calls is in flight.
Reading(s, w) ==
  /\ s \in Servers /\ w \in Webs /\ ~w.speed.timer
  /\ \A d \in Fly(w) : d.op \in Reads /\ Read(w, d)
  /\ Unlisted(w) /\ FarmsFit(s, w) /\ ConfigsFit(s) /\ SpeedFits(s, w)
  /\ w.page \in Bootstrapping => w.active = s.pin
  /\ w.initializing => w.page = "dashboard"

LEMMA ReadingNearly ==
  ASSUME NEW s, NEW w, Reading(s, w), RowsFit(s, w), Follows(w), Fits(w), InputsFit(s, w)
  PROVE  Nearly(s, w)
<1>1. Orderly(s, w)
  BY DEF Reading, Orderly, Sound
<1>2. Shown(s, w)
  BY DEF Reading, Shown
<1> QED
  BY <1>1, <1>2 DEF Reading, Nearly

LEMMA ReadingOn ==
  ASSUME NEW s, NEW w, Reading(s, w), NEW v \in Webs, ReadsOn(w, v),
         Unlisted(v) \/ w.page # "speed", SpeedFits(s, v) \/ w.page # "speed"
  PROVE  Reading(s, v)
<1>1. Orderly(s, w)
  BY DEF Reading, Orderly, Sound
<1>2. Unlisted(v)
  BY <1>1, UnlistedOn
<1>3. SpeedFits(s, v)
  BY SpeedOn DEF Reading
<1>4. \A c \in Fly(w) : c.op \in Reads
  BY DEF Reading
<1>5. FarmsFit(s, v)
  BY <1>4, FarmsOn DEF Reading
<1>6. Orderly(s, v)
  BY <1>1, <1>2, <1>4, OrderlyOn DEF Reading
<1>7. \A d \in Fly(v) : d.op \in Reads
  BY <1>4 DEF ReadsOn, ReadOf
<1>8. \A d \in Fly(v) : Read(v, d)
  BY <1>6, <1>7 DEF Orderly, Sound
<1> QED
  BY <1>2, <1>3, <1>5, <1>7, <1>8 DEF Reading, ReadsOn

\* A tab that differs in what it shows only, or has fewer calls.
LEMMA ReadingLess ==
  ASSUME NEW s, NEW w, Reading(s, w), NEW v \in Webs, Fly(v) \subseteq Fly(w),
         v.farms = w.farms, v.active = w.active, v.page = w.page,
         v.initializing = w.initializing, v.speed.farm = w.speed.farm,
         \A k \in Kinds : v.store[k].farm = w.store[k].farm,
         SpeedFits(s, v), ~v.speed.timer
  PROVE  Reading(s, v)
<1>1. KeyOf(v) = KeyOf(w)
  BY DEF KeyOf, Version
<1>2. \A d : ReadOf(v, d) <=> ReadOf(w, d)
  BY <1>1 DEF ReadOf
<1>3. \A d \in Fly(v) : d.op \in Reads /\ Read(v, d)
  <2> SUFFICES ASSUME NEW d \in Fly(v) PROVE d.op \in Reads /\ Read(v, d)
    OBVIOUS
  <2>1. d.op \in Reads /\ Read(w, d)
    BY DEF Reading
  <2>2. d.op = "list" => d.kind \in Kinds
    BY <2>1 DEF Read, ReadOf
  <2> QED
    BY <1>2, <2>1, <2>2 DEF Read
<1>4. Unlisted(v)
  BY DEF Reading, Unlisted
<1>5. FarmsFit(s, v)
  <2>1. ~Pinning(w)
    BY DEF Reading, Reads, Pinning
  <2> QED
    BY <2>1 DEF Reading, FarmsFit, Known
<1> QED
  BY <1>3, <1>4, <1>5 DEF Reading

LEMMA ReadingTaken ==
  ASSUME NEW s, NEW w, NEW c, NEW u, Answering(s, w, c, u), c.op \in Reads
  PROVE  /\ Reading(s, w) /\ Reading(s, u) /\ RowsFit(s, w)
         /\ c \in Calls /\ Owes(u, c) /\ Read(u, c)
         /\ CarriedOut(s, c) = s /\ ~Refused(s, c) /\ c \in Fly(w)
         /\ u.farms = w.farms /\ u.active = w.active /\ u.current = w.current
         /\ u.store = w.store /\ u.page = w.page /\ u.config = w.config
         /\ u.speed = w.speed
         /\ Fly(u) \subseteq Fly(w) /\ Fly(w) \subseteq Fly(u) \cup {c}
         /\ Follows(w) /\ Fits(w) /\ InputsFit(s, w)
<1>1. s \in Servers /\ Coherent(w, "nothing") /\ Fine(s, w) /\ w \in Webs
  BY DEF Answering, Coherent
<1>2. PICK i \in DOMAIN w.calls : /\ c = w.calls[i] /\ c.kind # "wait"
                                  /\ u = [w EXCEPT !.calls = RemoveAt(w.calls, i)]
  BY DEF Answering
<1>3. /\ u \in Webs /\ c \in Calls /\ c \in Fly(w)
      /\ u.farms = w.farms /\ u.active = w.active /\ u.current = w.current
      /\ u.store = w.store /\ u.page = w.page /\ u.config = w.config
      /\ u.speed = w.speed /\ u.initializing = w.initializing
      /\ Fly(u) \subseteq Fly(w) /\ Fly(w) \subseteq Fly(u) \cup {c}
      /\ Len(w.calls) <= 1 => Fly(w) = {c}
      /\ w.calls # <<>>
  BY <1>1, <1>2, TakenFly
<1>4. Owes(u, c)
  BY <1>1, <1>2, TakenOut
<1>5. \A d \in Fly(w) : d.op \in Reads
  BY <1>1, <1>3 DEF Fine, Orderly
<1>6. ~Moving(w)
  BY <1>5 DEF Moving, Moves, Reads
<1>7. Reading(s, w) /\ RowsFit(s, w) /\ Follows(w) /\ Fits(w) /\ InputsFit(s, w)
  <2>1. \A d \in Fly(w) : Read(w, d)
    BY <1>1, <1>5 DEF Fine, Orderly, Sound
  <2>2. Unlisted(w) /\ ~w.speed.timer
    BY <1>1, <1>3 DEF Fine, Orderly
  <2>3. /\ w.page \in Bootstrapping => w.active = s.pin
        /\ Follows(w) /\ Fits(w) /\ InputsFit(s, w)
    BY <1>1, <1>6 DEF Fine, Shown
  <2>4. FarmsFit(s, w) /\ ConfigsFit(s) /\ SpeedFits(s, w) /\ RowsFit(s, w)
        /\ (w.initializing => w.page = "dashboard")
    BY <1>1 DEF Fine, Initializes
  <2> QED
    BY <1>1, <1>5, <2>1, <2>2, <2>3, <2>4 DEF Reading
<1>8. Reading(s, u)
  <2>1. SpeedFits(s, u)
    <3>1. Selected(s, w) => Selected(s, u)
      BY <1>3, <1>5 DEF Selected, Reads
    <3>2. SpeedFits(s, w)
      BY <1>7 DEF Reading
    <3> QED
      BY <1>3, <3>1, <3>2 DEF SpeedFits
  <2>2. ~u.speed.timer
    BY <1>3, <1>7 DEF Reading
  <2> QED
    BY <1>3, <1>7, <2>1, <2>2, ReadingLess
<1>9. Read(w, c)
  BY <1>3, <1>7 DEF Reading
<1>10. Read(u, c)
  <2>1. KeyOf(u) = KeyOf(w)
    BY <1>3 DEF KeyOf, Version
  <2> QED
    BY <1>3, <1>9, <2>1 DEF Read, ReadOf
<1>11. ~Refused(s, c) /\ CarriedOut(s, c) = s
  <2>1. c.op # "catalog" => c.farm \in DOMAIN s.farms
    <3>1. c.op # "catalog" => c.farm = w.active /\ w.active # None
      BY <1>9 DEF Read, ReadOf, Reads
    <3>2. ~Pinning(w)
      BY <1>5 DEF Pinning, Reads
    <3> QED
      BY <1>7, <3>1, <3>2 DEF Reading, FarmsFit, Known
  <2>2. ~Refused(s, c)
    BY <2>1 DEF Refused, Reads
  <2> QED
    BY <2>2 DEF CarriedOut, Reads
<1> QED
  BY <1>3, <1>4, <1>7, <1>8, <1>10, <1>11

\* The configuration of the active farm has come.
LEMMA ConfigLoadedNearly ==
  ASSUME NEW s, NEW w, NEW c, NEW u, Answering(s, w, c, u), c.op = "config"
  PROVE  Nearly(s, ConfigLoaded(u, Answered(s, c)))
<1>1. /\ Reading(s, w) /\ Reading(s, u) /\ RowsFit(s, w)
      /\ c \in Calls /\ Read(u, c) /\ ~Refused(s, c)
      /\ u.farms = w.farms /\ u.active = w.active /\ u.current = w.current
      /\ u.store = w.store /\ u.page = w.page
      /\ Fly(w) \subseteq Fly(u) \cup {c}
      /\ Follows(w) /\ Fits(w)
  BY ReadingTaken DEF Reads
<1>2. /\ c.farm = u.active /\ u.active # None /\ u.page = "herd" /\ c.farm \in Farms
      /\ s \in Servers /\ u \in Webs
  BY <1>1 DEF Read, ReadOf, Reading, Calls
<1>3. PICK b : b = s.configs[u.active]
  OBVIOUS
<1>4. Answered(s, c) = b /\ b # Failed
  <2>1. Answered(s, c) = b
    BY <1>1, <1>2, <1>3 DEF Answered
  <2> QED
    BY <1>1, <1>2, <2>1, Different
<1>5. b \in {None, Default, u.active}
  BY <1>1, <1>2, <1>3 DEF Reading, ConfigsFit
<1>6. PICK in, saved : in = OrElse(b, Default) /\ saved = (b # None)
  OBVIOUS
<1> DEFINE x == [u.config EXCEPT !.loading = FALSE, !.inputs = in, !.saved = saved, !.dirty = FALSE]
           v == [u EXCEPT !.config = x]
<1>7. in \in Inputs /\ saved \in BOOLEAN /\ in \in {Default, u.active}
  BY <1>2, <1>5, <1>6 DEF Inputs, OrElse
<1>8. x \in Configs /\ x.inputs = in /\ x.saved = saved /\ x.dirty = FALSE
  BY <1>2, <1>7 DEF Webs, Configs
<1>9. ConfigLoaded(u, Answered(s, c)) = v
  BY <1>2, <1>4, <1>6 DEF ConfigLoaded, Applied, Webs, Configs, OrElse
<1>10. /\ v \in Webs /\ v.farms = u.farms /\ v.active = u.active /\ v.current = u.current
       /\ v.store = u.store /\ v.page = u.page /\ v.initializing = u.initializing
       /\ v.config = x /\ v.speed = u.speed /\ v.calls = u.calls
  BY <1>2, <1>8 DEF Webs
<1> HIDE DEF x, v
<1>11. Fly(v) = Fly(u) /\ KeyOf(v) = KeyOf(w)
  BY <1>1, <1>10, FlySame DEF KeyOf, Version
<1>12. Reading(s, v)
  <2>1. SpeedFits(s, v)
    BY <1>2, <1>10, <1>1 DEF Reading, SpeedFits
  <2>2. ~v.speed.timer
    BY <1>1, <1>10 DEF Reading
  <2> QED
    BY <1>1, <1>10, <1>11, <2>1, <2>2, ReadingLess
<1>13. RowsFit(s, v)
  <2>1. \A d \in Fly(w) : d.op = "list" => d \in Fly(v)
    BY <1>1, <1>11
  <2> QED
    BY <1>1, <1>10, <2>1 DEF RowsFit
<1>14. \A d \in Fly(w) : d.op = "catalog" => d \in Fly(v)
  BY <1>1, <1>11
<1>15. Follows(v)
  BY <1>1, <1>10, <1>14 DEF Follows
<1>16. Fits(v)
  BY <1>1, <1>10, <1>11, <1>14 DEF Fits
<1>17. InputsFit(s, v)
  <2>1. Returned(s, v)
    BY <1>3, <1>6, <1>8, <1>10 DEF Returned
  <2>2. v.config.inputs \in {Default, v.active}
    BY <1>7, <1>8, <1>10
  <2> QED
    BY <2>1, <2>2 DEF InputsFit
<1> QED
  BY <1>9, <1>12, <1>13, <1>15, <1>16, <1>17, ReadingNearly

\* The selection of the active farm has come.
LEMMA StateLoadedNearly ==
  ASSUME NEW s, NEW w, NEW c, NEW u, Answering(s, w, c, u), c.op = "state"
  PROVE  Nearly(s, StateLoaded(u, Answered(s, c)))
<1>1. /\ Reading(s, w) /\ Reading(s, u) /\ RowsFit(s, w)
      /\ c \in Calls /\ Read(u, c) /\ ~Refused(s, c) /\ c \in Fly(w)
      /\ u.farms = w.farms /\ u.active = w.active
      /\ u.store = w.store /\ u.page = w.page /\ u.speed = w.speed
      /\ Fly(u) \subseteq Fly(w)
  BY ReadingTaken DEF Reads
<1>2. /\ c.farm = u.active /\ u.active # None /\ u.page = "speed"
      /\ u.speed.farm = u.active /\ u.active \in Farms
      /\ s \in Servers /\ u \in Webs
  BY <1>1 DEF Read, ReadOf, Reading, Webs, Maybe
<1>3. PICK b : b = s.picks[u.active]
  OBVIOUS
<1>4. Answered(s, c) = b /\ b # Failed /\ b \in Maybe(Selections)
  <2>1. Answered(s, c) = b
    BY <1>1, <1>2, <1>3 DEF Answered
  <2>2. b # Failed
    BY <1>1, <1>2, <2>1, Different
  <2> QED
    BY <1>2, <1>3, <2>1, <2>2 DEF Servers
<1>5. PICK picks : picks = IF b = None THEN u.speed.picks ELSE StillThere(u, b)
  OBVIOUS
<1>6. SpeedFits(s, u)
  BY <1>1 DEF Reading
<1>7. \A k \in SpeedKinds : DOMAIN u.store[k].rows = DOMAIN RowsOf(s, k, u.active)
  <2> SUFFICES ASSUME NEW k \in SpeedKinds
               PROVE  u.store[k].rows = RowsOf(s, k, u.active)
    OBVIOUS
  <2>1. u.store[k].farm = u.active /\ k \in Kinds
    BY <1>2, <1>6 DEF SpeedFits, SpeedKinds, Kinds
  <2>2. \A d \in Fly(w) : d.op # "list"
    BY <1>1 DEF Reading, Unlisted
  <2>3. u.active \in DOMAIN s.farms
    <3>1. ~Pinning(u)
      BY <1>1 DEF Reading, Pinning, Reads
    <3> QED
      BY <1>1, <1>2, <3>1 DEF Reading, FarmsFit, Known
  <2> QED
    BY <1>1, <2>1, <2>2, <2>3 DEF RowsFit
<1>8. /\ b # None => /\ b \subseteq SpeedKinds \X Ids
                     /\ StillThere(u, b) = b \cap Own(s, u.active)
      /\ picks \subseteq SpeedKinds \X Ids /\ picks \in Selections
  <2>1. b # None => b \subseteq SpeedKinds \X Ids
    BY <1>2, <1>3, <1>6 DEF SpeedFits
  <2>2. SpeedKinds \subseteq Kinds
    BY DEF SpeedKinds, Kinds
  <2>3. ASSUME b # None PROVE StillThere(u, b) = b \cap Own(s, u.active)
    <3>1. \A p \in b : p[1] \in SpeedKinds /\ p[2] \in Ids /\ p \in Kinds \X Ids
      BY <2>1, <2>2, <2>3
    <3>2. \A p \in b : p[2] \in DOMAIN u.store[p[1]].rows <=> p \in Own(s, u.active)
      BY <1>7, <3>1 DEF Own
    <3> QED
      BY <3>2 DEF StillThere
  <2>4. u.speed.picks \subseteq SpeedKinds \X Ids
    BY <1>6 DEF SpeedFits
  <2>5. b # None => picks \subseteq b
    BY <1>5 DEF StillThere
  <2>6. picks \subseteq SpeedKinds \X Ids
    BY <1>5, <2>1, <2>4, <2>5
  <2> QED
    BY <2>1, <2>2, <2>3, <2>6 DEF Selections
<1> DEFINE x == [u.speed EXCEPT !.hydrating = FALSE, !.picks = picks]
           v == [u EXCEPT !.speed = x]
<1>9. StateLoaded(u, Answered(s, c)) = v
  BY <1>2, <1>4, <1>5 DEF StateLoaded, Webs, Speeds
<1>10. /\ x \in Speeds /\ x.hydrating = FALSE /\ x.picks = picks /\ x.farm = u.active
       /\ x.timer = u.speed.timer
  BY <1>2, <1>8 DEF Webs, Speeds
<1>11. /\ v \in Webs /\ v.farms = u.farms /\ v.active = u.active
       /\ v.store = u.store /\ v.page = u.page /\ v.initializing = u.initializing
       /\ v.speed = x /\ v.calls = u.calls
  BY <1>2, <1>10 DEF Webs
<1> HIDE DEF x, v
<1>12. Fly(v) = Fly(u) /\ ~v.speed.timer
  BY <1>1, <1>10, <1>11, FlySame DEF Reading
<1>13. SpeedFits(s, v)
  <2>1. ASSUME NoneGone(s) PROVE Selected(s, v)
    <3>1. CASE b # None
      <4>1. picks = OrElse(s.picks[u.active], {}) \cap Own(s, u.active)
        BY <1>3, <1>5, <1>8, <3>1 DEF OrElse
      <4> QED
        BY <1>2, <1>10, <1>11, <4>1 DEF Selected
    <3>2. CASE b = None /\ u.speed.hydrating
      <4>1. picks = {}
        BY <1>2, <1>5, <1>6, <3>2 DEF SpeedFits
      <4>2. picks = OrElse(s.picks[u.active], {}) \cap Own(s, u.active)
        BY <1>3, <3>2, <4>1 DEF OrElse
      <4> QED
        BY <1>2, <1>10, <1>11, <4>2 DEF Selected
    <3>3. CASE b = None /\ ~u.speed.hydrating
      <4>1. Selected(s, u)
        BY <1>2, <1>6, <2>1, <3>3 DEF SpeedFits
      <4>2. v.speed.picks = u.speed.picks /\ v.speed.farm = u.speed.farm
            /\ v.speed.timer = u.speed.timer
        BY <1>2, <1>5, <1>10, <1>11, <3>3
      <4> QED
        BY <1>12, <4>1, <4>2 DEF Selected
    <3> QED
      BY <3>1, <3>2, <3>3
  <2> QED
    BY <1>2, <1>6, <1>8, <1>10, <1>11, <2>1 DEF SpeedFits
<1>14. Reading(s, v)
  BY <1>1, <1>2, <1>10, <1>11, <1>12, <1>13, ReadingLess
<1>15. RowsFit(s, v)
  <2>1. \A d \in Fly(w) : d.op # "list"
    BY <1>1 DEF Reading, Unlisted
  <2> QED
    BY <1>1, <1>11, <2>1 DEF RowsFit
<1>16. Follows(v) /\ Fits(v) /\ InputsFit(s, v)
  BY <1>2, <1>11 DEF Follows, Fits, InputsFit, Following, Fitting
<1> QED
  BY <1>9, <1>14, <1>15, <1>16, ReadingNearly

\* The rows of a kind have come.
LEMMA LoadedReading ==
  ASSUME NEW s, NEW w, NEW c, NEW u, Answering(s, w, c, u), c.op = "list",
         NEW x, x = Loaded(u, c, Answered(s, c))
  PROVE  /\ Coherent(x, Owed(c)) /\ Reading(s, x) /\ RowsFit(s, x) /\ Follows(x) /\ Fits(x)
         /\ c.for = "herd" \/ InputsFit(s, x)
         /\ Read(x, c) /\ Unlisted(x) /\ Answered(s, c) # Failed
         /\ Sender(c) /\ c.mounted
<1>1. /\ Reading(s, w) /\ Reading(s, u) /\ RowsFit(s, w)
      /\ c \in Calls /\ Owes(u, c) /\ Read(u, c) /\ ~Refused(s, c) /\ c \in Fly(w)
      /\ u.farms = w.farms /\ u.active = w.active /\ u.current = w.current
      /\ u.store = w.store /\ u.page = w.page /\ u.config = w.config
      /\ u.speed = w.speed
      /\ Fly(u) \subseteq Fly(w) /\ Fly(w) \subseteq Fly(u) \cup {c}
      /\ Follows(w) /\ Fits(w) /\ InputsFit(s, w)
  BY ReadingTaken DEF Reads
<1>2. PICK k : k = c.kind
  OBVIOUS
<1>3. /\ k \in Kinds /\ c.farm = u.active /\ u.active # None /\ u.active \in Farms
      /\ u.store[k].farm = u.active /\ c.mounted /\ Sender(c)
      /\ s \in Servers /\ u \in Webs
  BY <1>1, <1>2, CallFields DEF Read, ReadOf, Reading, Webs, Maybe
<1>4. PICK r : r = RowsOf(s, k, u.active)
  OBVIOUS
<1>5. Answered(s, c) = r /\ r # Failed /\ r \in RowMaps
  <2>1. Answered(s, c) = r
    BY <1>1, <1>2, <1>3, <1>4 DEF Answered
  <2>2. r # Failed
    BY <1>1, <1>3, <2>1, Different
  <2> QED
    BY <1>3, <1>4, <2>1, <2>2, RowsOfAreRows
<1>6. PICK t : t = [farm |-> u.active, rows |-> r, loading |-> FALSE, failed |-> FALSE]
  OBVIOUS
<1>7. t \in Stores /\ t.farm = u.active /\ t.rows = r /\ t.loading = FALSE
  BY <1>3, <1>5, <1>6 DEF Stores, Maybe
<1> DEFINE store == [u.store EXCEPT ![k] = t]
<1>8. /\ store \in [Kinds -> Stores] /\ store[k] = t
      /\ \A j \in Kinds \ {k} : store[j] = u.store[j]
  BY <1>3, <1>7 DEF Webs
<1>9. x = [u EXCEPT !.store = store]
  BY <1>2, <1>3, <1>5, <1>6 DEF Loaded
<1> HIDE DEF store
<1>10. /\ x \in Webs /\ x.farms = u.farms /\ x.active = u.active /\ x.current = u.current
       /\ x.store = store /\ x.page = u.page /\ x.initializing = u.initializing
       /\ x.config = u.config /\ x.speed = u.speed /\ x.calls = u.calls
       /\ x.saving = u.saving /\ x.cached = u.cached
  BY <1>3, <1>8, <1>9 DEF Webs
<1>11. \A j \in Kinds : x.store[j].farm = u.store[j].farm
  BY <1>3, <1>7, <1>8, <1>10
<1>12. Fly(x) = Fly(u) /\ KeyOf(x) = KeyOf(u) /\ KeyOf(x) = KeyOf(w)
  BY <1>1, <1>10, FlySame DEF KeyOf, Version
<1>13. Coherent(x, Owed(c))
  <2>1. c.op \notin {"catalog", "config"} \cup FarmOps \cup ConfigOps
    BY DEF FarmOps, ConfigOps
  <2>2. \A j \in Kinds : x.store[j].loading => u.store[j].loading /\ j # k
    BY <1>3, <1>7, <1>8, <1>10
  <2> QED
    BY <1>1, <1>2, <1>10, <2>1, <2>2, FlagDown
<1>14. SpeedFits(s, x)
  <2>1. SpeedFits(s, u)
    BY <1>1 DEF Reading
  <2>2. Selected(s, u) => Selected(s, x)
    BY <1>10, <1>12 DEF Selected
  <2>3. SpeedKinds \subseteq Kinds
    BY DEF SpeedKinds, Kinds
  <2> QED
    BY <1>10, <1>11, <2>1, <2>2, <2>3 DEF SpeedFits
<1>15. Reading(s, x)
  <2>1. ~x.speed.timer
    BY <1>1, <1>10 DEF Reading
  <2> QED
    BY <1>1, <1>10, <1>11, <1>12, <1>14, <2>1, ReadingLess
<1>16. RowsFit(s, x)
  <2>1. ASSUME NEW j \in Kinds
        PROVE  /\ x.store[j].farm \in DOMAIN s.farms =>
                    \/ x.store[j].rows = RowsOf(s, j, x.store[j].farm)
                    \/ \E d \in Fly(x) : d.op = "list" /\ d.kind = j
               /\ x.store[j].farm # None =>
                    x.store[j].farm \in DOMAIN s.farms \/ <<"farm", x.store[j].farm>> \in s.gone
    <3>1. CASE j = k
      <4>1. x.store[j].farm = u.active /\ x.store[j].rows = r
        BY <1>7, <1>8, <1>10, <3>1
      <4>2. u.store[j].farm # None =>
              u.store[j].farm \in DOMAIN s.farms \/ <<"farm", u.store[j].farm>> \in s.gone
        BY <1>1 DEF RowsFit
      <4> QED
        BY <1>3, <1>4, <3>1, <4>1, <4>2
    <3>2. CASE j # k
      <4>1. x.store[j] = w.store[j]
        BY <1>1, <1>8, <1>10, <3>2
      <4>2. \A d \in Fly(w) : d.kind = j => d \in Fly(x)
        BY <1>1, <1>2, <1>12, <3>2
      <4> QED
        BY <1>1, <4>1, <4>2 DEF RowsFit
    <3> QED
      BY <3>1, <3>2
  <2> QED
    BY <2>1 DEF RowsFit
<1>17. \A d \in Fly(w) : d.op = "catalog" => d \in Fly(x)
  BY <1>1, <1>12
<1>18. Follows(x)
  <2>1. \A j \in Kinds : x.store[j].farm = w.store[j].farm
    BY <1>1, <1>11
  <2>2. w.page \in Following => KindsOf(w.page) \subseteq Kinds
    BY DEF Following, KindsOf, Kinds
  <2> QED
    BY <1>1, <1>10, <1>17, <2>1, <2>2 DEF Follows
<1>19. Fits(x)
  BY <1>1, <1>10, <1>12, <1>17 DEF Fits
<1>20. c.for = "herd" \/ InputsFit(s, x)
  <2> SUFFICES ASSUME c.for # "herd" PROVE InputsFit(s, x)
    OBVIOUS
  <2>1. Configured(w) => Configured(x)
    BY <1>1, <1>12 DEF Configured
  <2>2. Returned(s, w) => Returned(s, x)
    BY <1>1, <1>10 DEF Returned
  <2>3. \A d \in Fly(w) : d.for = "herd" => d \in Fly(x)
    BY <1>1, <1>12
  <2> QED
    BY <1>1, <1>10, <2>1, <2>2, <2>3 DEF InputsFit
<1>21. Read(x, c)
  <2>1. ReadOf(x, c)
    BY <1>1, <1>10, <1>12 DEF Read, ReadOf
  <2> QED
    BY <1>2, <1>3, <1>10, <1>11, <2>1 DEF Read
<1> QED
  BY <1>3, <1>5, <1>13, <1>15, <1>16, <1>18, <1>19, <1>20, <1>21 DEF Reading

LEMMA RowsLoadedNearly ==
  ASSUME NEW s, NEW w, NEW c, NEW u, Answering(s, w, c, u), c.op = "list"
  PROVE  Nearly(s, RowsLoaded(u, c, Answered(s, c)))
<1>1. PICK x : x = Loaded(u, c, Answered(s, c))
  OBVIOUS
<1>2. /\ Coherent(x, Owed(c)) /\ Reading(s, x) /\ RowsFit(s, x) /\ Follows(x) /\ Fits(x)
      /\ c.for = "herd" \/ InputsFit(s, x)
      /\ Read(x, c) /\ Unlisted(x) /\ Answered(s, c) # Failed
      /\ Sender(c) /\ c.mounted
  BY <1>1, LoadedReading
<1>3. PICK v : v = RowsLoaded(u, c, Answered(s, c))
  OBVIOUS
<1>4. v = IF c.for = "herd" THEN LoadConfig(x)
          ELSE IF c.for = "speed" THEN LoadState(x, c) ELSE x
  BY <1>1, <1>2, <1>3 DEF RowsLoaded, Continued, HerdConfig
<1>5. s \in Servers /\ x \in Webs /\ c.for \in {x.page, "page"} /\ x.active # None
  BY <1>2 DEF Reading, Read, ReadOf
<1>6. CASE c.for = "herd"
  <2>1. x.page = "herd"
    BY <1>5, <1>6
  <2>2. PICK y : y = LoadConfig(x)
    OBVIOUS
  <2>3. ReadsOn(x, y) /\ Configured(y)
    <3>1. ReadsOn(x, LoadConfig(x)) /\ (x.active # None => Configured(LoadConfig(x)))
      BY <1>2, <2>1, ConfigReads
    <3> QED
      BY <1>5, <2>2, <3>1
  <2>4. y \in Webs
    BY <1>2, <2>2, ConfigCoheres DEF Coherent
  <2>5. Reading(s, y)
    BY <1>2, <2>1, <2>3, <2>4, ReadingOn
  <2>6. RowsFit(s, y)
    <3>1. x.active # None => x.active \in DOMAIN s.farms
      <4>1. \A d \in Fly(x) : d.op \in Reads
        BY <1>2 DEF Reading
      <4> QED
        BY <1>2, <2>3, <4>1, FarmsOn DEF Reading
    <3> QED
      BY <1>2, <1>5, <2>3, <3>1, RowsOn, NoneIsNoFarm
  <2>7. Follows(y) /\ Fits(y)
    <3>1. x.page \in Pages
      BY <1>5 DEF Webs
    <3> QED
      BY <1>2, <2>3, <3>1, FollowsOn, FitsOn
  <2>8. InputsFit(s, y)
    BY <2>3 DEF InputsFit
  <2>9. v = y
    BY <1>4, <1>6, <2>2
  <2> QED
    BY <1>3, <2>5, <2>6, <2>7, <2>8, <2>9, ReadingNearly
<1>7. CASE c.for = "speed"
  <2>1. x.page = "speed" /\ x.speed.farm = x.active
    BY <1>2, <1>5, <1>7 DEF Read, ReadOf
  <2>2. PICK y : y = LoadState(x, c)
    OBVIOUS
  <2>3. Seen(x, c)
    BY <1>2, <1>5, <1>7, <2>1 DEF Seen
  <2>4. \A d \in Fly(x) : d.op = "list" => d.for = "speed" /\ d.mounted
    BY <1>2, <2>1 DEF Reading, Read, ReadOf
  <2>5. ReadsOn(x, y) /\ Unlisted(y) /\ y.store = x.store
    BY <1>2, <1>5, <1>7, <2>1, <2>2, <2>3, <2>4, LoadStateReads, ReadsNothing
  <2>6. y \in Webs
    BY <1>2, <1>7, <2>2, LoadStateCoheres DEF Coherent, Settles
  <2>7. SpeedFits(s, y)
    BY <1>2, <2>5, SpeedOn DEF Reading
  <2>8. Reading(s, y)
    BY <1>2, <2>5, <2>6, <2>7, ReadingOn
  <2>9. RowsFit(s, y)
    <3>1. x.active # None => x.active \in DOMAIN s.farms
      <4>1. \A d \in Fly(x) : d.op \in Reads
        BY <1>2 DEF Reading
      <4> QED
        BY <1>2, <2>5, <4>1, FarmsOn DEF Reading
    <3> QED
      BY <1>2, <1>5, <2>5, <3>1, RowsOn, NoneIsNoFarm
  <2>10. y.page = "speed"
    BY <2>1, <2>5 DEF ReadsOn
  <2>11. Follows(y) /\ Fits(y) /\ InputsFit(s, y)
    BY <2>10 DEF Follows, Fits, InputsFit, Following, Fitting
  <2>12. v = y
    BY <1>4, <1>7, <2>2
  <2> QED
    BY <1>3, <2>8, <2>9, <2>11, <2>12, ReadingNearly
<1>8. CASE c.for \notin {"herd", "speed"}
  <2>1. v = x
    BY <1>4, <1>8
  <2> QED
    BY <1>2, <1>3, <1>8, <2>1, ReadingNearly
<1> QED
  BY <1>6, <1>7, <1>8

\* The catalog has come: nobody asks for this version any more.
LEMMA FetchedFly ==
  ASSUME NEW u \in Webs, NEW c \in Calls, c.op = "catalog", NEW answer, answer # Failed,
         NEW v, v = Fetched(u, c, answer)
  PROVE  /\ v \in Webs /\ v.current = c.body
         /\ v.farms = u.farms /\ v.active = u.active /\ v.store = u.store
         /\ v.page = u.page /\ v.initializing = u.initializing
         /\ v.config = u.config /\ v.speed = u.speed
         /\ Fly(v) \subseteq Fly(u)
         /\ \A d \in Fly(u) : d.op # "catalog" \/ d.body # c.body => d \in Fly(v)
<1>1. u.calls \in Seq(Calls) /\ c.body \in Keys
  BY DEF Webs, Calls
<1>2. PICK q, waiting : q = u.calls /\ waiting = WaitingFor(u, c.body)
  OBVIOUS
<1>3. PICK left : left = Dropping(q, waiting)
  OBVIOUS
<1>4. /\ left \in Seq(Calls)
      /\ \E from \in [DOMAIN left -> DOMAIN q \ waiting] :
           /\ \A j \in DOMAIN left : left[j] = q[from[j]]
           /\ \A j, k \in DOMAIN left : from[j] = from[k] => j = k
           /\ \A i \in DOMAIN q \ waiting : \E j \in DOMAIN left : from[j] = i
  <2>1. q \in Seq(Calls)
    BY <1>1, <1>2
  <2> DEFINE gone == Dropping(q, waiting)
  <2>2. /\ gone \in Seq(Calls)
        /\ \E from \in [DOMAIN gone -> DOMAIN q \ waiting] :
             /\ \A j \in DOMAIN gone : gone[j] = q[from[j]]
             /\ \A j, k \in DOMAIN gone : from[j] = from[k] => j = k
             /\ \A i \in DOMAIN q \ waiting : \E j \in DOMAIN gone : from[j] = i
    BY <2>1, Dropped
  <2>3. left = gone
    BY <1>3
  <2> HIDE DEF gone
  <2> QED
    BY <2>2, <2>3
<1>5. PICK from \in [DOMAIN left -> DOMAIN q \ waiting] :
        /\ \A j \in DOMAIN left : left[j] = q[from[j]]
        /\ \A i \in DOMAIN q \ waiting : \E j \in DOMAIN left : from[j] = i
  BY <1>4
<1>6. PICK cached : cached = u.cached \cup {c.body}
  OBVIOUS
<1>7. cached \in SUBSET Keys
  BY <1>1, <1>6 DEF Webs
<1>8. v = [[u EXCEPT !.calls = left] EXCEPT !.cached = cached, !.current = c.body]
  BY <1>2, <1>3, <1>6 DEF Fetched, Webs
<1>9. /\ v \in Webs /\ v.current = c.body /\ v.calls = left
      /\ v.farms = u.farms /\ v.active = u.active /\ v.store = u.store
      /\ v.page = u.page /\ v.initializing = u.initializing
      /\ v.config = u.config /\ v.speed = u.speed
  <2>1. c.body \in Maybe(Keys)
    BY <1>1 DEF Maybe
  <2>2. PICK y : y = [u EXCEPT !.calls = left]
    OBVIOUS
  <2>3. /\ y \in Webs /\ y.calls = left
        /\ y.farms = u.farms /\ y.active = u.active /\ y.store = u.store
        /\ y.page = u.page /\ y.initializing = u.initializing
        /\ y.config = u.config /\ y.speed = u.speed
    BY <1>4, <2>2 DEF Webs
  <2>4. v = [y EXCEPT !.cached = cached, !.current = c.body]
    BY <1>8, <2>2
  <2> QED
    BY <1>7, <2>1, <2>3, <2>4 DEF Webs
<1>10. Fly(v) \subseteq Fly(u)
  BY <1>2, <1>5, <1>9 DEF Fly
<1>11. ASSUME NEW d \in Fly(u), d.op # "catalog" \/ d.body # c.body PROVE d \in Fly(v)
  <2>1. PICK i \in DOMAIN q : d = q[i]
    BY <1>2 DEF Fly
  <2>2. i \notin waiting
    BY <1>2, <1>11, <2>1 DEF WaitingFor
  <2>3. PICK j \in DOMAIN left : from[j] = i
    BY <1>5, <2>1, <2>2
  <2> QED
    BY <1>5, <1>9, <2>1, <2>3 DEF Fly
<1> QED
  BY <1>9, <1>10, <1>11

LEMMA FetchedReading ==
  ASSUME NEW s, NEW w, NEW c, NEW u, Answering(s, w, c, u), c.op = "catalog",
         NEW v, v = Fetched(u, c, None)
  PROVE  /\ Coherent(v, "nothing") /\ Reading(s, v) /\ RowsFit(s, v) /\ Fits(v)
         /\ v.active = w.active /\ v.store = w.store /\ v.page = w.page
         /\ v.config = w.config
         /\ \A d \in Fly(w) : d.op # "catalog" => d \in Fly(v)
<1>1. /\ Reading(s, w) /\ Reading(s, u) /\ RowsFit(s, w)
      /\ c \in Calls /\ Owes(u, c) /\ Read(u, c)
      /\ u.farms = w.farms /\ u.active = w.active
      /\ u.store = w.store /\ u.page = w.page /\ u.config = w.config
      /\ u.speed = w.speed
      /\ Fly(w) \subseteq Fly(u) \cup {c}
  BY ReadingTaken DEF Reads
<1>2. u \in Webs /\ s \in Servers
  BY <1>1 DEF Reading
<1>3. None # Failed
  BY MarksAssumption
<1>4. /\ v \in Webs /\ v.current = c.body
      /\ v.farms = u.farms /\ v.active = u.active /\ v.store = u.store
      /\ v.page = u.page /\ v.initializing = u.initializing
      /\ v.config = u.config /\ v.speed = u.speed
      /\ Fly(v) \subseteq Fly(u)
      /\ \A d \in Fly(u) : d.op # "catalog" \/ d.body # c.body => d \in Fly(v)
  BY <1>1, <1>2, <1>3, FetchedFly
<1>5. Coherent(v, "nothing")
  BY <1>1, FetchedCoheres
<1>6. KeyOf(v) = KeyOf(u)
  BY <1>4 DEF KeyOf, Version
<1>7. SpeedFits(s, v)
  <2>1. \A d \in Fly(u) : d.op = "saveState" => d \in Fly(v)
    BY <1>4
  <2>2. Selected(s, u) => Selected(s, v)
    BY <1>4, <2>1 DEF Selected
  <2> QED
    BY <1>1, <1>4, <2>2 DEF Reading, SpeedFits
<1>8. Reading(s, v)
  <2>1. ~v.speed.timer
    BY <1>1, <1>4 DEF Reading
  <2> QED
    BY <1>1, <1>4, <1>7, <2>1, ReadingLess
<1>9. \A d \in Fly(w) : d.op # "catalog" => d \in Fly(v)
  BY <1>1, <1>4
<1>10. RowsFit(s, v)
  BY <1>1, <1>4, <1>9 DEF RowsFit
<1>11. Fits(v)
  <2>1. v.page \in Fitting => v.current = KeyOf(v)
    BY <1>1, <1>4, <1>6 DEF Read, ReadOf
  <2> QED
    BY <2>1 DEF Fits
<1> QED
  BY <1>1, <1>4, <1>5, <1>8, <1>9, <1>10, <1>11

\* What waited for the catalog goes on.
LEMMA ChainingOn ==
  ASSUME NEW w, NEW v, ReadsOn(w, v), Chaining(w)
  PROVE  Chaining(v)
<1>1. "stables" \in Kinds
  BY DEF Kinds
<1>2. v.active = w.active /\ Fly(w) \subseteq Fly(v)
  BY DEF ReadsOn
<1>3. w.active # None => v.store["stables"].farm = v.active
  BY <1>1 DEF ReadsOn, Chaining
<1> QED
  BY <1>2, <1>3 DEF Chaining, Configured

LEMMA ContinuedReads ==
  ASSUME NEW w, Coherent(w, "nothing"), NEW d \in Calls, d.op = "catalog", ReadOf(w, d),
         NEW v, v = Continued(w, d, None)
  PROVE  /\ ReadsOn(w, v) /\ Coherent(v, "nothing")
         /\ d.for = "herd" => Chaining(v)
         /\ w.page # "herd" => v = w
<1>1. Seen(w, d)
  BY CallFields DEF Seen, ReadOf
<1>2. None # Failed
  BY MarksAssumption
<1>3. CASE d.for = "herd"
  <2>1. v = HerdStables(w, d)
    BY <1>3 DEF Continued
  <2>2. ReadsOn(w, v) /\ Chaining(v)
    BY <1>1, <1>3, <2>1, HerdStablesReads
  <2>3. Coherent(v, "nothing")
    BY <2>1, CallFields, HerdStablesCoheres
  <2>4. w.page = "herd"
    BY <1>3 DEF ReadOf
  <2> QED
    BY <2>2, <2>3, <2>4
<1>4. CASE d.for # "herd"
  <2>1. v = w
    BY <1>2, <1>4 DEF Continued
  <2> QED
    BY <1>4, <2>1, ReadsNothing
<1> QED
  BY <1>3, <1>4

LEMMA CatalogLoadedNearly ==
  ASSUME NEW s, NEW w, NEW c, NEW u, Answering(s, w, c, u), c.op = "catalog"
  PROVE  Nearly(s, CatalogLoaded(u, c, Answered(s, c)))
<1>1. /\ Reading(s, w) /\ Reading(s, u)
      /\ c \in Calls /\ Read(u, c) /\ ~Refused(s, c)
      /\ u.farms = w.farms /\ u.active = w.active /\ u.page = w.page
      /\ Fly(w) \subseteq Fly(u) \cup {c}
      /\ Follows(w) /\ InputsFit(s, w)
  BY ReadingTaken DEF Reads
<1>2. /\ s \in Servers /\ u \in Webs /\ u.calls \in Seq(Calls) /\ w.page \in Pages
  BY <1>1 DEF Reading, Webs
<1>3. Answered(s, c) = None
  BY <1>1 DEF Answered
<1>4. PICK v : v = Fetched(u, c, None)
  OBVIOUS
<1>5. /\ Coherent(v, "nothing") /\ Reading(s, v) /\ RowsFit(s, v) /\ Fits(v)
      /\ v.active = w.active /\ v.store = w.store /\ v.page = w.page
      /\ v.config = w.config
      /\ \A d \in Fly(w) : d.op # "catalog" => d \in Fly(v)
  BY <1>4, FetchedReading
<1>6. v.farms = u.farms /\ v.active = u.active /\ v.page = u.page /\ v.speed = u.speed
  <2>1. None # Failed
    BY MarksAssumption
  <2> QED
    BY <1>1, <1>2, <1>4, <2>1, FetchedFly
<1>7. \A d : ReadOf(u, d) => ReadOf(v, d)
  BY <1>6 DEF ReadOf, KeyOf, Version
<1> DEFINE N == Len(u.calls)
           waiting == WaitingFor(u, c.body)
<1>8. N \in Nat /\ DOMAIN u.calls = 1..N
  BY <1>2
<1>9. PICK after :
        /\ after[0] = Continued(Fetched(u, c, None), c, None)
        /\ \A n \in 1..N : after[n] = IF n \in waiting
                                      THEN Continued(after[n - 1], u.calls[n], None)
                                      ELSE after[n - 1]
        /\ CatalogLoaded(u, c, None) = after[N]
  BY <1>2, CatalogSteps
\* Who of those that wait, up to the n-th, is there for the animal calculators.
<1> DEFINE Herd(n) == \/ c.for = "herd"
                      \/ \E j \in 1..n : j \in waiting /\ u.calls[j].for = "herd"
           Good(n) == /\ ReadsOn(v, after[n]) /\ Coherent(after[n], "nothing")
                      /\ Herd(n) => Chaining(after[n])
                      /\ w.page # "herd" => after[n] = v
           Whole == {n \in 0..N : Good(n)}
<1>10. 0 \in Whole
  <2>1. PICK y : y = Continued(v, c, None)
    OBVIOUS
  <2>2. ReadOf(v, c)
    BY <1>1, <1>7 DEF Read
  <2>3. /\ ReadsOn(v, y) /\ Coherent(y, "nothing")
        /\ c.for = "herd" => Chaining(y)
        /\ v.page # "herd" => y = v
    BY <1>1, <1>5, <2>1, <2>2, ContinuedReads
  <2>4. after[0] = y
    BY <1>4, <1>9, <2>1
  <2>5. Herd(0) => c.for = "herd"
    OBVIOUS
  <2>6. Good(0)
    BY <1>5, <2>3, <2>4, <2>5
  <2> QED
    BY <1>8, <2>6
<1>11. ASSUME NEW m \in 0..(N - 1), m \in Whole PROVE m + 1 \in Whole
  <2>1. PICK x, d, y : /\ x = after[m] /\ d = u.calls[m + 1]
                       /\ y = Continued(x, d, None)
    OBVIOUS
  <2>2. /\ ReadsOn(v, x) /\ Coherent(x, "nothing")
        /\ Herd(m) => Chaining(x)
        /\ w.page # "herd" => x = v
        /\ m + 1 \in 1..N /\ (m + 1) - 1 = m /\ m + 1 \in 0..N
    BY <1>8, <1>11, <2>1
  <2>3. d \in Calls
    BY <1>2, <1>8, <2>1, <2>2
  <2>4. after[m + 1] = IF m + 1 \in waiting THEN y ELSE x
    BY <1>9, <2>1, <2>2
  <2>5. Herd(m + 1) => Herd(m) \/ (m + 1 \in waiting /\ d.for = "herd")
    <3> SUFFICES ASSUME NEW j \in 1..(m + 1), j \in waiting, u.calls[j].for = "herd", j # m + 1
                 PROVE  Herd(m)
      BY <2>1
    <3>1. j \in 1..m
      BY <1>8
    <3> QED
      BY <3>1
  <2>6. CASE m + 1 \in waiting
    <3>1. d.op = "catalog" /\ d \in Fly(u)
      BY <1>8, <2>1, <2>2, <2>6 DEF WaitingFor, Fly
    <3>2. ReadOf(v, d)
      BY <1>1, <1>7, <3>1 DEF Reading, Read
    <3>3. ReadOf(x, d)
      <4>1. x.page = v.page /\ x.active = v.active /\ x.farms = v.farms /\ x.speed = v.speed
        BY <2>2 DEF ReadsOn
      <4> QED
        BY <3>2, <4>1 DEF ReadOf, KeyOf, Version
    <3>4. /\ ReadsOn(x, y) /\ Coherent(y, "nothing")
          /\ d.for = "herd" => Chaining(y)
          /\ x.page # "herd" => y = x
      BY <2>1, <2>2, <2>3, <3>1, <3>3, ContinuedReads
    <3>5. ReadsOn(v, y)
      BY <2>2, <3>4, ReadsOnAndOn
    <3>6. Herd(m) => Chaining(y)
      BY <2>2, <3>4, ChainingOn
    <3>7. w.page # "herd" => y = v
      BY <1>5, <2>2, <3>4
    <3>8. after[m + 1] = y
      BY <2>4, <2>6
    <3> HIDE DEF Herd
    <3>9. Good(m + 1)
      BY <2>5, <3>4, <3>5, <3>6, <3>7, <3>8
    <3> QED
      BY <2>2, <3>9
  <2>7. CASE m + 1 \notin waiting
    <3>1. after[m + 1] = x
      BY <2>4, <2>7
    <3> HIDE DEF Herd
    <3>2. Good(m + 1)
      BY <2>2, <2>5, <2>7, <3>1
    <3> QED
      BY <2>2, <3>2
  <2> QED
    BY <2>6, <2>7
<1>12. N \in Whole
  <2> HIDE DEF Whole
  <2> QED
    BY <1>8, <1>10, <1>11, CountInduction
<1>13. PICK y : y = after[N]
  OBVIOUS
<1>14. /\ ReadsOn(v, y) /\ Coherent(y, "nothing")
       /\ Herd(N) => Chaining(y)
       /\ w.page # "herd" => y = v
  BY <1>12, <1>13
<1>15. CatalogLoaded(u, c, Answered(s, c)) = y
  BY <1>3, <1>9, <1>13
<1>16. CASE w.page # "herd"
  <2>1. y = v
    BY <1>14, <1>16
  <2>2. Follows(v)
    BY <1>1, <1>5, <1>16 DEF Follows
  <2>3. InputsFit(s, v)
    BY <1>5, <1>16 DEF InputsFit
  <2> QED
    BY <1>5, <1>15, <2>1, <2>2, <2>3, ReadingNearly
<1>17. CASE w.page = "herd"
  <2>1. y \in Webs /\ y.page = "herd" /\ y.active = w.active
    BY <1>5, <1>14, <1>17 DEF Coherent, ReadsOn
  <2>2. Reading(s, y)
    BY <1>5, <1>14, <1>17, <2>1, ReadingOn
  <2>3. RowsFit(s, y)
    <3>1. v.active # None => v.active \in DOMAIN s.farms
      <4>1. \A d \in Fly(v) : d.op \in Reads
        BY <1>5 DEF Reading
      <4> QED
        BY <1>5, <1>14, <4>1, FarmsOn DEF Reading
    <3> QED
      BY <1>2, <1>5, <1>14, <3>1, RowsOn, NoneIsNoFarm
  <2>4. Fits(y)
    BY <1>5, <1>14, FitsOn
  <2>5. ASSUME NEW d \in Fly(w), d.op = "catalog", d.for = "herd" PROVE Chaining(y)
    <3>1. CASE d = c
      BY <1>14, <2>5, <3>1
    <3>2. CASE d \in Fly(u)
      <4>1. PICK i \in DOMAIN u.calls : d = u.calls[i]
        BY <3>2 DEF Fly
      <4>2. d.body = KeyOf(u) /\ c.body = KeyOf(u)
        BY <1>1, <1>17, <2>5, <3>2 DEF Reading, Read, ReadOf, Fitting
      <4>3. i \in waiting /\ i \in 1..N
        BY <1>8, <2>5, <4>1, <4>2 DEF WaitingFor
      <4> QED
        BY <1>14, <2>5, <4>1, <4>3
    <3> QED
      BY <1>1, <3>1, <3>2
  <2>6. Follows(y)
    <3> SUFFICES ASSUME w.active # None PROVE y.store["stables"].farm = w.active
      BY <2>1 DEF Follows, KindsOf
    <3>1. CASE \E d \in Fly(w) : d.op = "catalog" /\ d.for = "herd"
      BY <2>1, <2>5, <3>1 DEF Chaining
    <3>2. CASE ~\E d \in Fly(w) : d.op = "catalog" /\ d.for = "herd"
      <4>1. w.store["stables"].farm = w.active
        BY <1>1, <1>17, <3>2 DEF Follows, KindsOf, Following
      <4>2. "stables" \in Kinds
        BY DEF Kinds
      <4> QED
        BY <1>5, <1>14, <4>1, <4>2 DEF ReadsOn
    <3> QED
      BY <3>1, <3>2
  <2>7. InputsFit(s, y)
    <3> SUFFICES ASSUME w.active # None PROVE InputsFit(s, y)
      BY <2>1 DEF InputsFit
    <3>1. CASE Configured(w)
      <4>1. Configured(v)
        BY <1>5, <3>1 DEF Configured
      <4> QED
        BY <1>14, <4>1 DEF ReadsOn, InputsFit, Configured
    <3>2. CASE /\ ~Configured(w) /\ w.config.inputs \in {Default, w.active}
               /\ \/ \E d \in Fly(w) : d.for = "herd" /\ d.op \in {"catalog", "list"}
                  \/ Returned(s, w)
      <4>1. y.config.inputs \in {Default, y.active}
        BY <1>5, <1>14, <2>1, <3>2 DEF ReadsOn
      <4>2. CASE \E d \in Fly(w) : d.for = "herd" /\ d.op = "catalog"
        <5>1. Chaining(y)
          BY <2>5, <4>2
        <5> QED
          BY <2>1, <4>1, <5>1 DEF Chaining, InputsFit
      <4>3. CASE \E d \in Fly(w) : d.for = "herd" /\ d.op = "list"
        <5>1. \E d \in Fly(y) : d.for = "herd" /\ d.op = "list"
          BY <1>5, <1>14, <4>3 DEF ReadsOn
        <5> QED
          BY <4>1, <5>1 DEF InputsFit
      <4>4. CASE Returned(s, w)
        <5>1. Returned(s, v)
          BY <1>5, <4>4 DEF Returned
        <5>2. Returned(s, y)
          BY <1>5, <1>14, <5>1 DEF Returned, ReadsOn
        <5> QED
          BY <4>1, <5>2 DEF InputsFit
      <4> QED
        BY <3>2, <4>2, <4>3, <4>4
    <3> QED
      BY <1>1, <1>17, <3>1, <3>2 DEF InputsFit
  <2> QED
    BY <1>15, <2>2, <2>3, <2>4, <2>6, <2>7, ReadingNearly
<1> QED
  BY <1>16, <1>17

\* Whatever is answered.
LEMMA EffectNearly ==
  ASSUME NEW s, NEW w, NEW c, NEW u, Answering(s, w, c, u)
  PROVE  Nearly(CarriedOut(s, c), Effect(u, c, Answered(s, c)))
<1>1. c \in Calls
  BY Alone, ReadingTaken
<1>2. c.op # "timer"
  BY Alone DEF Reads
<1>3. c.mounted
  BY Alone, ReadingTaken DEF Read, ReadOf
<1>4. c.op \in Reads => CarriedOut(s, c) = s
  BY ReadingTaken
<1>5. CASE c.op = "farms"
  <2>1. Answered(s, c) = s.farms /\ CarriedOut(s, c) = s
    BY <1>5 DEF Answered, CarriedOut, Refused
  <2> QED
    BY <1>5, <2>1, FarmsNearly DEF Effect
<1>6. CASE c.op = "settings"
  <2>1. Answered(s, c) = s.pin /\ CarriedOut(s, c) = s
    BY <1>6 DEF Answered, CarriedOut, Refused
  <2> QED
    BY <1>6, <2>1, SettingsNearly DEF Effect
<1>7. CASE c.op = "pin"
  BY <1>7, PinnedNearly DEF Effect
<1>8. CASE c.op = "createFarm"
  BY <1>8, CreatedNearly DEF Effect
<1>9. CASE c.op = "updateFarm"
  BY <1>9, UpdatedNearly DEF Effect
<1>10. CASE c.op = "deleteFarm"
  BY <1>10, DeletedNearly DEF Effect
<1>11. CASE c.op = "list"
  BY <1>4, <1>11, RowsLoadedNearly DEF Effect, Reads
<1>12. CASE c.op = "catalog"
  BY <1>4, <1>12, CatalogLoadedNearly DEF Effect, Reads
<1>13. CASE c.op \in RowOps
  BY <1>13, RowWrittenNearly DEF Effect, RowOps
<1>14. CASE c.op = "config"
  BY <1>3, <1>4, <1>14, ConfigLoadedNearly DEF Effect, Reads
<1>15. CASE c.op \in ConfigOps
  BY <1>3, <1>15, ConfigNearly DEF Effect, ConfigOps
<1>16. CASE c.op = "state"
  BY <1>3, <1>4, <1>16, StateLoadedNearly DEF Effect, Reads
<1>17. CASE c.op = "saveState"
  BY <1>17, StateSavedNearly DEF Effect
<1>18. c.op \in {"farms", "settings", "list", "catalog", "config", "state", "saveState",
                 "timer"} \cup RowOps \cup FarmOps \cup ConfigOps
  BY <1>1 DEF Calls
<1> QED
  BY <1>2, <1>5, <1>6, <1>7, <1>8, <1>9, <1>10, <1>11, <1>12, <1>13, <1>14, <1>15,
     <1>16, <1>17, <1>18 DEF FarmOps

\* An answer comes, and what it has set off has been done.
LEMMA AnswerFine ==
  ASSUME NEW s, NEW w, NEW c, NEW u, Answering(s, w, c, u)
  PROVE  Fine(CarriedOut(s, c), Settle(Effect(u, c, Answered(s, c))))
<1>1. PICK i \in DOMAIN w.calls : /\ c = w.calls[i] /\ c.kind # "wait"
                                  /\ u = [w EXCEPT !.calls = RemoveAt(w.calls, i)]
  BY DEF Answering
<1>2. s \in Servers /\ Coherent(w, "nothing")
  BY DEF Answering
<1>3. c \in Calls
  BY Alone, ReadingTaken
<1>4. Owes(u, c)
  BY <1>1, <1>2, TakenOut
<1>5. Told(u, c, Answered(s, c))
  BY <1>2, <1>3, <1>4, AnsweredTyped DEF Told
<1>6. Effect(u, c, Answered(s, c)) \in Webs
  BY <1>5, EffectCoheres DEF Coherent
<1> QED
  BY <1>6, EffectNearly, SettledFine

-----------------------------------------------------------------------------
(* What the user does who has waited.                                        *)
LEMMA NearlyFine ==
  ASSUME NEW s, NEW w, Nearly(s, w), Initializes(w)
  PROVE  Fine(s, w)
BY DEF Nearly, Fine

Waited(s, w) ==
  /\ s \in Servers /\ Coherent(w, "nothing") /\ Fine(s, w)
  /\ w.calls = <<>> /\ ~w.speed.timer

LEMMA Rested ==
  ASSUME NEW s, NEW w, Waited(s, w)
  PROVE  /\ Resting(s, w) /\ ~w.initializing /\ w \in Webs /\ Fly(w) = {}
         /\ w.page = "speed" => ~w.speed.hydrating
         /\ w.active # None => w.active = s.pin /\ w.active \in DOMAIN w.farms
         /\ Known(s, w) /\ RowsFit(s, w)
<1> USE DEF Waited
<1>1. w \in Webs /\ SpeedFlag(w)
  BY DEF Coherent
<1>2. Fly(w) = {}
  BY <1>1, FlyCalls
<1>3. ~w.initializing
  BY <1>2 DEF Fine, Initializes
<1>4. w.page = "speed" => ~w.speed.hydrating
  BY <1>1 DEF SpeedFlag, Hydrates
<1>5. w.active # None => w.active = s.pin /\ w.active \in DOMAIN w.farms
  BY <1>2 DEF Fine, FarmsFit, Pinning
<1>6. /\ w.page \in Bootstrapping => w.active = s.pin
      /\ Follows(w) /\ Fits(w) /\ InputsFit(s, w)
  BY <1>2 DEF Fine, Shown, Moving
<1>7. Idle(s, w)
  BY <1>1, <1>2, <1>3, <1>6 DEF Fine, Idle
<1> QED
  BY <1>1, <1>2, <1>3, <1>4, <1>5, <1>6, <1>7 DEF Fine, FarmsFit, Resting

\* Any page is opened.
LEMMA MountedFine ==
  ASSUME NEW s \in Servers, NEW w, NEW page \in Pages, NEW m, m = Fresh(w, page),
         Coherent(m, "speed"), m.page = page, Fly(m) = {},
         m.initializing <=> page = "dashboard", m.config = NewConfig, m.speed = NewSpeed,
         FarmsFit(s, m), RowsFit(s, m), ConfigsFit(s),
         \A f \in Farms : s.picks[f] # None => s.picks[f] \subseteq SpeedKinds \X Ids
  PROVE  Fine(s, Mounted(w, page))
<1>1. PICK c : c = For(page)
  OBVIOUS
<1>2. PICK v : v = Mounted(w, page)
  OBVIOUS
<1>3. /\ page \in {"stables", "machinery", "production"} \cup Bootstrapping
      /\ m \in Webs
  BY PagesAssumption DEF Bootstrapping, Coherent
<1>4. /\ ~m.speed.timer /\ m.speed.hydrating /\ m.speed.picks = {} /\ m.speed.farm = None
      /\ m.config.inputs = Default
  BY DEF NewSpeed, NewConfig
<1>5. SpeedFits(s, m)
  BY <1>4 DEF SpeedFits
<1>6. ~Pinning(m)
  BY DEF Pinning
<1>7. m.active # None => m.active = s.pin /\ m.active \in DOMAIN m.farms /\ m.active \in Farms
  BY <1>3, <1>6 DEF FarmsFit, Webs, Maybe
<1>8. CASE page \in {"stables", "machinery"}
  <2>1. v = Reload(m, page)
    BY <1>2, <1>8 DEF Mounted, Fresh, Bootstrapping
  <2>2. page \in Kinds /\ page \notin Bootstrapping /\ page # "speed" /\ KindsOf(page) = {page}
        /\ page \notin Fitting
    BY <1>8 DEF Kinds, Bootstrapping, KindsOf, Fitting
  <2>3. ReadsOn(m, v) /\ (m.active # None => v.store[page].farm = m.active)
    BY <2>1, <2>2, ReloadReads
  <2>4. Idle(s, m)
    BY <1>3, <1>4, <1>5, <2>2 DEF Idle
  <2>5. v.page = page /\ v.active = m.active /\ v.initializing = m.initializing
    BY <2>3 DEF ReadsOn
  <2>6. Follows(v) /\ Fits(v) /\ InputsFit(s, v)
    BY <1>8, <2>2, <2>3, <2>5 DEF Follows, Fits, InputsFit
  <2>7. Nearly(s, v)
    BY <2>2, <2>3, <2>4, <2>6, ReadNearly
  <2> QED
    BY <1>2, <1>8, <2>5, <2>7, NearlyFine DEF Initializes
<1>9. CASE page = "production"
  <2>1. v = IF m.active = None THEN m ELSE LoadProduction(m)
    BY <1>2, <1>9 DEF Mounted, Fresh, Bootstrapping
  <2>2. Idle(s, m)
    BY <1>3, <1>4, <1>5, <1>9 DEF Idle, Bootstrapping
  <2>3. CASE m.active = None
    <3>1. Follows(m) /\ Fits(m) /\ InputsFit(s, m)
      BY <1>9, <2>3 DEF Follows, Fits, InputsFit, Fitting
    <3>2. Nearly(s, m)
      BY <2>2, <3>1, RestNearly DEF Resting
    <3> QED
      BY <1>2, <1>9, <2>1, <2>3, <3>2, NearlyFine DEF Initializes
  <2>4. CASE m.active # None
    <3>1. v = LoadProduction(m)
      BY <2>1, <2>4
    <3>2. ReadsOn(m, v) /\ Follows(v)
      BY <1>7, <1>9, <2>4, <3>1, ProductionReads
    <3>3. v.page = page /\ v.initializing = m.initializing
      BY <3>2 DEF ReadsOn
    <3>4. Fits(v) /\ InputsFit(s, v)
      BY <1>9, <3>3 DEF Fits, InputsFit, Fitting
    <3>5. Nearly(s, v)
      BY <1>9, <2>2, <3>2, <3>4, ReadNearly
    <3> QED
      BY <1>2, <1>9, <3>3, <3>5, NearlyFine DEF Initializes
  <2> QED
    BY <2>3, <2>4
<1>10. CASE page \in Bootstrapping
  <2>1. /\ c.for = page /\ c.mounted /\ Seen(m, c) /\ c.for \in Bootstrapping
        /\ c.for = m.page /\ Sender(c)
    BY <1>1, <1>10, PageSender DEF For, Seen, Senders
  <2>2. v = IF \/ page = "dashboard"
               \/ m.farms = Nothing /\ (page # "speed" \/ m.active = None)
            THEN LoadFarms(m, c)
            ELSE IF m.active = None THEN EnsureActive(m, c) ELSE Bootstrapped(m, c)
    BY <1>1, <1>2, <1>10 DEF Mounted, Fresh, Bootstrapping
  <2>3. m.farms = Nothing => m.active = None
    BY <1>7 DEF Nothing
  <2>4. CASE page = "dashboard" \/ (m.farms = Nothing /\ (page # "speed" \/ m.active = None))
    <3>1. v = LoadFarms(m, c) /\ (page = "herd" => m.active = None)
      BY <2>2, <2>3, <2>4
    <3>2. Nearly(s, v)
      BY <1>4, <1>5, <2>1, <3>1, AskedNearly
    <3>3. v.page = page /\ v.initializing = m.initializing
      BY <1>3, <3>1, SentFields DEF LoadFarms
    <3>4. page = "dashboard" => \E d \in Fly(v) : d.for = "dashboard"
      <4>1. PICK r : r = Call(c, "farms", None, None, None, None)
        OBVIOUS
      <4>2. r \in Calls /\ r.for = page
        BY <2>1, <4>1 DEF Calls, Call, Senders, Sender, Maybe, RowOps, FarmOps, ConfigOps
      <4>3. r \in Fly(v)
        BY <1>3, <3>1, <4>1, <4>2, FlySent DEF LoadFarms
      <4> QED
        BY <4>2, <4>3
    <3> QED
      BY <1>2, <3>2, <3>3, <3>4, NearlyFine DEF Initializes
  <2>5. CASE /\ page # "dashboard" /\ m.active = None
             /\ m.farms # Nothing
    <3>1. v = EnsureActive(m, c) /\ m.farms # Nothing /\ page # "dashboard"
      BY <2>2, <2>5
    <3>2. Nearly(s, v)
      BY <1>4, <1>5, <2>1, <2>5, <3>1, AskedNearly
    <3>3. v.initializing = m.initializing
      BY <1>3, <3>1, SentFields DEF EnsureActive
    <3> QED
      BY <1>2, <3>1, <3>2, <3>3, NearlyFine DEF Initializes
  <2>6. CASE page # "dashboard" /\ m.active # None
    <3>1. v = Bootstrapped(m, c) /\ page # "dashboard"
      BY <2>2, <2>3, <2>6
    <3>2. Turning(s, m, m.active)
      BY <1>3, <1>4, <1>5, <1>7, <2>6, <3>1 DEF Turning, FarmsFit
    <3>3. Activate(m, m.active) = m
      BY DEF Activate
    <3>4. Nearly(s, Bootstrapped(Activate(m, m.active), c))
      BY <1>4, <1>7, <2>1, <2>6, <3>2, BootstrapNearly
    <3>5. Nearly(s, v)
      BY <3>1, <3>3, <3>4
    <3>6. v.initializing = m.initializing
      <4>1. CASE c.for # "speed"
        <5>1. ReadsOn(m, v)
          BY <2>1, <3>1, <4>1, BootstrappedReads
        <5> QED
          BY <5>1 DEF ReadsOn
      <4>2. CASE c.for = "speed"
        <5>1. ReadsOn(Opened(m), v)
          BY <2>1, <2>6, <3>1, <4>2, SpeedReads
        <5> QED
          BY <1>3, <5>1 DEF ReadsOn, Opened, Webs
      <4> QED
        BY <4>1, <4>2
    <3> QED
      BY <1>2, <3>1, <3>5, <3>6, NearlyFine DEF Initializes
  <2> QED
    BY <2>4, <2>5, <2>6
<1> QED
  BY <1>3, <1>8, <1>9, <1>10

\* A farm is chosen in the switcher.
LEMMA SelectFine ==
  ASSUME NEW s, NEW w, Waited(s, w), NEW f \in DOMAIN w.farms, f # w.active
  PROVE  Fine(s, SetActiveFarm(w, f, w.farms[f], For("switcher")))
<1>1. /\ Resting(s, w) /\ ~w.initializing /\ w \in Webs /\ Fly(w) = {} /\ ~w.speed.timer
      /\ Known(s, w) /\ RowsFit(s, w) /\ Coherent(w, "nothing")
  BY Rested DEF Waited
<1>2. PICK c, version, v : /\ c = For("switcher") /\ version = w.farms[f]
                           /\ v = SetActiveFarm(w, f, version, c)
  OBVIOUS
<1>3. /\ f \in Maybe(Farms) /\ version \in Maybe(Versions) /\ f # None
      /\ Sender(c) /\ c.mounted /\ c.for = "switcher"
  <2>1. f \in Farms /\ version \in Versions
    BY <1>1, <1>2, InFarms
  <2>2. f # None
    BY <2>1, MarksAssumption
  <2> QED
    BY <1>2, <2>1, <2>2, PageSender DEF Maybe, Senders, For
<1>4. Repins(s, w, Call(c, "pin", None, f, None, version))
  BY <1>2, <1>3 DEF Repins, Call
<1>5. ConfigsFit(s) /\ SpeedFits(s, w)
  BY <1>1 DEF Resting, Idle
<1>6. Nearly(s, v)
  <2>1. c.for \notin Bootstrapping
    BY <1>3 DEF Bootstrapping
  <2> QED
    BY <1>1, <1>2, <1>3, <1>4, <1>5, <2>1, PinNearly
<1>7. ~v.initializing
  <2>1. PICK y : y = [w EXCEPT !.saving = TRUE]
    OBVIOUS
  <2>2. y \in Webs /\ y.initializing = w.initializing
    BY <1>1, <2>1 DEF Webs
  <2> QED
    BY <1>1, <1>2, <2>1, <2>2, SentFields DEF SetActiveFarm
<1> QED
  BY <1>2, <1>6, <1>7, NearlyFine DEF Initializes

\* Something is sent while everything rests.
LEMMA RestingSent ==
  ASSUME NEW s, NEW w, Resting(s, w), ~w.initializing, NEW u \in Webs, Alike(w, u),
         u.initializing = w.initializing,
         NEW r \in Calls, r.op \notin Reads \cup Moves, Sound(s, w, r)
  PROVE  Fine(s, Send(u, r))
<1>1. /\ Fly(w) = {} /\ ~w.speed.timer /\ FarmsFit(s, w) /\ Known(s, w) /\ RowsFit(s, w)
      /\ ConfigsFit(s) /\ SpeedFits(s, w)
      /\ w.page \in Bootstrapping => w.active = s.pin
      /\ Follows(w) /\ Fits(w) /\ InputsFit(s, w)
  BY DEF Resting, Idle, FarmsFit
<1>2. PICK v : v = Send(u, r)
  OBVIOUS
<1>3. Nearly(s, v)
  BY <1>1, <1>2, SentNearly
<1>4. ~v.initializing
  BY <1>2, SentFields
<1> QED
  BY <1>2, <1>3, <1>4, NearlyFine DEF Initializes

\* A farm is to be created, updated or deleted.
LEMMA ManageFine ==
  ASSUME NEW s, NEW w, Waited(s, w), NEW v \in Versions, NEW f \in Farms
  PROVE  /\ Fine(s, CreateFarm(w, v, For("switcher")))
         /\ w.page = "dashboard" => Fine(s, CreateFarm(w, v, For("dashboard-new")))
         /\ Fine(s, UpdateFarm(w, f, v, For("switcher")))
         /\ Fine(s, DeleteFarm(w, f, For("switcher")))
<1>1. Resting(s, w) /\ ~w.initializing /\ w \in Webs
  BY Rested
<1>2. PICK u : u = [w EXCEPT !.saving = TRUE]
  OBVIOUS
<1>3. u \in Webs /\ Alike(w, u) /\ u.initializing = w.initializing
  BY <1>1, <1>2 DEF Webs, Alike
<1>4. ASSUME NEW r \in Calls, r.op \in {"createFarm", "updateFarm", "deleteFarm"},
             r.mounted, r.for \in {"switcher", "dashboard-new"},
             r.for = "dashboard-new" => w.page = "dashboard"
      PROVE  Fine(s, Send(u, r))
  <2>1. Sound(s, w, r)
    BY <1>4 DEF Sound, Reads, Bootstrapping, Moves, Wrote, RowOps, ConfigOps
  <2> QED
    BY <1>1, <1>3, <1>4, <2>1, RestingSent DEF Reads, Moves
<1>5. ASSUME NEW who \in {"switcher", "dashboard-new"}, who = "dashboard-new" => w.page = "dashboard"
      PROVE  Fine(s, CreateFarm(w, v, For(who)))
  <2>1. PICK r : r = Call(For(who), "createFarm", None, None, None, v)
    OBVIOUS
  <2>2. r \in Calls /\ r.op = "createFarm" /\ r.mounted /\ r.for = who
    BY <2>1 DEF Call, For, Calls, Senders, Maybe, Keys, RowOps, FarmOps, ConfigOps
  <2>3. Fine(s, Send(u, r))
    BY <1>4, <1>5, <2>2
  <2> QED
    BY <1>2, <2>1, <2>3 DEF CreateFarm
<1>6. Fine(s, UpdateFarm(w, f, v, For("switcher")))
  <2>1. PICK r : r = Call(For("switcher"), "updateFarm", None, f, None, v)
    OBVIOUS
  <2>2. r \in Calls /\ r.op = "updateFarm" /\ r.mounted /\ r.for = "switcher"
    BY <2>1 DEF Call, For, Calls, Senders, Maybe, Keys, RowOps, FarmOps, ConfigOps
  <2>3. Fine(s, Send(u, r))
    BY <1>4, <2>2
  <2> QED
    BY <1>2, <2>1, <2>3 DEF UpdateFarm
<1>7. Fine(s, DeleteFarm(w, f, For("switcher")))
  <2>1. PICK r : r = Call(For("switcher"), "deleteFarm", None, f, None, None)
    OBVIOUS
  <2>2. r \in Calls /\ r.op = "deleteFarm" /\ r.mounted /\ r.for = "switcher"
    BY <2>1 DEF Call, For, Calls, Senders, Maybe, RowOps, FarmOps, ConfigOps
  <2>3. Fine(s, Send(u, r))
    BY <1>4, <2>2
  <2> QED
    BY <1>2, <2>1, <2>3 DEF DeleteFarm
<1> QED
  BY <1>5, <1>6, <1>7

\* A row is to be written.
LEMMA WriteFine ==
  ASSUME NEW s, NEW w, Waited(s, w), NEW k \in Kinds, w.active \in Farms, w.page # "speed",
         NEW op \in RowOps, NEW id \in Maybe(Ids), op # "create" => id \in Ids,
         op = "harvest" => k = "fields" /\ w.page = "fields"
  PROVE  Fine(s, Write(w, op, k, id))
<1>1. Resting(s, w) /\ ~w.initializing /\ w \in Webs /\ RowsFit(s, w) /\ s \in Servers
  BY Rested DEF Waited
<1>2. PICK r : r = Call(For("page"), op, k, w.active, id, None)
  OBVIOUS
<1>3. /\ r \in Calls /\ r.op = op /\ r.mounted /\ r.for = "page" /\ r.farm = w.active
  BY <1>2 DEF Call, For, Calls, Senders, Maybe, RowOps, FarmOps, ConfigOps
<1>4. PICK t : t = [w.store EXCEPT ![k] = [w.store[k] EXCEPT !.failed = FALSE]]
  OBVIOUS
<1>5. /\ t \in [Kinds -> Stores]
      /\ \A j \in Kinds : t[j].farm = w.store[j].farm /\ t[j].rows = w.store[j].rows
  <2>1. w.store \in [Kinds -> Stores]
    BY <1>1 DEF Webs
  <2>2. /\ [w.store[k] EXCEPT !.failed = FALSE] \in Stores
        /\ [w.store[k] EXCEPT !.failed = FALSE].farm = w.store[k].farm
        /\ [w.store[k] EXCEPT !.failed = FALSE].rows = w.store[k].rows
    BY <2>1 DEF Stores
  <2> QED
    BY <1>4, <2>1, <2>2
<1>6. PICK u : u = [w EXCEPT !.store = t]
  OBVIOUS
<1>7. Write(w, op, k, id) = Send(u, r)
  BY <1>2, <1>4, <1>6 DEF Write
<1>8. u.store = t /\ StoresOnly(w, u)
  BY <1>1, <1>5, <1>6 DEF Webs, StoresOnly
<1>9. RowsOnly(s, s)
  BY <1>1 DEF RowsOnly
<1>10. RowsFit(s, u)
  <2>1. Fly(u) = Fly(w)
    BY <1>8, FlySame DEF StoresOnly
  <2> QED
    BY <1>1, <1>5, <1>8, <2>1 DEF RowsFit
<1>11. Resting(s, u)
  <2>1. \A j \in Kinds : u.store[j].farm = w.store[j].farm
    BY <1>5, <1>8
  <2> QED
    BY <1>1, <1>8, <1>9, <1>10, <2>1, RowsRest
<1>12. /\ u \in Webs /\ ~u.initializing /\ u.active = w.active /\ u.page = w.page
       /\ Alike(u, u)
  BY <1>1, <1>8 DEF StoresOnly, Alike
<1>13. Sound(s, u, r)
  BY <1>3, <1>12 DEF Sound, Reads, Bootstrapping, Moves, Wrote, RowOps, ConfigOps
<1>14. r.op \notin Reads \cup Moves
  BY <1>3 DEF Reads, Moves, RowOps
<1>15. Fine(s, Send(u, r))
  BY <1>3, <1>11, <1>12, <1>13, <1>14, RestingSent
<1> QED
  BY <1>7, <1>15

\* The inputs of the animal calculators change, and nothing else.
LEMMA ConfigOnly ==
  ASSUME NEW s, NEW w, Resting(s, w), NEW x \in Configs, NEW v, v = [w EXCEPT !.config = x]
  PROVE  /\ v \in Webs /\ v.config = x /\ v.active = w.active /\ v.page = w.page
         /\ v.initializing = w.initializing /\ v.calls = w.calls /\ Fly(v) = {}
         /\ InputsFit(s, v) => Resting(s, v)
<1>1. w \in Webs /\ Fly(w) = {}
  BY DEF Resting, Idle
<1>2. /\ v \in Webs /\ v.farms = w.farms /\ v.active = w.active /\ v.current = w.current
      /\ v.store = w.store /\ v.page = w.page /\ v.initializing = w.initializing
      /\ v.config = x /\ v.speed = w.speed /\ v.calls = w.calls
  BY <1>1 DEF Webs
<1>3. Fly(v) = {} /\ KeyOf(v) = KeyOf(w)
  <2>1. Fly(v) = Fly(w)
    BY <1>2, FlySame
  <2>2. KeyOf(v) = KeyOf(w)
    BY <1>2 DEF KeyOf, Version
  <2> QED
    BY <1>1, <2>1, <2>2
<1>4. FarmsFit(s, v)
  BY <1>1, <1>2, <1>3 DEF Resting, Idle, FarmsFit, Known, Pinning
<1>5. RowsFit(s, v)
  BY <1>1, <1>2, <1>3 DEF Resting, Idle, RowsFit
<1>6. SpeedFits(s, v)
  <2>1. Selected(s, w) => Selected(s, v)
    BY <1>1, <1>2 DEF Selected
  <2> QED
    BY <1>2, <2>1 DEF Resting, Idle, SpeedFits
<1>7. Idle(s, v)
  BY <1>2, <1>3, <1>4, <1>5, <1>6 DEF Resting, Idle
<1>8. Follows(v)
  BY <1>1, <1>2 DEF Resting, Follows
<1>9. Fits(v)
  BY <1>1, <1>2, <1>3 DEF Resting, Fits
<1> QED
  BY <1>2, <1>3, <1>7, <1>8, <1>9 DEF Resting

\* What the inputs are when nothing is on its way.
LEMMA InputsRest ==
  ASSUME NEW s, NEW w, Resting(s, w), w.page = "herd", w.active # None
  PROVE  w.config.inputs \in {Default, w.active} /\ Returned(s, w)
BY DEF Resting, Idle, InputsFit, Configured

LEMMA EditFine ==
  ASSUME NEW s, NEW w, Waited(s, w), w.page = "herd",
         NEW in \in {OrElse(w.active, Default)} \cup
                    {OwnerOf[id] : id \in DOMAIN w.store["stables"].rows},
         NEW dirty \in BOOLEAN, ~dirty => in = w.config.inputs /\ ~w.config.dirty
  PROVE  Fine(s, [w EXCEPT !.config.inputs = in, !.config.dirty = dirty])
<1>1. /\ Resting(s, w) /\ ~w.initializing /\ w \in Webs /\ Fly(w) = {} /\ RowsFit(s, w)
      /\ Known(s, w) /\ s \in Servers
      /\ w.active # None => w.active \in DOMAIN w.farms
  BY Rested DEF Waited
<1>2. w.active # None => in = w.active
  <2> SUFFICES ASSUME w.active # None, NEW id \in DOMAIN w.store["stables"].rows
               PROVE  OwnerOf[id] = w.active
    BY DEF OrElse
  <2>1. w.store["stables"].farm = w.active
    BY <1>1 DEF Resting, Follows, KindsOf, Following
  <2>2. w.active \in DOMAIN s.farms
    BY <1>1 DEF Known
  <2>3. "stables" \in Kinds
    BY DEF Kinds
  <2>4. w.store["stables"].rows = RowsOf(s, "stables", w.active)
    BY <1>1, <2>1, <2>2, <2>3 DEF RowsFit
  <2> QED
    BY <2>4 DEF RowsOf, Restrict
<1>3. in \in Inputs
  <2>1. \A id \in DOMAIN w.store["stables"].rows : id \in Ids
    BY <1>1 DEF Webs, Stores, RowMaps, Kinds
  <2>2. OrElse(w.active, Default) \in Inputs
    BY <1>1 DEF Webs, Maybe, OrElse, Inputs
  <2> QED
    BY <2>1, <2>2, OwnerAssumption DEF Inputs
<1> DEFINE x == [w.config EXCEPT !.inputs = in, !.dirty = dirty]
           v == [w EXCEPT !.config = x]
<1>4. /\ x \in Configs /\ x.inputs = in /\ x.dirty = dirty /\ x.saved = w.config.saved
  BY <1>1, <1>3 DEF Webs, Configs
<1>5. v = [w EXCEPT !.config.inputs = in, !.config.dirty = dirty]
  OBVIOUS
<1> HIDE DEF x
<1>6. /\ v \in Webs /\ v.config = x /\ v.active = w.active /\ v.page = w.page
      /\ v.initializing = w.initializing
      /\ InputsFit(s, v) => Resting(s, v)
  BY <1>1, <1>4, ConfigOnly
<1> HIDE DEF v
<1>7. InputsFit(s, v)
  <2> SUFFICES ASSUME w.active # None
               PROVE  v.config.inputs \in {Default, v.active} /\ Returned(s, v)
    BY <1>6 DEF InputsFit
  <2>1. w.config.inputs \in {Default, w.active} /\ Returned(s, w)
    BY <1>1, InputsRest
  <2> QED
    BY <1>2, <1>4, <1>6, <2>1 DEF Returned
<1>8. Nearly(s, v)
  BY <1>1, <1>6, <1>7, RestNearly
<1>9. Fine(s, v)
  BY <1>1, <1>6, <1>8, NearlyFine DEF Initializes
<1> QED
  BY <1>5, <1>9

\* The configuration of the farm is to be saved or dropped.
LEMMA ConfigSentFine ==
  ASSUME NEW s, NEW w, Waited(s, w), w.page = "herd", w.active # None,
         NEW r \in Calls, r.op \in ConfigOps, r.mounted, r.for = "herd",
         r.farm = w.active, r.op = "saveConfig" => r.body = w.config.inputs
  PROVE  Fine(s, Send([w EXCEPT !.config.saving = TRUE], r))
<1>1. /\ Resting(s, w) /\ ~w.initializing /\ w \in Webs
  BY Rested
<1>2. w.config.inputs \in {Default, w.active} /\ Returned(s, w)
  BY <1>1, InputsRest
<1> DEFINE x == [w.config EXCEPT !.saving = TRUE]
<1>3. x \in Configs /\ x.inputs = w.config.inputs /\ x.dirty = w.config.dirty
      /\ x.saved = w.config.saved
  BY <1>1 DEF Webs, Configs
<1> HIDE DEF x
<1>4. PICK v : v = [w EXCEPT !.config = x]
  OBVIOUS
<1>5. /\ v \in Webs /\ v.config = x /\ v.active = w.active /\ v.page = w.page
      /\ v.initializing = w.initializing
      /\ InputsFit(s, v) => Resting(s, v)
  BY <1>1, <1>3, <1>4, ConfigOnly
<1>6. Resting(s, v)
  <2>1. Returned(s, v)
    BY <1>2, <1>3, <1>5 DEF Returned
  <2>2. InputsFit(s, v)
    BY <1>2, <1>3, <1>5, <2>1 DEF InputsFit
  <2> QED
    BY <1>5, <2>2
<1>7. Sound(s, v, r)
  BY <1>2, <1>5 DEF Sound, Reads, Bootstrapping, Moves, Wrote, RowOps, ConfigOps
<1>8. r.op \notin Reads \cup Moves /\ Alike(v, v)
  BY DEF Reads, Moves, ConfigOps, Alike
<1>9. Fine(s, Send(v, r))
  BY <1>1, <1>5, <1>6, <1>7, <1>8, RestingSent
<1> QED
  BY <1>4, <1>9 DEF x

LEMMA SaveFine ==
  ASSUME NEW s, NEW w, Waited(s, w), w.page = "herd", w.active # None
  PROVE  Fine(s, Send([w EXCEPT !.config.saving = TRUE],
                      Call(For("herd"), "saveConfig", None, w.active, None,
                           w.config.inputs)))
<1>1. w.active \in Farms /\ w.config.inputs \in Inputs
  BY Rested DEF Webs, Maybe, Configs
<1>2. PICK r : r = Call(For("herd"), "saveConfig", None, w.active, None, w.config.inputs)
  OBVIOUS
<1>3. /\ r \in Calls /\ r.op = "saveConfig" /\ r.mounted /\ r.for = "herd"
      /\ r.farm = w.active /\ r.body = w.config.inputs
  BY <1>1, <1>2 DEF Call, For, Calls, Senders, Bootstrapping, Maybe, RowOps, FarmOps, ConfigOps
<1>4. Fine(s, Send([w EXCEPT !.config.saving = TRUE], r))
  BY <1>3, ConfigSentFine DEF ConfigOps
<1> QED
  BY <1>2, <1>4

LEMMA ResetFine ==
  ASSUME NEW s, NEW w, Waited(s, w), w.page = "herd", w.active # None
  PROVE  Fine(s, Reset(w))
<1>1. /\ Resting(s, w) /\ ~w.initializing /\ w \in Webs /\ s \in Servers
  BY Rested DEF Waited
<1>2. w.active \in Farms
  BY <1>1 DEF Webs, Maybe
<1>3. CASE w.config.saved
  <2>1. PICK r : r = Call(For("herd"), "dropConfig", None, w.active, None, None)
    OBVIOUS
  <2>2. /\ r \in Calls /\ r.op = "dropConfig" /\ r.mounted /\ r.for = "herd"
        /\ r.farm = w.active
    BY <1>2, <2>1 DEF Call, For, Calls, Senders, Bootstrapping, Maybe, RowOps, FarmOps, ConfigOps
  <2>3. Fine(s, Send([w EXCEPT !.config.saving = TRUE], r))
    BY <2>2, ConfigSentFine DEF ConfigOps
  <2> QED
    BY <1>3, <2>1, <2>3 DEF Reset
<1>4. CASE ~w.config.saved
  <2> DEFINE x == [w.config EXCEPT !.inputs = Default, !.saved = FALSE, !.dirty = FALSE]
  <2>1. x \in Configs /\ x.inputs = Default /\ x.dirty = FALSE /\ x.saved = FALSE
    BY <1>1 DEF Webs, Configs, Inputs
  <2>2. Reset(w) = [w EXCEPT !.config = x]
    BY <1>4 DEF Reset, Applied
  <2> HIDE DEF x
  <2>3. PICK v : v = [w EXCEPT !.config = x]
    OBVIOUS
  <2>4. /\ v \in Webs /\ v.config = x /\ v.active = w.active /\ v.page = w.page
        /\ v.initializing = w.initializing
        /\ InputsFit(s, v) => Resting(s, v)
    BY <1>1, <2>1, <2>3, ConfigOnly
  <2>5. Resting(s, v)
    <3>1. Returned(s, w)
      BY <1>1, InputsRest
    <3>2. Returned(s, v)
      BY <1>4, <2>1, <2>4, <3>1 DEF Returned, OrElse
    <3>3. InputsFit(s, v)
      BY <2>1, <2>4, <3>2 DEF InputsFit
    <3> QED
      BY <2>4, <3>3
  <2>6. Fine(s, v)
    BY <1>1, <2>4, <2>5, RestNearly, NearlyFine DEF Initializes
  <2> QED
    BY <2>2, <2>3, <2>6
<1> QED
  BY <1>3, <1>4

LEMMA SpeedPairs ==
  ASSUME NEW P, P \subseteq SpeedKinds \X Ids
  PROVE  P \subseteq Kinds \X Ids
<1>1. SpeedKinds \subseteq Kinds
  BY DEF SpeedKinds, Kinds
<1>2. SpeedKinds \X Ids \subseteq Kinds \X Ids
  BY <1>1
<1> QED
  BY <1>2

\* What the speed calculator has picked changes, and nothing else.
LEMMA SpeedOnly ==
  ASSUME NEW w \in Webs, NEW x \in Speeds, NEW v, v = [w EXCEPT !.speed = x]
  PROVE  /\ v \in Webs /\ v.farms = w.farms /\ v.active = w.active /\ v.current = w.current
         /\ v.store = w.store /\ v.page = w.page /\ v.initializing = w.initializing
         /\ v.config = w.config /\ v.speed = x /\ v.calls = w.calls /\ Fly(v) = Fly(w)
         /\ KeyOf(v) = KeyOf(w)
<1>1. /\ v \in Webs /\ v.farms = w.farms /\ v.active = w.active /\ v.current = w.current
      /\ v.store = w.store /\ v.page = w.page /\ v.initializing = w.initializing
      /\ v.config = w.config /\ v.speed = x /\ v.calls = w.calls
  BY DEF Webs
<1>2. Fly(v) = Fly(w)
  BY <1>1, FlySame
<1>3. KeyOf(v) = KeyOf(w)
  BY <1>1 DEF KeyOf, Version
<1> QED
  BY <1>1, <1>2, <1>3

\* What does not look at the selection holds as before.
LEMMA SpeedAside ==
  ASSUME NEW s, NEW w, NEW v, v.farms = w.farms, v.active = w.active,
         v.current = w.current, v.store = w.store, v.page = w.page,
         v.initializing = w.initializing, v.config = w.config,
         Fly(v) = Fly(w), KeyOf(v) = KeyOf(w)
  PROVE  /\ FarmsFit(s, w) => FarmsFit(s, v)
         /\ RowsFit(s, w) => RowsFit(s, v)
         /\ Follows(w) => Follows(v)
         /\ Fits(w) => Fits(v)
         /\ InputsFit(s, w) => InputsFit(s, v)
<1>1. FarmsFit(s, w) => FarmsFit(s, v)
  BY DEF FarmsFit, Known, Pinning
<1>2. RowsFit(s, w) => RowsFit(s, v)
  BY DEF RowsFit
<1>3. Follows(w) => Follows(v)
  BY DEF Follows
<1>4. Fits(w) => Fits(v)
  BY DEF Fits
<1>5. InputsFit(s, w) => InputsFit(s, v)
  BY DEF InputsFit, Configured, Returned
<1> QED
  BY <1>1, <1>2, <1>3, <1>4, <1>5

LEMMA ToggleFine ==
  ASSUME NEW s, NEW w, Waited(s, w), w.page = "speed", NEW k \in SpeedKinds,
         NEW id \in DOMAIN w.store[k].rows, NEW picks,
         picks \subseteq w.speed.picks \cup {<<k, id>>}
  PROVE  Fine(s, [w EXCEPT !.speed.picks = picks,
                           !.speed.timer = w.speed.timer \/ ~w.speed.hydrating])
<1>1. /\ Resting(s, w) /\ ~w.initializing /\ w \in Webs /\ Fly(w) = {}
      /\ ~w.speed.hydrating /\ RowsFit(s, w) /\ w.calls = <<>>
      /\ SpeedFits(s, w) /\ ConfigsFit(s) /\ FarmsFit(s, w)
      /\ Follows(w) /\ Fits(w) /\ InputsFit(s, w)
      /\ w.active = s.pin
  BY Rested DEF Waited, Resting, Idle, Bootstrapping
<1>2. k \in Kinds /\ k \in SpeedKinds /\ id \in Ids
  BY <1>1 DEF SpeedKinds, Kinds, Webs, Stores, RowMaps
<1>3. picks \subseteq SpeedKinds \X Ids
  BY <1>1, <1>2 DEF SpeedFits
<1>4. picks \in Selections
  BY <1>3, SpeedPairs DEF Selections
<1>t. (w.speed.timer \/ ~w.speed.hydrating) = TRUE
  BY <1>1
<1> DEFINE x == [w.speed EXCEPT !.picks = picks, !.timer = TRUE]
           v == [w EXCEPT !.speed = x]
<1>5. /\ x \in Speeds /\ x.picks = picks /\ x.timer /\ ~x.hydrating
      /\ x.farm = w.speed.farm
  BY <1>1, <1>4 DEF Webs, Speeds
<1>6. v = [w EXCEPT !.speed.picks = picks,
                    !.speed.timer = w.speed.timer \/ ~w.speed.hydrating]
  BY <1>t
<1> HIDE DEF x
<1>7. /\ v \in Webs /\ v.farms = w.farms /\ v.active = w.active /\ v.current = w.current
      /\ v.store = w.store /\ v.page = w.page /\ v.initializing = w.initializing
      /\ v.config = w.config /\ v.speed = x /\ v.calls = w.calls /\ Fly(v) = Fly(w)
      /\ KeyOf(v) = KeyOf(w)
  BY <1>1, <1>5, SpeedOnly
<1> HIDE DEF v
<1>8. FarmsFit(s, v) /\ RowsFit(s, v) /\ Follows(v) /\ Fits(v) /\ InputsFit(s, v)
  BY <1>1, <1>7, SpeedAside
<1>9. ASSUME NoneGone(s), w.speed.farm # None
      PROVE  Selected(s, v)
  <2>1. w.store[k].farm = w.speed.farm /\ w.speed.farm \in Farms
    BY <1>1, <1>2, <1>9 DEF SpeedFits, Webs, Speeds, Maybe
  <2>2. <<"farm", w.speed.farm>> \notin s.gone
    BY <1>9, <2>1 DEF NoneGone
  <2>3. w.store[k].rows = RowsOf(s, k, w.speed.farm)
    BY <1>1, <1>2, <1>9, <2>1, <2>2 DEF RowsFit
  <2>4. <<k, id>> \in Own(s, w.speed.farm)
    BY <1>2, <2>3 DEF Own
  <2>5. w.speed.picks \subseteq Own(s, w.speed.farm)
    BY <1>1, <1>9 DEF SpeedFits, Selected
  <2> QED
    BY <1>5, <1>7, <2>4, <2>5 DEF Selected
<1>10. SpeedFits(s, v)
  <2>1. \A kind \in SpeedKinds : w.speed.farm # None => w.store[kind].farm = w.speed.farm
    BY <1>1 DEF SpeedFits
  <2>2. w.speed.farm # None => (NoneGone(s) => w.active # None)
    BY <1>1 DEF SpeedFits
  <2>3. \A f \in Farms : s.picks[f] # None => s.picks[f] \subseteq SpeedKinds \X Ids
    BY <1>1 DEF SpeedFits
  <2> QED
    BY <1>3, <1>5, <1>7, <1>9, <2>1, <2>2, <2>3 DEF SpeedFits
<1>11. Orderly(s, v)
  BY <1>1, <1>7 DEF Orderly, Unlisted
<1>12. Shown(s, v)
  BY <1>1, <1>7, <1>8 DEF Shown
<1>13. Initializes(v)
  BY <1>1, <1>7 DEF Initializes
<1> QED
  BY <1>1, <1>6, <1>8, <1>10, <1>11, <1>12, <1>13 DEF Fine

\* The timer of the automatic save has run out.
LEMMA TimerFine ==
  ASSUME NEW s \in Servers, NEW w, Coherent(w, "nothing"), Fine(s, w), w.speed.timer
  PROVE  Fine(s, Persist([w EXCEPT !.speed.timer = FALSE], w.speed.picks))
<1>1. w \in Webs /\ SpeedFlag(w)
  BY DEF Coherent
<1>2. w.calls = <<>> /\ w.page = "speed" /\ Fly(w) = {}
  BY <1>1, FlyCalls DEF Fine, Orderly
<1>3. /\ SpeedFits(s, w) /\ ConfigsFit(s) /\ FarmsFit(s, w) /\ RowsFit(s, w)
      /\ Follows(w) /\ Fits(w) /\ InputsFit(s, w) /\ w.active = s.pin
      /\ ~w.initializing
  BY <1>2 DEF Fine, Shown, Moving, Bootstrapping, Initializes
<1>4. ~w.speed.hydrating
  BY <1>2, <1>3 DEF SpeedFits
<1> DEFINE x == [w.speed EXCEPT !.timer = FALSE]
           v == [w EXCEPT !.speed = x]
<1>5. /\ x \in Speeds /\ x.picks = w.speed.picks /\ ~x.timer /\ ~x.hydrating
      /\ x.farm = w.speed.farm
  BY <1>1, <1>4 DEF Webs, Speeds
<1>6. v = [w EXCEPT !.speed.timer = FALSE]
  OBVIOUS
<1> HIDE DEF x
<1>7. /\ v \in Webs /\ v.farms = w.farms /\ v.active = w.active /\ v.current = w.current
      /\ v.store = w.store /\ v.page = w.page /\ v.initializing = w.initializing
      /\ v.config = w.config /\ v.speed = x /\ v.calls = w.calls /\ Fly(v) = Fly(w)
      /\ KeyOf(v) = KeyOf(w)
  BY <1>1, <1>5, SpeedOnly
<1> HIDE DEF v
<1>8. FarmsFit(s, v) /\ RowsFit(s, v) /\ Follows(v) /\ Fits(v) /\ InputsFit(s, v)
  BY <1>3, <1>7, SpeedAside
<1>9. /\ \A f \in Farms : s.picks[f] # None => s.picks[f] \subseteq SpeedKinds \X Ids
      /\ w.speed.picks \subseteq SpeedKinds \X Ids
  BY <1>3 DEF SpeedFits
<1>10. w.speed.farm # None =>
         /\ \A k \in SpeedKinds : w.store[k].farm = w.speed.farm
         /\ NoneGone(s) => w.active # None
         /\ NoneGone(s) => w.speed.picks \subseteq Own(s, w.speed.farm)
  BY <1>2, <1>3, <1>4 DEF SpeedFits, Selected
<1>11. CASE w.active = None
  <2>1. Persist(v, w.speed.picks) = v
    BY <1>7, <1>11 DEF Persist
  <2>2. SpeedFits(s, v)
    BY <1>5, <1>7, <1>9, <1>10, <1>11 DEF SpeedFits
  <2>3. Orderly(s, v)
    BY <1>2, <1>5, <1>7 DEF Orderly, Unlisted
  <2>4. Shown(s, v) /\ Initializes(v)
    BY <1>3, <1>7, <1>8 DEF Shown, Initializes
  <2>5. Fine(s, v)
    BY <1>3, <1>8, <2>2, <2>3, <2>4 DEF Fine
  <2> QED
    BY <1>6, <2>1, <2>5
<1>12. CASE w.active # None
  <2>1. w.active \in Farms /\ w.speed.picks \in Selections
    BY <1>1, <1>12 DEF Webs, Maybe, Speeds
  <2>2. PICK r : r = Call(For("page"), "saveState", None, w.active, None, w.speed.picks)
    OBVIOUS
  <2>3. /\ r \in Calls /\ r.op = "saveState" /\ r.mounted /\ r.for = "page"
        /\ r.farm = w.active /\ r.body = w.speed.picks
    BY <2>1, <2>2 DEF Call, For, Calls, Senders, Maybe, RowOps, FarmOps, ConfigOps
  <2>4. Persist(v, w.speed.picks) = Send(v, r)
    BY <1>7, <1>12, <2>2 DEF Persist
  <2>5. PICK u : u = Send(v, r)
    OBVIOUS
  <2>6. /\ u.farms = v.farms /\ u.active = v.active /\ u.store = v.store
        /\ u.page = v.page /\ u.speed = v.speed /\ u.initializing = v.initializing
    BY <1>7, <2>5, SentFields
  <2>7. r \in Fly(u)
    BY <1>7, <2>3, <2>5, FlySent
  <2>8. NoneGone(s) /\ w.speed.farm # None => Selected(s, u)
    BY <1>5, <1>7, <1>10, <2>3, <2>6, <2>7 DEF Selected
  <2>9. SpeedFits(s, u)
    BY <1>5, <1>7, <1>9, <1>10, <2>6, <2>8 DEF SpeedFits
  <2>10. Sound(s, v, r)
    BY <1>2, <1>5, <1>7, <2>3
       DEF Sound, Reads, Bootstrapping, Moves, Wrote, RowOps, ConfigOps
  <2>11. r.op \notin Reads /\ r.op # "pin" /\ Alike(v, v) /\ Known(s, v)
    BY <1>8, <2>3 DEF Reads, Alike, FarmsFit
  <2>12. Fly(v) = {} /\ ~v.speed.timer /\ (v.initializing => v.page = "dashboard")
         /\ (v.page \in Bootstrapping => v.active = s.pin)
    BY <1>2, <1>3, <1>5, <1>7
  <2>13. Nearly(s, Send(v, r))
    BY <1>3, <1>7, <1>8, <2>3, <2>5, <2>9, <2>10, <2>11, <2>12, SentNearly
  <2>14. Fine(s, u)
    BY <1>3, <1>7, <2>5, <2>6, <2>13, NearlyFine DEF Initializes
  <2> QED
    BY <1>6, <2>4, <2>5, <2>14
<1> QED
  BY <1>11, <1>12

\* A tab that is opened has nothing yet.
LEMMA NewTabFine ==
  ASSUME NEW s \in Servers, NEW page \in Pages, ConfigsFit(s),
         s.pin \in DOMAIN s.farms \cup {None},
         \A f \in DOMAIN s.farms : <<"farm", f>> \notin s.gone,
         \A f \in Farms : s.picks[f] # None => s.picks[f] \subseteq SpeedKinds \X Ids
  PROVE  Fine(s, Mounted(NewTab, page))
<1>1. PICK store : store = [k \in Kinds |-> EmptyStore]
  OBVIOUS
<1>2. \A k \in Kinds : store[k].farm = None
  BY <1>1 DEF EmptyStore
<1> DEFINE Tabs == [farms : {Nothing}, active : {None}, saving : {FALSE}, cached : {{}},
                    current : {None}, store : {store}, page : Pages \cup {None},
                    initializing : BOOLEAN, config : {NewConfig},
                    speed : {NewSpeed}, calls : {<<>>}]
<1>3. NewTab = [farms |-> Nothing, active |-> None, saving |-> FALSE, cached |-> {},
                current |-> None, store |-> store, page |-> None,
                initializing |-> FALSE, config |-> NewConfig,
                speed |-> NewSpeed, calls |-> <<>>]
  BY <1>1 DEF NewTab
<1>4. NewTab \in Tabs
  BY <1>3
<1>5. PICK m : m = Fresh(NewTab, page)
  OBVIOUS
<1>6. /\ m.farms = Nothing /\ m.active = None /\ m.store = store /\ m.calls = <<>>
      /\ m.config = NewConfig /\ m.speed = NewSpeed
      /\ m.initializing <=> page = "dashboard"
  BY <1>4, <1>5 DEF Fresh
<1>7. Coherent(m, "speed") /\ m.page = page
  BY <1>5, NewTabCoheres
<1>8. Fly(m) = {}
  BY <1>6 DEF Fly
<1>9. FarmsFit(s, m)
  <2>1. DOMAIN m.farms = {}
    BY <1>6 DEF Nothing
  <2> QED
    BY <1>6, <2>1 DEF FarmsFit, Known
<1>10. RowsFit(s, m)
  BY <1>2, <1>6, NoneIsNoFarm DEF RowsFit
<1> QED
  BY <1>5, <1>6, <1>7, <1>8, <1>9, <1>10, MountedFine

\* A page that is left by a user who has waited leaves nothing behind.
LEMMA LeftFine ==
  ASSUME NEW s, NEW w, Waited(s, w), NEW page \in Pages
  PROVE  Fine(s, Mounted(Left(w), page))
<1>1. s \in Servers /\ Coherent(w, "nothing") /\ w.calls = <<>> /\ ~w.speed.timer
      /\ w \in Webs /\ FarmsFit(s, w) /\ RowsFit(s, w) /\ ConfigsFit(s) /\ Fly(w) = {}
      /\ SpeedFits(s, w)
  BY Rested DEF Waited, Fine
<1>2. PICK unseen : unseen = [i \in DOMAIN w.calls |-> [w.calls[i] EXCEPT !.mounted = FALSE]]
  OBVIOUS
<1>3. Left(w) = [w EXCEPT !.calls = unseen]
  BY <1>1, <1>2 DEF Left
<1>4. PICK m : m = Fresh(Left(w), page)
  OBVIOUS
<1>5. /\ m.farms = w.farms /\ m.active = w.active /\ m.store = w.store /\ m.calls = unseen
      /\ m.config = NewConfig /\ m.speed = NewSpeed
      /\ m.initializing <=> page = "dashboard"
  BY <1>1, <1>3, <1>4 DEF Fresh, Webs
<1>6. Coherent(m, "speed") /\ m.page = page
  BY <1>1, <1>4, LeftCoheres
<1>7. Fly(m) = {}
  <2>1. DOMAIN unseen = {}
    BY <1>1, <1>2
  <2> QED
    BY <1>5, <2>1 DEF Fly
<1>8. FarmsFit(s, m)
  BY <1>1, <1>5, <1>7 DEF FarmsFit, Known, Pinning
<1>9. RowsFit(s, m)
  BY <1>1, <1>5, <1>7 DEF RowsFit
<1>10. \A f \in Farms : s.picks[f] # None => s.picks[f] \subseteq SpeedKinds \X Ids
  BY <1>1 DEF SpeedFits
<1> QED
  BY <1>1, <1>4, <1>5, <1>6, <1>7, <1>8, <1>9, <1>10, MountedFine

LEMMA TabReloadedFine ==
  ASSUME NEW s, NEW w, Waited(s, w), NEW page \in Pages
  PROVE  Fine(s, Mounted(NewTab, page))
<1>1. s \in Servers /\ ConfigsFit(s) /\ Known(s, w) /\ SpeedFits(s, w)
  BY DEF Waited, Fine, FarmsFit
<1>2. \A f \in Farms : s.picks[f] # None => s.picks[f] \subseteq SpeedKinds \X Ids
  BY <1>1 DEF SpeedFits
<1>3. s.pin \in DOMAIN s.farms \cup {None} /\ \A f \in DOMAIN s.farms : <<"farm", f>> \notin s.gone
  BY <1>1 DEF Known
<1> QED
  BY <1>1, <1>2, <1>3, NewTabFine

LEMMA PatientInit ==
  ASSUME Init
  PROVE  PatientInv
<1>1. server \in Servers
  BY ScreensInit DEF ScreensInv
<1>2. PICK farms \in {Farms, {Min(Farms)}} : \E pin \in farms \cup {None} :
        LET there(f) == {i \in First : OwnerOf[i] = f /\ f \in farms}
        IN server = [farms |-> Restrict(VersionOf, farms), pin |-> pin, gone |-> {},
                     rows |-> [k \in Kinds |->
                                 [id \in UNION {there(f) : f \in farms} |-> 0]],
                     configs |-> [f \in Farms |-> IF f \in farms THEN f ELSE None],
                     picks |-> [f \in Farms |-> IF f \notin farms THEN None
                                  ELSE {<<"machinery", i>> : i \in there(f)}]]
  BY DEF Init, InitServer
<1>3. PICK pin \in farms \cup {None} :
        LET there(f) == {i \in First : OwnerOf[i] = f /\ f \in farms}
        IN server = [farms |-> Restrict(VersionOf, farms), pin |-> pin, gone |-> {},
                     rows |-> [k \in Kinds |->
                                 [id \in UNION {there(f) : f \in farms} |-> 0]],
                     configs |-> [f \in Farms |-> IF f \in farms THEN f ELSE None],
                     picks |-> [f \in Farms |-> IF f \notin farms THEN None
                                  ELSE {<<"machinery", i>> : i \in there(f)}]]
  BY <1>2
<1> DEFINE there(f) == {i \in First : OwnerOf[i] = f /\ f \in farms}
           configs == [f \in Farms |-> IF f \in farms THEN f ELSE None]
           picks == [f \in Farms |-> IF f \notin farms THEN None
                       ELSE {<<"machinery", i>> : i \in there(f)}]
<1>4. PICK rows : rows = [k \in Kinds |-> [id \in UNION {there(f) : f \in farms} |-> 0]]
  OBVIOUS
<1>5. server = [farms |-> Restrict(VersionOf, farms), pin |-> pin, gone |-> {},
                rows |-> rows, configs |-> configs, picks |-> picks]
  BY <1>3, <1>4
<1>6. \A f \in Farms : configs[f] \in {None, f}
  OBVIOUS
<1>7. \A f \in Farms : picks[f] # None => picks[f] \subseteq SpeedKinds \X Ids
  BY OpenedAssumption DEF SpeedKinds
<1>8. DOMAIN Restrict(VersionOf, farms) = farms
  <2>1. farms \subseteq Farms
    <3>1. Min(Farms) \in Farms
      BY FarmsAssumption, OpenedAssumption, MinIn
    <3> QED
      BY <3>1
  <2> QED
    BY <2>1, OpenedAssumption DEF Restrict
<1> HIDE DEF configs, picks
<1>9. /\ ConfigsFit(server) /\ server.pin \in DOMAIN server.farms \cup {None}
      /\ server.gone = {}
      /\ \A f \in Farms : server.picks[f] # None => server.picks[f] \subseteq SpeedKinds \X Ids
  BY <1>5, <1>6, <1>7, <1>8 DEF ConfigsFit
<1>10. PICK page \in Pages : web = Mounted(NewTab, page)
  BY DEF Init
<1>11. Fine(server, web)
  BY <1>1, <1>9, <1>10, NewTabFine
<1> QED
  BY <1>11 DEF Init, PatientInv

\* What a step of the API does to the pin.
LEMMA PinStep ==
  ASSUME NEW s \in Servers, NEW w, Fine(s, w), NEW c \in Calls, c \in Fly(w),
         NEW s1, s1 \in {s, CarriedOut(s, c)}, s1.pin = None
  PROVE  s.pin \notin DOMAIN s1.farms
<1>0. s1 \in Servers
  BY CarriedOutTyped
<1>1. CASE s.pin = None
  BY <1>0, <1>1, NoneIsNoFarm
<1>2. CASE s.pin # None
  <2>1. s1 = CarriedOut(s, c) /\ s1 # s /\ ~Refused(s, c)
    BY <1>2 DEF CarriedOut
  <2>2. CASE c.op = "pin"
    <3>1. s1.pin = c.farm
      BY <2>1, <2>2, SMTT(30) DEF CarriedOut, Servers
    <3>2. Sound(s, w, c)
      BY DEF Fine, Orderly
    <3>3. Repins(s, w, c)
      BY <2>2, <3>2 DEF Sound, Moved, Moves, Reads
    <3> QED
      BY <1>2, <3>1, <3>3 DEF Repins
  <2>3. CASE c.op = "deleteFarm"
    <3>1. /\ s1.farms = Without(s.farms, {c.farm})
          /\ s1.pin = IF s.pin = c.farm THEN None ELSE s.pin
      BY <2>1, <2>3, SMTT(30) DEF CarriedOut
    <3> QED
      BY <1>2, <3>1 DEF Without, Restrict
  <2>4. CASE c.op \in {"createFarm", "updateFarm"}
    <3>1. s1.pin = s.pin
      BY <2>1, <2>4, SMTT(30) DEF CarriedOut, Servers
    <3> QED
      BY <1>2, <3>1
  <2>5. CASE c.op \in {"create", "update", "remove", "harvest"}
    <3>1. s1.pin = s.pin
      BY <2>1, <2>5, RowMade, RowUpdated, RowRemoved DEF RowsOnly
    <3> QED
      BY <1>2, <3>1
  <2>6. CASE c.op \in {"saveConfig", "dropConfig", "saveState"}
    <3>1. s1.pin = s.pin
      BY <2>1, <2>6, SMTT(30) DEF CarriedOut, Servers
    <3> QED
      BY <1>2, <3>1
  <2>7. CASE c.op \notin {"pin", "deleteFarm", "createFarm", "updateFarm", "create", "update",
                          "remove", "harvest", "saveConfig", "dropConfig", "saveState"}
    BY <2>1, <2>7, SMTT(30) DEF CarriedOut
  <2> QED
    BY <2>2, <2>3, <2>4, <2>5, <2>6, <2>7
<1> QED
  BY <1>1, <1>2

\* All of the invariant.
PatientNow == ScreensInv /\ PatientInv

\* Whoever waits acts on a tab that is at rest.
LEMMA ActFine ==
  ASSUME PatientNow, NEW w, Act(w),
         Waited(server, web) => Fine(server, w)
  PROVE  PatientInv'
<1>1. /\ server' = server /\ web' = w /\ patient' = patient /\ lost' = lost
      /\ patient => web.calls = <<>> /\ ~web.speed.timer
  BY DEF Act, Quiet
<1>2. ASSUME patient, lost = 0 PROVE Fine(server, w)
  BY <1>1, <1>2 DEF PatientNow, PatientInv, ScreensInv, Waited
<1> QED
  BY <1>1, <1>2 DEF PatientNow, PatientInv

LEMMA PatientNext ==
  ASSUME PatientNow, [Next]_vars
  PROVE  PatientNow'
<1>0. /\ server \in Servers /\ Coherent(web, "nothing") /\ web \in Webs
      /\ ScreensInv' /\ PatientInv
  BY ScreensNext DEF PatientNow, ScreensInv, Coherent
<1>a. /\ web.active # None => web.active \in Farms
      /\ \A f \in DOMAIN web.farms : f \in Farms /\ web.farms[f] \in Versions
  BY <1>0, InFarms
<1>b. \A k \in Kinds : \A id \in DOMAIN web.store[k].rows : id \in Ids
  BY <1>0 DEF Webs, Stores, RowMaps
<1> SUFFICES PatientInv'
  BY <1>0 DEF PatientNow
<1>1. CASE Answer
  <2>1. PICK i \in Answerable :
          /\ web' = After(i, Answered(server, web.calls[i]))
          /\ server' = CarriedOut(server, web.calls[i])
    BY <1>1 DEF Answer
  <2>2. patient' = patient /\ lost' = lost
    BY <1>1 DEF Answer
  <2>3. PICK c : c = web.calls[i]
    OBVIOUS
  <2>4. PICK u : u = [web EXCEPT !.calls = RemoveAt(web.calls, i)]
    OBVIOUS
  <2>5. i \in DOMAIN web.calls /\ c.kind # "wait"
    BY <2>1, <2>3 DEF Answerable
  <2>6. web' = Settle(Effect(u, c, Answered(server, c)))
    BY <2>1, <2>3, <2>4 DEF After
  <2>7. ASSUME patient, lost = 0 PROVE Fine(server', web')
    <3>1. Answering(server, web, c, u)
      BY <1>0, <2>3, <2>4, <2>5, <2>7 DEF Answering, PatientNow, PatientInv
    <3> QED
      BY <2>1, <2>3, <2>6, <3>1, AnswerFine
  <2> QED
    BY <1>0, <2>2, <2>7 DEF PatientInv
<1>2. CASE Lose
  BY <1>0, <1>2 DEF Lose, PatientInv
<1>3. CASE SaveTimer
  <2>1. /\ web' = Persist([web EXCEPT !.speed.timer = FALSE], web.speed.picks)
        /\ server' = server /\ patient' = patient /\ lost' = lost /\ web.speed.timer
    BY <1>3 DEF SaveTimer
  <2>2. ASSUME patient, lost = 0 PROVE Fine(server, web')
    BY <1>0, <2>1, <2>2, TimerFine DEF PatientNow, PatientInv
  <2> QED
    BY <1>0, <2>1, <2>2 DEF PatientInv
<1>4. CASE OpenPage
  <2>1. PICK page \in Pages : Act(Mounted(Left(web), page))
    BY <1>4 DEF OpenPage
  <2>2. Waited(server, web) => Fine(server, Mounted(Left(web), page))
    BY LeftFine
  <2> QED
    BY <2>1, <2>2, ActFine
<1>5. CASE ReloadTab
  <2>1. PICK page \in Pages : Act(Mounted(NewTab, page))
    BY <1>5 DEF ReloadTab
  <2>2. Waited(server, web) => Fine(server, Mounted(NewTab, page))
    BY TabReloadedFine
  <2> QED
    BY <2>1, <2>2, ActFine
<1>6. CASE SelectFarm
  <2>1. PICK f \in DOMAIN web.farms \ {web.active} :
          Act(SetActiveFarm(web, f, web.farms[f], For("switcher")))
    BY <1>6 DEF SelectFarm
  <2>2. Waited(server, web) => Fine(server, SetActiveFarm(web, f, web.farms[f], For("switcher")))
    BY SelectFine
  <2> QED
    BY <2>1, <2>2, ActFine
<1>7. CASE ManageFarm
  <2>1. PICK v \in Versions :
          \/ Act(CreateFarm(web, v, For("switcher")))
          \/ /\ web.page = "dashboard"
             /\ Act(CreateFarm(web, v, For("dashboard-new")))
          \/ \E f \in DOMAIN web.farms : Act(UpdateFarm(web, f, v, For("switcher")))
          \/ \E f \in DOMAIN web.farms : Act(DeleteFarm(web, f, For("switcher")))
    BY <1>7 DEF ManageFarm
  <2>2. PICK any \in Farms : TRUE
    BY OpenedAssumption
  <2>3. Waited(server, web) => Fine(server, CreateFarm(web, v, For("switcher")))
    BY <2>2, ManageFine
  <2>4. web.page = "dashboard" =>
          (Waited(server, web) => Fine(server, CreateFarm(web, v, For("dashboard-new"))))
    BY <2>2, ManageFine
  <2>5. \A f \in DOMAIN web.farms :
          /\ Waited(server, web) => Fine(server, UpdateFarm(web, f, v, For("switcher")))
          /\ Waited(server, web) => Fine(server, DeleteFarm(web, f, For("switcher")))
    BY <1>a, ManageFine
  <2> QED
    BY <2>1, <2>3, <2>4, <2>5, ActFine
<1>8. CASE WriteRow
  <2>1. /\ web.active \in Farms
        /\ web.page \in {"fields", "stables", "machinery", "production"}
    BY <1>8, <1>a DEF WriteRow
  <2>2. KindsOf(web.page) \subseteq Kinds /\ web.page # "speed"
    BY <2>1 DEF KindsOf, Kinds
  <2>3. PICK k \in KindsOf(web.page) :
          \/ Act(Write(web, "create", k, None))
          \/ \E id \in DOMAIN web.store[k].rows, op \in {"update", "remove"} :
               Act(Write(web, op, k, id))
          \/ /\ k = "fields"
             /\ \E id \in DOMAIN web.store[k].rows : Act(Write(web, "harvest", k, id))
    BY <1>8 DEF WriteRow
  <2>4. k \in Kinds /\ None \in Maybe(Ids) /\ \A id \in Ids : id \in Maybe(Ids)
    BY <2>2 DEF Maybe
  <2>5. CASE Act(Write(web, "create", k, None))
    <3>1. Waited(server, web) => Fine(server, Write(web, "create", k, None))
      BY <2>1, <2>2, <2>4, WriteFine DEF RowOps
    <3> QED
      BY <2>5, <3>1, ActFine
  <2>6. CASE \E id \in DOMAIN web.store[k].rows, op \in {"update", "remove"} :
               Act(Write(web, op, k, id))
    <3>1. PICK id \in DOMAIN web.store[k].rows, op \in {"update", "remove"} :
            Act(Write(web, op, k, id))
      BY <2>6
    <3>2. id \in Ids /\ id \in Maybe(Ids) /\ op \in RowOps
      BY <1>b, <2>4 DEF RowOps
    <3>3. Waited(server, web) => Fine(server, Write(web, op, k, id))
      BY <2>1, <2>2, <2>4, <3>2, WriteFine
    <3> QED
      BY <3>1, <3>3, ActFine
  <2>7. CASE k = "fields" /\ \E id \in DOMAIN web.store[k].rows :
               Act(Write(web, "harvest", k, id))
    <3>1. PICK id \in DOMAIN web.store[k].rows : Act(Write(web, "harvest", k, id))
      BY <2>7
    <3>2. id \in Ids /\ id \in Maybe(Ids) /\ "harvest" \in RowOps
      BY <1>b, <2>4 DEF RowOps
    <3>3. web.page = "fields"
      BY <2>1, <2>3, <2>7 DEF KindsOf
    <3>4. Waited(server, web) => Fine(server, Write(web, "harvest", k, id))
      BY <2>1, <2>2, <2>4, <2>7, <3>2, <3>3, WriteFine
    <3> QED
      BY <3>1, <3>4, ActFine
  <2> QED
    BY <2>3, <2>5, <2>6, <2>7
<1>9. CASE EditConfig
  <2> DEFINE in == OrElse(web.active, Default)
  <2>1. PICK dirty : dirty = ((in # web.config.inputs) \/ web.config.dirty)
    OBVIOUS
  <2>2. web.page = "herd" /\ Act([web EXCEPT !.config.inputs = in, !.config.dirty = dirty])
    BY <1>9, <2>1 DEF EditConfig
  <2>3. dirty \in BOOLEAN /\ (~dirty => in = web.config.inputs /\ ~web.config.dirty)
    BY <2>1
  <2>4. Waited(server, web) =>
          Fine(server, [web EXCEPT !.config.inputs = in, !.config.dirty = dirty])
    BY <2>2, <2>3, EditFine
  <2> QED
    BY <2>2, <2>4, ActFine
<1>10. CASE LinkStable
  <2>1. PICK id \in DOMAIN web.store["stables"].rows :
          Act([web EXCEPT !.config.inputs = OwnerOf[id], !.config.dirty = TRUE])
    BY <1>10 DEF LinkStable
  <2>2. web.page = "herd" /\ TRUE \in BOOLEAN
    BY <1>10 DEF LinkStable
  <2>3. Waited(server, web) =>
          Fine(server, [web EXCEPT !.config.inputs = OwnerOf[id], !.config.dirty = TRUE])
    BY <2>2, EditFine
  <2> QED
    BY <2>1, <2>3, ActFine
<1>11. CASE SaveConfig
  <2>1. /\ web.page = "herd" /\ web.active # None
        /\ Act(Send([web EXCEPT !.config.saving = TRUE],
                    Call(For("herd"), "saveConfig", None, web.active, None,
                         web.config.inputs)))
    BY <1>11 DEF SaveConfig, Configuring
  <2> QED
    BY <2>1, SaveFine, ActFine
<1>12. CASE ResetConfig
  <2>1. web.page = "herd" /\ web.active # None /\ Act(Reset(web))
    BY <1>12 DEF ResetConfig, Configuring
  <2> QED
    BY <2>1, ResetFine, ActFine
<1>13. CASE Toggle
  <2>0. PICK k \in {"fields", "machinery"} : \E id \in DOMAIN web.store[k].rows :
          LET picks == web.speed.picks
              others == IF k = "fields" THEN {p \in picks : p[1] # k} ELSE picks
          IN Act([web EXCEPT
               !.speed.picks = IF <<k, id>> \in picks THEN picks \ {<<k, id>>}
                                                      ELSE others \cup {<<k, id>>},
               !.speed.timer = @ \/ ~web.speed.hydrating])
    BY <1>13 DEF Toggle
  <2>1. PICK id \in DOMAIN web.store[k].rows :
          LET picks == web.speed.picks
              others == IF k = "fields" THEN {p \in picks : p[1] # k} ELSE picks
          IN Act([web EXCEPT
               !.speed.picks = IF <<k, id>> \in picks THEN picks \ {<<k, id>>}
                                                      ELSE others \cup {<<k, id>>},
               !.speed.timer = @ \/ ~web.speed.hydrating])
    BY <2>0
  <2> DEFINE picks == web.speed.picks
             others == IF k = "fields" THEN {p \in picks : p[1] # k} ELSE picks
  <2>2. PICK new : new = IF <<k, id>> \in picks THEN picks \ {<<k, id>>}
                         ELSE others \cup {<<k, id>>}
    OBVIOUS
  <2>3. new \subseteq web.speed.picks \cup {<<k, id>>}
    BY <2>2
  <2>4. Act([web EXCEPT !.speed.picks = new,
                        !.speed.timer = web.speed.timer \/ ~web.speed.hydrating])
    BY <2>1, <2>2
  <2>5. web.page = "speed" /\ k \in SpeedKinds
    BY <1>13 DEF Toggle, SpeedKinds
  <2>6. Waited(server, web) =>
          Fine(server, [web EXCEPT !.speed.picks = new,
                                   !.speed.timer = web.speed.timer \/ ~web.speed.hydrating])
    BY <2>3, <2>5, ToggleFine
  <2> QED
    BY <2>4, <2>6, ActFine
<1>14. CASE UNCHANGED vars
  BY <1>14 DEF vars, PatientNow, PatientInv
<1> QED
  BY <1>1, <1>2, <1>3, <1>4, <1>5, <1>6, <1>7, <1>8, <1>9, <1>10, <1>11, <1>12, <1>13,
     <1>14 DEF PatientNow, Next

\* The invariant holds of every behaviour: whatever the pages, the switcher, the
\* dialogs and the calculators set off, a user who waits finds the tab in order.
THEOREM PatientTabIsFine == Spec => []PatientNow
<1>1. Init => PatientNow
  BY ScreensInit, PatientInit DEF PatientNow
<1>2. PatientNow /\ [Next]_vars => PatientNow'
  BY PatientNext
<1> QED
  BY <1>1, <1>2, PTL DEF Spec

\* What the parts of the properties ask of a tab that is at rest.
LEMMA SettledIsWaited ==
  ASSUME PatientNow, Settled
  PROVE  Waited(server, web)
BY DEF PatientNow, ScreensInv, PatientInv, Settled, Quiet, Waited

LEMMA FineIsOfOneFarm ==
  ASSUME PatientNow, Settled
  PROVE  ScreenIsOfOneFarm
<1>1. Waited(server, web)
  BY SettledIsWaited
<1>2. /\ Resting(server, web) /\ Fly(web) = {} /\ RowsFit(server, web) /\ Known(server, web)
      /\ web.active # None => web.active = server.pin /\ web.active \in DOMAIN web.farms
  BY <1>1, Rested
<1>3. StoresMirrorTheirFarm
  BY <1>2 DEF StoresMirrorTheirFarm, RowsFit
<1>4. FollowersFollow
  BY <1>2 DEF FollowersFollow, Resting, Follows
<1>5. CatalogFitsTheFarm
  <2> SUFFICES ASSUME web.page \in Fitting, web.active # None
               PROVE  web.current = server.farms[web.active]
    BY DEF CatalogFitsTheFarm, Fitting
  <2>1. web.current = KeyOf(web)
    BY <1>2 DEF Resting, Fits
  <2>2. KeyOf(web) = web.farms[web.active]
    BY <1>1, <1>2, KeyIsAKey DEF Waited
  <2> QED
    BY <1>2, <2>1, <2>2 DEF Known
<1>6. PinIsTheActiveFarm
  BY <1>2 DEF PinIsTheActiveFarm, Resting, Idle
<1> QED
  BY <1>3, <1>4, <1>5, <1>6 DEF ScreenIsOfOneFarm

LEMMA FineInputsComeBack ==
  ASSUME PatientNow
  PROVE  SavedInputsComeBack
<1>1. ConfigsAreTheFarmsOwn
  BY DEF PatientNow, PatientInv, Fine, ConfigsFit, ConfigsAreTheFarmsOwn
<1>2. CalculatorShowsWhatIsSaved
  <2> SUFFICES ASSUME Settled, web.page = "herd", ~web.config.dirty, web.active # None
               PROVE  web.config.inputs = OrElse(server.configs[web.active], Default)
    BY DEF CalculatorShowsWhatIsSaved
  <2>1. Resting(server, web)
    BY SettledIsWaited, Rested
  <2> QED
    BY <2>1, InputsRest DEF Returned
<1>3. SelectionIsTheSavedOne
  <2> SUFFICES ASSUME Settled, web.page = "speed", web.speed.farm = web.active,
                      web.active # None, NoneGone(server)
               PROVE  \E f \in Farms :
                        web.speed.picks = OrElse(server.picks[f], {})
                                            \cap Own(server, web.active)
    BY DEF SelectionIsTheSavedOne, NoneGone, Own
  <2>1. Waited(server, web)
    BY SettledIsWaited
  <2>2. ~web.speed.hydrating /\ Fly(web) = {} /\ ~web.speed.timer
    BY <2>1, Rested DEF Waited
  <2>3. Selected(server, web)
    BY <2>1, <2>2 DEF Waited, Fine, SpeedFits
  <2> QED
    BY <2>2, <2>3 DEF Selected
<1> QED
  BY <1>1, <1>2, <1>3 DEF SavedInputsComeBack

\* For the user who waits, as long as no call is lost: when nothing is loading or
\* saving, the stores show what the API has, the pages that follow the active farm
\* show its rows, projections use the catalog of its version, and the active farm
\* is the one that is pinned (ensureActive, setActiveFarm, the watchers of the pages,
\* the callbacks of the dialogs for farms).
THEOREM ScreenStaysOfOneFarm == Spec => []ScreenIsOfOneFarm
<1>1. PatientNow => ScreenIsOfOneFarm
  BY FineIsOfOneFarm DEF ScreenIsOfOneFarm, StoresMirrorTheirFarm, FollowersFollow,
                         CatalogFitsTheFarm, PinIsTheActiveFarm
<1> QED
  BY <1>1, PatientTabIsFine, PTL

\* For him, a configuration is saved for the farm it was typed for, and a calculator
\* shows what was saved for its farm: the inputs (useCalculatorConfig) and, without
\* what has been deleted since, the selection (applyState, persist, scheduleSave).
THEOREM SavedInputsKeepComingBack == Spec => []SavedInputsComeBack
<1>1. PatientNow => SavedInputsComeBack
  BY FineInputsComeBack
<1> QED
  BY <1>1, PatientTabIsFine, PTL

\* For him, the pinned farm is cleared only when it is deleted: no answer that comes
\* while something else is going on ever unpins a farm (setActiveFarm, FarmManageModal).
THEOREM PinStaysKept == Spec => PinIsKept
<1>1. ASSUME PatientNow, Next, patient, lost = 0, server'.pin = None
      PROVE  server.pin \notin DOMAIN server'.farms
  <2>1. /\ server \in Servers /\ web \in Webs /\ Fine(server, web) /\ Coherent(web, "nothing")
    BY <1>1 DEF PatientNow, PatientInv, ScreensInv, Coherent
  <2>2. CASE \E i \in Answerable : server' \in {server, CarriedOut(server, web.calls[i])}
    <3>1. PICK i \in Answerable : server' \in {server, CarriedOut(server, web.calls[i])}
      BY <2>2
    <3>2. i \in DOMAIN web.calls
      BY DEF Answerable
    <3>3. web.calls[i] \in Calls /\ web.calls[i] \in Fly(web)
      BY <2>1, <3>2 DEF Webs, Fly
    <3> QED
      BY <1>1, <2>1, <3>1, <3>3, PinStep
  <2>3. CASE server' = server
    BY <1>1, <2>1, <2>3, NoneIsNoFarm
  <2>4. CASE Answer
    BY <2>2, <2>4 DEF Answer
  <2>5. CASE Lose
    BY <2>2, <2>5 DEF Lose
  <2>6. CASE SaveTimer
    BY <2>3, <2>6 DEF SaveTimer
  <2>7. ASSUME NEW w, Act(w) PROVE server' = server
    BY <2>7 DEF Act
  <2>8. CASE OpenPage \/ ReloadTab \/ SelectFarm
    BY <2>3, <2>7, <2>8 DEF OpenPage, ReloadTab, SelectFarm
  <2>9. CASE ManageFarm
    BY <2>3, <2>7, <2>9 DEF ManageFarm
  <2>10. CASE WriteRow
    BY <2>3, <2>7, <2>10 DEF WriteRow
  <2>11. CASE EditConfig
    <3>1. \E w : Act(w)
      BY <2>11 DEF EditConfig
    <3> QED
      BY <2>3, <2>7, <3>1
  <2>12. CASE LinkStable
    <3>1. \E w : Act(w)
      BY <2>12 DEF LinkStable
    <3> QED
      BY <2>3, <2>7, <3>1
  <2>13. CASE SaveConfig \/ ResetConfig
    BY <2>3, <2>7, <2>13 DEF SaveConfig, ResetConfig
  <2>14. CASE Toggle
    <3>1. \E w : Act(w)
      BY <2>14 DEF Toggle
    <3> QED
      BY <2>3, <2>7, <3>1
  <2> QED
    BY <1>1, <2>4, <2>5, <2>6, <2>8, <2>9, <2>10, <2>11, <2>12, <2>13, <2>14 DEF Next
<1>2. PatientNow /\ [Next]_vars =>
        [patient /\ lost = 0 /\ server.pin' = None =>
           server.pin \notin DOMAIN server.farms']_vars
  BY <1>1
<1> QED
  BY <1>2, PatientTabIsFine, PTL DEF Spec, PinIsKept
=============================================================================
