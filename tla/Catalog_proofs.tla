----------------------------- MODULE Catalog_proofs -----------------------------
(***************************************************************************)
(* That the cache of a query never goes back while its fetches follow one  *)
(* another, for any clients, queries and versions of the hub.              *)
(*                                                                         *)
(* The property is not inductive: the invariant adds that such a query has *)
(* one fetch at most, of a List or of a refresh, and that what this one    *)
(* holds is no older than the cache.                                       *)
(***************************************************************************)
EXTENDS Catalog, TLAPS

Lists == [step : {"idle", "trigger", "fetch", "store"}, query : Queries \cup {None}, got : Nat]
Tasks == [query : Queries, step : {"fetch", "store", "stored", "failed", "clear"}, got : Nat]
Caches == [Queries -> [version : Nat, fresh : BOOLEAN]]

CatalogTypes ==
    /\ hub \in Nat /\ cache \in Caches /\ tasks \in Seq(Tasks)
    /\ list \in [Clients -> Lists]
    /\ \A c \in Clients : list[c].step # "idle" => list[c].query \in Queries

\* A query has one refresh at most, and only while its key is taken.
OneRefresh ==
    /\ \A t \in 1..Len(tasks) : tasks[t].query \in refreshing
    /\ \A t, u \in 1..Len(tasks) : tasks[t].query = tasks[u].query => t = u

\* Nothing is newer than the hub.
Known ==
    /\ \A q \in Queries : cache[q].version <= hub
    /\ \A c \in Clients : list[c].step = "store" => list[c].got <= hub
    /\ \A t \in 1..Len(tasks) : tasks[t].step = "store" => tasks[t].got <= hub

\* A query is fetched by one at most, and what that one holds is no older than the cache.
Solo(q) ==
    /\ \A c, d \in Fetching(q) : c = d
    /\ Fetching(q) # {} => Refreshers(q) = {}
    /\ \A c \in Fetching(q) : list[c].step = "store" => cache[q].version <= list[c].got
    /\ \A t \in Refreshers(q) : tasks[t].step = "store" => cache[q].version <= tasks[t].got

Solos == \A q \in Queries : q \notin overlap => Solo(q)

CInv == CatalogTypes /\ OneRefresh /\ Known /\ Solos

NotOlder == \A q \in Queries : q \notin overlap' => cache'[q].version >= cache[q].version

---------------------------------------------------------------------------------
(* Lists *)

\* The cache of a query is replaced at once, or stays.
LEMMA Replaced ==
    ASSUME cache \in Caches, NEW q \in Queries, NEW v \in Nat, Stored(q, v) \/ UNCHANGED cache
    PROVE  /\ cache' \in Caches
           /\ Stored(q, v) => cache'[q].version = v
           /\ cache'[q].version \in {cache[q].version, v}
           /\ \A r \in Queries : r # q => cache'[r] = cache[r]
<1> DEFINE entry == [version |-> v, fresh |-> TRUE]
<1>1. entry \in [version : Nat, fresh : BOOLEAN] /\ entry.version = v
  OBVIOUS
<1>2. Stored(q, v) => cache' = [cache EXCEPT ![q] = entry]
  BY DEF Stored
<1> HIDE DEF entry
<1> QED
  BY <1>1, <1>2 DEF Caches

LEMMA ListSteps ==
    ASSUME CInv, NEW c \in Clients, NEW q \in Queries, List(c, q)
    PROVE  CInv' /\ NotOlder
<1>1. UNCHANGED <<hub, cache, refreshing, tasks>>
  BY DEF List
<1>2. NotOlder
  BY <1>1 DEF CInv, CatalogTypes, Caches, NotOlder
<1> DEFINE trigger == [Idle EXCEPT !.step = "trigger", !.query = q]
           fetch == [Idle EXCEPT !.step = "fetch", !.query = q]
<1>3. /\ Idle \in Lists /\ trigger \in Lists /\ fetch \in Lists /\ Idle.step = "idle"
      /\ trigger.step = "trigger" /\ fetch.step = "fetch" /\ fetch.query = q /\ trigger.query = q
  BY DEF Idle, Lists
<1>4. \/ /\ list' = [list EXCEPT ![c] = Idle] \/ list' = [list EXCEPT ![c] = trigger]
         /\ overlap' = overlap
      \/ list' = [list EXCEPT ![c] = fetch] /\ Overlaps(q, Fetching(q) \cup Refreshers(q))
  BY DEF List, Answer
<1> HIDE DEF trigger, fetch
<1>5. \/ /\ list'[c].step \in {"idle", "trigger"} /\ overlap' = overlap
      \/ /\ list'[c].step = "fetch" /\ list'[c].query = q
         /\ overlap' = IF Fetching(q) \cup Refreshers(q) # {} THEN overlap \cup {q} ELSE overlap
  BY <1>3, <1>4 DEF Overlaps, CInv, CatalogTypes
<1>6. /\ list' \in [Clients -> Lists] /\ list'[c].query \in Queries \cup {None}
      /\ list'[c].step # "idle" => list'[c].query \in Queries
      /\ \A d \in Clients : d # c => list'[d] = list[d]
  <2>1. list' \in [Clients -> Lists] /\ \A d \in Clients : d # c => list'[d] = list[d]
    BY <1>3, <1>4 DEF CInv, CatalogTypes
  <2>2. list'[c] \in {Idle, trigger, fetch}
    BY <1>4 DEF CInv, CatalogTypes
  <2> QED
    BY <1>3, <2>1, <2>2 DEF Lists
<1>7. CatalogTypes' /\ OneRefresh' /\ Known'
  BY <1>1, <1>5, <1>6 DEF CInv, CatalogTypes, OneRefresh, Known
<1>8. Solos'
  <2> SUFFICES ASSUME NEW r \in Queries, r \notin overlap' PROVE Solo(r)'
    BY DEF Solos
  <2>1. r \notin overlap /\ Solo(r) /\ Refreshers(r)' = Refreshers(r)
    BY <1>1, <1>5 DEF CInv, Solos, Refreshers
  <2>2. CASE c \notin Fetching(r)'
    <3>1. Fetching(r)' \subseteq Fetching(r) /\ \A d \in Fetching(r)' : list'[d] = list[d]
      BY <1>6, <2>2 DEF Fetching
    <3> QED
      BY <1>1, <2>1, <3>1 DEF Solo
  <2>3. CASE c \in Fetching(r)'
    <3>1. r = q /\ list'[c].step = "fetch" /\ Fetching(q) = {} /\ Refreshers(q) = {}
      BY <1>5, <2>3 DEF Fetching
    <3>2. Fetching(r)' = {c}
      BY <1>6, <2>3, <3>1 DEF Fetching
    <3> QED
      BY <2>1, <3>1, <3>2 DEF Solo
  <2> QED
    BY <2>2, <2>3
<1> QED
  BY <1>2, <1>7, <1>8 DEF CInv

\* A client that fetches goes on to what it holds, or ends.
LEMMA FetchSteps ==
    ASSUME CInv, NEW c \in Clients, Fetch(c)
    PROVE  CInv' /\ NotOlder
<1>1. UNCHANGED <<hub, cache, refreshing, tasks, overlap>>
  BY DEF Fetch
<1>2. NotOlder
  BY <1>1 DEF CInv, CatalogTypes, Caches, NotOlder
<1>3. /\ list[c].step = "fetch"
      /\ \/ /\ list'[c].step = "store" /\ list'[c].got = hub /\ list'[c].query = list[c].query
         \/ list'[c].step = "idle"
  BY DEF Fetch, Answer, Idle, CInv, CatalogTypes, Lists
<1>4. list' \in [Clients -> Lists] /\ \A d \in Clients : d # c => list'[d] = list[d]
  BY DEF Fetch, Answer, Idle, Lists, CInv, CatalogTypes
<1>5. CatalogTypes' /\ OneRefresh' /\ Known'
  BY <1>1, <1>3, <1>4 DEF CInv, CatalogTypes, OneRefresh, Known
<1>6. Solos'
  <2> SUFFICES ASSUME NEW r \in Queries, r \notin overlap' PROVE Solo(r)'
    BY DEF Solos
  <2>1. Solo(r) /\ Refreshers(r)' = Refreshers(r) /\ cache[r].version <= hub
    BY <1>1 DEF CInv, Solos, Refreshers, Known
  <2>2. /\ Fetching(r)' \subseteq Fetching(r)
        /\ \A d \in Fetching(r)' : list'[d] = list[d] \/ list'[d].got = hub
    BY <1>3, <1>4 DEF Fetching
  <2> QED
    BY <1>1, <2>1, <2>2 DEF Solo
<1> QED
  BY <1>2, <1>5, <1>6 DEF CInv

\* A List that holds a fetched list replaces the cache or not, and ends.
LEMMA StoreSteps ==
    ASSUME CInv, NEW c \in Clients, Store(c)
    PROVE  CInv' /\ NotOlder
<1> DEFINE q == list[c].query
<1>1. UNCHANGED <<hub, refreshing, tasks, overlap>> /\ list[c].step = "store"
  BY DEF Store
<1>2. /\ q \in Queries /\ list[c].got \in Nat /\ list[c].got <= hub /\ c \in Fetching(q)
      /\ q \notin overlap => cache[q].version <= list[c].got
  BY <1>1 DEF CInv, CatalogTypes, Lists, Known, Solos, Solo, Fetching
<1>3. /\ cache' \in Caches
      /\ cache'[q].version \in {cache[q].version, list[c].got}
      /\ \A r \in Queries : r # q => cache'[r] = cache[r]
  BY <1>2, Replaced DEF Store, CInv, CatalogTypes
<1>4. /\ list'[c].step = "idle" /\ list' \in [Clients -> Lists]
      /\ \A d \in Clients : d # c => list'[d] = list[d]
  BY DEF Store, Answer, Idle, Lists, CInv, CatalogTypes
<1> HIDE DEF q
<1>5. CatalogTypes' /\ OneRefresh' /\ Known'
  BY <1>1, <1>2, <1>3, <1>4 DEF CInv, CatalogTypes, OneRefresh, Known
<1>6. NotOlder
  BY <1>1, <1>2, <1>3 DEF CInv, CatalogTypes, Caches, NotOlder
<1>7. Solos'
  <2> SUFFICES ASSUME NEW r \in Queries, r \notin overlap' PROVE Solo(r)'
    BY DEF Solos
  <2>1. Solo(r) /\ Refreshers(r)' = Refreshers(r)
    BY <1>1 DEF CInv, Solos, Refreshers
  <2>2. /\ Fetching(r)' \subseteq Fetching(r) \ {c}
        /\ \A d \in Fetching(r)' : list'[d] = list[d]
    BY <1>4 DEF Fetching
  <2>3. CASE r = q
    <3>1. Fetching(r)' = {} /\ Refreshers(r)' = {}
      BY <1>2, <2>1, <2>2, <2>3 DEF Solo
    <3> QED
      BY <3>1 DEF Solo
  <2>4. CASE r # q
    BY <1>1, <1>3, <2>1, <2>2, <2>4 DEF Solo
  <2> QED
    BY <2>3, <2>4
<1> QED
  BY <1>5, <1>6, <1>7 DEF CInv

\* A stale entry is answered, and its refresh starts unless one is under way.
LEMMA TriggerSteps ==
    ASSUME CInv, NEW c \in Clients, Trigger(c)
    PROVE  CInv' /\ NotOlder
<1> DEFINE q == list[c].query
           new == [query |-> q, step |-> "fetch", got |-> 0]
<1>1. UNCHANGED <<hub, cache>> /\ q \in Queries /\ list[c].step = "trigger"
  BY DEF Trigger, CInv, CatalogTypes
<1>2. /\ list'[c].step = "idle" /\ list' \in [Clients -> Lists]
      /\ \A d \in Clients : d # c => list'[d] = list[d]
  BY DEF Trigger, Answer, Idle, Lists, CInv, CatalogTypes
<1>3. NotOlder
  BY <1>1 DEF CInv, CatalogTypes, Caches, NotOlder
<1>4. /\ \A r : Fetching(r)' = Fetching(r)
      /\ \A r : \A d \in Fetching(r) : list'[d] = list[d]
  BY <1>1, <1>2 DEF Fetching
<1>5. CASE q \in refreshing
  <2>1. UNCHANGED <<refreshing, tasks, overlap>>
    BY <1>5 DEF Trigger, StartsRefresh
  <2>2. CatalogTypes' /\ OneRefresh' /\ Known'
    BY <1>1, <1>2, <2>1 DEF CInv, CatalogTypes, OneRefresh, Known
  <2>3. Solos'
    BY <1>1, <1>4, <2>1 DEF CInv, Solos, Solo, Refreshers
  <2> QED
    BY <1>3, <2>2, <2>3 DEF CInv
<1>6. CASE q \notin refreshing
  <2>1. /\ refreshing' = refreshing \cup {q} /\ tasks' = Append(tasks, new)
        /\ overlap' = IF Fetching(q) # {} THEN overlap \cup {q} ELSE overlap
    BY <1>6 DEF Trigger, StartsRefresh, Overlaps
  <2>2. new \in Tasks /\ new.query = q /\ new.step = "fetch"
    BY <1>1 DEF Tasks
  <2> HIDE DEF new, q
  <2>3. /\ tasks' \in Seq(Tasks) /\ Len(tasks) \in Nat /\ Len(tasks') = Len(tasks) + 1
        /\ tasks'[Len(tasks) + 1] = new
        /\ \A t \in 1..Len(tasks) : tasks'[t] = tasks[t]
    BY <2>1, <2>2 DEF CInv, CatalogTypes
  <2>4. \A t \in 1..Len(tasks) : tasks[t].query # q
    BY <1>6 DEF CInv, OneRefresh
  <2>5. CatalogTypes'
    BY <1>1, <1>2, <2>3 DEF CInv, CatalogTypes
  <2>6. OneRefresh'
    <3>1. \A t \in 1..Len(tasks') : t \in 1..Len(tasks) \/ t = Len(tasks) + 1
      BY <2>3
    <3>2. \A t \in 1..Len(tasks') : tasks'[t].query \in refreshing'
      BY <2>1, <2>2, <2>3, <3>1 DEF CInv, OneRefresh
    <3>3. \A t, u \in 1..Len(tasks') : tasks'[t].query = tasks'[u].query => t = u
      BY <2>2, <2>3, <2>4, <3>1 DEF CInv, OneRefresh
    <3> QED
      BY <3>2, <3>3 DEF OneRefresh
  <2>8. Known'
    BY <1>1, <1>2, <2>2, <2>3 DEF CInv, Known
  <2>7. Solos'
    <3> SUFFICES ASSUME NEW r \in Queries, r \notin overlap' PROVE Solo(r)'
      BY DEF Solos
    <3>1. r \notin overlap /\ Solo(r)
      BY <2>1 DEF CInv, Solos
    <3>2. CASE r = q
      <4>1. Fetching(r)' = {}
        BY <1>4, <2>1, <3>2
      <4>2. \A t \in Refreshers(r)' : t = Len(tasks) + 1
        BY <2>3, <2>4, <3>2 DEF Refreshers
      <4> QED
        BY <2>2, <2>3, <4>1, <4>2 DEF Solo
    <3>3. CASE r # q
      <4>1. /\ Refreshers(r)' = Refreshers(r)
            /\ \A t \in Refreshers(r) : tasks'[t] = tasks[t]
        BY <2>2, <2>3, <3>3 DEF Refreshers
      <4> QED
        BY <1>1, <1>4, <3>1, <4>1 DEF Solo
    <3> QED
      BY <3>2, <3>3
  <2> QED
    BY <1>3, <2>5, <2>6, <2>7, <2>8 DEF CInv
<1> QED
  BY <1>5, <1>6

---------------------------------------------------------------------------------
(* Refreshes *)

\* A refresh that fetches goes on to what it holds, fails, stores or is announced.
LEMMA RefreshMoves ==
    ASSUME CInv, NEW t \in 1..Len(tasks), UNCHANGED <<hub, refreshing, list, overlap>>,
           \/ UNCHANGED cache /\ RefreshFetch(t)
           \/ RefreshStore(t)
           \/ UNCHANGED cache /\ Publish(t)
    PROVE  CInv' /\ NotOlder
<1> DEFINE q == tasks[t].query
<1>1. tasks \in Seq(Tasks) /\ Len(tasks) \in Nat /\ tasks[t] \in Tasks
  BY DEF CInv, CatalogTypes
<1>2. q \in Queries /\ tasks[t].got \in Nat
  BY <1>1 DEF Tasks
<1>3. PICK x \in Tasks :
         /\ tasks' = [tasks EXCEPT ![t] = x] /\ x.query = q
         /\ \/ /\ UNCHANGED cache /\ tasks[t].step \in {"fetch", "store"}
               /\ x.step = "store" => x.got = hub
            \/ UNCHANGED cache /\ x.step \notin {"fetch", "store"}
            \/ Stored(q, tasks[t].got) /\ tasks[t].step = "store" /\ x.step = "stored"
  <2>1. ASSUME NEW s \in {"stored", "failed", "clear"}, TaskStep(t, s)
        PROVE  /\ [tasks[t] EXCEPT !.step = s] \in Tasks
               /\ tasks' = [tasks EXCEPT ![t] = [tasks[t] EXCEPT !.step = s]]
               /\ [tasks[t] EXCEPT !.step = s].query = q
               /\ [tasks[t] EXCEPT !.step = s].step = s
    BY <1>1, <2>1 DEF TaskStep, Tasks
  <2>2. ASSUME tasks' = [tasks EXCEPT ![t].step = "store", ![t].got = hub]
        PROVE  /\ [tasks[t] EXCEPT !.step = "store", !.got = hub] \in Tasks
               /\ tasks' = [tasks EXCEPT ![t] = [tasks[t] EXCEPT !.step = "store", !.got = hub]]
               /\ [tasks[t] EXCEPT !.step = "store", !.got = hub].query = q
               /\ [tasks[t] EXCEPT !.step = "store", !.got = hub].got = hub
    BY <1>1, <2>2 DEF Tasks, CInv, CatalogTypes
  <2>3. CASE UNCHANGED cache /\ RefreshFetch(t)
    BY <2>1, <2>2, <2>3 DEF RefreshFetch
  <2>4. CASE RefreshStore(t)
    BY <2>1, <2>4 DEF RefreshStore
  <2>5. CASE UNCHANGED cache /\ Publish(t)
    BY <2>1, <2>5 DEF Publish
  <2> QED
    BY <2>3, <2>4, <2>5
<1>4. /\ tasks' \in Seq(Tasks) /\ Len(tasks') = Len(tasks) /\ tasks'[t] = x
      /\ \A u \in 1..Len(tasks) : u # t => tasks'[u] = tasks[u]
  BY <1>1, <1>3
<1>5. /\ tasks[t].step = "store" => tasks[t].got <= hub /\ t \in Refreshers(q)
      /\ tasks[t].step = "store" /\ q \notin overlap => cache[q].version <= tasks[t].got
  BY <1>2 DEF CInv, Known, Solos, Solo, Refreshers
<1>6. /\ cache' \in Caches /\ \A r \in Queries : r # q => cache'[r] = cache[r]
      /\ UNCHANGED cache \/ (tasks[t].step = "store" /\ cache'[q].version = tasks[t].got /\ x.step = "stored")
  BY <1>2, <1>3, Replaced DEF CInv, CatalogTypes
<1> HIDE DEF q
<1>7. CatalogTypes' /\ OneRefresh'
  BY <1>1, <1>3, <1>4, <1>6 DEF CInv, CatalogTypes, OneRefresh, q
<1>8. Known'
  BY <1>2, <1>3, <1>4, <1>5, <1>6 DEF CInv, CatalogTypes, Known
<1>9. NotOlder
  <2>1. \A r \in Queries : cache[r].version \in Nat
    BY DEF CInv, CatalogTypes, Caches
  <2>2. ASSUME NEW r \in Queries, r \notin overlap PROVE cache'[r].version >= cache[r].version
    <3>1. CASE UNCHANGED cache \/ r # q
      BY <1>6, <2>1, <3>1
    <3>2. CASE /\ r = q /\ tasks[t].step = "store" /\ cache'[q].version = tasks[t].got
      <4>1. q \notin overlap /\ cache[q].version \in Nat
        BY <2>1, <2>2, <3>2
      <4>2. cache[q].version <= tasks[t].got
        BY <1>5, <3>2, <4>1
      <4> QED
        BY <1>2, <3>2, <4>1, <4>2
    <3> QED
      BY <1>6, <3>1, <3>2
  <2> QED
    BY <2>2 DEF NotOlder
<1>10. Solos'
  <2> SUFFICES ASSUME NEW r \in Queries, r \notin overlap' PROVE Solo(r)'
    BY DEF Solos
  <2>1. Solo(r) /\ Fetching(r)' = Fetching(r) /\ cache[r].version <= hub
    BY DEF CInv, Solos, Fetching, Known
  <2>2. /\ Refreshers(r)' \subseteq Refreshers(r) \cup {t}
        /\ \A u \in Refreshers(r)' : u # t => tasks'[u] = tasks[u]
        /\ t \in Refreshers(r)' => r = q /\ x.step \in {"fetch", "store"}
    BY <1>1, <1>3, <1>4 DEF Refreshers
  <2>3. CASE UNCHANGED cache
    <3>1. t \in Refreshers(r)' => t \in Refreshers(r)
      BY <1>3, <2>2, <2>3 DEF Refreshers, q
    <3>2. \A u \in Refreshers(r)' : tasks'[u].step = "store" => cache[r].version <= tasks'[u].got
      BY <1>3, <1>4, <2>1, <2>2, <2>3 DEF Solo
    <3> QED
      BY <2>1, <2>2, <2>3, <3>1, <3>2 DEF Solo
  <2>4. CASE r # q
    BY <1>6, <2>1, <2>2, <2>4 DEF Solo
  <2>5. CASE r = q /\ tasks[t].step = "store" /\ x.step = "stored"
    <3>1. Fetching(r) = {} /\ \A u \in Refreshers(r) : u = t
      BY <1>5, <2>1, <2>5 DEF Solo, Refreshers, CInv, OneRefresh, q
    <3>2. Refreshers(r)' = {}
      BY <2>2, <2>5, <3>1
    <3> QED
      BY <2>1, <3>1, <3>2 DEF Solo
  <2> QED
    BY <1>6, <2>3, <2>4, <2>5
<1> QED
  BY <1>7, <1>8, <1>9, <1>10 DEF CInv

\* A refresh that was announced gives its key back.
LEMMA ClearSteps ==
    ASSUME CInv, NEW t \in 1..Len(tasks), Clear(t)
    PROVE  CInv' /\ NotOlder
<1> DEFINE n == Len(tasks)
           old(u) == IF u < t THEN u ELSE u + 1
<1>1. /\ UNCHANGED <<hub, cache, list, overlap>> /\ tasks \in Seq(Tasks) /\ n \in Nat /\ n > 0
      /\ refreshing' = refreshing \ {tasks[t].query}
  BY DEF Clear, listVars, CInv, CatalogTypes
<1>2. \A u \in 1..(n - 1) : old(u) \in 1..n /\ old(u) # t /\ tasks[old(u)] \in Tasks
  BY <1>1
<1>3. tasks' = [u \in 1..(n - 1) |-> tasks[old(u)]]
  BY DEF Clear
<1>4. tasks' \in Seq(Tasks) /\ Len(tasks') = n - 1
  BY <1>1, <1>2, <1>3
<1>5. \A u, w \in 1..(n - 1) : old(u) = old(w) => u = w
  BY <1>1
<1>6. \A u \in 1..Len(tasks') : tasks'[u] = tasks[old(u)]
  BY <1>3, <1>4
<1> HIDE DEF n, old
<1>7. CatalogTypes'
  BY <1>1, <1>4 DEF CInv, CatalogTypes
<1>8. OneRefresh'
  <2>1. \A u, w \in 1..n : tasks[u].query = tasks[w].query => u = w
    BY DEF CInv, OneRefresh, n
  <2>2. \A u \in 1..n : u # t => tasks[u].query \in refreshing'
    BY <1>1, <2>1 DEF CInv, OneRefresh, n
  <2>3. \A u \in 1..Len(tasks') : tasks'[u].query \in refreshing'
    BY <1>2, <1>4, <1>6, <2>2
  <2>4. \A u, w \in 1..Len(tasks') : tasks'[u].query = tasks'[w].query => u = w
    BY <1>2, <1>4, <1>5, <1>6, <2>1
  <2> QED
    BY <2>3, <2>4 DEF OneRefresh
<1>9. Known' /\ NotOlder
  BY <1>1, <1>2, <1>4, <1>6, <1>7 DEF CInv, CatalogTypes, Caches, Known, NotOlder, n
<1>10. Solos'
  <2> SUFFICES ASSUME NEW r \in Queries, r \notin overlap' PROVE Solo(r)'
    BY DEF Solos
  <2>1. Solo(r) /\ Fetching(r)' = Fetching(r)
    BY <1>1 DEF CInv, Solos, Fetching
  <2>2. \A u \in Refreshers(r)' : old(u) \in Refreshers(r) /\ tasks'[u] = tasks[old(u)]
    BY <1>2, <1>4, <1>6 DEF Refreshers, n
  <2> QED
    BY <1>1, <2>1, <2>2 DEF Solo
<1> QED
  BY <1>7, <1>8, <1>9, <1>10 DEF CInv

---------------------------------------------------------------------------------

LEMMA CInvStep ==
    ASSUME CInv, [Next]_vars
    PROVE  CInv' /\ NotOlder
<1>1. CASE UNCHANGED <<hub, cache, refreshing, tasks, list, overlap>>
  BY <1>1 DEF CInv, CatalogTypes, Caches, OneRefresh, Known, Solos, Solo, Fetching, Refreshers, NotOlder
<1>2. CASE HubChanges
  <2>1. UNCHANGED <<cache, refreshing, tasks, list, overlap>> /\ hub \in Nat /\ hub' = hub + 1
    BY <1>2 DEF HubChanges, listVars, CInv, CatalogTypes
  <2>2. CatalogTypes' /\ NotOlder
    BY <2>1 DEF CInv, CatalogTypes, Caches, NotOlder
  <2>3. Known'
    <3>1. \A q \in Queries : cache[q].version \in Nat
      BY DEF CInv, CatalogTypes, Caches
    <3>2. \A c \in Clients : list[c].got \in Nat
      BY DEF CInv, CatalogTypes, Lists
    <3>3. \A t \in 1..Len(tasks) : tasks[t].got \in Nat
      <4>1. tasks \in Seq(Tasks)
        BY DEF CInv, CatalogTypes
      <4>2. \A t \in 1..Len(tasks) : tasks[t] \in Tasks
        BY <4>1
      <4> QED
        BY <4>2 DEF Tasks
    <3> QED
      BY <2>1, <3>1, <3>2, <3>3 DEF CInv, Known
  <2> QED
    BY <2>1, <2>2, <2>3 DEF CInv, OneRefresh, Solos, Solo, Fetching, Refreshers
<1>3. CASE Expire
  <2>1. /\ UNCHANGED <<hub, refreshing, tasks, list, overlap>> /\ cache' \in Caches
        /\ \A q \in Queries : cache'[q].version = cache[q].version
    <3>1. PICK q \in Queries : cache' = [cache EXCEPT ![q].fresh = FALSE]
      BY <1>3 DEF Expire
    <3>2. /\ [cache[q] EXCEPT !.fresh = FALSE] \in [version : Nat, fresh : BOOLEAN]
          /\ [cache[q] EXCEPT !.fresh = FALSE].version = cache[q].version
      BY DEF CInv, CatalogTypes, Caches
    <3>3. cache' = [cache EXCEPT ![q] = [cache[q] EXCEPT !.fresh = FALSE]] /\ cache \in Caches
      BY <3>1 DEF CInv, CatalogTypes, Caches
    <3> QED
      BY <1>3, <3>2, <3>3 DEF Expire, listVars, Caches
  <2>2. \A q \in Queries : cache[q].version \in Nat
    BY DEF CInv, CatalogTypes, Caches
  <2>3. CatalogTypes' /\ OneRefresh' /\ Known' /\ NotOlder
    BY <2>1, <2>2 DEF CInv, CatalogTypes, OneRefresh, Known, NotOlder
  <2>4. Solos'
    BY <2>1 DEF CInv, Solos, Solo, Fetching, Refreshers
  <2> QED
    BY <2>3, <2>4 DEF CInv
<1>4. CASE \E c \in Clients : \/ \E q \in Queries : List(c, q)
                              \/ Fetch(c) \/ Store(c) \/ Trigger(c) \/ Watch(c)
  <2>1. ASSUME NEW c \in Clients, Watch(c)
        PROVE  UNCHANGED <<hub, cache, refreshing, tasks, list, overlap>>
    BY <2>1 DEF Watch, listVars
  <2> QED
    BY <1>1, <1>4, <2>1, ListSteps, FetchSteps, StoreSteps, TriggerSteps
<1>5. CASE \E t \in 1..Len(tasks) : Refresh(t)
  <2>1. ASSUME NEW t \in 1..Len(tasks), RefreshFetch(t) \/ RefreshStore(t) \/ Publish(t)
        PROVE  CInv' /\ NotOlder
    BY <2>1, RefreshMoves DEF RefreshFetch, RefreshStore, Publish, listVars
  <2> QED
    BY <1>5, <2>1, ClearSteps DEF Refresh
<1> QED
  BY <1>1, <1>2, <1>3, <1>4, <1>5 DEF Next, CatalogStep, vars, catalogVars, listVars

\* A query that was never fetched twice at once has one fetch at most, and what it
\* holds is no older than the cache (catalogCache.store, refreshAsync); whatever the
\* clients, the queries and the versions of the hub.
THEOREM CatalogInductive == Spec => []CInv
<1>1. Init => CInv
  <2> SUFFICES ASSUME Init PROVE CInv
    OBVIOUS
  <2>1. /\ hub = 1 /\ cache = [q \in Queries |-> Missing] /\ tasks = <<>> /\ Len(tasks) = 0
        /\ list = [c \in Clients |-> Idle]
    BY DEF Init
  <2>2. CatalogTypes /\ OneRefresh
    BY <2>1 DEF CatalogTypes, OneRefresh, Caches, Lists, Missing, Idle
  <2>3. Known /\ Solos
    BY <2>1 DEF Known, Solos, Solo, Fetching, Refreshers, Missing, Idle
  <2> QED
    BY <2>2, <2>3 DEF CInv
<1>2. CInv /\ [Next]_vars => CInv'
  BY CInvStep
<1> QED
  BY <1>1, <1>2, PTL DEF Spec

\* The cache file of a query is never replaced by data older than it holds, unless
\* two fetches of the query overlapped.
THEOREM NeverOlderHolds == Spec => NeverOlder
<1>1. CInv /\ [Next]_vars => [\A q \in Queries :
          q \notin overlap' => cache'[q].version >= cache[q].version]_vars
  BY CInvStep DEF NotOlder
<1> QED
  BY <1>1, CatalogInductive, PTL DEF Spec, NeverOlder
=================================================================================
