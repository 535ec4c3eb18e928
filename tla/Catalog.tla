--------------------------------- MODULE Catalog ---------------------------------
(***************************************************************************)
(* The catalog of Hugging Face models (core/modelcatalog/huggingface.go):  *)
(* List answers from the cache file of a query, refreshes a stale one in   *)
(* the background and announces the end of a refresh to those who watch    *)
(* (core/rpc/model_rpc.go); beside it the watch over the model storage.    *)
(* A catalog's content is the version of the hub it was fetched from.      *)
(***************************************************************************)
EXTENDS StorageWatch

CONSTANTS Clients,
          Queries,     \* normalized parameters, one cache file each
          Backlog,     \* of a watcher's channel
          MaxVersions, \* bound: versions of the hub
          MaxLists,    \* bound: lists asked for
          MaxExpiries, \* bound: entries whose time to live ends
          Scopes       \* bounds of a behaviour: the catalog is used, the storage

ASSUME CatalogAssumption ==
    /\ Backlog \in Nat \ {0} /\ MaxVersions \in Nat /\ MaxLists \in Nat /\ MaxExpiries \in Nat
    /\ Scopes \subseteq {"catalog", "storage"}

VARIABLES scope,
          hub,        \* version of the data on the hub
          cache,      \* of each query: version and freshness, 0 when missing
          refreshing, \* queries with a refresh under way
          tasks,      \* the background refreshes
          list,       \* of each client: its List
          queue,      \* of each client that watches: events not yet sent
          heard,      \* history: an event was published since the client's load
          answered,   \* history: the client was told that a refresh is under way
          late,       \* history: ... but that one had announced its end before
          asked, expired,
          overlap     \* history: queries that were fetched twice at once

listVars == <<list, heard, answered, late>>
catalogVars == <<hub, cache, refreshing, tasks, listVars, queue, asked, expired, overlap>>
vars == <<scope, storageVars, catalogVars>>

Idle == [step |-> "idle", query |-> None, got |-> 0]
Missing == [version |-> 0, fresh |-> FALSE]

Init ==
    /\ scope \in Scopes /\ StorageInit
    /\ hub = 1 /\ cache = [q \in Queries |-> Missing]
    /\ refreshing = {} /\ tasks = <<>>
    /\ list = [c \in Clients |-> Idle] /\ queue = [c \in Clients |-> 0]
    /\ heard = [c \in Clients |-> FALSE] /\ answered = [c \in Clients |-> FALSE]
    /\ late = {} /\ asked = 0 /\ expired = 0 /\ overlap = {}

Fetching(q) == {c \in Clients : list[c].step \in {"fetch", "store"} /\ list[c].query = q}
Refreshers(q) == {t \in 1..Len(tasks) : tasks[t].query = q /\ tasks[t].step \in {"fetch", "store"}}
Overlaps(q, others) == overlap' = IF others # {} THEN overlap \cup {q} ELSE overlap
Answer(c, told) ==
    /\ list' = [list EXCEPT ![c] = Idle]
    /\ answered' = [answered EXCEPT ![c] = told]

HubChanges ==
    /\ hub < MaxVersions /\ hub' = hub + 1
    /\ UNCHANGED <<cache, refreshing, tasks, listVars, queue, asked, expired, overlap>>

\* catalogCache.state: the time to live of an entry ends.
Expire ==
    /\ expired < MaxExpiries /\ expired' = expired + 1
    /\ \E q \in Queries : cache[q].fresh /\ cache' = [cache EXCEPT ![q].fresh = FALSE]
    /\ UNCHANGED <<hub, refreshing, tasks, listVars, queue, asked, overlap>>

----------------------------------------------------------------------------
(* List *)

\* An entry that cannot be read is fetched like one that is missing.
List(c, q) ==
    /\ list[c].step = "idle" /\ asked < MaxLists
    /\ asked' = asked + 1
    /\ heard' = [heard EXCEPT ![c] = FALSE] /\ late' = late \ {c}
    /\ \/ /\ cache[q] # Missing
          /\ IF cache[q].fresh THEN Answer(c, FALSE)
             ELSE /\ list' = [list EXCEPT ![c] = [Idle EXCEPT !.step = "trigger", !.query = q]]
                  /\ answered' = [answered EXCEPT ![c] = FALSE]
          /\ UNCHANGED overlap
       \/ /\ list' = [list EXCEPT ![c] = [Idle EXCEPT !.step = "fetch", !.query = q]]
          /\ answered' = [answered EXCEPT ![c] = FALSE]
          /\ Overlaps(q, Fetching(q) \cup Refreshers(q))
    /\ UNCHANGED <<hub, cache, refreshing, tasks, queue, expired>>

\* fetchCatalog: without the list of models it fails; a model that cannot be
\* fetched is left out.
Fetch(c) ==
    /\ list[c].step = "fetch"
    /\ \/ /\ list' = [list EXCEPT ![c].step = "store", ![c].got = hub]
          /\ UNCHANGED answered
       \/ Answer(c, FALSE)
    /\ UNCHANGED <<hub, cache, refreshing, tasks, heard, late, queue, asked, expired, overlap>>

\* catalogCache.store replaces the file at once or fails.
Stored(q, version) == cache' = [cache EXCEPT ![q] = [version |-> version, fresh |-> TRUE]]

Store(c) ==
    /\ list[c].step = "store"
    /\ Stored(list[c].query, list[c].got) \/ UNCHANGED cache
    /\ Answer(c, FALSE)
    /\ UNCHANGED <<hub, refreshing, tasks, heard, late, queue, asked, expired, overlap>>

\* refreshAsync: one refresh of a query at a time.
MutStartsRefresh(q) == TRUE
StartsRefresh(q) == q \notin refreshing

Trigger(c) ==
    /\ list[c].step = "trigger"
    /\ LET q == list[c].query
       IN /\ IF StartsRefresh(q)
             THEN /\ refreshing' = refreshing \cup {q}
                  /\ tasks' = Append(tasks, [query |-> q, step |-> "fetch", got |-> 0])
                  /\ Overlaps(q, Fetching(q))
             ELSE UNCHANGED <<refreshing, tasks, overlap>>
          /\ late' = IF StartsRefresh(q) \/ \E t \in 1..Len(tasks) : tasks[t].query = q /\ tasks[t].step # "clear"
                     THEN late ELSE late \cup {c}
          /\ Answer(c, TRUE)
    /\ UNCHANGED <<hub, cache, heard, queue, asked, expired>>

----------------------------------------------------------------------------
(* A background refresh *)

TaskStep(t, step) == tasks' = [tasks EXCEPT ![t].step = step]

RefreshFetch(t) ==
    /\ tasks[t].step = "fetch"
    /\ \/ tasks' = [tasks EXCEPT ![t].step = "store", ![t].got = hub]
       \/ TaskStep(t, "failed")
    /\ UNCHANGED <<hub, cache, refreshing, listVars, queue, asked, expired, overlap>>

RefreshStore(t) ==
    /\ tasks[t].step = "store"
    /\ \/ Stored(tasks[t].query, tasks[t].got) /\ TaskStep(t, "stored")
       \/ TaskStep(t, "failed") /\ UNCHANGED cache
    /\ UNCHANGED <<hub, refreshing, listVars, queue, asked, expired, overlap>>

\* refreshBroker.publish: a full channel drops the event.
MutPublishes(t) == tasks[t].step = "stored"
Publishes(t) == tasks[t].step \in {"stored", "failed"}

Publish(t) ==
    /\ Publishes(t)
    /\ queue' = [c \in Clients |-> IF queue[c] < Backlog THEN queue[c] + 1 ELSE queue[c]]
    /\ heard' = [c \in Clients |-> TRUE]
    /\ TaskStep(t, "clear")
    /\ UNCHANGED <<hub, cache, refreshing, list, answered, late, asked, expired, overlap>>

\* The key is given back last.
Clear(t) ==
    /\ tasks[t].step = "clear"
    /\ refreshing' = refreshing \ {tasks[t].query}
    /\ tasks' = [u \in 1..(Len(tasks) - 1) |-> IF u < t THEN tasks[u] ELSE tasks[u + 1]]
    /\ UNCHANGED <<hub, cache, listVars, queue, asked, expired, overlap>>

Refresh(t) == RefreshFetch(t) \/ RefreshStore(t) \/ Publish(t) \/ Clear(t)

\* WatchModelCatalog sends an event on.
Watch(c) ==
    /\ queue[c] > 0 /\ queue' = [queue EXCEPT ![c] = @ - 1]
    /\ UNCHANGED <<hub, cache, refreshing, tasks, listVars, asked, expired, overlap>>

----------------------------------------------------------------------------
CatalogStep ==
    \/ HubChanges \/ Expire
    \/ \E c \in Clients :
         (\E q \in Queries : List(c, q)) \/ Fetch(c) \/ Store(c) \/ Trigger(c) \/ Watch(c)
    \/ \E t \in 1..Len(tasks) : Refresh(t)

Next ==
    \/ scope = "catalog" /\ CatalogStep /\ UNCHANGED <<scope, storageVars>>
    \/ scope = "storage" /\ StorageStep /\ UNCHANGED <<scope, catalogVars>>

Spec == Init /\ [][Next]_vars

\* A refresh has a timeout of its own; the rest is the watch's.
FairSpec ==
    /\ Spec
    /\ WF_vars(scope = "catalog" /\ (\E t \in 1..Len(tasks) : Refresh(t)) /\ UNCHANGED <<scope, storageVars>>)
    /\ WF_vars(scope = "storage" /\ Scan /\ UNCHANGED <<scope, catalogVars>>)
    /\ WF_vars(scope = "storage" /\ TakeChange /\ UNCHANGED <<scope, catalogVars>>)
    /\ SF_vars(scope = "storage" /\ RefreshEnds /\ UNCHANGED <<scope, catalogVars>>)

----------------------------------------------------------------------------
(* Properties *)

\* The cache file of a query is never replaced by data older than it holds,
\* unless a first fetch of the query overlapped another one.
NeverOlder == [][\A q \in Queries : q \notin overlap' => cache'[q].version >= cache[q].version]_vars

\* "emits Server-Sent Events when refreshes complete": a client that was told of
\* a refresh under way hears of an end of one after it looked into the cache,
\* also when the refresh fails; unless it asked between the event of a refresh
\* and the moment the query is given free.
Announced == \A c \in Clients : (answered[c] /\ ~heard[c] /\ c \notin late) ~> (heard[c] \/ ~answered[c])
==================================================================================
