--------------------------- MODULE ControlManager --------------------------
(***************************************************************************)
(* The control manager (core/control): every mutating operation of the     *)
(* daemon, run by request goroutines and by the storage watcher, behind    *)
(* the one busy flag.  An operation is a sequence of calls to models.ini,  *)
(* config.yaml, the model files, the supervisor of the Router (see         *)
(* RouterProcess) and the Router's HTTP API; each call that can fail or    *)
(* change something is a step, and between two steps the Router, the files *)
(* and the daemon's life go their own way.                                 *)
(***************************************************************************)
EXTENDS Naturals, FiniteSets

CONSTANTS
    Clients,         \* goroutines that call the manager
    Names,           \* names of Presets
    NoName,          \* no default_preset; a request that names no Preset
    Models,          \* local model files
    StorageDir,      \* a models-dir source, which contains every model file
    NoSource,        \* the Preset does not exist
    NoJob,           \* the client has no operation in progress
    ModelsMax,       \* router.models_max
    OutsideLoads,    \* the Router loads Presets on requests of its own users
    ListFails,       \* the Router may fail to list its models while it is up
    ConfigReadFails  \* config.yaml may be unreadable for a moment

Sources == Models \cup {StorageDir}

ASSUME ManagerAssumption ==
    /\ NoName \notin Names
    /\ NoSource \notin Sources
    /\ StorageDir \notin Models
    /\ ModelsMax \in Nat \ {0}
    /\ {OutsideLoads, ListFails, ConfigReadFails} \subseteq BOOLEAN

Kinds == {"start", "stop", "restart", "stopRouter", "put", "delete", "cleanup",
          "deleteModel", "autostart", "refresh"}

\* What a client may ask for.  "name" is the Preset, "source" what is saved or
\* the model that is deleted, "flag" is createOnly, cascade or enabled.
Requests(kinds) ==
    [kind : kinds, name : Names \cup {NoName}, source : Sources, flag : BOOLEAN]

Jobs ==
    {j \in Requests(Kinds) :
        /\ j.kind \in {"put", "delete", "cleanup", "autostart"} => j.name \in Names
        /\ j.kind \in {"stopRouter", "deleteModel", "refresh"} => j.name = NoName
        /\ j.kind = "deleteModel" => j.source \in Models
        /\ j.kind \notin {"put", "deleteModel"} => j.source = StorageDir
        /\ j.kind \notin {"put", "deleteModel", "autostart"} => ~j.flag}

\* The first call of an operation.
First(kind) ==
    CASE kind \in {"start", "stop", "restart"} -> "admit"
      [] kind = "stopRouter" -> "shutdown"
      [] kind = "put" -> "capture"
      [] kind \in {"delete", "cleanup", "deleteModel"} -> "check"
      [] kind = "autostart" -> "enable"
      [] OTHER -> "status"

VARIABLES
    presets,    \* models.ini: the source of each Preset
    dflt,       \* router.default_preset in config.yaml
    autostart,  \* router.autostart_presets in config.yaml
    files       \* the model files on disk

VARIABLES
    router,     \* the supervised llama-server: "up" or "stopped"
    known,      \* the Presets it has read from models.ini
    active      \* the Presets it has loaded or is loading

VARIABLES
    busy,       \* m.busy
    pc,         \* the next call of each client's operation
    job,        \* what each client asked for
    ran,        \* put: the Router was running before the creation
    before,     \* put: the Presets that were active before the creation
    todo,       \* Presets still to be restored, erased or loaded
    sound,      \* no restore has failed so far
    boot        \* m.routerConfig: the references config.yaml held at startup

VARIABLES
    answer,     \* how the last operation ended
    owed,       \* history: Presets its refresh has to bring back
    wasUp       \* history: the Router ran when it began

disk == <<presets, dflt, autostart, files>>
server == <<router, known, active>>
locals == <<job, ran, before, todo, sound>>
history == <<answer, owed, wasUp>>
vars == <<presets, dflt, autostart, files, router, known, active, busy, pc,
          job, ran, before, todo, sound, boot, answer, owed, wasUp>>

Existing == {n \in Names : presets[n] # NoSource}

Referenced == autostart \cup ({dflt} \ {NoName})

\* InspectSource: the file or the directory of the Preset is there.
Ready(n) == presets[n] \in files \cup {StorageDir}

\* FindReferences: the Presets that name the file, and those whose models-dir
\* contains it.
ModelPaths(m) == {n \in Names : presets[n] = m}
ModelDirs == {n \in Names : presets[n] = StorageDir}

Config == [dflt |-> dflt, autostart |-> autostart]

\* What a starting daemon keeps; irrelevant while config.yaml stays readable.
Startup == IF ConfigReadFails THEN Config
                              ELSE [dflt |-> NoName, autostart |-> {}]

\* routerConfigSnapshot: config.yaml, or the startup values if it is unreadable.
Snapshots == {Config} \cup IF ConfigReadFails THEN {boot} ELSE {}

Init ==
    /\ presets \in [Names -> Sources \cup {NoSource}]
    /\ dflt \in Existing \cup {NoName}
    /\ autostart \in {S \in SUBSET Existing : Cardinality(S) <= ModelsMax}
    /\ files \in SUBSET Models
    /\ router = "stopped"
    /\ known = {}
    /\ active = {}
    /\ busy = FALSE
    /\ pc = [c \in Clients |-> "idle"]
    /\ job = [c \in Clients |-> NoJob]
    /\ ran = [c \in Clients |-> FALSE]
    /\ before = [c \in Clients |-> {}]
    /\ todo = [c \in Clients |-> {}]
    /\ sound = [c \in Clients |-> TRUE]
    /\ boot = Startup
    /\ answer = "none"
    /\ owed = {}
    /\ wasUp = FALSE

-----------------------------------------------------------------------------
(* withMutationResult *)

Goto(c, p) ==
    /\ pc' = [pc EXCEPT ![c] = p]
    /\ UNCHANGED <<busy, boot, answer, wasUp>>

\* The deferred release of the flag, and the answer.
Finish(c, outcome) ==
    /\ busy' = FALSE
    /\ pc' = [pc EXCEPT ![c] = "idle"]
    /\ job' = [job EXCEPT ![c] = NoJob]
    /\ ran' = [ran EXCEPT ![c] = FALSE]
    /\ before' = [before EXCEPT ![c] = {}]
    /\ todo' = [todo EXCEPT ![c] = {}]
    /\ sound' = [sound EXCEPT ![c] = TRUE]
    /\ answer' = outcome
    /\ owed' = {}
    /\ wasUp' = FALSE
    /\ UNCHANGED boot

Refreshing == {"put", "delete", "cleanup", "deleteModel", "refresh"}

\* The flag is taken; a caller that finds it taken gets ErrorConflict and
\* changes nothing.
Begin(c, j) ==
    /\ ~busy
    /\ pc[c] = "idle"
    /\ busy' = TRUE
    /\ pc' = [pc EXCEPT ![c] = First(j.kind)]
    /\ job' = [job EXCEPT ![c] = j]
    /\ answer' = "none"
    /\ owed' = IF j.kind \in Refreshing THEN active ELSE {}
    /\ wasUp' = (router = "up")
    /\ UNCHANGED <<disk, server, ran, before, todo, sound, boot>>

\* models.ini cannot be read.  PutPreset reads the saved section back and, on
\* an error, returns without a refresh and without a rollback.
ReadFails(c) ==
    /\ pc[c] \in {"admit", "check", "enable", "reread"}
    /\ Finish(c, "failed")
    /\ UNCHANGED <<disk, server>>

-----------------------------------------------------------------------------
(* Calls to the Router and its supervisor *)

\* A fresh Router reads models.ini and has nothing loaded.
Started ==
    /\ router = "stopped"
    /\ router' = "up"
    /\ known' = Existing
    /\ active' = {}

\* Stop, and any other end of the process.
Stopped ==
    /\ router' = "stopped"
    /\ known' = {}
    /\ active' = {}

\* /models/load: at capacity the Router makes room.
Loads(n) ==
    /\ router = "up"
    /\ n \in known
    /\ \E gone \in SUBSET (active \ {n}) :
          /\ active' = (active \ gone) \cup {n}
          /\ Cardinality(active') <= ModelsMax
          /\ gone # {} => Cardinality(active') = ModelsMax
    /\ UNCHANGED <<router, known>>

\* /models?reload=1: models.ini is read again; a Preset that is gone is
\* dropped and any other loaded one may be.
Reloads ==
    /\ router = "up"
    /\ known' = Existing
    /\ active' \in SUBSET (active \cap Existing)
    /\ UNCHANGED router

-----------------------------------------------------------------------------
(* StartOperation, StopOperation, RestartOperation *)

\* resolveStartPreset: the Preset asked for, the default one, or the only one.
Resolve(name, cfg) ==
    CASE name # NoName -> {name}
      [] name = NoName /\ cfg.dflt # NoName -> {cfg.dflt}
      [] OTHER -> IF Cardinality(Existing) = 1 THEN Existing ELSE {}

Admissible(c, n) == n \in Existing /\ (job[c].kind = "stop" \/ Ready(n))

Admit(c) ==
    /\ pc[c] = "admit"
    /\ \E cfg \in Snapshots :
          LET wanted == {n \in Resolve(job[c].name, cfg) : Admissible(c, n)}
          IN  IF wanted = {}
              THEN Finish(c, "rejected")
              ELSE /\ Goto(c, "ensure")
                   /\ todo' = [todo EXCEPT ![c] = wanted]
                   /\ UNCHANGED <<job, ran, before, sound, owed>>
    /\ UNCHANGED <<disk, server>>

Apply(kind) == IF kind = "start" THEN "load" ELSE "unload"

\* ensureRouter: Status, and Start when it says Stopped.
Ensure(c) ==
    /\ pc[c] = "ensure"
    /\ Goto(c, IF router = "up" THEN Apply(job[c].kind) ELSE "launch")
    /\ UNCHANGED <<disk, server, locals, owed>>

Launch(c) ==
    /\ pc[c] = "launch"
    /\ \/ /\ Started
          /\ Goto(c, Apply(job[c].kind))
          /\ UNCHANGED <<locals, owed>>
       \/ Finish(c, "failed") /\ UNCHANGED server
    /\ UNCHANGED disk

Unloaded(c) ==
    \/ active' = active \ todo[c] /\ UNCHANGED <<router, known>>
    \/ UNCHANGED server

\* A restart ignores the error of its Unload.
Unload(c) ==
    /\ pc[c] = "unload"
    /\ \/ job[c].kind = "stop" /\ router = "up" /\ Finish(c, "ok")
          /\ active' = active \ todo[c] /\ UNCHANGED <<router, known>>
       \/ job[c].kind = "stop" /\ Finish(c, "failed") /\ Unloaded(c)
       \/ job[c].kind = "restart" /\ Goto(c, "load") /\ Unloaded(c)
          /\ UNCHANGED <<locals, owed>>
    /\ UNCHANGED disk

Load(c) ==
    /\ pc[c] = "load"
    /\ \E n \in todo[c] :
          \/ Loads(n) /\ Finish(c, "ok")
          \/ (Loads(n) \/ UNCHANGED server) /\ Finish(c, "failed")
    /\ UNCHANGED disk

\* StopOperation of the Router: whatever Stop returns, the process is gone.
Shutdown(c) ==
    /\ pc[c] = "shutdown"
    /\ Stopped
    /\ Finish(c, "ok") \/ Finish(c, "failed")
    /\ UNCHANGED disk

-----------------------------------------------------------------------------
(* refreshRouterSources and restartRouterSources *)

Creating(c) == job[c].kind = "put" /\ job[c].flag

\* What the caller of a refresh makes of its end: a failed creation is rolled
\* back, and a rollback ends with the recovery of the Router.
Refreshed(c, ok) ==
    \/ /\ job[c].kind = "revert"
       /\ Finish(c, IF ok THEN "reverted" ELSE "recoveryFailed")
    \/ /\ Creating(c) /\ ~ok
       /\ Goto(c, "revert")
       /\ todo' = [todo EXCEPT ![c] = {}]
       /\ sound' = [sound EXCEPT ![c] = TRUE]
       /\ UNCHANGED <<job, ran, before, owed>>
    \/ /\ job[c].kind # "revert"
       /\ ~Creating(c) \/ ok
       /\ Finish(c, IF ok THEN "ok" ELSE "failed")

\* Mutant: a stopped Router is not told from a running one.
MutStatus(c) ==
    /\ pc[c] = "status"
    /\ Goto(c, "list")
    /\ UNCHANGED <<disk, server, locals, owed>>

Status(c) ==
    /\ pc[c] = "status"
    /\ IF router = "stopped"
       THEN Refreshed(c, TRUE)
       ELSE Goto(c, "list") /\ UNCHANGED <<locals, owed>>
    /\ UNCHANGED <<disk, server>>

\* Presets to restore are those active now, or none if the list failed.
List(c) ==
    /\ pc[c] = "list"
    /\ \/ /\ router = "up"
          /\ Goto(c, "reload")
          /\ todo' = [todo EXCEPT ![c] = active]
       \/ /\ ListFails \/ router = "stopped"
          /\ Goto(c, "halt")
          /\ todo' = [todo EXCEPT ![c] = {}]
    /\ UNCHANGED <<disk, server, job, ran, before, sound, owed>>

\* restoreActiveModels: against the list just received, a Preset is active,
\* to be loaded, or an error.
Plan(c, listed, loaded) ==
    /\ Goto(c, "restore")
    /\ todo' = [todo EXCEPT ![c] = (@ \cap listed) \ loaded]
    /\ sound' = [sound EXCEPT ![c] = todo[c] \subseteq listed]
    /\ UNCHANGED <<job, ran, before, owed>>

\* Mutant: after a reload nothing is restored.
MutReload(c) ==
    /\ pc[c] = "reload"
    /\ \/ Reloads /\ Plan(c, known', known')
       \/ (Reloads \/ UNCHANGED server) /\ Goto(c, "halt")
          /\ UNCHANGED <<locals, owed>>
    /\ UNCHANGED disk

Reload(c) ==
    /\ pc[c] = "reload"
    /\ \/ Reloads /\ Plan(c, known', active')
       \/ (Reloads \/ UNCHANGED server) /\ Goto(c, "halt")
          /\ UNCHANGED <<locals, owed>>
    /\ UNCHANGED disk

\* Mutant: a Preset whose load failed is tried again until it loads.
MutRestore(c) ==
    /\ pc[c] = "restore"
    /\ \/ /\ todo[c] = {}
          /\ Refreshed(c, sound[c])
          /\ UNCHANGED server
       \/ \E n \in todo[c] :
             /\ Goto(c, "restore")
             /\ \/ Loads(n) /\ todo' = [todo EXCEPT ![c] = @ \ {n}]
                \/ UNCHANGED <<server, todo>>
             /\ UNCHANGED <<job, ran, before, sound, owed>>
    /\ UNCHANGED disk

\* Every Preset is tried once; a failure is remembered and the rest go on.
Restore(c) ==
    /\ pc[c] = "restore"
    /\ \/ /\ todo[c] = {}
          /\ Refreshed(c, sound[c])
          /\ UNCHANGED server
       \/ \E n \in todo[c] :
             /\ Goto(c, "restore")
             /\ todo' = [todo EXCEPT ![c] = @ \ {n}]
             /\ \/ Loads(n) /\ UNCHANGED sound
                \/ /\ Loads(n) \/ UNCHANGED server
                   /\ sound' = [sound EXCEPT ![c] = FALSE]
             /\ UNCHANGED <<job, ran, before, owed>>
    /\ UNCHANGED disk

Halt(c) ==
    /\ pc[c] = "halt"
    /\ Stopped
    /\ \/ Goto(c, "relaunch") /\ UNCHANGED <<locals, owed>>
       \/ Refreshed(c, FALSE)
    /\ UNCHANGED disk

Relaunch(c) ==
    /\ pc[c] = "relaunch"
    /\ \/ Started /\ Goto(c, "relist") /\ UNCHANGED <<locals, owed>>
       \/ Refreshed(c, FALSE) /\ UNCHANGED server
    /\ UNCHANGED disk

Relist(c) ==
    /\ pc[c] = "relist"
    /\ \/ router = "up" /\ Plan(c, known, active)
       \/ (ListFails \/ router = "stopped") /\ Refreshed(c, FALSE)
    /\ UNCHANGED <<disk, server>>

-----------------------------------------------------------------------------
(* PutPreset *)

\* captureRouterState, its Status and then its List; only a creation needs it.
Capture(c) ==
    /\ pc[c] = "capture"
    /\ LET running == job[c].flag /\ router = "up"
       IN  /\ Goto(c, IF running THEN "captureList" ELSE "save")
           /\ ran' = [ran EXCEPT ![c] = running]
    /\ UNCHANGED <<disk, server, job, before, todo, sound, owed>>

CaptureList(c) ==
    /\ pc[c] = "captureList"
    /\ Goto(c, "save")
    /\ \/ router = "up" /\ before' = [before EXCEPT ![c] = active]
       \/ (ListFails \/ router = "stopped") /\ UNCHANGED before
    /\ UNCHANGED <<disk, server, job, ran, todo, sound, owed>>

\* A document is replaced by a rename and its directory synced after that: a
\* write that fails may have changed it.  Here, and wherever one is written.
Save(c) ==
    /\ pc[c] = "save"
    /\ \/ /\ ~(job[c].flag /\ job[c].name \in Existing)
          /\ presets' = [presets EXCEPT ![job[c].name] = job[c].source]
          /\ \/ Goto(c, "reread") /\ UNCHANGED <<locals, owed>>
             \/ Finish(c, "failed")
       \/ /\ Finish(c, "failed")
          /\ UNCHANGED presets
    /\ UNCHANGED <<dflt, autostart, files, server>>

Reread(c) ==
    /\ pc[c] = "reread"
    /\ Goto(c, "status")
    /\ UNCHANGED <<disk, server, locals, owed>>

\* Mutant: the error of Delete is ignored.
MutUndo(c) ==
    /\ presets' \in {presets, [presets EXCEPT ![job[c].name] = NoSource]}
    /\ IF ran[c]
       THEN /\ Goto(c, "halt")
            /\ job' = [job EXCEPT ![c] =
                          [kind |-> "revert", name |-> job[c].name,
                           source |-> job[c].source, flag |-> TRUE]]
            /\ todo' = [todo EXCEPT ![c] = before[c]]
            /\ UNCHANGED <<ran, before, sound, owed>>
       ELSE Finish(c, "reverted")

\* The Preset goes, and the Router is restarted with what was active before.
Undo(c) ==
    /\ presets' = [presets EXCEPT ![job[c].name] = NoSource]
    /\ IF ran[c]
       THEN /\ Goto(c, "halt")
            /\ job' = [job EXCEPT ![c] =
                          [kind |-> "revert", name |-> job[c].name,
                           source |-> job[c].source, flag |-> TRUE]]
            /\ todo' = [todo EXCEPT ![c] = before[c]]
            /\ UNCHANGED <<ran, before, sound, owed>>
       ELSE Finish(c, "reverted")

\* rollbackPresetCreation.
Revert(c) ==
    /\ pc[c] = "revert"
    /\ \/ Undo(c)
       \/ /\ Finish(c, "revertFailed")
          /\ presets' \in {presets, [presets EXCEPT ![job[c].name] = NoSource]}
    /\ UNCHANGED <<dflt, autostart, files, server>>

-----------------------------------------------------------------------------
(* DeletePreset, CleanupPreset, DeleteLocalModel *)

\* modelRunning and rejectActivePreset: the answer is right at this step, and
\* an unanswered list of a running Router is an error.
NoneActive(ns) == ns \cap active = {}

\* A check of the Presets ns ends with an answer or goes on.
Unless(c, ns, next) ==
    \/ ~NoneActive(ns) /\ Finish(c, "rejected")
    \/ router = "up" /\ ListFails /\ Finish(c, "failed")
    \/ NoneActive(ns) /\ next

GoOn(c, p, ns) ==
    /\ Goto(c, p)
    /\ todo' = [todo EXCEPT ![c] = ns]
    /\ UNCHANGED <<job, ran, before, sound, owed>>

\* Mutant: only the default Preset counts as configured.
MutConfigured(n, cfg) == n = cfg.dflt

Configured(n, cfg) == n = cfg.dflt \/ n \in cfg.autostart

\* Mutant: nobody asks whether the Preset is loaded.
MutCheckDelete(c) ==
    /\ pc[c] = "check"
    /\ job[c].kind = "delete"
    /\ \E cfg \in Snapshots :
          LET n == job[c].name IN
          IF n \notin Existing THEN Finish(c, "ok")
          ELSE IF Configured(n, cfg) THEN Finish(c, "rejected")
          ELSE GoOn(c, "erase", {n})
    /\ UNCHANGED <<disk, server>>

\* Deleting a missing Preset succeeds and touches nothing else.
CheckDelete(c) ==
    /\ pc[c] = "check"
    /\ job[c].kind = "delete"
    /\ \E cfg \in Snapshots :
          LET n == job[c].name IN
          IF n \notin Existing THEN Finish(c, "ok")
          ELSE IF Configured(n, cfg) THEN Finish(c, "rejected")
          ELSE Unless(c, {n}, GoOn(c, "erase", {n}))
    /\ UNCHANGED <<disk, server>>

\* Only a Preset whose source is missing is cleaned up; a missing Preset only
\* loses its references.
CheckCleanup(c) ==
    /\ pc[c] = "check"
    /\ job[c].kind = "cleanup"
    /\ LET n == job[c].name IN
       IF n \notin Existing THEN GoOn(c, "unref", {})
       ELSE IF Ready(n) THEN Finish(c, "rejected")
       ELSE Unless(c, {n}, GoOn(c, "unref", {n}))
    /\ UNCHANGED <<disk, server>>

\* Mutant: only Presets that name the file are asked whether they are loaded.
MutCheckModel(c) ==
    /\ pc[c] = "check"
    /\ job[c].kind = "deleteModel"
    /\ LET paths == ModelPaths(job[c].source) IN
       IF paths # {} /\ ~job[c].flag THEN Finish(c, "rejected")
       ELSE IF paths = {} THEN GoOn(c, "unlink", {})
       ELSE Unless(c, paths, GoOn(c, "unlink", paths))
    /\ UNCHANGED <<disk, server>>

CheckModel(c) ==
    /\ pc[c] = "check"
    /\ job[c].kind = "deleteModel"
    /\ LET paths == ModelPaths(job[c].source) IN
       IF paths # {} /\ ~job[c].flag THEN Finish(c, "rejected")
       ELSE IF paths \cup ModelDirs = {} THEN GoOn(c, "unlink", {})
       ELSE Unless(c, paths \cup ModelDirs, GoOn(c, "unlink", paths))
    /\ UNCHANGED <<disk, server>>

\* DeleteLocal: the file goes first; if it is missing already, that is an error.
Unlink(c) ==
    /\ pc[c] = "unlink"
    /\ \/ /\ job[c].source \in files
          /\ files' = files \ {job[c].source}
          /\ IF todo[c] = {}
             THEN Finish(c, "ok")
             ELSE Goto(c, "unref") /\ UNCHANGED <<locals, owed>>
       \/ Finish(c, "failed") /\ UNCHANGED files
    /\ UNCHANGED <<presets, dflt, autostart, server>>

Unreferenced(c) == IF job[c].kind = "cleanup" THEN {job[c].name} ELSE todo[c]

\* RemoveRouterPresetReferences
Unref(c) ==
    /\ pc[c] = "unref"
    /\ \/ /\ dflt' = IF dflt \in Unreferenced(c) THEN NoName ELSE dflt
          /\ autostart' = autostart \ Unreferenced(c)
          /\ \/ todo[c] = {} /\ Finish(c, "ok")
             \/ todo[c] # {} /\ Goto(c, "erase") /\ UNCHANGED <<locals, owed>>
             \/ Finish(c, "failed")
       \/ Finish(c, "failed") /\ UNCHANGED <<dflt, autostart>>
    /\ UNCHANGED <<presets, files, server>>

Erased(c, n, rest) ==
    /\ presets' = [presets EXCEPT ![n] = NoSource]
    /\ todo' = [todo EXCEPT ![c] = rest]
    /\ owed' = owed \ {n}
    /\ Goto(c, IF rest = {} THEN "status" ELSE "erase")
    /\ UNCHANGED <<job, ran, before, sound>>

\* Mutant: the loop over the Presets of a model ends after the first.
MutErase(c) ==
    /\ pc[c] = "erase"
    /\ \/ \E n \in todo[c] : Erased(c, n, {})
       \/ Finish(c, "failed") /\ UNCHANGED presets
    /\ UNCHANGED <<dflt, autostart, files, server>>

\* PresetStore.Delete, once for each Preset.
Erase(c) ==
    /\ pc[c] = "erase"
    /\ \/ \E n \in todo[c] :
             \/ Erased(c, n, todo[c] \ {n})
             \/ Finish(c, "failed") /\ presets' = [presets EXCEPT ![n] = NoSource]
       \/ Finish(c, "failed") /\ UNCHANGED presets
    /\ UNCHANGED <<dflt, autostart, files, server>>

-----------------------------------------------------------------------------
(* SetPresetAutostart *)

EnableCheck(c) ==
    /\ pc[c] = "enable"
    /\ IF job[c].flag /\ job[c].name \notin Existing
       THEN Finish(c, "rejected")
       ELSE Goto(c, "write") /\ UNCHANGED <<locals, owed>>
    /\ UNCHANGED <<disk, server>>

\* SetRouterAutostartPreset; the new document must validate.
Write(c) ==
    /\ pc[c] = "write"
    /\ \/ /\ autostart' = IF job[c].flag THEN autostart \cup {job[c].name}
                                         ELSE autostart \ {job[c].name}
          /\ Cardinality(autostart') <= ModelsMax
          /\ Finish(c, "ok") \/ Finish(c, "failed")
       \/ Finish(c, "failed") /\ UNCHANGED autostart
    /\ UNCHANGED <<presets, dflt, files, server>>

-----------------------------------------------------------------------------
(* The world around the manager *)

RouterDies ==
    /\ router = "up"
    /\ Stopped
    /\ owed' = {}
    /\ UNCHANGED <<disk, busy, pc, locals, boot, answer, wasUp>>

\* The child process of a loaded Preset ends.
PresetDrops(n) ==
    /\ n \in active
    /\ active' = active \ {n}
    /\ owed' = owed \ {n}
    /\ UNCHANGED <<disk, router, known, busy, pc, locals, boot, answer, wasUp>>

\* A request at the Router's own port makes it load a Preset.
OutsideLoad(n) ==
    /\ OutsideLoads
    /\ n \notin active
    /\ Loads(n)
    /\ owed' = owed \cap active'
    /\ UNCHANGED <<disk, busy, pc, locals, boot, answer, wasUp>>

\* A download finishes, or somebody removes a file.
FileChanges(m) ==
    /\ files' = IF m \in files THEN files \ {m} ELSE files \cup {m}
    /\ UNCHANGED <<presets, dflt, autostart, server, busy, pc, locals, boot,
                   history>>

\* The daemon dies and starts again; the Router lives on and is adopted.
Restart ==
    /\ busy' = FALSE
    /\ pc' = [c \in Clients |-> "idle"]
    /\ job' = [c \in Clients |-> NoJob]
    /\ ran' = [c \in Clients |-> FALSE]
    /\ before' = [c \in Clients |-> {}]
    /\ todo' = [c \in Clients |-> {}]
    /\ sound' = [c \in Clients |-> TRUE]
    /\ boot' = Startup
    /\ answer' = "none"
    /\ owed' = {}
    /\ wasUp' = FALSE
    /\ UNCHANGED <<disk, server>>

-----------------------------------------------------------------------------
OperationStep(c) ==
    \/ Admit(c) \/ Ensure(c) \/ Launch(c) \/ Unload(c) \/ Load(c) \/ Shutdown(c)

RefreshStep(c) ==
    \/ Status(c) \/ List(c) \/ Reload(c) \/ Restore(c)
    \/ Halt(c) \/ Relaunch(c) \/ Relist(c)

PresetStep(c) ==
    \/ Capture(c) \/ CaptureList(c) \/ Save(c) \/ Reread(c) \/ Revert(c)
    \/ EnableCheck(c) \/ Write(c)

RemovalStep(c) ==
    \/ CheckDelete(c) \/ CheckCleanup(c) \/ CheckModel(c)
    \/ Unlink(c) \/ Unref(c) \/ Erase(c)

Step(c) ==
    \/ ReadFails(c)
    \/ OperationStep(c)
    \/ RefreshStep(c)
    \/ PresetStep(c)
    \/ RemovalStep(c)

Environment ==
    \/ RouterDies
    \/ \E n \in Names : PresetDrops(n) \/ OutsideLoad(n)
    \/ \E m \in Models : FileChanges(m)
    \/ Restart

Next ==
    \/ \E c \in Clients : (\E j \in Jobs : Begin(c, j)) \/ Step(c)
    \/ Environment

Spec == Init /\ [][Next]_vars

\* Every call returns: file operations do, and the HTTP client, the readiness
\* probe and the stop of the Router have deadlines.
FairSpec == Spec /\ \A c \in Clients : WF_vars(Step(c))

-----------------------------------------------------------------------------
(* Properties *)

\* A creation that is being rolled back goes on as a job of its own kind.
JobTypes ==
    {j \in Requests(Kinds \cup {"revert"}) :
        j.kind \in {"put", "autostart"} => j.name \in Names}

\* Every variable stays in its range, a stopped Router knows and runs nothing,
\* a client without an operation keeps no state of one, and a startup snapshot
\* names Presets only.
DiskOK ==
    /\ presets \in [Names -> Sources \cup {NoSource}]
    /\ dflt \in Names \cup {NoName}
    /\ autostart \in SUBSET Names
    /\ files \in SUBSET Models

ServerOK ==
    /\ router \in {"stopped", "up"}
    /\ known \in SUBSET Names
    /\ active \in SUBSET known
    /\ router = "stopped" => known = {}

Calls == {"idle", "admit", "ensure", "launch", "unload", "load", "shutdown",
          "capture", "captureList", "save", "reread", "revert", "check",
          "unlink", "unref", "erase", "enable", "write", "status", "list",
          "reload", "restore", "halt", "relaunch", "relist"}

Answers == {"none", "ok", "rejected", "failed", "reverted", "recoveryFailed",
            "revertFailed"}

TasksOK ==
    /\ pc \in [Clients -> Calls]
    /\ job \in [Clients -> JobTypes \cup {NoJob}]
    /\ ran \in [Clients -> BOOLEAN]
    /\ before \in [Clients -> SUBSET Names]
    /\ todo \in [Clients -> SUBSET Names]
    /\ sound \in [Clients -> BOOLEAN]
    /\ busy \in BOOLEAN
    /\ boot \in [dflt : Names \cup {NoName}, autostart : SUBSET Names]
    /\ answer \in Answers
    /\ owed \in SUBSET Names
    /\ wasUp \in BOOLEAN

TypeOK == DiskOK /\ ServerOK /\ TasksOK

\* The busy flag is a mutex: one operation at a time, and the flag is up
\* exactly while it runs.
OneOperation ==
    /\ \A c, d \in Clients : pc[c] # "idle" /\ pc[d] # "idle" => c = d
    /\ busy <=> \E c \in Clients : pc[c] # "idle"

\* config.yaml never names a Preset that models.ini does not have: not after
\* a delete that raced an autostart, a cascade that stopped half way, a rolled
\* back creation or a crash between the two documents.
RefsExist == Referenced \subseteq Existing

\* The daemon never unlinks a model file that a loaded Preset reads, by name
\* or in its models-dir, though the check and the unlink are different steps.
LoadedFilesStay ==
    [][\A c \in Clients :
          pc[c] = "unlink" /\ pc'[c] # "unlink" /\ job[c].source \notin files'
             /\ job[c].source \in files
             => \A n \in active : presets[n] \notin {job[c].source, StorageDir}]_vars

Ends(c) == pc[c] # "idle" /\ pc'[c] = "idle"

\* A creation that is answered as reverted has left no Preset behind.
CreateAtomic ==
    [][\A c \in Clients :
          Ends(c) /\ answer' \in {"reverted", "recoveryFailed"}
             => presets'[job[c].name] = NoSource]_vars

\* After a successful deletion of a model no Preset names it.
CascadeComplete ==
    [][\A c \in Clients :
          Ends(c) /\ answer' = "ok" /\ job[c].kind = "deleteModel"
             => \A n \in Names : presets'[n] # job[c].source]_vars

\* "Active Presets are restored when a source change unloads them": when a
\* change is answered as done, or as undone, every Preset that was active when
\* it began, still exists and did not end by itself is active.
ActiveRestored ==
    [][\A c \in Clients :
          Ends(c) /\ answer' \in {"ok", "reverted"} => owed \subseteq active']_vars

\* The operations on one Preset; each calls ensureRouter, a stop as well.
Serves == {"start", "stop", "restart"}

\* "A stopped Router stays stopped" (README.md:260): a change of the sources, a
\* refresh or a rollback never starts a Router that was stopped when the
\* operation began, whatever failed in between; only the operations on a Preset
\* launch one.
StoppedStays ==
    [][router = "stopped" /\ router' = "up"
          => \E c \in Clients :
                pc[c] # "idle" /\ (job[c].kind \in Serves \/ wasUp)]_vars

\* The daemon never stays busy for good.
GateReleased == busy ~> ~busy

\* Each step of the manager is one atomic change of the catalog, or none: what
\* a check found is still so when a later call of the operation relies on it.
ShortLists == {S \in SUBSET Names : Cardinality(S) <= ModelsMax}

Catalog == INSTANCE PresetCatalog WITH Lists <- ShortLists
AtomicCatalog == Catalog!Spec

-----------------------------------------------------------------------------
(* The inductive invariant behind RefsExist, LoadedFilesStay and            *)
(* AtomicCatalog: what each operation still knows at its next call.         *)

\* Which operation makes which call, and what it has noted by then.
TaskOf(c) ==
    /\ pc[c] # "idle" => job[c] \in JobTypes
    /\ pc[c] = "admit" => job[c].kind \in {"start", "stop", "restart"}
    /\ pc[c] \in {"capture", "captureList", "save", "reread"} => job[c].kind = "put"
    /\ pc[c] = "revert" => Creating(c)
    /\ pc[c] \in {"enable", "write"} => job[c].kind = "autostart"
    /\ pc[c] \in {"check", "unlink", "unref", "erase"}
          => job[c].kind \in {"delete", "cleanup", "deleteModel"}
    /\ pc[c] = "unlink" => job[c].kind = "deleteModel"
    /\ pc[c] \in {"idle", "capture", "captureList"} => before[c] = {}
    /\ pc[c] \in {"idle", "capture", "captureList", "save"} => todo[c] = {}
    /\ pc[c] = "unref" /\ job[c].kind = "cleanup" => todo[c] \subseteq {job[c].name}

\* A creation past its save.
Saved(c) ==
    pc[c] \notin {"idle", "capture", "captureList", "save"} /\ Creating(c)

\* What is about to be erased is not referenced, and what is about to be
\* referenced exists.
ReferenceOf(c) ==
    /\ pc[c] = "erase" => todo[c] \cap Referenced = {}
    /\ pc[c] = "write" /\ job[c].flag => job[c].name \in Existing
    /\ Saved(c) => job[c].name \notin Referenced

\* What is about to be loaded exists, and what is about to be erased, or to
\* lose its file, is not loaded.
ActiveOf(c) ==
    /\ pc[c] \in {"ensure", "launch", "unload", "load", "restore"}
          => todo[c] \subseteq Existing
    /\ pc[c] = "relist" => known \subseteq Existing
    /\ pc[c] = "save" => before[c] \subseteq Existing
    /\ pc[c] \in {"unlink", "unref", "erase"} => todo[c] \cap active = {}
    /\ pc[c] = "unlink" =>
          \A n \in active : presets[n] \notin {job[c].source, StorageDir}
    /\ Saved(c) => job[c].name \notin active \cup todo[c] \cup before[c]

ReferenceInv ==
    /\ TypeOK
    /\ OneOperation
    /\ RefsExist
    /\ \A c \in Clients : TaskOf(c) /\ ReferenceOf(c)

IInv ==
    /\ ReferenceInv
    /\ active \subseteq Existing
    /\ \A c \in Clients : ActiveOf(c)
=============================================================================
