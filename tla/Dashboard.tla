------------------------------- MODULE Dashboard -------------------------------
(***************************************************************************)
(* The terminal dashboard (adapters/tui/tabs): one Model that handles a    *)
(* message at a time, the commands it starts, which run beside it and      *)
(* answer with a message of their own, and the world they read and change: *)
(* the startup services in config.yaml, the detached processes and the     *)
(* model files.  Drawing, scrolling and the log panes are left out.        *)
(***************************************************************************)
EXTENDS Integers, Sequences, FiniteSets

CONSTANTS Paths,      \* model files, in the order they are listed
          MaxKeys,    \* bound: keys that start a command
          MaxChanges, \* bound: changes made by anyone
          Scopes      \* bounds of a behaviour, one is chosen at its start: the
                      \* panels whose controls are used, the fields of the
                      \* snapshot that matter, whether anything is started at the
                      \* launch, the keys pressed and the changes made elsewhere

ASSUME DashboardAssumption ==
    /\ Paths \subseteq Nat \ {0} /\ MaxKeys \in Nat /\ MaxChanges \in Nat
    /\ Scopes \subseteq [panels : SUBSET {"daemon", "gateway"}, launch : BOOLEAN,
                        fields : SUBSET {"config", "models"}, keys : 0..MaxKeys, elsewhere : 0..MaxChanges]

VARIABLES scope,
          startup,    \* startup_services in config.yaml
          running,    \* detached processes that run
          disk,       \* model files
          changed,    \* when config.yaml and the files last changed
          clock,      \* changes so far
          snapshot,   \* what is shown of each field, and when that was read
          refreshing, \* a poll is under way
          polls,      \* polls under way
          stopping,   \* panels whose controls are locked
          cmds,       \* commands by the key that started them; 0 is autostart
          keys,       \* keys pressed that started one
          cursor, pending, \* the selected model, and the one to be confirmed
          shown,      \* history: the model selected when d was first pressed
          told        \* history: whether the last gateway command was a Stop that
                    \* ended well, took a configuration that was not the file's,
                    \* or had another beside it

worldVars == <<startup, running, disk, changed, clock>>
viewVars == <<snapshot, refreshing, polls>>
modelVars == <<cursor, pending, shown>>
vars == <<scope, worldVars, viewVars, stopping, cmds, keys, modelVars, told>>

Services == {"daemon", "gateway"}      \* as startup services: control and web
Fields == {"config", "models"}
None == [value |-> {}, at |-> -1]
Idle == [step |-> "none", panel |-> "", do |-> "", base |-> {}, path |-> 0, err |-> FALSE]
NewPoll == [left |-> scope.fields, got |-> [f \in Fields |-> None]]
Quiet == [stopped |-> FALSE, stale |-> FALSE, over |-> FALSE]

Init ==
    /\ scope \in Scopes
    /\ startup = Services /\ running = {"daemon"} /\ disk = Paths
    /\ changed = [f \in Fields |-> 0] /\ clock = 0
    /\ snapshot = [f \in Fields |-> None]
    /\ refreshing = TRUE /\ polls = <<NewPoll>>
    /\ stopping = {}
    /\ cmds = [i \in 0..MaxKeys |-> IF i = 0 /\ scope.launch THEN [Idle EXCEPT !.step = "read"] ELSE Idle]
    /\ keys = 0 /\ cursor = 1 /\ pending = 0 /\ shown = 0 /\ told = Quiet

Change(field, new) ==
    /\ clock' = clock + 1
    /\ changed' = [changed EXCEPT ![field] = clock + 1]
    /\ IF field = "config" THEN startup' = new /\ UNCHANGED disk
                           ELSE disk' = new /\ UNCHANGED startup

----------------------------------------------------------------------------
(* Model.refresh and the poll: one at a time *)

MutRefresh == refreshing' = TRUE /\ polls' = Append(polls, NewPoll) /\ UNCHANGED snapshot
Refresh ==
    IF refreshing THEN UNCHANGED viewVars
    ELSE refreshing' = TRUE /\ polls' = Append(polls, NewPoll) /\ UNCHANGED snapshot

\* dashboardTickMsg, and the key r
Tick ==
    /\ ~refreshing /\ Refresh
    /\ UNCHANGED <<scope, worldVars, stopping, cmds, keys, modelVars, told>>

Fetched(p, f, result) ==
    /\ f \in polls[p].left
    /\ polls' = [polls EXCEPT ![p].left = @ \ {f}, ![p].got[f] = result]
    /\ UNCHANGED <<scope, worldVars, snapshot, refreshing, stopping, cmds, keys, modelVars, told>>

\* What the daemon is asked for needs a daemon.
FetchOK(p, f) ==
    /\ f = "config" \/ "daemon" \in running
    /\ Fetched(p, f, [value |-> IF f = "config" THEN startup ELSE disk, at |-> clock])

FetchFails(p, f) == Fetched(p, f, None)

\* mergeSnapshot keeps a field that could not be read.
Merge(got) == [f \in Fields |-> IF got[f] = None THEN snapshot[f] ELSE got[f]]

MutLanded == UNCHANGED refreshing
Landed == refreshing' = FALSE

PollResult(p) ==
    /\ polls[p].left = {}
    /\ snapshot' = Merge(polls[p].got)
    /\ Landed
    /\ polls' = [q \in 1..(Len(polls) - 1) |-> IF q < p THEN polls[q] ELSE polls[q + 1]]
    /\ UNCHANGED <<scope, worldVars, stopping, cmds, keys, modelVars, told>>

----------------------------------------------------------------------------
(* The Services tab *)

Step(i, step) == [cmds EXCEPT ![i].step = step]
Ended(i, err) == [cmds EXCEPT ![i].step = "done", ![i].err = err]
InFlight(panel) == {i \in 1..MaxKeys : cmds[i].step \notin {"none", "gone"} /\ cmds[i].panel = panel}

NewCommand(cmd) ==
    /\ keys < scope.keys
    /\ keys' = keys + 1
    /\ cmds' = [cmds EXCEPT ![keys + 1] = cmd]

Lock(panel, do) == stopping' = IF do = "stop" THEN stopping \cup {panel} ELSE stopping

Action(panel, do) ==
    /\ panel \in scope.panels \ stopping
    /\ NewCommand([Idle EXCEPT !.step = "asked", !.panel = panel, !.do = do])
    /\ Lock(panel, do)
    /\ UNCHANGED <<scope, worldVars, viewVars, modelVars, told>>

\* actionRequestMsg: the command takes the configuration shown at this moment.
Request(i) ==
    /\ cmds[i].step = "asked"
    /\ cmds' = [cmds EXCEPT ![i].step = "run", ![i].base = snapshot["config"].value]
    /\ told' = IF cmds[i].panel # "gateway" THEN told
               ELSE [stopped |-> FALSE,
                     stale |-> snapshot["config"].at < changed["config"],
                     over |-> InFlight("gateway") # {i}]
    /\ UNCHANGED <<scope, worldVars, viewVars, stopping, keys, modelVars>>

\* runProcessAction: a Start of what runs is an error, a Stop of what does not is none.
RunProcess(i) ==
    /\ cmds[i].step = "run" /\ cmds[i].panel \in Services
    /\ LET panel == cmds[i].panel  do == cmds[i].do
       IN \/ /\ do = "start" => panel \notin running
             /\ running' = CASE do = "start" -> running \cup {panel}
                             [] do = "stop" -> running \ {panel}
                             [] OTHER -> running
             /\ cmds' = IF panel = "gateway" /\ do # "open" THEN Step(i, "persist") ELSE Ended(i, FALSE)
          \/ cmds' = Ended(i, TRUE) /\ UNCHANGED running
    /\ UNCHANGED <<scope, startup, disk, changed, clock, viewVars, stopping, keys, modelVars, told>>

\* persistGatewayStartup
Base(shownServices) == IF shownServices = {} THEN Services ELSE shownServices
MutDesired(base, do) == IF do = "start" THEN base \cup {"gateway"} ELSE base
Desired(base, do) == IF do = "start" THEN base \cup {"gateway"} ELSE base \ {"gateway"}

Persist(i) ==
    /\ cmds[i].step = "persist"
    /\ LET base == Base(cmds[i].base)  desired == Desired(base, cmds[i].do)
       IN \/ /\ desired = base
             /\ cmds' = Ended(i, FALSE) /\ UNCHANGED <<startup, disk, changed, clock>>
          \/ /\ desired # base /\ "daemon" \in running /\ clock < MaxChanges
             /\ Change("config", desired)
             /\ cmds' = Ended(i, FALSE)
          \/ /\ desired # base
             /\ cmds' = Ended(i, TRUE) /\ UNCHANGED <<startup, disk, changed, clock>>
    /\ UNCHANGED <<scope, running, viewVars, stopping, keys, modelVars, told>>

Unlock(i) == stopping' = IF cmds[i].do = "stop" THEN stopping \ {cmds[i].panel} ELSE stopping

ActionResult(i) ==
    /\ cmds[i].step = "done" /\ cmds[i].panel \in Services
    /\ cmds' = Step(i, "gone")
    /\ Unlock(i)
    /\ Refresh
    /\ told' = IF cmds[i].panel = "gateway" /\ cmds[i].do = "stop" /\ ~cmds[i].err
                 /\ ~told.over
               THEN [told EXCEPT !.stopped = TRUE] ELSE told
    /\ UNCHANGED <<scope, worldVars, keys, modelVars>>

----------------------------------------------------------------------------
(* The Models tab: rows are those of the snapshot *)

Rows == snapshot["models"].value
\* the row under the cursor, the last one when there are fewer
Selected == CHOOSE p \in Rows : 
    LET before == Cardinality({q \in Rows : q < p})
    IN before + 1 = IF cursor <= Cardinality(Rows) THEN cursor ELSE Cardinality(Rows)

\* Moves, tab and esc disarm.
Move ==
    /\ Rows # {}
    /\ cursor' \in 1..Cardinality(Rows)
    /\ pending' = 0 /\ shown' = 0
    /\ UNCHANGED <<scope, worldVars, viewVars, stopping, cmds, keys, told>>

\* Status.Confirm of the toolkit: a second key on the same target runs it.
MutConfirmed(target) == pending # 0
Confirmed(target) == pending = target

\* deleteSelected passes over a row without a path.
DeleteKey(confirm) ==
    /\ Rows # {} /\ Selected # 0
    /\ IF Confirmed(Selected)
       THEN /\ NewCommand([Idle EXCEPT !.step = "run", !.do = "delete", !.path = Selected])
            /\ pending' = 0 /\ UNCHANGED shown
       ELSE /\ ~confirm
            /\ pending' = Selected /\ shown' = Selected
            /\ UNCHANGED <<cmds, keys>>
    /\ UNCHANGED <<scope, worldVars, viewVars, stopping, cursor, told>>

\* DeleteLocalModel
Delete(i) ==
    /\ cmds[i].step = "run" /\ cmds[i].do = "delete"
    /\ \/ /\ "daemon" \in running /\ cmds[i].path \in disk /\ clock < MaxChanges
          /\ Change("models", disk \ {cmds[i].path})
          /\ cmds' = Ended(i, FALSE)
       \/ cmds' = Ended(i, TRUE) /\ UNCHANGED <<startup, disk, changed, clock>>
    /\ UNCHANGED <<scope, running, viewVars, stopping, keys, modelVars, told>>

\* modelDeleteResultMsg; whether it disarms is the toolkit's.
DeleteResult(i) ==
    /\ cmds[i].step = "done" /\ cmds[i].do = "delete"
    /\ cmds' = Step(i, "gone")
    /\ pending' \in {pending, 0}
    /\ Refresh
    /\ UNCHANGED <<scope, worldVars, stopping, keys, cursor, shown, told>>

----------------------------------------------------------------------------
(* Model.Init: the startup services that do not run are started. *)

AutostartRead ==
    /\ cmds[0].step = "read"
    /\ \/ cmds' = [cmds EXCEPT ![0].step = "start", ![0].base = startup]
       \/ cmds' = Step(0, "gone")
    /\ UNCHANGED <<scope, worldVars, viewVars, stopping, keys, modelVars, told>>

AutostartOne ==
    /\ cmds[0].step = "start"
    /\ \E s \in cmds[0].base :
         /\ "daemon" \in cmds[0].base => s = "daemon"
         /\ running' \in {running, running \cup {s}}
         /\ cmds' = [cmds EXCEPT ![0].base = @ \ {s}, ![0].do = IF running' # running THEN "some" ELSE @]
    /\ UNCHANGED <<scope, startup, disk, changed, clock, viewVars, stopping, keys, modelVars, told>>

AutostartResult ==
    /\ cmds[0].step = "start" /\ cmds[0].base = {}
    /\ cmds' = Step(0, "gone")
    /\ IF cmds[0].do = "some" THEN Refresh ELSE UNCHANGED viewVars
    /\ UNCHANGED <<scope, worldVars, stopping, keys, modelVars, told>>

----------------------------------------------------------------------------
\* Another client, or a process that ends or is started by hand.
Elsewhere ==
    /\ clock < scope.elsewhere
    /\ \/ \E s \in SUBSET Services :
            "config" \in scope.fields /\ s # startup /\ Change("config", s) /\ UNCHANGED running
            /\ told' = [Quiet EXCEPT !.over = TRUE]
       \/ \E d \in SUBSET Paths : 
            "models" \in scope.fields /\ d # disk /\ Change("models", d) /\ UNCHANGED <<running, told>>
       \/ /\ \E s \in Services : running' = IF s \in running THEN running \ {s} ELSE running \cup {s}
          /\ clock' = clock + 1 /\ UNCHANGED <<startup, disk, changed, told>>
    /\ UNCHANGED <<scope, viewVars, stopping, cmds, keys, modelVars>>

Command(i) == Request(i) \/ RunProcess(i) \/ Persist(i) \/ ActionResult(i) \/ Delete(i) \/ DeleteResult(i)
Autostart == AutostartRead \/ AutostartOne \/ AutostartResult
PollStep(p) == PollResult(p) \/ \E f \in Fields : FetchOK(p, f) \/ FetchFails(p, f)

Next ==
    \/ Tick
    \/ \E p \in 1..Len(polls) : PollStep(p)
    \/ \E panel \in Services, do \in {"start", "stop", "open"} : Action(panel, do)
    \/ \E confirm \in BOOLEAN : DeleteKey(confirm)
    \/ Move
    \/ \E i \in 1..MaxKeys : Command(i)
    \/ Autostart
    \/ Elsewhere

Spec == Init /\ [][Next]_vars

\* Ticks come, commands and polls end, and config.yaml is read at last when it
\* can be read again and again.
FairSpec ==
    /\ Spec
    /\ WF_vars(Tick)
    /\ WF_vars(\E p \in 1..Len(polls) : PollStep(p))
    /\ SF_vars(\E p \in 1..Len(polls) : FetchOK(p, "config"))
    /\ WF_vars(\E i \in 1..MaxKeys : Command(i))

----------------------------------------------------------------------------
(* Properties *)

\* Nothing shown is replaced by something read earlier.
NeverBack == [][\A f \in Fields : snapshot'[f].at >= snapshot[f].at]_vars

\* A model is deleted only when it was the selected one at the first d too,
\* although a poll may change the rows between the two keys.
DeleteAsShown == [][\A i \in 1..MaxKeys :
    cmds[i].do # "delete" /\ cmds'[i].do = "delete" => cmds'[i].path = shown]_vars

\* A change of config.yaml is shown at last, also when the refresh after the
\* command that made it was dropped because a poll was under way.
ConfigShown == \A n \in 1..MaxChanges :
    (changed["config"] = n) ~> (snapshot["config"].at >= n)

\* "an explicit Stop in the TUI is remembered": the gateway's Stop that ended
\* well, with no other command of it under way and no change made elsewhere,
\* leaves it out of the startup services, if the configuration shown when it was
\* asked for was the one in the file.
SeenStopRemembered == told.stopped /\ ~told.stale => "gateway" \notin startup
================================================================================
