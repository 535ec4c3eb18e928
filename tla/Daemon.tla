--------------------------------- MODULE Daemon ---------------------------------
(***************************************************************************)
(* The control daemon as a process: the commands that start, stop and      *)
(* query it through a PID file (platform/process/detached.go), its way     *)
(* from the start to the control socket (bootstrap, core/rpc) and its      *)
(* shutdown (cmd/serve.go, platform/process/run.go).  A daemon may also be *)
(* run in the foreground, without PID file and log.  The Router is one     *)
(* process that outlives a daemon that dies; RouterProcess has its detail. *)
(***************************************************************************)
EXTENDS LogFiles

CONSTANTS Commands,    \* processes of the command line and the TUI
          MaxDaemons,  \* bound: daemons started
          Scopes       \* bounds of a behaviour, one is chosen at its start: which
                       \* commands run and how many, how many lines are written,
                       \* whether the log is followed, whether the Router is used
                       \* and daemons run in the foreground

ASSUME DaemonAssumption ==
    /\ MaxDaemons \in Nat
    /\ Scopes \subseteq [commands : SUBSET Commands, runs : Nat, lines : 0..MaxLines,
                        follows : BOOLEAN, router : BOOLEAN, foreground : BOOLEAN]

VARIABLES scope,    \* the bounds of this behaviour
          life,     \* of each daemon: where it stands between its start and its end
          logOf,    \* the log file its output goes to; 0 in the foreground
          termed,   \* daemons that got SIGTERM
          socket,   \* whose listener the socket file belongs to, 0 when missing
          router,   \* the Router: "none" runs, one runs that router.pid records,
                    \* or one runs "lost", in no record
          keepers,  \* daemons that manage it
          pidFile,  \* 0 when missing
          cmd,      \* of each command: where it stands, the PID it read or started,
                    \* and whether it saw an empty log
          runs,     \* commands run
          marks     \* history: what happened that a property excepts:
                    \*   raced     two commands were under way at once
                    \*   norecord  a PID could not be written
                    \*   crossed   two daemons were between dial and bind, or one
                    \*             in its shutdown met another
                    \*   unread    a daemon came up and could not read router.pid,
                    \*             or not remove it
                    \*   overtaken a Router was started while another daemon had
                    \*             looked for one and not ended

daemonVars == <<life, logOf, termed>>
routerVars == <<router, keepers>>
cmdVars == <<pidFile, cmd, runs>>
vars == <<logVars, scope, daemonVars, socket, routerVars, cmdVars, marks>>

Daemons == 1..MaxDaemons
Alive(d) == d # 0 /\ life[d] \notin {"unborn", "dead"}
Others(d) == {e \in Daemons \ {d} : Alive(e)}
Unborn == {d \in Daemons : life[d] = "unborn" /\ \A e \in 1..(d - 1) : life[e] # "unborn"}
Ready == [at |-> "idle", pid |-> 0, empty |-> FALSE]

Init ==
    /\ LogInit
    /\ scope \in Scopes
    /\ life = [d \in Daemons |-> "unborn"] /\ logOf = [d \in Daemons |-> 0]
    /\ termed = {} /\ socket = 0 /\ router = "none" /\ keepers = {}
    /\ pidFile = 0 /\ cmd = [c \in Commands |-> Ready] /\ runs = 0
    /\ marks = {}

Mark(name, when) == marks' = IF when THEN marks \cup {name} ELSE marks

----------------------------------------------------------------------------
(* Commands: StartDetached, StatusDetached, StopDetached *)

At(c, step) == cmd[c].at = step
Goto(c, step) == cmd' = [cmd EXCEPT ![c].at = step]
Done(c) == cmd' = [cmd EXCEPT ![c] = Ready]

\* File.Running: a PID that lives is returned, any other content is removed in
\* a step of its own, whatever the file holds by then.
Command(c, absent, running, dead) ==
    /\ At(c, "idle") /\ c \in scope.commands /\ runs < scope.runs
    /\ runs' = runs + 1
    /\ LET at == IF pidFile = 0 THEN absent ELSE IF Alive(pidFile) THEN running ELSE dead
       IN cmd' = [cmd EXCEPT ![c] =
                    [at |-> at, pid |-> IF at = "term" THEN pidFile ELSE 0, empty |-> FALSE]]
    /\ Mark("raced", \E b \in Commands \ {c} : ~At(b, "idle"))
    /\ UNCHANGED <<logVars, scope, daemonVars, socket, routerVars, pidFile>>

StartDetached(c) == Command(c, "look", "idle", "clear+start")
StatusDetached(c) == Command(c, "idle", "idle", "clear")
StopDetached(c) == Command(c, "idle", "term", "clear")

Clear(c) ==
    /\ At(c, "clear") \/ At(c, "clear+start")
    /\ pidFile' = 0
    /\ Goto(c, IF At(c, "clear") THEN "idle" ELSE "look")
    /\ UNCHANGED <<logVars, scope, daemonVars, socket, routerVars, runs, marks>>

\* AttachLogs
Look(c) ==
    /\ At(c, "look")
    /\ cmd' = [cmd EXCEPT ![c].at = "move", ![c].empty = path # 0 /\ text[path] = <<>>]
    /\ UNCHANGED <<logVars, scope, daemonVars, socket, routerVars, pidFile, runs, marks>>

Move(c) ==
    /\ At(c, "move")
    /\ MoveLog(cmd[c].empty)
    /\ Goto(c, "spawn")
    /\ UNCHANGED <<followVars, scope, daemonVars, socket, routerVars, pidFile, runs, marks>>

Born(d, log) ==
    /\ life' = [life EXCEPT ![d] = "boot"]
    /\ logOf' = [logOf EXCEPT ![d] = log]
    /\ UNCHANGED termed

\* The log is opened and the daemon started; either may fail.
Spawn(c) ==
    /\ At(c, "spawn")
    /\ OpenLog
    /\ \/ \E d \in Unborn :
            /\ Born(d, IF path # 0 THEN path ELSE Len(text) + 1)
            /\ cmd' = [cmd EXCEPT ![c] = [at |-> "record", pid |-> d, empty |-> FALSE]]
       \/ Done(c) /\ UNCHANGED daemonVars
    /\ UNCHANGED <<archives, deleted, followVars, scope, socket, routerVars, pidFile, runs, marks>>

\* A PID that cannot be written ends the daemon that was started.
MutUnrecorded(d) == UNCHANGED termed
Unrecorded(d) == termed' = termed \cup {d}

RecordPID(c) ==
    /\ At(c, "record")
    /\ \/ pidFile' = cmd[c].pid /\ UNCHANGED <<termed, marks>>
       \/ Unrecorded(cmd[c].pid) /\ Mark("norecord", TRUE) /\ UNCHANGED pidFile
    /\ Done(c)
    /\ UNCHANGED <<logVars, scope, life, logOf, socket, routerVars, runs>>

Terminate(c) ==
    /\ At(c, "term")
    /\ termed' = termed \cup {cmd[c].pid}
    /\ Goto(c, "wait")
    /\ UNCHANGED <<logVars, scope, life, logOf, socket, routerVars, pidFile, runs, marks>>

Kill(d) == life' = [life EXCEPT ![d] = "dead"] /\ keepers' = keepers \ {d}

Wait(c) ==
    /\ At(c, "wait")
    /\ IF Alive(cmd[c].pid) THEN Kill(cmd[c].pid) ELSE UNCHANGED <<life, keepers>>
    /\ Goto(c, "remove")
    /\ UNCHANGED <<logVars, scope, logOf, termed, socket, router, pidFile, runs, marks>>

\* File.Remove leaves the PID of another process.
RemovePID(c) ==
    /\ At(c, "remove")
    /\ pidFile' = IF pidFile = cmd[c].pid THEN 0 ELSE pidFile
    /\ Done(c)
    /\ UNCHANGED <<logVars, scope, daemonVars, socket, routerVars, runs, marks>>

CommandStep(c) ==
    Clear(c) \/ Look(c) \/ Move(c) \/ Spawn(c) \/ RecordPID(c) \/ Terminate(c) \/ Wait(c)
      \/ RemovePID(c)

----------------------------------------------------------------------------
(* A daemon *)

Become(d, stage) == life' = [life EXCEPT ![d] = stage] /\ UNCHANGED <<logOf, termed>>
Dies(d) == Become(d, "dead") /\ keepers' = keepers \ {d} /\ UNCHANGED router
Listening(d) == d # 0 /\ life[d] = "serve"
Closing(d) == life[d] \in {"unlink", "stop"}

\* serve without --detach
ServeForeground ==
    /\ scope.foreground
    /\ \E d \in Unborn : Born(d, 0)
    /\ UNCHANGED <<logVars, scope, socket, routerVars, cmdVars, marks>>

\* Recover adopts the Router that router.pid names.
Adopt(d) == keepers' = keepers \cup {d} /\ UNCHANGED router

\* Mutant: the record that is not adopted stays.
MutDisown == UNCHANGED routerVars

\* A Router whose executable is not the configured one is not adopted, and its
\* record goes.
Disown == router' = "lost" /\ UNCHANGED keepers

\* RecoverRouterRuntime.  Whatever it answers, the daemon goes on; nothing is
\* adopted when the record cannot be read, a refused one not be removed, or
\* there is none.
RecoverRouter(d) ==
    /\ life[d] = "boot"
    /\ \/ router = "recorded" /\ (Adopt(d) \/ Disown) /\ UNCHANGED marks
       \/ Mark("unread", router = "recorded") /\ UNCHANGED routerVars
    /\ Become(d, "launch")
    /\ UNCHANGED <<logVars, scope, socket, cmdVars>>

\* Daemons that have looked for a Router and may yet serve.
Recovered(d) == life[d] \in {"launch", "dial", "unstale", "bind", "serve"}

\* The daemon d starts a Router and records it.  Beside a Router that it does not
\* manage the new process cannot have the port: it ends, and the record that
\* was written over goes with it.
Launch(d) ==
    /\ scope.router
    /\ d \notin keepers
    /\ IF router = "none"
       THEN /\ router' = "recorded" /\ keepers' = {d}
            /\ Mark("overtaken", \E e \in Others(d) : Recovered(e))
       ELSE router' = "lost" /\ UNCHANGED <<keepers, marks>>

\* StartAutostartPresets starts a Router when a Preset is configured.
Autostart(d) ==
    /\ life[d] = "launch"
    /\ Launch(d) \/ UNCHANGED <<routerVars, marks>>
    /\ Become(d, "dial")
    /\ UNCHANGED <<logVars, scope, socket, cmdVars>>

\* The daemon dies between the start of a Router and its record.
DiesLaunching(d) ==
    /\ scope.router
    /\ life[d] \in {"launch", "serve"}
    /\ router = "none" /\ router' = "lost" /\ UNCHANGED keepers
    /\ Become(d, "dead")
    /\ UNCHANGED <<logVars, scope, socket, cmdVars, marks>>

\* removeStaleSocket: a socket someone answers on ends this daemon (Fatal: no
\* shutdown); any other is removed.
MutInUse == FALSE
InUse == Listening(socket)

DialSocket(d) ==
    /\ life[d] = "dial"
    /\ IF InUse THEN Dies(d)
       ELSE Become(d, IF socket = 0 THEN "bind" ELSE "unstale") /\ UNCHANGED routerVars
    /\ Mark("crossed", \E e \in Others(d) : life[e] \in {"unstale", "bind"} \/ Closing(e))
    /\ UNCHANGED <<logVars, scope, socket, cmdVars>>

RemoveStale(d) ==
    /\ life[d] = "unstale"
    /\ socket' = 0
    /\ Become(d, "bind")
    /\ UNCHANGED <<logVars, scope, routerVars, cmdVars, marks>>

Bind(d) ==
    /\ life[d] = "bind"
    /\ IF socket = 0 THEN socket' = d /\ Become(d, "serve") /\ UNCHANGED routerVars
                     ELSE Dies(d) /\ UNCHANGED socket
    /\ UNCHANGED <<logVars, scope, cmdVars, marks>>

\* Before process.Run a SIGTERM ends the daemon at once; after it the listener
\* is closed, which removes the socket file, and requests are waited for.
Signalled(d) ==
    /\ d \in termed /\ Alive(d) /\ ~Closing(d)
    /\ IF life[d] = "serve"
       THEN /\ socket' = 0 /\ Become(d, "unlink") /\ UNCHANGED routerVars
            /\ Mark("crossed", \E e \in Others(d) : life[e] \in {"unstale", "bind", "serve"})
       ELSE Dies(d) /\ UNCHANGED <<socket, marks>>
    /\ UNCHANGED <<logVars, scope, cmdVars>>

\* shutdown removes the file at the socket's path once more
Unlink(d) ==
    /\ life[d] = "unlink"
    /\ socket' = 0
    /\ Become(d, "stop")
    /\ UNCHANGED <<logVars, scope, routerVars, cmdVars, marks>>

\* ... and stops the Router.
StopRouter(d) ==
    /\ life[d] = "stop"
    /\ Become(d, "dead")
    /\ IF d \in keepers THEN router' = "none" /\ keepers' = {} ELSE UNCHANGED routerVars
    /\ UNCHANGED <<logVars, scope, socket, cmdVars, marks>>

DaemonDies(d) ==
    /\ Alive(d) /\ Dies(d)
    /\ UNCHANGED <<logVars, scope, socket, cmdVars, marks>>

DaemonStep(d) ==
    RecoverRouter(d) \/ Autostart(d) \/ DiesLaunching(d) \/ DialSocket(d) \/ RemoveStale(d) \/ Bind(d) \/ Signalled(d) \/ Unlink(d)
      \/ StopRouter(d) \/ DaemonDies(d)

\* A client of a serving daemon starts the Router; it is stopped, or it dies.
UseRouter ==
    /\ \/ \E d \in Daemons : Listening(d) /\ Launch(d)
       \/ router # "none" /\ router' = "none" /\ keepers' = {} /\ UNCHANGED marks
    /\ UNCHANGED <<logVars, scope, daemonVars, socket, cmdVars>>

DaemonLogs(d) ==
    /\ Alive(d) /\ logOf[d] # 0 /\ LastLine < scope.lines
    /\ WriteLine(logOf[d])
    /\ UNCHANGED <<scope, daemonVars, socket, routerVars, cmdVars, marks>>

Reader ==
    /\ scope.follows
    /\ RemoveArchives \/ FollowStart \/ FollowStop
    /\ UNCHANGED <<scope, daemonVars, socket, routerVars, cmdVars, marks>>

Poll == Follow /\ UNCHANGED <<scope, daemonVars, socket, routerVars, cmdVars, marks>>

Next ==
    \/ \E c \in Commands : StartDetached(c) \/ StatusDetached(c) \/ StopDetached(c) \/ CommandStep(c)
    \/ ServeForeground
    \/ \E d \in Daemons : DaemonStep(d) \/ DaemonLogs(d)
    \/ UseRouter
    \/ Reader
    \/ Poll

Spec == Init /\ [][Next]_vars

----------------------------------------------------------------------------
(* Properties *)

Stages == {"unborn", "boot", "launch", "dial", "unstale", "bind", "serve", "unlink", "stop", "dead"}

\* A daemon that is gone manages no Router, and one that does not run has no manager.
TypeOK ==
    /\ life \in [Daemons -> Stages]
    /\ socket \in 0..MaxDaemons
    /\ keepers \subseteq {d \in Daemons : Alive(d)}
    /\ router \in {"none", "recorded", "lost"}
    /\ router = "none" => keepers = {}

\* As long as no two commands run at once, every live daemon that runs detached
\* is the one in the PID file, or told to end, or about to be recorded: none is
\* left that "down" would not find.
Recorded == "raced" \notin marks =>
    \A d \in Daemons : Alive(d) /\ logOf[d] # 0 =>
        pidFile = d \/ d \in termed \/ \E c \in Commands : At(c, "record") /\ cmd[c].pid = d

\* A daemon that serves is reached through the socket file, and so it is the
\* only one, however many were started, unless two met between dial and bind or
\* one in its shutdown met another.
Reachable == "crossed" \notin marks => \A d \in Daemons : Listening(d) => socket = d

\* A serving daemon manages the Router that router.pid names, also when an earlier
\* daemon died and left it and however many came up beside it, unless one could
\* not read the record, or the Router was started after another daemon had
\* looked for one.  (A Router that is lost has no record, and need have no
\* manager.)
RouterManaged == router = "recorded" /\ marks \cap {"unread", "overtaken"} = {} =>
    \A d \in Daemons : Listening(d) => d \in keepers

================================================================================
