--------------------------- MODULE RouterProcess ---------------------------
(***************************************************************************)
(* The supervisor of the one llama-server process (core/runtime and        *)
(* platform/pidfile): Start, Stop, Status and Recover of one LlamaServer   *)
(* value, the goroutine that waits for each started child, the PID file    *)
(* that outlives the daemon, and the operating system's process table.     *)
(*                                                                         *)
(* The mutex r.mu is held by one operation at a time.  "phase" says how    *)
(* far the holder got; it is "idle" when nobody holds the mutex and "down" *)
(* when no daemon runs.  Between two steps of the holder, the waiters, the *)
(* kernel and a crash of the daemon may take steps.                        *)
(***************************************************************************)
EXTENDS Naturals, FiniteSets

CONSTANTS
    Pids,          \* process identifiers the kernel hands out
    NoPid,         \* pid 0 of the code, and "no PID file"
    MaxStarts,     \* bound: children one daemon starts
    MaxBoots,      \* bound: times the daemon is booted
    LateExit,      \* a waiter may report an exit after the next Start began
    PidReuse,      \* the kernel gives a freed pid to another process
    OtherListener, \* another program answers on the Router's port
    UnrecordedCrash \* the daemon may die while its child is in no PID file

ASSUME ProcessAssumption ==
    /\ NoPid \notin Pids
    /\ MaxStarts \in Nat
    /\ MaxBoots \in Nat
    /\ {LateExit, PidReuse, OtherListener, UnrecordedCrash} \subseteq BOOLEAN

Gens == 1..MaxStarts

VARIABLES
    proc,     \* the process table: pid -> what runs under it
    killed,   \* pids that were sent SIGKILL and have not exited yet
    pidFile   \* the pid router.pid records

VARIABLES
    phase,    \* how far the holder of r.mu is
    op,       \* the operation that holds r.mu
    result,   \* what the last operation returned
    pid,      \* r.pid
    gen,      \* the Start whose cmd and done r holds, 0 when they are nil
    ready,    \* r.ready
    boots     \* daemons started so far

VARIABLES
    waiter,   \* the waiter goroutine of each Start
    child,    \* the pid each Start's command got
    chan      \* whether an exit lies in the done channel of each Start

osVars == <<proc, killed>>
memVars == <<pid, gen, ready, child>>
vars == <<proc, killed, pidFile, phase, op, result, pid, gen,
          ready, boots, waiter, child, chan>>

Init ==
    /\ proc = [p \in Pids |-> "unused"]
    /\ killed = {}
    /\ pidFile = NoPid
    /\ phase = "down"
    /\ op = "none"
    /\ result = "none"
    /\ pid = NoPid
    /\ gen = 0
    /\ ready = FALSE
    /\ boots = 0
    /\ waiter = [i \in Gens |-> "none"]
    /\ child = [i \in Gens |-> NoPid]
    /\ chan = [i \in Gens |-> FALSE]

-----------------------------------------------------------------------------
(* pidfile.go *)

\* Alive: signal 0 reaches a running process and an exited, unreaped one.
Alive(p) == p # NoPid /\ proc[p] \in {"router", "zombie", "foreign"}

\* Remove(expected), called by the holder of r.mu: only a record of that very
\* pid is deleted.  It reads, compares and unlinks, in one step here: only a
\* Start writes the file, and it would hold r.mu; a waiter can but delete it.
\* (The waiter, which does not hold r.mu, takes the steps one by one below.)
RemoveRecord(p) == pidFile' = IF pidFile = p THEN NoPid ELSE pidFile

(* isRunning: an exit in r.done is consumed and answers "not running"; with *)
(* none there, the process table decides.                                   *)

Reported == gen # 0 /\ chan[gen]

\* Mutant: a Router that is still starting does not count as running.
MutIsRunningReady == pid # NoPid /\ ~Reported /\ Alive(pid) /\ ready

IsRunning == pid # NoPid /\ ~Reported /\ Alive(pid)

ConsumeReport ==
    IF pid # NoPid /\ gen # 0
    THEN /\ chan' = [chan EXCEPT ![gen] = FALSE]
         /\ ready' = (ready /\ ~chan[gen])
    ELSE UNCHANGED <<chan, ready>>

Return(outcome) ==
    /\ phase' = "idle"
    /\ op' = "none"
    /\ result' = outcome

Goto(p) == phase' = p /\ UNCHANGED <<op, result>>

-----------------------------------------------------------------------------
(* Start *)

\* A pid the kernel may assign: never used before, or used and free again.
Assignable(p) == proc[p] = "unused" \/ (PidReuse /\ proc[p] = "gone")

StartRefused ==
    /\ phase = "idle"
    /\ IsRunning
    /\ Return("refused")
    /\ UNCHANGED <<osVars, memVars, pidFile, boots, waiter, chan>>

\* The command cannot be built or cmd.Start fails.
StartFails ==
    /\ phase = "idle"
    /\ ~IsRunning
    /\ ConsumeReport
    /\ Return("failed")
    /\ UNCHANGED <<osVars, pidFile, boots, waiter, pid, gen, child>>

\* cmd.Start, started(cmd) and the waiter goroutine.  The new done channel is
\* empty; an exit left in the old one is lost with it.
StartSpawn(p) ==
    /\ phase = "idle"
    /\ ~IsRunning
    /\ gen < MaxStarts
    /\ Assignable(p)
    /\ LateExit \/ \A i \in Gens : waiter[i] \in {"none", "done"}
    /\ proc' = [proc EXCEPT ![p] = "router"]
    /\ pid' = p
    /\ gen' = gen + 1
    /\ ready' = FALSE
    /\ child' = [child EXCEPT ![gen + 1] = p]
    /\ waiter' = [waiter EXCEPT ![gen + 1] = "wait"]
    /\ chan' = IF pid # NoPid /\ gen # 0
               THEN [chan EXCEPT ![gen] = FALSE] ELSE chan
    /\ phase' = "spawned"
    /\ op' = "start"
    /\ result' = "none"
    /\ UNCHANGED <<killed, pidFile, boots>>

\* Mutant: the error of file.Write is ignored.
MutStartRecordIgnoresError ==
    /\ phase = "spawned"
    /\ pidFile' \in {pid, pidFile}
    /\ Goto("ready")
    /\ UNCHANGED <<osVars, memVars, boots, waiter, chan>>

\* file.Write and close(recorded); a failed write rolls the start back.
StartRecord ==
    /\ phase = "spawned"
    /\ \/ pidFile' = pid /\ Goto("ready")
       \/ pidFile' = pidFile /\ Goto("check")
    /\ UNCHANGED <<osVars, memVars, boots, waiter, chan>>

\* One turn of waitReady: the child must run, then the port is probed.
ReadyCheck ==
    /\ phase = "ready"
    /\ Goto(IF IsRunning THEN "probe" ELSE "check")
    /\ ConsumeReport
    /\ UNCHANGED <<osVars, pidFile, pid, gen, child, boots, waiter>>

\* Whoever listens on the port answers the probe.
ProbeAnswered ==
    /\ phase = "probe"
    /\ OtherListener \/ \E p \in Pids : proc[p] = "router"
    /\ ready' = TRUE
    /\ Return("started")
    /\ UNCHANGED <<osVars, pidFile, pid, gen, child, boots, waiter, chan>>

ProbeRetry ==
    /\ phase = "probe"
    /\ Goto("ready")
    /\ UNCHANGED <<osVars, memVars, pidFile, boots, waiter, chan>>

\* The deadline passed or the caller's context ended: rollbackStart.
ReadinessTimeout ==
    /\ phase = "probe"
    /\ Goto("check")
    /\ UNCHANGED <<osVars, memVars, pidFile, boots, waiter, chan>>

-----------------------------------------------------------------------------
(* Stop and the rollback of a Start *)

StopNotRunning ==
    /\ phase = "idle"
    /\ ~IsRunning
    /\ ConsumeReport
    /\ Return("stopped")
    /\ UNCHANGED <<osVars, pidFile, boots, waiter, pid, gen, child>>

StopBegin ==
    /\ phase = "idle"
    /\ IsRunning
    /\ phase' = "check"
    /\ op' = "stop"
    /\ result' = "none"
    /\ UNCHANGED <<osVars, memVars, pidFile, boots, waiter, chan>>

\* The deferred end of stopProcess: the record and the fields are cleared
\* whatever happened to the process.
Forget(stopped) ==
    /\ RemoveRecord(pid)
    /\ pid' = NoPid
    /\ ready' = FALSE
    /\ Return(IF op = "start" THEN "failed"
              ELSE IF stopped THEN "stopped" ELSE "stopFailed")
    /\ UNCHANGED <<gen, child, boots, waiter>>

\* stopProcess asks isRunning again before it signals.
CheckExited ==
    /\ phase = "check"
    /\ ~IsRunning
    /\ chan' = IF pid # NoPid /\ gen # 0
               THEN [chan EXCEPT ![gen] = FALSE] ELSE chan
    /\ Forget(TRUE)
    /\ UNCHANGED osVars

CheckRunning ==
    /\ phase = "check"
    /\ IsRunning
    /\ Goto("interrupt")
    /\ UNCHANGED <<osVars, memVars, pidFile, boots, waiter, chan>>

Interrupt ==
    /\ phase = "interrupt"
    /\ Alive(pid)
    /\ Goto("wait")
    /\ UNCHANGED <<proc, killed, memVars, pidFile, boots, waiter, chan>>

\* Nothing to signal any more: kill(2) fails and Stop returns its error.
InterruptFails ==
    /\ phase = "interrupt"
    /\ ~Alive(pid)
    /\ Forget(FALSE)
    /\ UNCHANGED <<osVars, chan>>

\* A started child is awaited on r.done, in "wait" and once more after SIGKILL.
WaitDone ==
    /\ phase \in {"wait", "killWait"}
    /\ Reported
    /\ chan' = [chan EXCEPT ![gen] = FALSE]
    /\ Forget(phase = "wait")
    /\ UNCHANGED osVars

\* An adopted process is polled.
WaitGone ==
    /\ phase = "wait"
    /\ gen = 0
    /\ ~Alive(pid)
    /\ Forget(TRUE)
    /\ UNCHANGED <<osVars, chan>>

\* Mutant: the timed-out process is given up without SIGKILL.
MutKillNothing == UNCHANGED osVars

\* SIGKILL after the stop timeout, or at once when the context has ended.
Kill ==
    /\ killed' = IF Alive(pid) /\ proc[pid] # "zombie"
                 THEN killed \cup {pid} ELSE killed
    /\ UNCHANGED proc

\* Mutant: the wait for a started child has no timeout.
MutStopTimeoutAdoptedOnly ==
    /\ phase = "wait"
    /\ gen = 0
    /\ Kill
    /\ Forget(FALSE)
    /\ UNCHANGED chan

StopTimeout ==
    /\ phase = "wait"
    /\ Kill
    /\ IF gen = 0
       THEN Forget(FALSE)
       ELSE Goto("killWait") /\ UNCHANGED <<memVars, pidFile, boots, waiter>>
    /\ UNCHANGED chan

\* One second after the SIGKILL nothing has arrived on r.done.
KillTimeout ==
    /\ phase = "killWait"
    /\ Forget(FALSE)
    /\ UNCHANGED <<osVars, chan>>

-----------------------------------------------------------------------------
(* Status *)

StatusUp ==
    /\ phase = "idle"
    /\ IsRunning
    /\ Return("up")
    /\ UNCHANGED <<osVars, memVars, pidFile, boots, waiter, chan>>

\* statusLocked drops the record of the process it no longer sees.
StatusDown ==
    /\ phase = "idle"
    /\ ~IsRunning
    /\ ConsumeReport
    /\ IF pid # NoPid THEN RemoveRecord(pid) ELSE UNCHANGED pidFile
    /\ Return("down")
    /\ UNCHANGED <<osVars, boots, waiter, pid, gen, child>>

-----------------------------------------------------------------------------
(* The waiter goroutine of start i *)

WaiterReap(i) ==
    /\ waiter[i] = "wait"
    /\ proc[child[i]] = "zombie"
    /\ proc' = [proc EXCEPT ![child[i]] = "gone"]
    /\ waiter' = [waiter EXCEPT ![i] = "reaped"]
    /\ UNCHANGED <<killed, memVars, pidFile, phase, op, result,
                   boots, chan>>

\* What the waiter's read tells it to do: unlink the file when it names the
\* waiter's own child, or when a later Start is just writing it and it reads
\* as empty; go on to the send when it is gone or names another process.
ReadSays(i) ==
    (IF pidFile = child[i] THEN {"unlink"} ELSE {"send"})
        \cup (IF phase = "spawned" THEN {"unlink"} ELSE {})

\* Mutant: the waiter does not wait for close(recorded).
MutWaiterLookEarly(i) ==
    /\ waiter[i] = "reaped"
    /\ \E next \in ReadSays(i) : waiter' = [waiter EXCEPT ![i] = next]
    /\ UNCHANGED <<osVars, memVars, pidFile, phase, op, result, boots, chan>>

\* Once its Start has written the file (close(recorded)), Remove reads it and
\* compares the pids, without r.mu.
WaiterLook(i) ==
    /\ waiter[i] = "reaped"
    /\ ~(phase = "spawned" /\ i = gen)
    /\ \E next \in ReadSays(i) : waiter' = [waiter EXCEPT ![i] = next]
    /\ UNCHANGED <<osVars, memVars, pidFile, phase, op, result, boots, chan>>

\* os.Remove deletes the file, whatever it names by now.
WaiterUnlink(i) ==
    /\ waiter[i] = "unlink"
    /\ pidFile' = NoPid
    /\ waiter' = [waiter EXCEPT ![i] = "send"]
    /\ UNCHANGED <<osVars, memVars, phase, op, result, boots, chan>>

\* Mutant: an unbuffered channel, which only a Stop in progress receives from.
MutWaiterSendUnbuffered(i) ==
    /\ waiter[i] = "send"
    /\ phase \in {"wait", "killWait"}
    /\ chan' = [chan EXCEPT ![gen] = TRUE]
    /\ waiter' = [waiter EXCEPT ![i] = "done"]
    /\ UNCHANGED <<osVars, memVars, pidFile, phase, op, result, boots>>

\* r.done is read without r.mu: the send may reach the channel of any Start
\* from this goroutine's own to the latest.  It blocks while that is full.
WaiterSend(i) ==
    /\ waiter[i] = "send"
    /\ \E c \in i..gen :
          /\ ~chan[c]
          /\ chan' = [chan EXCEPT ![c] = TRUE]
    /\ waiter' = [waiter EXCEPT ![i] = "done"]
    /\ UNCHANGED <<osVars, memVars, pidFile, phase, op, result, boots>>

-----------------------------------------------------------------------------
(* The kernel and the daemon's own life *)

OwnChild(p) == \E i \in Gens : waiter[i] = "wait" /\ child[i] = p

\* A Router exits; its parent reaps it, or init when the parent is gone.
ProcessExit(p) ==
    /\ proc[p] \in {"router", "foreign"}
    /\ proc' = [proc EXCEPT ![p] = IF OwnChild(p) THEN "zombie" ELSE "gone"]
    /\ killed' = killed \ {p}
    /\ UNCHANGED <<memVars, pidFile, phase, op, result, boots,
                   waiter, chan>>

ForeignStart(p) ==
    /\ PidReuse
    /\ proc[p] = "gone"
    /\ proc' = [proc EXCEPT ![p] = "foreign"]
    /\ UNCHANGED <<killed, memVars, pidFile, phase, op, result,
                   boots, waiter, chan>>

\* Routers that nobody has put to death.
Live == {p \in Pids : proc[p] = "router" /\ p \notin killed}

Crash ==
    /\ phase # "down"
    /\ UnrecordedCrash \/ Live \subseteq {pidFile}
    /\ phase' = "down"
    /\ op' = "none"
    /\ result' = "none"
    /\ pid' = NoPid
    /\ gen' = 0
    /\ ready' = FALSE
    /\ waiter' = [i \in Gens |-> "none"]
    /\ child' = [i \in Gens |-> NoPid]
    /\ chan' = [i \in Gens |-> FALSE]
    /\ proc' = [p \in Pids |-> IF proc[p] = "zombie" THEN "gone" ELSE proc[p]]
    /\ UNCHANGED <<killed, pidFile, boots>>

\* NewService recovers: the recorded pid is adopted when it is alive and runs
\* the configured executable, and probed once; any other record is removed.
Boot ==
    /\ phase = "down"
    /\ boots < MaxBoots
    /\ boots' = boots + 1
    /\ Return("none")
    /\ IF pidFile # NoPid /\ proc[pidFile] = "router"
       THEN /\ pid' = pidFile
            /\ ready' \in BOOLEAN
            /\ UNCHANGED pidFile
       ELSE /\ pidFile' = NoPid
            /\ UNCHANGED <<pid, ready>>
    /\ UNCHANGED <<osVars, gen, child, waiter, chan>>

-----------------------------------------------------------------------------
Operation ==
    \/ StartRefused
    \/ StartFails
    \/ \E p \in Pids : StartSpawn(p)
    \/ StopNotRunning
    \/ StopBegin
    \/ StatusUp
    \/ StatusDown

\* The steps of the operation that holds the mutex.
Continue ==
    \/ StartRecord
    \/ ReadyCheck
    \/ ProbeAnswered
    \/ ProbeRetry
    \/ CheckExited
    \/ CheckRunning
    \/ Interrupt
    \/ InterruptFails
    \/ WaitDone
    \/ WaitGone
    \/ StopTimeout
    \/ KillTimeout

WaiterStep(i) ==
    WaiterReap(i) \/ WaiterLook(i) \/ WaiterUnlink(i) \/ WaiterSend(i)

Next ==
    \/ Operation
    \/ Continue
    \/ ReadinessTimeout
    \/ \E i \in Gens : WaiterStep(i)
    \/ \E p \in Pids : ProcessExit(p) \/ ForeignStart(p)
    \/ Crash
    \/ Boot

Spec == Init /\ [][Next]_vars

\* Goroutines that can run do run, the readiness deadline passes in real time
\* (so a probe loop does not retry for ever), and SIGKILL takes effect.
Fairness ==
    /\ WF_vars(Continue)
    /\ SF_vars(ReadinessTimeout)
    /\ \A i \in Gens : WF_vars(WaiterStep(i))
    /\ \A p \in Pids : WF_vars(p \in killed /\ ProcessExit(p))

FairSpec == Spec /\ Fairness
-----------------------------------------------------------------------------
(* Properties *)

\* Every variable stays in its range, and the fields of LlamaServer agree with
\* one another: Stop and rollback leave no readiness behind, r.pid is the pid
\* of the command r.cmd, an operation in progress has a process to work on,
\* and exactly the Starts of this daemon have goroutines.
TypeOK ==
    /\ proc \in [Pids -> {"unused", "router", "zombie", "gone", "foreign"}]
    /\ killed \subseteq Pids
    /\ pidFile \in Pids \cup {NoPid}
    /\ phase \in {"down", "idle", "spawned", "ready", "probe", "check",
                  "interrupt", "wait", "killWait"}
    /\ op \in {"none", "start", "stop"}
    /\ result \in {"none", "refused", "failed", "started", "stopped",
                   "stopFailed", "up", "down"}
    /\ pid \in Pids \cup {NoPid}
    /\ gen \in 0..MaxStarts
    /\ ready \in BOOLEAN
    /\ boots \in 0..MaxBoots
    /\ waiter \in [Gens -> {"none", "wait", "reaped", "unlink", "send", "done"}]
    /\ child \in [Gens -> Pids \cup {NoPid}]
    /\ chan \in [Gens -> BOOLEAN]
    /\ ready => pid # NoPid
    /\ gen # 0 /\ pid # NoPid => pid = child[gen]
    /\ \A i \in Gens : waiter[i] = "none" <=> i > gen
    /\ phase = "down" => gen = 0 /\ pid = NoPid
    /\ phase \notin {"idle", "down"} => pid # NoPid

\* The process the supervisor answers for: r.pid, or while no daemon runs the
\* one the PID file would let the next daemon adopt.
Tracked == IF phase = "down" THEN {pidFile} ELSE {pid}

\* No llama-server runs behind the supervisor's back: ADR 0011's "single
\* supervised llama-server process".  A Router that is neither tracked nor
\* already sent SIGKILL would keep the port and the GPU for good.
SingleRouter == Live \subseteq Tracked

\* At every moment but the one between cmd.Start and file.Write (and the
\* rollback of a failed write) a crash of the daemon would leave the running
\* Router recoverable: Stop, Status and the waiters remove its record only
\* when it is gone or has been killed.
LiveRouterRecorded ==
    phase \in {"idle", "ready", "probe"} \/ op = "stop" => Live \subseteq {pidFile}

\* A "stopped" answer is true until the next operation: after Stop returns nil,
\* or Status reports Stopped, no Router runs, whatever interleaving of waiter,
\* exit and timeout led to the answer.
StoppedMeansStopped == result \in {"stopped", "down"} => Live = {}

\* Once a child's waiter has passed its removal, the PID file does not name
\* that child any more: the wait for close(recorded) keeps the removal behind
\* the write.  (A later child may have been given the same pid.)
ExitErasesRecord ==
    \A i \in Gens :
       waiter[i] \in {"send", "done"} /\ pidFile = child[i]
          => \E j \in Gens : j > i /\ child[j] = child[i]

\* ADR 0007: "an old process cannot delete a replacement process's record".
\* No step of a waiter takes the record of a running Router away.  It fails:
\* a Start may write between the waiter's read of the file and its unlink.
WaiterKeepsReplacement ==
    [][\A i \in Gens :
          waiter'[i] # waiter[i] /\ pidFile \in Live => pidFile' = pidFile]_vars

\* Whoever takes the mutex gives it back: no wait of Start or Stop hangs on a
\* child that ignores SIGINT, on a silent port or on a lost exit.
MutexReleased == phase \notin {"idle", "down"} ~> phase \in {"idle", "down"}

\* The exit of a child is always collected, and its waiter never hangs on a
\* full channel.
ExitCollected ==
    \A i \in Gens :
       waiter[i] \in {"reaped", "unlink", "send"} ~> waiter[i] \in {"done", "none"}
-----------------------------------------------------------------------------
(* The inductive invariant behind SingleRouter, LiveRouterRecorded and      *)
(* StoppedMeansStopped.  It needs exits to be reported before the next      *)
(* Start (~LateExit) and no crash with an unrecorded child.                 *)

\* What the phase says about the operation, its answer and the fields.
ControlOK ==
    /\ phase \in {"idle", "down"} <=> op = "none"
    /\ phase \in {"spawned", "ready", "probe"} => op = "start"
    /\ result # "none" => phase = "idle"
    /\ phase = "killWait" => gen # 0

\* Only the latest Start can still have a goroutine at work, a done channel is
\* filled by its own goroutine alone, and a reaped child is no Router.
WaiterOK ==
    /\ \A i \in Gens : waiter[i] \in {"wait", "reaped", "unlink", "send"} => i = gen
    /\ \A i \in Gens : chan[i] => waiter[i] = "done"
    /\ \A i \in Gens : i = gen =>
          /\ child[i] \in Pids
          /\ waiter[i] = "wait" => proc[child[i]] \in {"router", "zombie"}
          /\ waiter[i] # "wait" => proc[child[i]] \in {"gone", "foreign"}

\* Who answers for a live Router, in memory and on disk.
OwnershipOK ==
    /\ phase # "down" => Live \subseteq {pid}
    /\ phase \in {"down", "idle", "ready", "probe"} \/ op = "stop"
          => Live \subseteq {pidFile}
    /\ result \in {"stopped", "down"} \/ phase = "killWait" => Live = {}

IInv == TypeOK /\ ControlOK /\ WaiterOK /\ OwnershipOK
=============================================================================
