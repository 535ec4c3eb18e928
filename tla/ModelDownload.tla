---------------------------- MODULE ModelDownload ---------------------------
(***************************************************************************)
(* The download manager (core/modeldownload): Start, Cancel and Get called *)
(* by request goroutines, one goroutine per download, the maps that m.mu   *)
(* guards, and the files <target> and <target>.part in the model storage.  *)
(* m.mu is held inside one action and never across two; Get reads only.    *)
(***************************************************************************)
CONSTANTS
    Callers,    \* request goroutines that call Start
    Ids,        \* job identifiers, random in the code
    Targets,    \* paths of model files
    NoId,       \* no job; no file
    Leftover,   \* a .part file of a daemon that died
    NoRequest   \* the caller has no Start in progress

ASSUME DownloadAssumption ==
    /\ NoId \notin Ids
    /\ Leftover \notin Ids \cup {NoId}
    /\ NoRequest \notin [target : Targets, skip : BOOLEAN]

VARIABLES
    state,      \* the State of each job
    target,     \* its TargetPath
    active,     \* m.active: the job of each destination
    cancels,    \* m.cancel: jobs whose cancel function is registered
    stopped,    \* jobs whose context is cancelled
    request     \* a Start between Resolve and m.mu

VARIABLES
    pc,         \* the next step of each job's goroutine
    err         \* what download returned

VARIABLES
    part,       \* <target>.part: the job that created or truncated it last
    file        \* <target>

maps == <<state, target, active, cancels, stopped>>
storage == <<part, file>>
vars == <<state, target, active, cancels, stopped, request, pc, err, part, file>>

Unused == {i \in Ids : state[i] = "none"}

\* The destination of an identifier that no job has is never looked at.
Init ==
    /\ state = [i \in Ids |-> "none"]
    /\ target \in [Ids -> Targets]
    /\ active = [t \in Targets |-> NoId]
    /\ cancels = {}
    /\ stopped = {}
    /\ request = [c \in Callers |-> NoRequest]
    /\ pc = [i \in Ids |-> "none"]
    /\ err = [i \in Ids |-> "none"]
    /\ part \in [Targets -> {NoId, Leftover}]
    /\ file \in [Targets -> {"absent", "whole"}]

-----------------------------------------------------------------------------
(* Start and Cancel *)

\* The catalog says whether the file is there already; m.mu is not held.
Resolve(c, t, force) ==
    /\ request[c] = NoRequest
    /\ request' = [request EXCEPT ![c] =
                      [target |-> t, skip |-> file[t] # "absent" /\ ~force]]
    /\ UNCHANGED <<maps, pc, err, storage>>

StartSkips(c, i) ==
    /\ request[c] # NoRequest
    /\ request[c].skip
    /\ state' = [state EXCEPT ![i] = "already"]
    /\ target' = [target EXCEPT ![i] = request[c].target]
    /\ request' = [request EXCEPT ![c] = NoRequest]
    /\ UNCHANGED <<active, cancels, stopped, pc, err, storage>>

\* A download of that destination has not ended: its job is the answer.
StartJoins(c) ==
    /\ request[c] # NoRequest
    /\ ~request[c].skip
    /\ active[request[c].target] # NoId
    /\ request' = [request EXCEPT ![c] = NoRequest]
    /\ UNCHANGED <<maps, pc, err, storage>>

\* Mutant: the destination is not looked up among the active ones.
MutStartQueues(c, i) ==
    /\ request[c] # NoRequest
    /\ ~request[c].skip
    /\ LET t == request[c].target IN
       /\ state' = [state EXCEPT ![i] = "queued"]
       /\ target' = [target EXCEPT ![i] = t]
       /\ active' = [active EXCEPT ![t] = i]
    /\ cancels' = cancels \cup {i}
    /\ pc' = [pc EXCEPT ![i] = "begin"]
    /\ request' = [request EXCEPT ![c] = NoRequest]
    /\ UNCHANGED <<stopped, err, storage>>

StartQueues(c, i) ==
    /\ request[c] # NoRequest
    /\ ~request[c].skip
    /\ LET t == request[c].target IN
       /\ active[t] = NoId
       /\ state' = [state EXCEPT ![i] = "queued"]
       /\ target' = [target EXCEPT ![i] = t]
       /\ active' = [active EXCEPT ![t] = i]
    /\ cancels' = cancels \cup {i}
    /\ pc' = [pc EXCEPT ![i] = "begin"]
    /\ request' = [request EXCEPT ![c] = NoRequest]
    /\ UNCHANGED <<stopped, err, storage>>

\* Mutant: the destination is free as soon as its job is cancelled.
MutCancel(i) ==
    /\ state[i] \in {"queued", "running"}
    /\ state' = [state EXCEPT ![i] = "cancelled"]
    /\ stopped' = stopped \cup (cancels \cap {i})
    /\ active' = [active EXCEPT ![target[i]] = NoId]
    /\ UNCHANGED <<target, cancels, request, pc, err, storage>>

\* Any other state is a conflict, and nothing changes.
Cancel(i) ==
    /\ state[i] \in {"queued", "running"}
    /\ state' = [state EXCEPT ![i] = "cancelled"]
    /\ stopped' = stopped \cup (cancels \cap {i})
    /\ UNCHANGED <<target, active, cancels, request, pc, err, storage>>

-----------------------------------------------------------------------------
(* The goroutine of job i: run and download *)

Goto(i, p) == pc' = [pc EXCEPT ![i] = p] /\ UNCHANGED err

\* download returns; run reports.
Returns(i, e) ==
    /\ pc' = [pc EXCEPT ![i] = "report"]
    /\ err' = [err EXCEPT ![i] = e]

SetPart(i, by) == part' = [part EXCEPT ![target[i]] = by]

Begin(i) ==
    /\ pc[i] = "begin"
    /\ state' = [state EXCEPT ![i] = IF @ = "cancelled" THEN @ ELSE "running"]
    /\ Goto(i, "open")
    /\ UNCHANGED <<target, active, cancels, stopped, request, storage>>

\* prepareTarget and openDownload: only an answer with a bad status removes
\* the .part file.
Open(i) ==
    /\ pc[i] = "open"
    /\ \/ i \notin stopped /\ Goto(i, "create") /\ UNCHANGED part
       \/ Returns(i, "error") /\ (UNCHANGED part \/ SetPart(i, NoId))
       \/ i \in stopped /\ Returns(i, "canceled") /\ UNCHANGED part
    /\ UNCHANGED <<maps, request, file>>

\* O_CREATE and O_TRUNC: whatever .part there was is emptied.
Create(i) ==
    /\ pc[i] = "create"
    /\ \/ SetPart(i, i) /\ Goto(i, "copy")
       \/ Returns(i, "error") /\ UNCHANGED part
    /\ UNCHANGED <<maps, request, file>>

\* copyDownload runs to the end of the body or to an error; a cancelled context
\* ends the body with an error, unless the rest had arrived.
Copy(i) ==
    /\ pc[i] = "copy"
    /\ \/ Goto(i, "check") /\ UNCHANGED part
       \/ Returns(i, "error") /\ SetPart(i, NoId)
       \/ i \in stopped /\ Returns(i, "canceled") /\ SetPart(i, NoId)
    /\ UNCHANGED <<maps, request, file>>

\* Mutant: a download that was cancelled at its end keeps its .part file.
MutCheck(i) ==
    /\ pc[i] = "check"
    /\ IF i \in stopped
       THEN Returns(i, "canceled")
       ELSE Goto(i, "place")
    /\ UNCHANGED <<maps, request, storage>>

\* The last look at the context.
Check(i) ==
    /\ pc[i] = "check"
    /\ IF i \in stopped
       THEN Returns(i, "canceled") /\ SetPart(i, NoId)
       ELSE Goto(i, "place") /\ UNCHANGED part
    /\ UNCHANGED <<maps, request, file>>

\* Sync, Close, and finalizeDownload's rename.  What is renamed is whole when
\* this job filled it; SyncDir may fail with the file in place.
Place(i) ==
    /\ pc[i] = "place"
    /\ SetPart(i, NoId)
    /\ \/ /\ part[target[i]] # NoId
          /\ file' = [file EXCEPT ![target[i]] =
                         IF part[target[i]] = i THEN "whole" ELSE "broken"]
          /\ Returns(i, "none") \/ Returns(i, "error")
       \/ Returns(i, "error") /\ UNCHANGED file
    /\ UNCHANGED <<maps, request>>

\* Mutant: a cancelled job is reported by its error alone.
MutOutcome(i) ==
    CASE err[i] = "canceled" -> "cancelled"
      [] err[i] = "error" -> "failed"
      [] OTHER -> "completed"

Outcome(i) ==
    CASE state[i] = "cancelled" \/ err[i] = "canceled" -> "cancelled"
      [] state[i] # "cancelled" /\ err[i] = "error" -> "failed"
      [] OTHER -> "completed"

Report(i) ==
    /\ pc[i] = "report"
    /\ state' = [state EXCEPT ![i] = Outcome(i)]
    /\ Goto(i, "clear")
    /\ UNCHANGED <<target, active, cancels, stopped, request, storage>>

\* Mutant: the destination is freed only by a completed download.
MutClear(i) ==
    /\ pc[i] = "clear"
    /\ active' = IF active[target[i]] = i /\ state[i] = "completed"
                 THEN [active EXCEPT ![target[i]] = NoId] ELSE active
    /\ cancels' = cancels \ {i}
    /\ Goto(i, "done")
    /\ UNCHANGED <<state, target, stopped, request, storage>>

Clear(i) ==
    /\ pc[i] = "clear"
    /\ active' = IF active[target[i]] = i
                 THEN [active EXCEPT ![target[i]] = NoId] ELSE active
    /\ cancels' = cancels \ {i}
    /\ Goto(i, "done")
    /\ UNCHANGED <<state, target, stopped, request, storage>>

-----------------------------------------------------------------------------
(* The storage directory and the daemon's life *)

\* DeleteLocal, or the user.
FileRemoved(t) ==
    /\ file[t] # "absent"
    /\ file' = [file EXCEPT ![t] = "absent"]
    /\ UNCHANGED <<maps, request, pc, err, part>>

\* The daemon dies: its jobs are gone, a .part file stays.
Crash ==
    /\ state' = [i \in Ids |-> "none"]
    /\ active' = [t \in Targets |-> NoId]
    /\ cancels' = {}
    /\ stopped' = {}
    /\ request' = [c \in Callers |-> NoRequest]
    /\ pc' = [i \in Ids |-> "none"]
    /\ err' = [i \in Ids |-> "none"]
    /\ part' = [t \in Targets |-> IF part[t] = NoId THEN NoId ELSE Leftover]
    /\ UNCHANGED <<target, file>>

-----------------------------------------------------------------------------
Start(c) ==
    \/ \E t \in Targets, force \in BOOLEAN : Resolve(c, t, force)
    \/ \E i \in Unused : StartSkips(c, i) \/ StartQueues(c, i)
    \/ StartJoins(c)

Run(i) ==
    \/ Begin(i) \/ Open(i) \/ Create(i) \/ Copy(i) \/ Check(i) \/ Place(i)
    \/ Report(i) \/ Clear(i)

Next ==
    \/ \E c \in Callers : Start(c)
    \/ \E i \in Ids : Cancel(i) \/ Run(i)
    \/ \E t \in Targets : FileRemoved(t)
    \/ Crash

Spec == Init /\ [][Next]_vars

\* A goroutine runs while it need not wait for the server, and a cancelled
\* context ends that wait.  A server that stays silent may hold one for ever:
\* the HTTP client has no timeout.
FairSpec ==
    /\ Spec
    /\ \A i \in Ids :
          WF_vars((pc[i] \notin {"open", "copy"} \/ i \in stopped) /\ Run(i))

-----------------------------------------------------------------------------
(* Properties *)

\* Every variable stays in its range; a job has a goroutine exactly when it was
\* queued, and its outcome is the last thing the goroutine tells.
TypeOK ==
    /\ state \in [Ids -> {"none", "already", "queued", "running", "completed",
                          "failed", "cancelled"}]
    /\ target \in [Ids -> Targets]
    /\ active \in [Targets -> Ids \cup {NoId}]
    /\ cancels \subseteq Ids
    /\ stopped \subseteq Ids
    /\ request \in [Callers -> [target : Targets, skip : BOOLEAN] \cup {NoRequest}]
    /\ pc \in [Ids -> {"none", "begin", "open", "create", "copy", "check",
                       "place", "report", "clear", "done"}]
    /\ err \in [Ids -> {"none", "error", "canceled"}]
    /\ part \in [Targets -> Ids \cup {NoId, Leftover}]
    /\ file \in [Targets -> {"absent", "whole", "broken"}]
    /\ \A i \in Ids :
          /\ pc[i] = "none" <=> state[i] \in {"none", "already"}
          /\ pc[i] = "begin" => state[i] \in {"queued", "cancelled"}
          /\ pc[i] \in {"open", "create", "copy", "check", "place", "report"}
                => state[i] \in {"running", "cancelled"}
          /\ pc[i] \in {"clear", "done"}
                => state[i] \in {"completed", "failed", "cancelled"}

Working(i) == pc[i] \notin {"none", "done"}

\* Two goroutines never work on one destination, whatever order of Start,
\* Cancel, a second Start and the end of the first download: the .part file
\* has one writer.
OneWriter ==
    \A i, j \in Ids : Working(i) /\ Working(j) /\ target[i] = target[j] => i = j

\* A model file is whole or absent: no half-written .part file is ever renamed
\* into place, after cancels, failures, crashes or with a second Start.
WholeFiles == \A t \in Targets : file[t] # "broken"

\* A goroutine that has ended leaves no .part file behind, on any of its error
\* paths.
NoLitter == \A i \in Ids : pc[i] \in {"report", "clear", "done"} => part[target[i]] # i

\* The answer of a finished job does not change: a cancel that raced the end of
\* the download is not overwritten by its goroutine, nor the other way round.
OutcomeIsFinal ==
    [][\A i \in Ids :
          state[i] \in {"already", "completed", "failed", "cancelled"}
             => state'[i] \in {state[i], "none"}]_vars

\* A cancelled download frees its destination, so that a later Start can
\* download the file.
CancelFrees ==
    \A i \in Ids : state[i] = "cancelled" ~> active[target[i]] # i

-----------------------------------------------------------------------------
(* The inductive invariant behind OneWriter, WholeFiles and NoLitter: the   *)
(* working jobs are exactly the active ones, and each fills its own .part.  *)

ActiveOK ==
    \A i \in Ids : Working(i) <=> active[target[i]] = i

ActiveTarget == \A t \in Targets : active[t] # NoId => target[active[t]] = t

PartOK ==
    /\ \A i \in Ids : pc[i] \in {"copy", "check", "place"} => part[target[i]] = i
    /\ \A t \in Targets : part[t] \in Ids =>
          /\ pc[part[t]] \in {"copy", "check", "place"}
          /\ target[part[t]] = t

IInv == TypeOK /\ ActiveOK /\ ActiveTarget /\ PartOK /\ WholeFiles
=============================================================================
