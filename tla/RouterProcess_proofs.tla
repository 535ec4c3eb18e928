------------------------ MODULE RouterProcess_proofs ------------------------
(***************************************************************************)
(* Proofs about RouterProcess, for every set of pids and every bound.      *)
(***************************************************************************)
EXTENDS RouterProcess, TLAPS

\* The steps of the kernel, the waiters and the daemon's life, as one action:
\* everything that happens without r.mu.
Environment ==
    \/ \E i \in Gens : WaiterStep(i)
    \/ \E p \in Pids : ProcessExit(p) \/ ForeignStart(p)
    \/ Crash
    \/ Boot

-----------------------------------------------------------------------------
(* Type correctness, whatever the kernel and the scheduler do. *)

LEMMA InitTypeOK == Init => TypeOK
<1> SUFFICES ASSUME Init PROVE TypeOK
  OBVIOUS
<1> USE DEF Init
<1>1. \A i \in Gens : i > 0
  BY ProcessAssumption DEF ProcessAssumption, Gens
<1>2. gen \in 0..MaxStarts /\ boots \in 0..MaxBoots
  BY ProcessAssumption DEF ProcessAssumption
<1>3. chan \in [Gens -> BOOLEAN] /\ ready \in BOOLEAN
  OBVIOUS
<1>4. \A i \in Gens : waiter[i] = "none" <=> i > gen
  BY <1>1
<1>5. ready => pid # NoPid
  OBVIOUS
<1>6. gen # 0 /\ pid # NoPid => pid = child[gen]
  OBVIOUS
<1> QED
  BY <1>2, <1>3, <1>4, <1>5, <1>6 DEF TypeOK

LEMMA OperationTypeOK ==
  ASSUME TypeOK, Operation
  PROVE  TypeOK'
<1> USE ProcessAssumption DEF ProcessAssumption, TypeOK, Gens, memVars, osVars, Return
<1>1. CASE StartRefused
  BY <1>1 DEF StartRefused
<1>2. CASE StartFails
  BY <1>2 DEF StartFails, ConsumeReport
<1>3. ASSUME NEW p \in Pids, StartSpawn(p)
      PROVE  TypeOK'
  <2>1. gen \in Nat /\ gen + 1 \in Gens /\ gen + 1 \in 0..MaxStarts
    BY <1>3 DEF StartSpawn
  <2>2. child' \in [Gens -> Pids \cup {NoPid}] /\ child'[gen'] = pid'
    BY <1>3, <2>1 DEF StartSpawn
  <2>3. chan' \in [Gens -> BOOLEAN] /\ ready' = FALSE
    BY <1>3 DEF StartSpawn
  <2>4. waiter' \in [Gens -> {"none", "wait", "reaped", "unlink", "send", "done"}]
    BY <1>3, <2>1 DEF StartSpawn
  <2>5. \A i \in Gens : waiter'[i] = "none" <=> i > gen'
    BY <1>3, <2>1 DEF StartSpawn
  <2>6. proc' \in [Pids -> {"unused", "router", "zombie", "gone", "foreign"}]
    BY <1>3 DEF StartSpawn
  <2>7. pid' \in Pids /\ pid' # NoPid /\ phase' = "spawned"
    BY <1>3 DEF StartSpawn
  <2> QED
    BY <1>3, <2>1, <2>2, <2>3, <2>4, <2>5, <2>6, <2>7 DEF StartSpawn
<1>4. CASE StopNotRunning
  BY <1>4 DEF StopNotRunning, ConsumeReport
<1>5. CASE StopBegin
  BY <1>5 DEF StopBegin, IsRunning
<1>6. CASE StatusUp
  BY <1>6 DEF StatusUp
<1>7. CASE StatusDown
  <2>1. pidFile' \in Pids \cup {NoPid}
    BY <1>7 DEF StatusDown, RemoveRecord
  <2>2. chan' \in [Gens -> BOOLEAN]
    BY <1>7 DEF StatusDown, ConsumeReport
  <2>3. ready' \in BOOLEAN
    BY <1>7 DEF StatusDown, ConsumeReport
  <2>4. ready' => pid # NoPid
    <3>1. CASE pid = NoPid
      <4>1. ready' = ready
        BY <1>7, <3>1 DEF StatusDown, ConsumeReport
      <4> QED
        BY <4>1, <3>1
    <3> QED
      BY <3>1
  <2> QED
    BY <1>7, <2>1, <2>2, <2>3, <2>4 DEF StatusDown
<1> QED
  BY <1>1, <1>2, <1>3, <1>4, <1>5, <1>6, <1>7 DEF Operation

LEMMA ContinueTypeOK ==
  ASSUME TypeOK, Continue \/ ReadinessTimeout
  PROVE  TypeOK'
<1> USE ProcessAssumption
    DEF ProcessAssumption, TypeOK, Gens, memVars, osVars, Return, Goto, Forget, RemoveRecord
<1>1. CASE StartRecord
  BY <1>1 DEF StartRecord
<1>2. CASE ReadyCheck
  <2>1. phase' \in {"probe", "check"}
    BY <1>2 DEF ReadyCheck
  <2>2. chan' \in [Gens -> BOOLEAN]
    BY <1>2 DEF ReadyCheck, ConsumeReport
  <2>3. ready' \in BOOLEAN
    BY <1>2 DEF ReadyCheck, ConsumeReport
  <2>4. ready' => pid # NoPid
    <3>1. CASE pid = NoPid
      <4>1. ready' = ready
        BY <1>2, <3>1 DEF ReadyCheck, ConsumeReport
      <4> QED
        BY <4>1, <3>1
    <3> QED
      BY <3>1
  <2> QED
    BY <1>2, <2>1, <2>2, <2>3, <2>4 DEF ReadyCheck
<1>3. CASE ProbeAnswered
  BY <1>3 DEF ProbeAnswered
<1>4. CASE ProbeRetry
  BY <1>4 DEF ProbeRetry
<1>5. CASE ReadinessTimeout
  BY <1>5 DEF ReadinessTimeout
<1>6. CASE CheckExited
  BY <1>6 DEF CheckExited
<1>7. CASE CheckRunning
  BY <1>7 DEF CheckRunning
<1>8. CASE Interrupt
  BY <1>8 DEF Interrupt
<1>9. CASE InterruptFails
  BY <1>9 DEF InterruptFails
<1>10. CASE WaitDone
  BY <1>10 DEF WaitDone
<1>11. CASE WaitGone
  BY <1>11 DEF WaitGone
<1>12. CASE StopTimeout
  BY <1>12 DEF StopTimeout, Kill, Alive
<1>13. CASE KillTimeout
  BY <1>13 DEF KillTimeout
<1> QED
  BY <1>1, <1>2, <1>3, <1>4, <1>5, <1>6, <1>7, <1>8, <1>9, <1>10, <1>11,
     <1>12, <1>13 DEF Continue

LEMMA EnvironmentTypeOK ==
  ASSUME TypeOK, Environment
  PROVE  TypeOK'
<1> USE ProcessAssumption DEF ProcessAssumption, TypeOK, Gens, memVars, osVars, Return
<1>1. ASSUME NEW i \in Gens, WaiterStep(i)
      PROVE  TypeOK'
  <2>0. WaiterReap(i) \/ WaiterLook(i) \/ WaiterUnlink(i) \/ WaiterSend(i)
    BY <1>1 DEF WaiterStep
  <2>1. waiter' \in [Gens -> {"none", "wait", "reaped", "unlink", "send", "done"}]
    BY <2>0 DEF WaiterReap, WaiterLook, WaiterUnlink, WaiterSend, ReadSays
  <2>2. \A j \in Gens : waiter'[j] = "none" <=> waiter[j] = "none"
    BY <2>0 DEF WaiterReap, WaiterLook, WaiterUnlink, WaiterSend, ReadSays
  <2>3. proc' \in [Pids -> {"unused", "router", "zombie", "gone", "foreign"}]
    BY <2>0 DEF WaiterReap, WaiterLook, WaiterUnlink, WaiterSend, ReadSays
  <2>4. pidFile' \in Pids \cup {NoPid}
    BY <2>0 DEF WaiterReap, WaiterLook, WaiterUnlink, WaiterSend, ReadSays, RemoveRecord
  <2>5. chan' \in [Gens -> BOOLEAN]
    BY <2>0 DEF WaiterReap, WaiterLook, WaiterUnlink, WaiterSend, ReadSays
  <2>6. UNCHANGED <<killed, phase, op, result, pid, gen, ready,
                    boots, child>>
    BY <2>0 DEF WaiterReap, WaiterLook, WaiterUnlink, WaiterSend, ReadSays
  <2> QED
    BY <2>1, <2>2, <2>3, <2>4, <2>5, <2>6
<1>2. ASSUME NEW p \in Pids, ProcessExit(p)
      PROVE  TypeOK'
  BY <1>2 DEF ProcessExit
<1>3. ASSUME NEW p \in Pids, ForeignStart(p)
      PROVE  TypeOK'
  BY <1>3 DEF ForeignStart
<1>4. CASE Crash
  <2>1. \A i \in Gens : waiter'[i] = "none" /\ i > gen'
    BY <1>4 DEF Crash
  <2>2. chan' \in [Gens -> BOOLEAN] /\ child' \in [Gens -> Pids \cup {NoPid}]
    BY <1>4 DEF Crash
  <2>3. waiter' \in [Gens -> {"none", "wait", "reaped", "unlink", "send", "done"}]
    BY <1>4 DEF Crash
  <2>4. proc' \in [Pids -> {"unused", "router", "zombie", "gone", "foreign"}]
    BY <1>4 DEF Crash
  <2>5. gen' \in 0..MaxStarts /\ ready' = FALSE /\ pid' = NoPid
    BY <1>4 DEF Crash
  <2> QED
    BY <1>4, <2>1, <2>2, <2>3, <2>4, <2>5 DEF Crash
<1>5. CASE Boot
  BY <1>5 DEF Boot
<1> QED
  BY <1>1, <1>2, <1>3, <1>4, <1>5 DEF Environment

LEMMA NextTypeOK ==
  ASSUME TypeOK, [Next]_vars
  PROVE  TypeOK'
<1>1. CASE Next
  BY <1>1, OperationTypeOK, ContinueTypeOK, EnvironmentTypeOK
  DEF Next, Environment
<1>2. CASE UNCHANGED vars
  BY <1>2 DEF vars, TypeOK, Gens
<1> QED
  BY <1>1, <1>2

\* The variables of the supervisor keep their ranges and agree with one
\* another in every behaviour, late exits and pid reuse included.
THEOREM TypeCorrect == Spec => []TypeOK
<1>1. Init => TypeOK
  BY InitTypeOK
<1>2. TypeOK /\ [Next]_vars => TypeOK'
  BY NextTypeOK
<1> QED
  BY <1>1, <1>2, PTL DEF Spec
-----------------------------------------------------------------------------
(* Ownership of the Router, when every exit is reported before the next     *)
(* Start and no crash hits between cmd.Start and file.Write.                *)

LEMMA InitIInv == Init => IInv
<1> SUFFICES ASSUME Init PROVE IInv
  OBVIOUS
<1>1. TypeOK
  BY InitTypeOK
<1>2. ControlOK
  BY DEF Init, ControlOK
<1>3. Live = {}
  BY DEF Init, Live
<1>4. WaiterOK
  BY ProcessAssumption DEF ProcessAssumption, Init, WaiterOK, Gens
<1>5. OwnershipOK
  BY <1>3 DEF Init, OwnershipOK
<1> QED
  BY <1>1, <1>2, <1>4, <1>5 DEF IInv

\* An exit in r.done is the exit of the process r.pid names.
LEMMA ReportedIsDead ==
  ASSUME IInv, Reported, pid # NoPid
  PROVE  pid \notin Live
<1>1. gen \in Gens /\ pid = child[gen]
  BY ProcessAssumption DEF ProcessAssumption, IInv, TypeOK, Reported, Gens
<1>2. waiter[gen] = "done" /\ chan[gen]
  BY <1>1 DEF IInv, WaiterOK, Reported
<1>3. proc[child[gen]] \in {"gone", "foreign"}
  BY <1>1, <1>2 DEF IInv, WaiterOK
<1> QED
  BY <1>1, <1>3 DEF Live

\* Whenever isRunning answers no, no Router runs.
LEMMA NotRunningIsDead ==
  ASSUME IInv, phase # "down", ~IsRunning
  PROVE  Live = {}
<1>1. Live \subseteq {pid} /\ Live \subseteq Pids
  BY DEF IInv, OwnershipOK, Live
<1>2. CASE pid = NoPid
  BY <1>1, <1>2, ProcessAssumption DEF ProcessAssumption
<1>3. CASE pid # NoPid /\ Reported
  BY <1>1, <1>3, ReportedIsDead
<1>4. CASE pid # NoPid /\ ~Alive(pid)
  BY <1>1, <1>4 DEF Alive, Live
<1> QED
  BY <1>2, <1>3, <1>4 DEF IsRunning

\* Steps of the mutex holder leave the goroutines alone and only empty channels.
LEMMA WaiterFrame ==
  ASSUME WaiterOK, UNCHANGED <<proc, gen, child, waiter>>,
         \A i \in Gens : chan'[i] => chan[i]
  PROVE  WaiterOK'
BY DEF WaiterOK, Gens

LEMMA ConsumeFrame ==
  ASSUME TypeOK, ConsumeReport
  PROVE  \A i \in Gens : chan'[i] => chan[i]
BY DEF ConsumeReport, TypeOK, Gens

\* SIGKILL and forgetting can only shrink the set of live Routers.
LEMMA LiveFrame ==
  ASSUME UNCHANGED proc, killed \subseteq killed'
  PROVE  Live' \subseteq Live
BY DEF Live
LEMMA OperationIInv ==
  ASSUME IInv, ~LateExit, Operation
  PROVE  IInv'
<1>1. TypeOK'
  BY OperationTypeOK DEF IInv
<1> USE DEF Return, osVars, memVars
<1>2. CASE StartRefused \/ StatusUp
  <2>1. ControlOK'
    BY <1>2 DEF StartRefused, StatusUp, IInv, ControlOK
  <2>2. WaiterOK'
    BY <1>2, WaiterFrame DEF StartRefused, StatusUp, IInv
  <2>3. OwnershipOK'
    BY <1>2 DEF StartRefused, StatusUp, IInv, OwnershipOK, Live
  <2> QED
    BY <1>1, <2>1, <2>2, <2>3 DEF IInv
<1>3. CASE StartFails \/ StopNotRunning \/ StatusDown
  <2>1. phase = "idle" /\ ~IsRunning /\ ConsumeReport
    BY <1>3 DEF StartFails, StopNotRunning, StatusDown
  <2>2. Live = {}
    BY <2>1, NotRunningIsDead
  <2>3. ControlOK'
    BY <1>3 DEF StartFails, StopNotRunning, StatusDown, IInv, ControlOK
  <2>4. WaiterOK'
    BY <1>3, <2>1, ConsumeFrame, WaiterFrame
    DEF StartFails, StopNotRunning, StatusDown, IInv
  <2>5. OwnershipOK'
    <3>1. Live' = {}
      BY <1>3, <2>2 DEF StartFails, StopNotRunning, StatusDown, Live
    <3> QED
      BY <3>1 DEF OwnershipOK
  <2> QED
    BY <1>1, <2>3, <2>4, <2>5 DEF IInv
<1>4. ASSUME NEW p \in Pids, StartSpawn(p)
      PROVE  IInv'
  <2>1. Live = {}
    BY <1>4, NotRunningIsDead DEF StartSpawn
  <2>2. ControlOK'
    BY <1>1, <1>4, ProcessAssumption
    DEF ProcessAssumption, StartSpawn, IInv, ControlOK
  <2>3. WaiterOK'
    <3>1. gen \in Nat /\ gen' = gen + 1 /\ gen' \in Gens
      BY <1>4, ProcessAssumption
      DEF ProcessAssumption, StartSpawn, IInv, TypeOK, Gens
    <3>2. child'[gen'] = p /\ waiter'[gen'] = "wait" /\ proc'[p] = "router"
      BY <1>4, <3>1 DEF StartSpawn, IInv, TypeOK
    <3>3. \A i \in Gens : i # gen' => waiter'[i] = waiter[i]
      BY <1>4, <3>1 DEF StartSpawn, IInv, TypeOK
    <3>4. \A i \in Gens : waiter[i] \in {"none", "done"}
      BY <1>4 DEF StartSpawn
    <3>5. \A i \in Gens : chan'[i] => chan[i]
      BY <1>4 DEF StartSpawn, IInv, TypeOK, Gens
    <3>6. \A i \in Gens : chan[i] => waiter[i] = "done"
      BY DEF IInv, WaiterOK
    <3>7. ~chan[gen']
      BY <3>1, <3>6 DEF IInv, TypeOK
    <3> QED
      BY <3>1, <3>2, <3>3, <3>4, <3>5, <3>6, <3>7 DEF WaiterOK
  <2>4. OwnershipOK'
    <3>1. Live' \subseteq {p}
      BY <1>4, <2>1 DEF StartSpawn, Live, IInv, TypeOK
    <3> QED
      BY <1>4, <3>1 DEF StartSpawn, OwnershipOK
  <2> QED
    BY <1>1, <2>2, <2>3, <2>4 DEF IInv
<1>5. CASE StopBegin
  <2>1. ControlOK'
    BY <1>5 DEF StopBegin, IInv, ControlOK
  <2>2. WaiterOK'
    BY <1>5, WaiterFrame DEF StopBegin, IInv
  <2>3. OwnershipOK'
    BY <1>5 DEF StopBegin, IInv, OwnershipOK, Live
  <2> QED
    BY <1>1, <2>1, <2>2, <2>3 DEF IInv
<1> QED
  BY <1>2, <1>3, <1>4, <1>5 DEF Operation
\* stopProcess lets go of a process that is dead, or has been sent SIGKILL.
LEMMA ForgetIInv ==
  ASSUME IInv, TypeOK', phase \notin {"idle", "down"}, NEW stopped \in BOOLEAN,
         Forget(stopped), UNCHANGED proc,
         \A i \in Gens : chan'[i] => chan[i], Live' = {}
  PROVE  IInv'
<1>1. ControlOK'
  BY DEF Forget, Return, ControlOK
<1>2. WaiterOK'
  BY WaiterFrame DEF Forget, IInv
<1>3. OwnershipOK'
  BY DEF OwnershipOK
<1> QED
  BY <1>1, <1>2, <1>3 DEF IInv

\* A step that only moves the holder on: same process table, same record.
LEMMA MoveIInv ==
  ASSUME IInv, TypeOK', ControlOK', UNCHANGED <<osVars, gen, child, waiter, pid>>,
         \A i \in Gens : chan'[i] => chan[i],
         phase # "down", phase' # "down", phase' # "killWait", result' = "none",
         pidFile' = pidFile \/ pidFile' = pid,
         phase' \in {"idle", "ready", "probe"} \/ op' = "stop"
            => Live \subseteq {pidFile'}
  PROVE  IInv'
<1>1. WaiterOK'
  BY WaiterFrame DEF IInv, osVars
<1>2. Live' = Live
  BY DEF Live, osVars
<1>3. OwnershipOK'
  BY <1>2 DEF OwnershipOK, IInv
<1> QED
  BY <1>1, <1>3 DEF IInv

LEMMA ContinueIInv ==
  ASSUME IInv, Continue \/ ReadinessTimeout
  PROVE  IInv'
<1>1. TypeOK'
  BY ContinueTypeOK DEF IInv
<1>2. Live \subseteq Pids /\ (phase # "down" => Live \subseteq {pid})
  BY DEF IInv, OwnershipOK, Live
<1> USE DEF Goto, osVars, memVars
<1>3. CASE StartRecord
  <2>1. ControlOK'
    BY <1>3 DEF StartRecord, IInv, ControlOK
  <2>2. result' = "none" /\ op' = "start"
    BY <1>3 DEF StartRecord, IInv, ControlOK
  <2> QED
    BY <1>1, <1>2, <1>3, <2>1, <2>2, MoveIInv DEF StartRecord
<1>4. CASE ReadyCheck
  <2>1. ControlOK'
    BY <1>4 DEF ReadyCheck, IInv, ControlOK
  <2>2. result' = "none" /\ op' = "start"
    BY <1>4 DEF ReadyCheck, IInv, ControlOK
  <2>3. \A i \in Gens : chan'[i] => chan[i]
    BY <1>4, ConsumeFrame DEF ReadyCheck, IInv
  <2>4. Live \subseteq {pidFile}
    BY <1>4 DEF ReadyCheck, IInv, OwnershipOK
  <2> QED
    BY <1>1, <1>4, <2>1, <2>2, <2>3, <2>4, MoveIInv DEF ReadyCheck
<1>5. CASE ProbeAnswered
  <2>1. ControlOK' /\ WaiterOK'
    BY <1>5, WaiterFrame DEF ProbeAnswered, Return, IInv, ControlOK
  <2>2. OwnershipOK'
    BY <1>5 DEF ProbeAnswered, Return, IInv, OwnershipOK, Live
  <2> QED
    BY <1>1, <2>1, <2>2 DEF IInv
<1>6. CASE ProbeRetry \/ ReadinessTimeout
  <2>1. ControlOK'
    BY <1>6 DEF ProbeRetry, ReadinessTimeout, IInv, ControlOK
  <2>2. result' = "none" /\ op' = "start" /\ Live \subseteq {pidFile}
    BY <1>6 DEF ProbeRetry, ReadinessTimeout, IInv, ControlOK, OwnershipOK
  <2> QED
    BY <1>1, <1>6, <2>1, <2>2, MoveIInv DEF ProbeRetry, ReadinessTimeout
<1>7. CASE CheckExited
  <2>1. Live = {}
    BY <1>7, NotRunningIsDead DEF CheckExited
  <2>2. Live' = {}
    BY <1>7, <2>1 DEF CheckExited, Live
  <2>3. \A i \in Gens : chan'[i] => chan[i]
    BY <1>7 DEF CheckExited, IInv, TypeOK, Gens
  <2> QED
    BY <1>1, <1>7, <2>2, <2>3, ForgetIInv DEF CheckExited
<1>8. CASE CheckRunning
  <2>1. ControlOK'
    BY <1>8 DEF CheckRunning, IInv, ControlOK
  <2>2. result' = "none" /\ (op' = "stop" => Live \subseteq {pidFile})
    BY <1>8 DEF CheckRunning, IInv, ControlOK, OwnershipOK
  <2> QED
    BY <1>1, <1>8, <2>1, <2>2, MoveIInv DEF CheckRunning
<1>9. CASE Interrupt
  <2>1. ControlOK' /\ WaiterOK'
    BY <1>9, WaiterFrame DEF Interrupt, IInv, ControlOK
  <2>2. OwnershipOK'
    BY <1>9 DEF Interrupt, IInv, OwnershipOK, Live
  <2> QED
    BY <1>1, <2>1, <2>2 DEF IInv
<1>10. CASE InterruptFails \/ WaitGone
  <2>1. ~Alive(pid) /\ pid # NoPid
    BY <1>10 DEF InterruptFails, WaitGone, IInv, TypeOK
  <2>2. Live = {}
    BY <1>2, <1>10, <2>1 DEF InterruptFails, WaitGone, Alive, Live
  <2>3. Live' = {}
    BY <1>10, <2>2 DEF InterruptFails, WaitGone, Live
  <2> QED
    BY <1>1, <1>10, <2>3, ForgetIInv DEF InterruptFails, WaitGone
<1>11. CASE WaitDone
  <2>1. Live = {}
    BY <1>2, <1>11, ReportedIsDead DEF WaitDone, IInv, TypeOK
  <2>2. Live' = {}
    BY <1>11, <2>1 DEF WaitDone, Live
  <2>3. \A i \in Gens : chan'[i] => chan[i]
    BY <1>11 DEF WaitDone, IInv, TypeOK, Gens
  <2> QED
    BY <1>1, <1>11, <2>2, <2>3, ForgetIInv DEF WaitDone
<1>12. CASE StopTimeout
  <2>1. Live' \subseteq {pid} /\ pid # NoPid
    BY <1>2, <1>12 DEF StopTimeout, Kill, IInv, TypeOK, Live
  <2>2. proc[pid] = "router" => pid \in killed'
    BY <1>12, <2>1 DEF StopTimeout, Kill, Alive
  <2>3. Live' = {}
    BY <1>12, <2>1, <2>2 DEF StopTimeout, Kill, Live
  <2>4. CASE gen = 0
    BY <1>1, <1>12, <2>3, <2>4, ForgetIInv DEF StopTimeout, Kill
  <2>5. CASE gen # 0
    <3>1. ControlOK' /\ WaiterOK'
      BY <1>12, <2>5, WaiterFrame DEF StopTimeout, Kill, IInv, ControlOK
    <3>2. OwnershipOK'
      BY <2>3 DEF OwnershipOK
    <3> QED
      BY <1>1, <3>1, <3>2 DEF IInv
  <2> QED
    BY <2>4, <2>5
<1>13. CASE KillTimeout
  <2>1. Live' = {}
    BY <1>13 DEF KillTimeout, IInv, OwnershipOK, Live
  <2> QED
    BY <1>1, <1>13, <2>1, ForgetIInv DEF KillTimeout
<1> QED
  BY <1>3, <1>4, <1>5, <1>6, <1>7, <1>8, <1>9, <1>10, <1>11, <1>12, <1>13
  DEF Continue
LEMMA EnvironmentIInv ==
  ASSUME IInv, ~LateExit, ~UnrecordedCrash, Environment
  PROVE  IInv'
<1>1. TypeOK'
  BY EnvironmentTypeOK DEF IInv
<1> USE DEF osVars, memVars
<1>2. ASSUME NEW i \in Gens, WaiterReap(i)
      PROVE  IInv'
  <2>1. i = gen /\ child[i] \in Pids
    BY <1>2 DEF WaiterReap, IInv, WaiterOK
  <2>2. proc'[child[i]] = "gone" /\ waiter'[i] = "reaped"
    BY <1>2, <2>1 DEF WaiterReap, IInv, TypeOK
  <2>3. WaiterOK'
    BY <1>2, <2>1, <2>2 DEF WaiterReap, IInv, TypeOK, WaiterOK
  <2>4. Live' = Live
    BY <1>2 DEF WaiterReap, IInv, TypeOK, Live
  <2>5. ControlOK' /\ OwnershipOK'
    BY <1>2, <2>4 DEF WaiterReap, IInv, ControlOK, OwnershipOK
  <2> QED
    BY <1>1, <2>3, <2>5 DEF IInv
<1>3. ASSUME NEW i \in Gens, WaiterLook(i) \/ WaiterUnlink(i)
      PROVE  IInv'
  <2>1. i = gen /\ waiter[i] \in {"reaped", "unlink"} /\ gen \in Gens
    BY <1>3 DEF WaiterLook, WaiterUnlink, IInv, WaiterOK
  <2>2. child[i] \in Pids /\ child[i] \notin Live /\ Live' = Live
    BY <1>3, <2>1 DEF WaiterLook, WaiterUnlink, IInv, WaiterOK, Live
  <2>3. waiter'[i] \in {"unlink", "send"} /\ \A j \in Gens : j # i => waiter'[j] = waiter[j]
    BY <1>3 DEF WaiterLook, WaiterUnlink, ReadSays, IInv, TypeOK
  <2>4. UNCHANGED <<proc, killed, gen, child, chan, phase, op, result, pid>>
    BY <1>3 DEF WaiterLook, WaiterUnlink
  <2>5. WaiterOK'
    BY <2>1, <2>3, <2>4 DEF IInv, WaiterOK
  <2>6. ControlOK'
    BY <2>4 DEF IInv, ControlOK
  <2>7. OwnershipOK'
    <3>1. phase # "down" /\ (pid = NoPid \/ pid = child[gen])
      BY <2>1, ProcessAssumption DEF ProcessAssumption, IInv, TypeOK, Gens
    <3>2. Live \subseteq {pid} /\ Live \subseteq Pids
      BY <3>1 DEF IInv, OwnershipOK, Live
    <3>3. Live = {}
      BY <2>1, <2>2, <3>1, <3>2, ProcessAssumption DEF ProcessAssumption
    <3> QED
      BY <2>2, <3>3 DEF OwnershipOK
  <2> QED
    BY <1>1, <2>5, <2>6, <2>7 DEF IInv
<1>4. ASSUME NEW i \in Gens, WaiterSend(i)
      PROVE  IInv'
  <2>1. i = gen /\ Live' = Live
    BY <1>4 DEF WaiterSend, IInv, WaiterOK, Live
  <2>2. chan' = [chan EXCEPT ![i] = TRUE]
    BY <1>4, <2>1, ProcessAssumption
    DEF ProcessAssumption, WaiterSend, IInv, TypeOK, Gens
  <2>3. WaiterOK'
    BY <1>4, <2>1, <2>2 DEF WaiterSend, IInv, TypeOK, WaiterOK
  <2>4. ControlOK' /\ OwnershipOK'
    BY <1>4, <2>1 DEF WaiterSend, IInv, ControlOK, OwnershipOK
  <2> QED
    BY <1>1, <2>3, <2>4 DEF IInv
<1>5. ASSUME NEW p \in Pids, ProcessExit(p)
      PROVE  IInv'
  <2>1. Live' \subseteq Live
    BY <1>5 DEF ProcessExit, IInv, TypeOK, Live
  <2>2. WaiterOK'
    <3>1. ASSUME NEW i \in Gens, i = gen
          PROVE  /\ waiter[i] = "wait" => proc'[child[i]] \in {"router", "zombie"}
                 /\ waiter[i] # "wait" => proc'[child[i]] \in {"gone", "foreign"}
      <4>1. child[i] \in Pids
        BY <3>1 DEF IInv, WaiterOK
      <4>2. CASE child[i] = p /\ waiter[i] = "wait"
        BY <1>5, <4>1, <4>2 DEF ProcessExit, OwnChild, IInv, TypeOK
      <4>3. CASE child[i] = p /\ waiter[i] # "wait"
        <5>1. ~OwnChild(p)
          BY <3>1, <4>3 DEF OwnChild, IInv, WaiterOK
        <5> QED
          BY <1>5, <4>1, <4>3, <5>1 DEF ProcessExit, IInv, TypeOK
      <4>4. CASE child[i] # p
        BY <1>5, <3>1, <4>1, <4>4 DEF ProcessExit, IInv, TypeOK, WaiterOK
      <4> QED
        BY <4>2, <4>3, <4>4
    <3> QED
      BY <1>5, <3>1 DEF ProcessExit, IInv, WaiterOK
  <2>3. ControlOK' /\ OwnershipOK'
    BY <1>5, <2>1 DEF ProcessExit, IInv, ControlOK, OwnershipOK
  <2> QED
    BY <1>1, <2>2, <2>3 DEF IInv
<1>6. ASSUME NEW p \in Pids, ForeignStart(p)
      PROVE  IInv'
  <2>1. Live' = Live
    BY <1>6 DEF ForeignStart, IInv, TypeOK, Live
  <2>2. WaiterOK'
    BY <1>6 DEF ForeignStart, IInv, TypeOK, WaiterOK
  <2>3. ControlOK' /\ OwnershipOK'
    BY <1>6, <2>1 DEF ForeignStart, IInv, ControlOK, OwnershipOK
  <2> QED
    BY <1>1, <2>2, <2>3 DEF IInv
<1>7. CASE Crash
  <2>1. Live' = Live
    BY <1>7 DEF Crash, IInv, TypeOK, Live
  <2>2. WaiterOK' /\ ControlOK'
    BY <1>7, ProcessAssumption
    DEF ProcessAssumption, Crash, WaiterOK, ControlOK, Gens
  <2>3. OwnershipOK'
    BY <1>7, <2>1 DEF Crash, OwnershipOK
  <2> QED
    BY <1>1, <2>2, <2>3 DEF IInv
<1>8. CASE Boot
  <2>1. Live' = Live /\ Live \subseteq {pidFile} /\ Live \subseteq Pids
    BY <1>8 DEF Boot, IInv, OwnershipOK, Live
  <2>2. WaiterOK' /\ ControlOK'
    BY <1>8, WaiterFrame DEF Boot, Return, IInv, ControlOK
  <2>3. CASE pidFile # NoPid /\ proc[pidFile] = "router"
    <3>1. OwnershipOK'
      BY <1>8, <2>1, <2>3 DEF Boot, Return, OwnershipOK
    <3> QED
      BY <1>1, <2>2, <3>1 DEF IInv
  <2>4. CASE ~(pidFile # NoPid /\ proc[pidFile] = "router")
    <3>1. Live = {}
      BY <2>1, <2>4, ProcessAssumption DEF ProcessAssumption, Live
    <3>2. OwnershipOK'
      BY <2>1, <3>1 DEF OwnershipOK
    <3> QED
      BY <1>1, <2>2, <3>2 DEF IInv
  <2> QED
    BY <2>3, <2>4
<1> QED
  BY <1>2, <1>3, <1>4, <1>5, <1>6, <1>7, <1>8 DEF Environment, WaiterStep

\* IInv is inductive under the two assumptions about the environment.
THEOREM OwnershipInductive ==
  ASSUME ~LateExit, ~UnrecordedCrash
  PROVE  Spec => []IInv
<1>1. Init => IInv
  BY InitIInv
<1>2. IInv /\ [Next]_vars => IInv'
  <2>1. CASE Next
    BY <2>1, OperationIInv, ContinueIInv, EnvironmentIInv DEF Next, Environment
  <2>2. CASE UNCHANGED vars
    BY <2>2 DEF vars, IInv, TypeOK, ControlOK, WaiterOK, OwnershipOK, Live
  <2> QED
    BY <2>1, <2>2
<1> QED
  BY <1>1, <1>2, PTL DEF Spec

\* ADR 0011's single supervised process: every Router that has not been sent
\* SIGKILL is the one r.pid names, or the PID file while the daemon is down.
THEOREM SingleRouterHolds ==
  ASSUME ~LateExit, ~UnrecordedCrash
  PROVE  Spec => []SingleRouter
<1>1. IInv => SingleRouter
  BY DEF IInv, OwnershipOK, SingleRouter, Tracked
<1> QED
  BY <1>1, OwnershipInductive, PTL

\* The PID file names the running Router whenever a crash should find it there.
THEOREM LiveRouterRecordedHolds ==
  ASSUME ~LateExit, ~UnrecordedCrash
  PROVE  Spec => []LiveRouterRecorded
<1>1. IInv => LiveRouterRecorded
  BY DEF IInv, OwnershipOK, LiveRouterRecorded
<1> QED
  BY <1>1, OwnershipInductive, PTL

\* When Stop returns nil or Status reports Stopped, no Router runs.
THEOREM StoppedMeansStoppedHolds ==
  ASSUME ~LateExit, ~UnrecordedCrash
  PROVE  Spec => []StoppedMeansStopped
<1>1. IInv => StoppedMeansStopped
  BY DEF IInv, OwnershipOK, StoppedMeansStopped
<1> QED
  BY <1>1, OwnershipInductive, PTL
-----------------------------------------------------------------------------
(* The record of an exited child, whatever the goroutines' order. *)

\* What ExitErasesRecord needs: a child that is being recorded has not been
\* through its removal, and each Start of this daemon has a pid.
RecordInv ==
    /\ TypeOK
    /\ phase = "spawned" => /\ gen \in Gens /\ pid \in Pids
                            /\ waiter[gen] \in {"wait", "reaped"}
    /\ \A i \in Gens : child[i] \in Pids <=> i <= gen
    /\ ExitErasesRecord

LEMMA RecordStep ==
  ASSUME RecordInv, TypeOK', [Next]_vars
  PROVE  RecordInv'
<1> USE ProcessAssumption DEF ProcessAssumption, Gens
<1>1. ASSUME NEW p \in Pids, StartSpawn(p)
      PROVE  RecordInv'
  <2>1. gen \in Nat /\ gen + 1 \in Gens /\ gen' = gen + 1 /\ pidFile' = pidFile
    BY <1>1 DEF StartSpawn, RecordInv, TypeOK
  <2>2. /\ child'[gen + 1] = p /\ waiter'[gen + 1] = "wait"
        /\ \A i \in Gens : i # gen + 1 => child'[i] = child[i] /\ waiter'[i] = waiter[i]
    BY <1>1, <2>1 DEF StartSpawn, RecordInv, TypeOK
  <2>3. \A i \in Gens : child'[i] \in Pids <=> i <= gen'
    BY <2>1, <2>2 DEF RecordInv, TypeOK
  <2>4. ExitErasesRecord'
    <3> SUFFICES ASSUME NEW i \in Gens, waiter'[i] \in {"send", "done"}, pidFile' = child'[i]
                 PROVE  \E j \in Gens : j > i /\ child'[j] = child'[i]
      BY DEF ExitErasesRecord
    <3>1. i # gen + 1
      BY <2>2
    <3>2. child'[i] = child[i] /\ waiter'[i] = waiter[i]
      BY <2>2, <3>1
    <3>3. waiter[i] # "none"
      BY <3>2
    <3>4. i <= gen
      BY <2>1, <3>3 DEF RecordInv, TypeOK
    <3>5. PICK j \in Gens : j > i /\ child[j] = child[i]
      BY <2>1, <3>2 DEF RecordInv, ExitErasesRecord
    <3>6. child[i] \in Pids
      BY <3>4 DEF RecordInv
    <3>7. j <= gen
      BY <3>5, <3>6 DEF RecordInv
    <3>8. child'[j] = child[j]
      BY <2>1, <2>2, <3>7
    <3> QED
      BY <3>5, <3>8, <3>2
  <2>5. pid' \in Pids /\ waiter'[gen'] \in {"wait", "reaped"} /\ gen' \in Gens
    BY <1>1, <2>1, <2>2 DEF StartSpawn
  <2> QED
    BY <2>3, <2>4, <2>5 DEF RecordInv
<1>2. CASE StartRecord
  <2>1. ExitErasesRecord'
    <3>1. CASE pidFile' = pidFile
      BY <1>2, <3>1 DEF StartRecord, RecordInv, ExitErasesRecord, memVars
    <3>2. CASE pidFile' = pid
      <4>1. pid = child[gen] /\ gen \in Gens /\ waiter[gen] \in {"wait", "reaped"}
        BY <1>2 DEF StartRecord, RecordInv, TypeOK
      <4>2. ASSUME NEW i \in Gens, waiter[i] \in {"send", "done"}
            PROVE  i # gen /\ i <= gen
        BY <4>1, <4>2 DEF RecordInv, TypeOK
      <4> QED
        BY <1>2, <3>2, <4>1, <4>2 DEF StartRecord, ExitErasesRecord, memVars
    <3> QED
      BY <1>2, <3>1, <3>2 DEF StartRecord
  <2>2. phase' # "spawned"
    BY <1>2 DEF StartRecord, Goto
  <2> QED
    BY <1>2, <2>1, <2>2 DEF StartRecord, RecordInv, memVars
<1>3. ASSUME UNCHANGED <<gen, child, waiter>>, phase' # "spawned",
             pidFile' \in {pidFile, NoPid}
      PROVE  RecordInv'
  <2>1. \A i \in Gens : waiter[i] \in {"send", "done"} => child[i] \in Pids
    BY DEF RecordInv, TypeOK
  <2>2. ExitErasesRecord'
    BY <1>3, <2>1 DEF RecordInv, ExitErasesRecord
  <2> QED
    BY <1>3, <2>2 DEF RecordInv
<1>4. CASE Operation /\ \A p \in Pids : ~StartSpawn(p)
  <2>1. phase' # "spawned" /\ UNCHANGED <<gen, child, waiter>> /\ pidFile' \in {pidFile, NoPid}
    BY <1>4 DEF Operation, StartRefused, StartFails, StopNotRunning, StopBegin, StatusUp,
                StatusDown, Return, memVars, RemoveRecord
  <2> QED
    BY <1>3, <2>1
<1>5. CASE (Continue /\ ~StartRecord) \/ ReadinessTimeout \/ Boot
  <2>1. phase' # "spawned" /\ UNCHANGED <<gen, child, waiter>> /\ pidFile' \in {pidFile, NoPid}
    BY <1>5 DEF Continue, ReadinessTimeout, Boot, ReadyCheck, ProbeAnswered, ProbeRetry,
                CheckExited, CheckRunning, Interrupt, InterruptFails, WaitDone, WaitGone,
                StopTimeout, KillTimeout, Forget, RemoveRecord, Return, Goto, memVars
  <2> QED
    BY <1>3, <2>1
<1>6. ASSUME NEW i \in Gens, WaiterStep(i)
      PROVE  RecordInv'
  <2>1. UNCHANGED <<gen, child, phase, pid>> /\ pidFile' \in {pidFile, NoPid}
    BY <1>6 DEF WaiterStep, WaiterReap, WaiterLook, WaiterUnlink, WaiterSend, ReadSays, memVars, RemoveRecord
  <2>2. \A j \in Gens : j # i => waiter'[j] = waiter[j]
    BY <1>6 DEF WaiterStep, WaiterReap, WaiterLook, WaiterUnlink, WaiterSend, ReadSays, RecordInv, TypeOK
  <2>3. child[i] \in Pids /\ child[i] # NoPid
    BY <1>6 DEF WaiterStep, WaiterReap, WaiterLook, WaiterUnlink, WaiterSend, ReadSays, RecordInv, TypeOK
  <2>4. waiter'[i] \in {"send", "done"} /\ pidFile' = child[i]
          => waiter[i] \in {"send", "done"} /\ pidFile' = pidFile
    BY <1>6, <2>3
    DEF WaiterStep, WaiterReap, WaiterLook, WaiterUnlink, WaiterSend, ReadSays, RemoveRecord, RecordInv, TypeOK
  <2>5. \A j \in Gens : waiter[j] \in {"send", "done"} => child[j] \in Pids
    BY DEF RecordInv, TypeOK
  <2>6. ExitErasesRecord'
    BY <2>1, <2>2, <2>4, <2>5 DEF RecordInv, ExitErasesRecord
  <2>7. phase = "spawned" => waiter'[gen] \in {"wait", "reaped"}
    BY <1>6, <2>2 DEF WaiterStep, WaiterReap, WaiterLook, WaiterUnlink, WaiterSend, ReadSays, RecordInv, TypeOK
  <2> QED
    BY <2>1, <2>6, <2>7 DEF RecordInv
<1>7. ASSUME NEW p \in Pids, ProcessExit(p) \/ ForeignStart(p)
      PROVE  RecordInv'
  BY <1>7 DEF ProcessExit, ForeignStart, RecordInv, ExitErasesRecord, memVars
<1>8. CASE Crash
  BY <1>8 DEF Crash, RecordInv, ExitErasesRecord
<1>9. CASE UNCHANGED vars
  BY <1>9 DEF vars, RecordInv, ExitErasesRecord
<1> QED
  BY <1>1, <1>2, <1>4, <1>5, <1>6, <1>7, <1>8, <1>9 DEF Next, Operation

\* A child whose waiter has removed its record is named by the PID file no more,
\* in whatever order exits, crashes and later Starts come.
THEOREM ExitErasesRecordHolds == Spec => []ExitErasesRecord
<1>1. Init => RecordInv
  <2>1. Init => TypeOK
    BY InitTypeOK
  <2> QED
    BY <2>1, ProcessAssumption
    DEF ProcessAssumption, Gens, Init, RecordInv, ExitErasesRecord
<1>2. RecordInv /\ TypeOK' /\ [Next]_vars => RecordInv'
  BY RecordStep
<1>3. RecordInv => ExitErasesRecord
  BY DEF RecordInv
<1> QED
  BY <1>1, <1>2, <1>3, TypeCorrect, PTL DEF Spec
=============================================================================
