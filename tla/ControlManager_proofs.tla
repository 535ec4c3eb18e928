------------------------ MODULE ControlManager_proofs -----------------------
(***************************************************************************)
(* Proofs about ControlManager, for any number of clients, Presets and     *)
(* model files: the busy flag is a mutex, config.yaml only ever names      *)
(* existing Presets, no file of a loaded Preset is unlinked, and the       *)
(* manager implements the atomic PresetCatalog; a reverted creation leaves *)
(* no Preset, a deleted model none that names it, a stopped Router stays   *)
(* stopped, and what a change unloads is loaded again.                     *)
(***************************************************************************)
EXTENDS ControlManager, FiniteSetTheorems, TLAPS

\* The fields of a job.
LEMMA JobFields ==
    ASSUME NEW j \in JobTypes
    PROVE  /\ j.kind \in Kinds \cup {"revert"}
           /\ j.name \in Names \cup {NoName}
           /\ j.source \in Sources
           /\ j.flag \in BOOLEAN
           /\ j.kind \in {"put", "autostart"} => j.name \in Names
BY DEF JobTypes, Requests

\* A job begins with the first call of its kind.
LEMMA FirstCall ==
    ASSUME NEW j \in Jobs
    PROVE  /\ j \in JobTypes
           /\ First(j.kind) \in {"admit", "shutdown", "capture", "check",
                                 "enable", "status"}
           /\ j.kind \in {"start", "stop", "restart"} <=> First(j.kind) = "admit"
           /\ j.kind = "put" <=> First(j.kind) = "capture"
           /\ j.kind = "autostart" <=> First(j.kind) = "enable"
           /\ j.kind \in {"delete", "cleanup", "deleteModel"}
                 <=> First(j.kind) = "check"
<1>1. j \in JobTypes
  BY DEF JobTypes, Jobs, Requests
<1>2. j.kind \in Kinds
  BY DEF Jobs, Requests
<1> QED
  BY <1>1, <1>2 DEF Kinds, First

LEMMA InitTypeOK ==
    Init => TypeOK
<1> USE DEF DiskOK, ServerOK, TasksOK, Calls, Answers
<1> SUFFICES ASSUME Init PROVE TypeOK
  OBVIOUS
<1>1. boot \in [dflt : Names \cup {NoName}, autostart : SUBSET Names]
  BY DEF Init, Startup, Config, Existing
<1> QED
  BY <1>1 DEF Init, TypeOK, Existing

-----------------------------------------------------------------------------
(* Type correctness *)

TypeInv == TypeOK /\ \A c \in Clients : TaskOf(c)

\* An operation that takes a step is in progress.
LEMMA StepOfJob ==
    ASSUME TypeInv, NEW c \in Clients, Step(c)
    PROVE  pc[c] # "idle" /\ job[c] \in JobTypes
<1>1. pc[c] # "idle"
  BY DEF Step, OperationStep, RefreshStep, PresetStep, RemovalStep,
    ReadFails, Admit, Ensure, Launch, Unload, Load, Shutdown, Status, List,
    Reload, Restore, Halt, Relaunch, Relist, Capture, CaptureList, Save,
    Reread, Revert, EnableCheck, Write, CheckDelete, CheckCleanup,
    CheckModel, Unlink, Unref, Erase
<1> QED
  BY <1>1 DEF TypeInv, TaskOf

\* A step of one client leaves the local state of every other alone.
LEMMA OthersKeep ==
    ASSUME TypeInv, NEW c \in Clients, Step(c), NEW d \in Clients \ {c}
    PROVE  /\ pc'[d] = pc[d] /\ job'[d] = job[d] /\ ran'[d] = ran[d]
           /\ before'[d] = before[d] /\ todo'[d] = todo[d]
           /\ sound'[d] = sound[d]
<1> USE DEF TypeInv, TypeOK, TasksOK, Goto, GoOn, Refreshed, Plan, Unless, Erased, Undo, locals
<1>1. CASE ReadFails(c)
  BY <1>1 DEF ReadFails, Finish
<1>2. CASE Admit(c)
  BY <1>2 DEF Admit, Finish
<1>3. CASE Ensure(c)
  BY <1>3 DEF Ensure, Finish
<1>4. CASE Launch(c)
  BY <1>4 DEF Launch, Finish
<1>5. CASE Unload(c)
  BY <1>5 DEF Unload, Finish
<1>6. CASE Load(c)
  BY <1>6 DEF Load, Finish
<1>7. CASE Shutdown(c)
  BY <1>7 DEF Shutdown, Finish
<1>8. CASE Status(c)
  BY <1>8 DEF Status, Finish
<1>9. CASE List(c)
  BY <1>9 DEF List, Finish
<1>10. CASE Reload(c)
  BY <1>10 DEF Reload, Finish
<1>11. CASE Restore(c)
  BY <1>11 DEF Restore, Finish
<1>12. CASE Halt(c)
  BY <1>12 DEF Halt, Finish
<1>13. CASE Relaunch(c)
  BY <1>13 DEF Relaunch, Finish
<1>14. CASE Relist(c)
  BY <1>14 DEF Relist, Finish
<1>15. CASE Capture(c)
  BY <1>15 DEF Capture, Finish
<1>16. CASE CaptureList(c)
  BY <1>16 DEF CaptureList, Finish
<1>17. CASE Save(c)
  BY <1>17 DEF Save, Finish
<1>18. CASE Reread(c)
  BY <1>18 DEF Reread, Finish
<1>19. CASE Revert(c)
  BY <1>19 DEF Revert, Finish
<1>20. CASE EnableCheck(c)
  BY <1>20 DEF EnableCheck, Finish
<1>21. CASE Write(c)
  BY <1>21 DEF Write, Finish
<1>22. CASE CheckDelete(c)
  BY <1>22 DEF CheckDelete, Finish
<1>23. CASE CheckCleanup(c)
  BY <1>23 DEF CheckCleanup, Finish
<1>24. CASE CheckModel(c)
  BY <1>24 DEF CheckModel, Finish
<1>25. CASE Unlink(c)
  BY <1>25 DEF Unlink, Finish
<1>26. CASE Unref(c)
  BY <1>26 DEF Unref, Finish
<1>27. CASE Erase(c)
  BY <1>27 DEF Erase, Finish
<1> QED
  BY <1>1, <1>2, <1>3, <1>4, <1>5, <1>6, <1>7, <1>8, <1>9, <1>10, <1>11,
    <1>12, <1>13, <1>14, <1>15, <1>16, <1>17, <1>18, <1>19, <1>20, <1>21,
    <1>22, <1>23, <1>24, <1>25, <1>26, <1>27 DEF Step, OperationStep,
    RefreshStep, PresetStep, RemovalStep

\* Six calls write to the disk.
LEMMA DiskType ==
    ASSUME TypeInv, NEW c \in Clients, Step(c)
    PROVE  DiskOK'
<1> USE StepOfJob, JobFields DEF TypeInv, TypeOK, DiskOK, TaskOf
<1>1. CASE Save(c)
  BY <1>1 DEF Save, Undo, Erased
<1>2. CASE Revert(c)
  BY <1>2 DEF Revert, Undo, Erased
<1>3. CASE Erase(c)
  BY <1>3 DEF Erase, Undo, Erased
<1>4. CASE Unref(c)
  BY <1>4 DEF Unref, Undo, Erased
<1>5. CASE Unlink(c)
  BY <1>5 DEF Unlink, Undo, Erased
<1>6. CASE Write(c)
  BY <1>6 DEF Write, Undo, Erased
<1>7. CASE UNCHANGED disk
  BY <1>7 DEF disk
<1> QED
  BY <1>1, <1>2, <1>3, <1>4, <1>5, <1>6, <1>7 DEF Step, OperationStep,
    RefreshStep, PresetStep, RemovalStep, ReadFails, Admit, Ensure, Launch,
    Unload, Load, Shutdown, Status, List, Reload, Restore, Halt, Relaunch,
    Relist, Capture, CaptureList, Reread, EnableCheck, CheckDelete,
    CheckCleanup, CheckModel

\* Eight calls can change the Router.
LEMMA ServerType ==
    ASSUME TypeInv, NEW c \in Clients, Step(c)
    PROVE  ServerOK'
<1> USE DEF TypeInv, TypeOK, DiskOK, ServerOK, Started, Stopped, Loads, Reloads, Existing
<1>1. CASE Launch(c)
  BY <1>1 DEF Launch, Unloaded, server
<1>2. CASE Unload(c)
  BY <1>2 DEF Unload, Unloaded, server
<1>3. CASE Load(c)
  BY <1>3 DEF Load, Unloaded, server
<1>4. CASE Shutdown(c)
  BY <1>4 DEF Shutdown, Unloaded, server
<1>5. CASE Reload(c)
  BY <1>5 DEF Reload, Unloaded, server
<1>6. CASE Restore(c)
  BY <1>6 DEF Restore, Unloaded, server
<1>7. CASE Halt(c)
  BY <1>7 DEF Halt, Unloaded, server
<1>8. CASE Relaunch(c)
  BY <1>8 DEF Relaunch, Unloaded, server
<1>9. CASE UNCHANGED server
  BY <1>9 DEF server
<1> QED
  BY <1>1, <1>2, <1>3, <1>4, <1>5, <1>6, <1>7, <1>8, <1>9 DEF Step,
    OperationStep, RefreshStep, PresetStep, RemovalStep, ReadFails, Admit,
    Ensure, Status, List, Relist, Capture, CaptureList, Save, Reread,
    Revert, EnableCheck, Write, CheckDelete, CheckCleanup, CheckModel,
    Unlink, Unref, Erase

\* The end of an operation.
LEMMA FinishTasks ==
    ASSUME TypeInv, NEW c \in Clients, NEW r \in Answers, Finish(c, r)
    PROVE  TasksOK' /\ \A d \in Clients : TaskOf(d)'
<1>1. TasksOK'
  <2> USE DEF TypeInv, TypeOK, TasksOK, Finish
  <2>1. pc' \in [Clients -> Calls]
    BY DEF Calls
  <2>2. job' \in [Clients -> JobTypes \cup {NoJob}]
    OBVIOUS
  <2>3. ran' \in [Clients -> BOOLEAN] /\ sound' \in [Clients -> BOOLEAN]
    OBVIOUS
  <2>4. before' \in [Clients -> SUBSET Names] /\ todo' \in [Clients -> SUBSET Names]
    OBVIOUS
  <2>5. busy' \in BOOLEAN /\ answer' \in Answers
    OBVIOUS
  <2>6. owed' \in SUBSET Names /\ wasUp' \in BOOLEAN
    OBVIOUS
  <2>7. boot' \in [dflt : Names \cup {NoName}, autostart : SUBSET Names]
    OBVIOUS
  <2> QED
    BY <2>1, <2>2, <2>3, <2>4, <2>5, <2>6, <2>7
<1>2. ASSUME NEW d \in Clients PROVE TaskOf(d)'
  <2>1. CASE d = c
    BY <2>1 DEF TypeInv, TypeOK, TasksOK, TaskOf, Finish
  <2>2. CASE d # c
    BY <2>2 DEF TypeInv, TypeOK, TasksOK, TaskOf, Finish, Creating
  <2> QED BY <2>1, <2>2
<1> QED
  BY <1>1, <1>2

\* A call that leaves its operation with other Presets to do.
LEMMA TodoTasks ==
    ASSUME TypeInv, NEW c \in Clients, NEW p \in Calls, Goto(c, p),
           NEW ns \in SUBSET Names, todo' = [todo EXCEPT ![c] = ns],
           \/ UNCHANGED sound
           \/ \E b \in BOOLEAN : sound' = [sound EXCEPT ![c] = b],
           UNCHANGED <<job, ran, before>>, owed' \in SUBSET Names
    PROVE  TasksOK'
<1> USE DEF TypeInv, TypeOK, TasksOK, Goto
<1>1. pc' \in [Clients -> Calls]
  OBVIOUS
<1>2. todo' \in [Clients -> SUBSET Names] /\ sound' \in [Clients -> BOOLEAN]
  OBVIOUS
<1> QED
  BY <1>1, <1>2

LEMMA GoOnTasks ==
    ASSUME TypeInv, NEW c \in Clients, NEW p \in Calls, NEW ns \in SUBSET Names,
           GoOn(c, p, ns)
    PROVE  TasksOK'
<1>1. owed' \in SUBSET Names
  BY DEF GoOn, TypeInv, TypeOK, TasksOK
<1> QED
  BY <1>1, TodoTasks DEF GoOn

\* A call that leaves its operation with what it had to do.
LEMMA StayTasks ==
    ASSUME TypeInv, NEW c \in Clients, NEW p \in Calls, Goto(c, p), UNCHANGED <<locals, owed>>
    PROVE  TasksOK'
<1>1. pc' \in [Clients -> Calls]
  BY DEF TypeInv, TypeOK, TasksOK, Goto
<1> QED
  BY <1>1 DEF TypeInv, TypeOK, TasksOK, Goto, locals

\* The calls of a refresh, unless they end the operation.
LEMMA RefreshedTasks ==
    ASSUME TypeInv, NEW c \in Clients, NEW ok \in BOOLEAN, Refreshed(c, ok),
           \A r \in Answers : ~Finish(c, r)
    PROVE  TasksOK'
<1>1. /\ Goto(c, "revert") /\ "revert" \in Calls
      /\ todo' = [todo EXCEPT ![c] = {}]
      /\ sound' = [sound EXCEPT ![c] = TRUE]
      /\ UNCHANGED <<job, ran, before, owed>>
  BY DEF Refreshed, Answers, Calls
<1>2. owed' \in SUBSET Names
  BY <1>1 DEF TypeInv, TypeOK, TasksOK
<1> QED
  BY <1>1, <1>2, TodoTasks

LEMMA PlanTasks ==
    ASSUME TypeInv, NEW c \in Clients, NEW listed, NEW loaded, Plan(c, listed, loaded)
    PROVE  TasksOK'
<1>1. /\ Goto(c, "restore") /\ "restore" \in Calls
      /\ todo' = [todo EXCEPT ![c] = (todo[c] \cap listed) \ loaded]
      /\ sound' = [sound EXCEPT ![c] = todo[c] \subseteq listed]
      /\ UNCHANGED <<job, ran, before, owed>>
  BY DEF Plan, Calls
<1>2. owed' \in SUBSET Names /\ (todo[c] \cap listed) \ loaded \in SUBSET Names
  BY <1>1 DEF TypeInv, TypeOK, TasksOK
<1> QED
  BY <1>1, <1>2, TodoTasks

LEMMA RefreshTasks ==
    ASSUME TypeInv, NEW c \in Clients, \A r \in Answers : ~Finish(c, r),
           Reload(c) \/ Restore(c) \/ Halt(c) \/ Relaunch(c) \/ Relist(c)
    PROVE  TasksOK'
<1>1. sound[c] \in BOOLEAN /\ {"halt", "relaunch", "relist", "restore"} \subseteq Calls
  BY DEF TypeInv, TypeOK, TasksOK, Calls
<1>2. CASE Reload(c)
  BY <1>1, <1>2, PlanTasks, StayTasks DEF Reload
<1>3. CASE Restore(c)
  <2>1. CASE Refreshed(c, sound[c])
    BY <1>1, <2>1, RefreshedTasks
  <2>2. ASSUME NEW n \in todo[c], Goto(c, "restore"),
               todo' = [todo EXCEPT ![c] = todo[c] \ {n}],
               UNCHANGED sound \/ sound' = [sound EXCEPT ![c] = FALSE],
               UNCHANGED <<job, ran, before, owed>>
        PROVE  TasksOK'
    <3>1. todo[c] \ {n} \in SUBSET Names /\ owed' \in SUBSET Names
      BY <2>2 DEF TypeInv, TypeOK, TasksOK
    <3> QED
      BY <1>1, <2>2, <3>1, TodoTasks
  <2> QED
    BY <1>3, <2>1, <2>2 DEF Restore
<1>4. CASE Halt(c)
  BY <1>1, <1>4, StayTasks, RefreshedTasks DEF Halt
<1>5. CASE Relaunch(c)
  BY <1>1, <1>5, StayTasks, RefreshedTasks DEF Relaunch
<1>6. CASE Relist(c)
  BY <1>6, PlanTasks, RefreshedTasks DEF Relist
<1> QED
  BY <1>2, <1>3, <1>4, <1>5, <1>6

\* The checks before a removal, unless they end the operation.
LEMMA CheckTasks ==
    ASSUME TypeInv, NEW c \in Clients, \A r \in Answers : ~Finish(c, r),
           CheckDelete(c) \/ CheckCleanup(c) \/ CheckModel(c)
    PROVE  TasksOK'
<1>1. /\ {"ok", "rejected", "failed"} \subseteq Answers
      /\ {"erase", "unref", "unlink"} \subseteq Calls
  BY DEF Answers, Calls
<1>2. \E p \in {"erase", "unref", "unlink"}, ns \in SUBSET Names : GoOn(c, p, ns)
  <2>1. CASE CheckDelete(c)
    BY <1>1, <2>1 DEF CheckDelete, Unless, Existing
  <2>2. CASE CheckCleanup(c)
    BY <1>1, <2>2 DEF CheckCleanup, Unless, Existing
  <2>3. CASE CheckModel(c)
    BY <1>1, <2>3 DEF CheckModel, Unless, ModelPaths
  <2> QED
    BY <2>1, <2>2, <2>3
<1> QED
  BY <1>1, <1>2, GoOnTasks

\* A call that does not end its operation keeps the types.
LEMMA MoveTasks ==
    ASSUME TypeInv, NEW c \in Clients, Step(c), \A r \in Answers : ~Finish(c, r)
    PROVE  TasksOK'
<1> USE StepOfJob, JobFields
    DEF TypeInv, TypeOK, TasksOK, ServerOK, Calls, Answers, Goto, GoOn, Refreshed,
        Plan, Unless, Erased, locals
<1>1. CASE ReadFails(c)
  BY <1>1 DEF ReadFails, Apply, Creating, Undo, JobTypes, Requests
<1>2. CASE Admit(c)
  <2>1. PICK cfg \in Snapshots :
           LET wanted == {n \in Resolve(job[c].name, cfg) : Admissible(c, n)}
           IN  Goto(c, "ensure") /\ todo' = [todo EXCEPT ![c] = wanted]
               /\ UNCHANGED <<job, ran, before, sound, owed>>
    BY <1>2 DEF Admit
  <2> DEFINE wanted == {n \in Resolve(job[c].name, cfg) : Admissible(c, n)}
  <2>2. wanted \in SUBSET Names
    BY DEF Admissible, Existing
  <2> QED
    BY <2>1, <2>2, TodoTasks
<1>3. CASE Ensure(c)
  BY <1>3 DEF Ensure, Apply, Creating, Undo, JobTypes, Requests
<1>4. CASE Launch(c)
  BY <1>4 DEF Launch, Apply, Creating, Undo, JobTypes, Requests
<1>5. CASE Unload(c)
  BY <1>5 DEF Unload, Apply, Creating, Undo, JobTypes, Requests
<1>6. CASE Load(c)
  BY <1>6 DEF Load, Apply, Creating, Undo, JobTypes, Requests
<1>7. CASE Shutdown(c)
  BY <1>7 DEF Shutdown, Apply, Creating, Undo, JobTypes, Requests
<1>8. CASE Status(c)
  BY <1>8 DEF Status, Apply, Creating, Undo, JobTypes, Requests
<1>9. CASE List(c)
  BY <1>9 DEF List, Apply, Creating, Undo, JobTypes, Requests
<1>10. CASE Reload(c)
  BY <1>10, RefreshTasks
<1>11. CASE Restore(c)
  BY <1>11, RefreshTasks
<1>12. CASE Halt(c)
  BY <1>12, RefreshTasks
<1>13. CASE Relaunch(c)
  BY <1>13, RefreshTasks
<1>14. CASE Relist(c)
  BY <1>14, RefreshTasks
<1>15. CASE Capture(c)
  BY <1>15 DEF Capture, Apply, Creating, Undo, JobTypes, Requests
<1>16. CASE CaptureList(c)
  BY <1>16 DEF CaptureList, Apply, Creating, Undo, JobTypes, Requests
<1>17. CASE Save(c)
  BY <1>17 DEF Save, Apply, Creating, Undo, JobTypes, Requests
<1>18. CASE Reread(c)
  BY <1>18 DEF Reread, Apply, Creating, Undo, JobTypes, Requests
<1>19. CASE Revert(c)
  <2> DEFINE undo == [kind |-> "revert", name |-> job[c].name,
                      source |-> job[c].source, flag |-> TRUE]
  <2>1. /\ Goto(c, "halt")
        /\ job' = [job EXCEPT ![c] = undo]
        /\ todo' = [todo EXCEPT ![c] = before[c]]
        /\ UNCHANGED <<ran, before, sound, owed>>
    BY <1>19 DEF Revert, Undo
  <2>2. undo \in JobTypes
    BY DEF JobTypes, Requests
  <2>3. job' \in [Clients -> JobTypes \cup {NoJob}]
    BY <2>1, <2>2
  <2>4. todo' \in [Clients -> SUBSET Names]
    BY <2>1
  <2> QED
    BY <2>1, <2>3, <2>4
<1>20. CASE EnableCheck(c)
  BY <1>20 DEF EnableCheck, Apply, Creating, Undo, JobTypes, Requests
<1>21. CASE Write(c)
  BY <1>21 DEF Write, Apply, Creating, Undo, JobTypes, Requests
<1>22. CASE CheckDelete(c)
  BY <1>22, CheckTasks
<1>23. CASE CheckCleanup(c)
  BY <1>23, CheckTasks
<1>24. CASE CheckModel(c)
  BY <1>24, CheckTasks
<1>25. CASE Unlink(c)
  BY <1>25 DEF Unlink, Apply, Creating, Undo, JobTypes, Requests
<1>26. CASE Unref(c)
  BY <1>26 DEF Unref, Apply, Creating, Undo, JobTypes, Requests
<1>27. CASE Erase(c)
  BY <1>27 DEF Erase, Apply, Creating, Undo, JobTypes, Requests
<1> QED
  BY <1>1, <1>2, <1>3, <1>4, <1>5, <1>6, <1>7, <1>8, <1>9, <1>10, <1>11,
    <1>12, <1>13, <1>14, <1>15, <1>16, <1>17, <1>18, <1>19, <1>20, <1>21,
    <1>22, <1>23, <1>24, <1>25, <1>26, <1>27 DEF Step, OperationStep,
    RefreshStep, PresetStep, RemovalStep

\* What an operation that goes on has noted.
LEMMA MoveTaskOf ==
    ASSUME TypeInv, NEW c \in Clients, Step(c), \A r \in Answers : ~Finish(c, r)
    PROVE  TaskOf(c)'
<1> USE StepOfJob, JobFields
    DEF TypeInv, TypeOK, TasksOK, TaskOf, Answers, Goto, GoOn, Refreshed,
        Plan, Unless, Erased, locals, Creating
<1>1. CASE ReadFails(c)
  BY <1>1 DEF ReadFails, Apply, Undo, JobTypes, Requests
<1>2. CASE Admit(c)
  BY <1>2 DEF Admit, Apply, Undo, JobTypes, Requests
<1>3. CASE Ensure(c)
  BY <1>3 DEF Ensure, Apply, Undo, JobTypes, Requests
<1>4. CASE Launch(c)
  BY <1>4 DEF Launch, Apply, Undo, JobTypes, Requests
<1>5. CASE Unload(c)
  BY <1>5 DEF Unload, Apply, Undo, JobTypes, Requests
<1>6. CASE Load(c)
  BY <1>6 DEF Load, Apply, Undo, JobTypes, Requests
<1>7. CASE Shutdown(c)
  BY <1>7 DEF Shutdown, Apply, Undo, JobTypes, Requests
<1>8. CASE Status(c)
  BY <1>8 DEF Status, Apply, Undo, JobTypes, Requests
<1>9. CASE List(c)
  BY <1>9 DEF List, Apply, Undo, JobTypes, Requests
<1>10. CASE Reload(c)
  BY <1>10 DEF Reload, Apply, Undo, JobTypes, Requests
<1>11. CASE Restore(c)
  BY <1>11 DEF Restore, Apply, Undo, JobTypes, Requests
<1>12. CASE Halt(c)
  BY <1>12 DEF Halt, Apply, Undo, JobTypes, Requests
<1>13. CASE Relaunch(c)
  BY <1>13 DEF Relaunch, Apply, Undo, JobTypes, Requests
<1>14. CASE Relist(c)
  BY <1>14 DEF Relist, Apply, Undo, JobTypes, Requests
<1>15. CASE Capture(c)
  BY <1>15 DEF Capture, Apply, Undo, JobTypes, Requests
<1>16. CASE CaptureList(c)
  BY <1>16 DEF CaptureList, Apply, Undo, JobTypes, Requests
<1>17. CASE Save(c)
  BY <1>17 DEF Save, Apply, Undo, JobTypes, Requests
<1>18. CASE Reread(c)
  BY <1>18 DEF Reread, Apply, Undo, JobTypes, Requests
<1>19. CASE Revert(c)
  <2> DEFINE undo == [kind |-> "revert", name |-> job[c].name,
                      source |-> job[c].source, flag |-> TRUE]
  <2>1. Goto(c, "halt") /\ job' = [job EXCEPT ![c] = undo]
    BY <1>19 DEF Revert, Undo
  <2>2. undo \in JobTypes
    BY DEF JobTypes, Requests
  <2>3. pc'[c] = "halt" /\ job'[c] = undo
    BY <2>1
  <2> QED
    BY <2>2, <2>3
<1>20. CASE EnableCheck(c)
  BY <1>20 DEF EnableCheck, Apply, Undo, JobTypes, Requests
<1>21. CASE Write(c)
  BY <1>21 DEF Write, Apply, Undo, JobTypes, Requests
<1>22. CASE CheckDelete(c)
  BY <1>22 DEF CheckDelete, Apply, Undo, JobTypes, Requests
<1>23. CASE CheckCleanup(c)
  BY <1>23 DEF CheckCleanup, Apply, Undo, JobTypes, Requests
<1>24. CASE CheckModel(c)
  BY <1>24 DEF CheckModel, Apply, Undo, JobTypes, Requests
<1>25. CASE Unlink(c)
  <2>1. pc'[c] = "unref" /\ job'[c] = job[c]
    BY <1>25 DEF Unlink
  <2>2. job[c].kind = "deleteModel"
    BY <1>25, StepOfJob DEF Unlink
  <2> QED
    BY <2>1, <2>2
<1>26. CASE Unref(c)
  BY <1>26 DEF Unref, Apply, Undo, JobTypes, Requests
<1>27. CASE Erase(c)
  BY <1>27 DEF Erase, Apply, Undo, JobTypes, Requests
<1> QED
  BY <1>1, <1>2, <1>3, <1>4, <1>5, <1>6, <1>7, <1>8, <1>9, <1>10, <1>11,
    <1>12, <1>13, <1>14, <1>15, <1>16, <1>17, <1>18, <1>19, <1>20, <1>21,
    <1>22, <1>23, <1>24, <1>25, <1>26, <1>27 DEF Step, OperationStep,
    RefreshStep, PresetStep, RemovalStep

LEMMA StepTypeInv ==
    ASSUME TypeInv, NEW c \in Clients, Step(c)
    PROVE  TypeInv'
<1>1. DiskOK' /\ ServerOK'
  BY DiskType, ServerType
<1>2. CASE \E r \in Answers : Finish(c, r)
  BY <1>1, <1>2, FinishTasks DEF TypeInv, TypeOK
<1>3. CASE \A r \in Answers : ~Finish(c, r)
  <2>1. TasksOK' /\ TaskOf(c)'
    BY <1>3, MoveTasks, MoveTaskOf
  <2>2. ASSUME NEW d \in Clients \ {c} PROVE TaskOf(d)'
    BY OthersKeep DEF TypeInv, TaskOf, Creating
  <2> QED
    BY <1>1, <2>1, <2>2 DEF TypeInv, TypeOK
<1> QED
  BY <1>2, <1>3

LEMMA BeginTypeInv ==
    ASSUME TypeInv, NEW c \in Clients, NEW j \in Jobs, Begin(c, j)
    PROVE  TypeInv'
<1> USE DEF TypeInv, TypeOK, Begin
<1>1. DiskOK' /\ ServerOK'
  BY DEF DiskOK, ServerOK, disk, server
<1>2. TasksOK'
  <2>1. pc' \in [Clients -> Calls] /\ job' \in [Clients -> JobTypes \cup {NoJob}]
    BY FirstCall DEF TasksOK, Calls
  <2>2. owed' \in SUBSET Names /\ wasUp' \in BOOLEAN
    BY DEF ServerOK
  <2> QED
    BY <2>1, <2>2 DEF TasksOK, Answers
<1>3. TaskOf(c)'
  BY FirstCall DEF TasksOK, TaskOf
<1>4. ASSUME NEW d \in Clients \ {c} PROVE TaskOf(d)'
  BY DEF TasksOK, TaskOf, Creating
<1> QED
  BY <1>1, <1>2, <1>3, <1>4

LEMMA EnvironmentTypeInv ==
    ASSUME TypeInv, Environment
    PROVE  TypeInv'
<1> USE DEF TypeInv, TypeOK
<1>1. CASE Restart
  <2>1. DiskOK' /\ ServerOK'
    BY <1>1 DEF Restart, DiskOK, ServerOK, disk, server
  <2>2. boot' \in [dflt : Names \cup {NoName}, autostart : SUBSET Names]
    BY <1>1 DEF Restart, Startup, Config, DiskOK
  <2>3. TasksOK'
    BY <1>1, <2>2 DEF Restart, TasksOK, Calls, Answers
  <2>4. \A c \in Clients : TaskOf(c)'
    BY <1>1 DEF Restart, TaskOf
  <2> QED
    BY <2>1, <2>3, <2>4
<1>2. CASE RouterDies \/ \E n \in Names : PresetDrops(n) \/ OutsideLoad(n)
  <2>1. DiskOK'
    BY <1>2 DEF RouterDies, PresetDrops, OutsideLoad, DiskOK, disk
  <2>2. ServerOK'
    BY <1>2 DEF RouterDies, PresetDrops, OutsideLoad, ServerOK, Stopped, Loads
  <2>3. owed' \in SUBSET Names /\ UNCHANGED <<busy, pc, locals, boot, answer, wasUp>>
    BY <1>2 DEF RouterDies, PresetDrops, OutsideLoad, TasksOK
  <2> QED
    BY <2>1, <2>2, <2>3 DEF TasksOK, TaskOf, Creating, locals
<1>3. CASE \E m \in Models : FileChanges(m)
  BY <1>3 DEF FileChanges, DiskOK, ServerOK, TasksOK, TaskOf, Creating, server,
              locals, history
<1> QED
  BY <1>1, <1>2, <1>3 DEF Environment

LEMMA NextTypeInv ==
    TypeInv /\ [Next]_vars => TypeInv'
<1>1. CASE UNCHANGED vars
  BY <1>1 DEF vars, TypeInv, TypeOK, DiskOK, ServerOK, TasksOK, TaskOf, Creating
<1> QED
  BY <1>1, StepTypeInv, BeginTypeInv, EnvironmentTypeInv DEF Next

LEMMA InitTypeInv ==
    Init => TypeInv
BY InitTypeOK DEF Init, TypeInv, TaskOf

\* Every variable stays in its range and every operation makes the calls of its
\* kind only, whatever fails and whoever interferes.
THEOREM TypeCorrect ==
    Spec => []TypeOK
<1>1. TypeInv => TypeOK
  BY DEF TypeInv
<1> QED
  BY <1>1, InitTypeInv, NextTypeInv, PTL DEF Spec

-----------------------------------------------------------------------------
(* The busy flag *)

\* An operation that goes on keeps the flag and what it was asked for, except
\* that a rolled back creation turns into its recovery.
LEMMA MoveKeeps ==
    ASSUME TypeInv, NEW c \in Clients, Step(c), \A r \in Answers : ~Finish(c, r)
    PROVE  /\ pc'[c] # "idle"
           /\ busy' = busy
           /\ Revert(c) \/ job' = job
<1> USE DEF TypeInv, TypeOK, TasksOK, Answers, Goto, GoOn, Refreshed,
        Plan, Unless, Erased, locals
<1>1. CASE ReadFails(c)
  BY <1>1 DEF ReadFails, Apply, Undo
<1>2. CASE Admit(c)
  BY <1>2 DEF Admit, Apply, Undo
<1>3. CASE Ensure(c)
  BY <1>3 DEF Ensure, Apply, Undo
<1>4. CASE Launch(c)
  BY <1>4 DEF Launch, Apply, Undo
<1>5. CASE Unload(c)
  BY <1>5 DEF Unload, Apply, Undo
<1>6. CASE Load(c)
  BY <1>6 DEF Load, Apply, Undo
<1>7. CASE Shutdown(c)
  BY <1>7 DEF Shutdown, Apply, Undo
<1>8. CASE Status(c)
  BY <1>8 DEF Status, Apply, Undo
<1>9. CASE List(c)
  BY <1>9 DEF List, Apply, Undo
<1>10. CASE Reload(c)
  BY <1>10 DEF Reload, Apply, Undo
<1>11. CASE Restore(c)
  BY <1>11 DEF Restore, Apply, Undo
<1>12. CASE Halt(c)
  BY <1>12 DEF Halt, Apply, Undo
<1>13. CASE Relaunch(c)
  BY <1>13 DEF Relaunch, Apply, Undo
<1>14. CASE Relist(c)
  BY <1>14 DEF Relist, Apply, Undo
<1>15. CASE Capture(c)
  BY <1>15 DEF Capture, Apply, Undo
<1>16. CASE CaptureList(c)
  BY <1>16 DEF CaptureList, Apply, Undo
<1>17. CASE Save(c)
  BY <1>17 DEF Save, Apply, Undo
<1>18. CASE Reread(c)
  BY <1>18 DEF Reread, Apply, Undo
<1>19. CASE Revert(c)
  BY <1>19 DEF Revert, Apply, Undo
<1>20. CASE EnableCheck(c)
  BY <1>20 DEF EnableCheck, Apply, Undo
<1>21. CASE Write(c)
  BY <1>21 DEF Write, Apply, Undo
<1>22. CASE CheckDelete(c)
  BY <1>22 DEF CheckDelete, Apply, Undo
<1>23. CASE CheckCleanup(c)
  BY <1>23 DEF CheckCleanup, Apply, Undo
<1>24. CASE CheckModel(c)
  BY <1>24 DEF CheckModel, Apply, Undo
<1>25. CASE Unlink(c)
  BY <1>25 DEF Unlink, Apply, Undo
<1>26. CASE Unref(c)
  BY <1>26 DEF Unref, Apply, Undo
<1>27. CASE Erase(c)
  BY <1>27 DEF Erase, Apply, Undo
<1> QED
  BY <1>1, <1>2, <1>3, <1>4, <1>5, <1>6, <1>7, <1>8, <1>9, <1>10, <1>11,
    <1>12, <1>13, <1>14, <1>15, <1>16, <1>17, <1>18, <1>19, <1>20, <1>21,
    <1>22, <1>23, <1>24, <1>25, <1>26, <1>27 DEF Step, OperationStep,
    RefreshStep, PresetStep, RemovalStep

LEMMA OneOperationStep ==
    ASSUME TypeInv, OneOperation, [Next]_vars
    PROVE  OneOperation'
<1> USE DEF OneOperation
<1>1. ASSUME NEW c \in Clients, NEW j \in Jobs, Begin(c, j)
      PROVE  OneOperation'
  BY <1>1, FirstCall DEF Begin, TypeInv, TypeOK, TasksOK
<1>2. ASSUME NEW c \in Clients, Step(c)
      PROVE  OneOperation'
  <2>1. \A d \in Clients \ {c} : pc[d] = "idle" /\ pc'[d] = "idle"
    BY <1>2, StepOfJob, OthersKeep
  <2>2. CASE \E r \in Answers : Finish(c, r)
    BY <2>1, <2>2 DEF Finish, TypeInv, TypeOK, TasksOK
  <2>3. CASE \A r \in Answers : ~Finish(c, r)
    <3>1. pc'[c] # "idle" /\ busy' = busy
      BY <1>2, <2>3, MoveKeeps
    <3> QED
      BY <1>2, <2>1, <3>1, StepOfJob
  <2> QED
    BY <2>2, <2>3
<1>3. CASE Environment
  BY <1>3 DEF Environment, Restart, RouterDies, PresetDrops, OutsideLoad, FileChanges
<1>4. CASE UNCHANGED vars
  BY <1>4 DEF vars
<1> QED
  BY <1>1, <1>2, <1>3, <1>4 DEF Next

\* One mutating operation at a time: the flag is up exactly while an operation
\* is in progress, whatever way it ends and also across a restart.
THEOREM OneOperationHolds ==
    Spec => []OneOperation
<1>1. Init => OneOperation
  BY DEF Init, OneOperation
<1> QED
  BY <1>1, InitTypeInv, NextTypeInv, OneOperationStep, PTL DEF Spec

-----------------------------------------------------------------------------
(* References *)

\* Every other client is idle while one takes a step.
LEMMA OthersIdle ==
    ASSUME TypeInv, OneOperation, NEW c \in Clients, Step(c), NEW d \in Clients \ {c}
    PROVE  pc[d] = "idle" /\ pc'[d] = "idle"
BY StepOfJob, OthersKeep DEF OneOperation

\* All steps but five leave models.ini and the references alone.
LEMMA DocumentsKept ==
    ASSUME NEW c \in Clients, Step(c)
    PROVE  \/ Save(c) \/ Revert(c) \/ Erase(c) \/ Unref(c) \/ Write(c)
           \/ UNCHANGED <<presets, dflt, autostart>>
BY DEF Step, OperationStep, RefreshStep, PresetStep, RemovalStep, disk,
  ReadFails, Admit, Ensure, Launch, Unload, Load, Shutdown, Status, List,
  Reload, Restore, Halt, Relaunch, Relist, Capture, CaptureList, Reread,
  EnableCheck, CheckDelete, CheckCleanup, CheckModel, Unlink

LEMMA StepRefsExist ==
    ASSUME ReferenceInv, NEW c \in Clients, Step(c)
    PROVE  RefsExist'
<1> USE StepOfJob, JobFields
    DEF ReferenceInv, TypeInv, TypeOK, DiskOK, TasksOK, TaskOf, ReferenceOf, RefsExist,
        Referenced, Existing
<1>1. CASE Save(c)
  BY <1>1, ManagerAssumption DEF Save, ManagerAssumption
<1>2. CASE Revert(c)
  BY <1>2 DEF Revert, Undo, Saved
<1>3. CASE Erase(c)
  BY <1>3 DEF Erase, Erased
<1>4. CASE Unref(c)
  BY <1>4 DEF Unref
<1>5. CASE Write(c)
  BY <1>5 DEF Write
<1>6. CASE UNCHANGED <<presets, dflt, autostart>>
  BY <1>6
<1> QED
  BY <1>1, <1>2, <1>3, <1>4, <1>5, <1>6, DocumentsKept

\* The operation that goes on has checked what it relies on.
LEMMA MoveReferenceOf ==
    ASSUME ReferenceInv, ~ConfigReadFails, NEW c \in Clients, Step(c),
           \A r \in Answers : ~Finish(c, r)
    PROVE  ReferenceOf(c)'
<1> TypeInv
  BY DEF ReferenceInv, TypeInv
<1> USE StepOfJob, JobFields
    DEF ReferenceInv, TypeInv, TypeOK, TasksOK, TaskOf, ReferenceOf, RefsExist,
        Referenced, Existing, Saved, Creating, Answers, Goto, GoOn, Refreshed,
        Plan, Unless, Erased, locals, disk
<1>1. CASE ReadFails(c)
  BY <1>1 DEF ReadFails, Apply, Undo
<1>2. CASE Admit(c)
  BY <1>2 DEF Admit, Apply, Undo
<1>3. CASE Ensure(c)
  BY <1>3 DEF Ensure, Apply, Undo
<1>4. CASE Launch(c)
  BY <1>4 DEF Launch, Apply, Undo
<1>5. CASE Unload(c)
  BY <1>5 DEF Unload, Apply, Undo
<1>6. CASE Load(c)
  BY <1>6 DEF Load, Apply, Undo
<1>7. CASE Shutdown(c)
  BY <1>7 DEF Shutdown, Apply, Undo
<1>8. CASE Status(c)
  BY <1>8 DEF Status, Apply, Undo
<1>9. CASE List(c)
  BY <1>9 DEF List, Apply, Undo
<1>10. CASE Reload(c)
  BY <1>10 DEF Reload, Apply, Undo
<1>11. CASE Restore(c)
  BY <1>11 DEF Restore, Apply, Undo
<1>12. CASE Halt(c)
  BY <1>12 DEF Halt, Apply, Undo
<1>13. CASE Relaunch(c)
  BY <1>13 DEF Relaunch, Apply, Undo
<1>14. CASE Relist(c)
  BY <1>14 DEF Relist, Apply, Undo
<1>15. CASE Capture(c)
  BY <1>15 DEF Capture, Apply, Undo
<1>16. CASE CaptureList(c)
  BY <1>16 DEF CaptureList, Apply, Undo
<1>17. CASE Save(c)
  BY <1>17 DEF Save, Apply, Undo
<1>18. CASE Reread(c)
  BY <1>18 DEF Reread, Apply, Undo
<1>19. CASE Revert(c)
  BY <1>19 DEF Revert, Apply, Undo
<1>20. CASE EnableCheck(c)
  BY <1>20 DEF EnableCheck, Apply, Undo
<1>21. CASE Write(c)
  BY <1>21 DEF Write, Apply, Undo
<1>22. CASE CheckDelete(c)
  BY <1>22 DEF CheckDelete, Apply, Undo, Snapshots, Config, Configured
<1>23. CASE CheckCleanup(c)
  BY <1>23 DEF CheckCleanup, Apply, Undo
<1>24. CASE CheckModel(c)
  BY <1>24 DEF CheckModel, Apply, Undo
<1>25. CASE Unlink(c)
  BY <1>25 DEF Unlink, Apply, Undo
<1>26. CASE Unref(c)
  BY <1>26 DEF Unref, Apply, Undo, Unreferenced
<1>27. CASE Erase(c)
  BY <1>27 DEF Erase, Apply, Undo
<1> QED
  BY <1>1, <1>2, <1>3, <1>4, <1>5, <1>6, <1>7, <1>8, <1>9, <1>10, <1>11,
    <1>12, <1>13, <1>14, <1>15, <1>16, <1>17, <1>18, <1>19, <1>20, <1>21,
    <1>22, <1>23, <1>24, <1>25, <1>26, <1>27 DEF Step, OperationStep,
    RefreshStep, PresetStep, RemovalStep

LEMMA StepReferenceInv ==
    ASSUME ReferenceInv, ~ConfigReadFails, NEW c \in Clients, Step(c)
    PROVE  ReferenceInv'
<1> TypeInv
  BY DEF ReferenceInv, TypeInv
<1>1. TypeInv' /\ OneOperation' /\ RefsExist'
  BY StepTypeInv, OneOperationStep, StepRefsExist DEF ReferenceInv, Next
<1>2. ASSUME NEW d \in Clients \ {c} PROVE ReferenceOf(d)'
  BY OthersIdle DEF ReferenceInv, ReferenceOf, Saved
<1>3. ReferenceOf(c)'
  <2>1. CASE \E r \in Answers : Finish(c, r)
    BY <2>1 DEF Finish, ReferenceOf, Saved, TypeInv, TypeOK, TasksOK
  <2>2. CASE \A r \in Answers : ~Finish(c, r)
    BY <2>2, MoveReferenceOf
  <2> QED
    BY <2>1, <2>2
<1> QED
  BY <1>1, <1>2, <1>3 DEF ReferenceInv, TypeInv

LEMMA ReferenceInvStep ==
    ASSUME ReferenceInv, ~ConfigReadFails, [Next]_vars
    PROVE  ReferenceInv'
<1> TypeInv
  BY DEF ReferenceInv, TypeInv
<1>1. TypeInv' /\ OneOperation'
  BY NextTypeInv, OneOperationStep DEF ReferenceInv
<1>2. CASE \E c \in Clients : Step(c)
  BY <1>2, StepReferenceInv
<1>3. ASSUME NEW c \in Clients, NEW j \in Jobs, Begin(c, j)
      PROVE  RefsExist' /\ \A d \in Clients : ReferenceOf(d)'
  <2>1. UNCHANGED disk /\ pc' = [pc EXCEPT ![c] = First(j.kind)]
        /\ job' = [job EXCEPT ![c] = j] /\ UNCHANGED todo
    BY <1>3 DEF Begin
  <2>2. RefsExist'
    BY <2>1 DEF ReferenceInv, RefsExist, Referenced, Existing, disk
  <2>3. \A d \in Clients \ {c} : pc'[d] = "idle"
    BY <1>3, <2>1 DEF Begin, ReferenceInv, OneOperation, TypeOK, TasksOK
  <2>4. pc'[c] = First(j.kind) /\ job'[c] = j
    BY <2>1 DEF ReferenceInv, TypeOK, TasksOK
  <2>5. ASSUME NEW d \in Clients PROVE ReferenceOf(d)'
    BY <2>3, <2>4, FirstCall DEF ReferenceOf, Saved, Creating
  <2> QED
    BY <2>2, <2>5
<1>4. CASE Environment \/ UNCHANGED vars
  <2>1. UNCHANGED <<presets, dflt, autostart>>
    BY <1>4 DEF Environment, Restart, RouterDies, PresetDrops, OutsideLoad,
                FileChanges, disk, vars
  <2>2. RefsExist'
    BY <2>1 DEF ReferenceInv, RefsExist, Referenced, Existing
  <2>3. \/ \A c \in Clients : pc'[c] = "idle"
        \/ UNCHANGED <<pc, job, todo>>
    BY <1>4 DEF Environment, Restart, RouterDies, PresetDrops, OutsideLoad,
                FileChanges, locals, vars
  <2>4. ASSUME NEW d \in Clients PROVE ReferenceOf(d)'
    BY <2>1, <2>3 DEF ReferenceInv, ReferenceOf, Saved, Creating, Referenced, Existing
  <2> QED
    BY <1>1, <2>2, <2>4 DEF ReferenceInv, TypeInv
<1> QED
  BY <1>1, <1>2, <1>3, <1>4 DEF Next, ReferenceInv, TypeInv

LEMMA InitReferenceInv ==
    Init => ReferenceInv
<1> SUFFICES ASSUME Init PROVE ReferenceInv
  OBVIOUS
<1>1. TypeInv /\ OneOperation
  BY InitTypeInv DEF Init, OneOperation
<1>2. RefsExist
  BY DEF Init, RefsExist, Referenced
<1>3. \A c \in Clients : ReferenceOf(c)
  BY DEF Init, ReferenceOf, Saved
<1> QED
  BY <1>1, <1>2, <1>3 DEF ReferenceInv, TypeInv

\* While config.yaml is readable, it never names a Preset that models.ini does
\* not have, whichever operations run, fail half way or are cut by a crash.
THEOREM RefsExistHolds ==
    ASSUME ~ConfigReadFails
    PROVE  Spec => []RefsExist
<1>1. ReferenceInv /\ [Next]_vars => ReferenceInv'
  BY ReferenceInvStep
<1>2. ReferenceInv => RefsExist
  BY DEF ReferenceInv
<1> QED
  BY <1>1, <1>2, InitReferenceInv, PTL DEF Spec

-----------------------------------------------------------------------------
(* Loaded Presets *)

LEMMA StepActiveExists ==
    ASSUME IInv, NEW c \in Clients, Step(c)
    PROVE  active' \subseteq Existing'
<1> TypeInv
  BY DEF IInv, ReferenceInv, TypeInv
<1> USE StepOfJob
    DEF IInv, ReferenceInv, TypeOK, DiskOK, ServerOK, TasksOK, ActiveOf, Existing
<1>1. CASE Save(c)
  BY <1>1, ManagerAssumption, JobFields DEF Save, server, ManagerAssumption
<1>2. CASE Revert(c)
  BY <1>2 DEF Revert, Undo, server, TypeInv, TaskOf, Saved
<1>3. CASE Erase(c)
  BY <1>3 DEF Erase, Erased, server
<1>4. CASE Launch(c)
  BY <1>4 DEF Launch, disk, server, Started, Stopped, Loads, Reloads, Unloaded
<1>5. CASE Unload(c)
  BY <1>5 DEF Unload, disk, server, Started, Stopped, Loads, Reloads, Unloaded
<1>6. CASE Load(c)
  BY <1>6 DEF Load, disk, server, Started, Stopped, Loads, Reloads, Unloaded
<1>7. CASE Shutdown(c)
  BY <1>7 DEF Shutdown, disk, server, Started, Stopped, Loads, Reloads, Unloaded
<1>8. CASE Reload(c)
  BY <1>8 DEF Reload, disk, server, Started, Stopped, Loads, Reloads, Unloaded
<1>9. CASE Restore(c)
  BY <1>9 DEF Restore, disk, server, Started, Stopped, Loads, Reloads, Unloaded
<1>10. CASE Halt(c)
  BY <1>10 DEF Halt, disk, server, Started, Stopped, Loads, Reloads, Unloaded
<1>11. CASE Relaunch(c)
  BY <1>11 DEF Relaunch, disk, server, Started, Stopped, Loads, Reloads, Unloaded
<1>12. CASE UNCHANGED <<presets, active>>
  BY <1>12
<1> QED
  BY <1>1, <1>2, <1>3, <1>4, <1>5, <1>6, <1>7, <1>8, <1>9, <1>10, <1>11,
    <1>12 DEF Step, OperationStep, RefreshStep, PresetStep, RemovalStep,
    disk, server, ReadFails, Admit, Ensure, Status, List, Relist, Capture,
    CaptureList, Reread, EnableCheck, Write, CheckDelete, CheckCleanup,
    CheckModel, Unlink, Unref

\* The operation that goes on has checked what it will load, erase or unlink.
LEMMA MoveActiveOf ==
    ASSUME IInv, NEW c \in Clients, Step(c), \A r \in Answers : ~Finish(c, r)
    PROVE  ActiveOf(c)'
<1> TypeInv
  BY DEF IInv, ReferenceInv, TypeInv
<1> USE StepOfJob, JobFields
    DEF IInv, ReferenceInv, TypeInv, TypeOK, DiskOK, ServerOK, TasksOK, TaskOf, ActiveOf,
        Existing, Saved, Creating, Answers, Goto, GoOn, Refreshed, Plan, Unless,
        Erased, locals, disk, server, NoneActive
<1>1. CASE ReadFails(c)
  BY <1>1 DEF ReadFails, Apply, Undo, Started, Stopped, Loads, Reloads
<1>2. CASE Admit(c)
  <2>1. PICK wanted \in SUBSET Existing :
           todo' = [todo EXCEPT ![c] = wanted] /\ pc' = [pc EXCEPT ![c] = "ensure"]
           /\ UNCHANGED <<job, before, presets, active>>
    BY <1>2 DEF Admit, Admissible
  <2>2. todo'[c] \subseteq Existing /\ pc'[c] = "ensure" /\ Existing' = Existing
    BY <2>1
  <2>3. job[c].kind # "put"
    BY <1>2 DEF Admit
  <2> QED
    BY <2>1, <2>2, <2>3
<1>3. CASE Ensure(c)
  BY <1>3 DEF Ensure, Apply, Undo, Started, Stopped, Loads, Reloads
<1>4. CASE Launch(c)
  BY <1>4 DEF Launch, Apply, Undo, Started, Stopped, Loads, Reloads
<1>5. CASE Unload(c)
  BY <1>5 DEF Unload, Apply, Undo, Started, Stopped, Loads, Reloads, Unloaded
<1>6. CASE Load(c)
  BY <1>6 DEF Load, Apply, Undo, Started, Stopped, Loads, Reloads
<1>7. CASE Shutdown(c)
  BY <1>7 DEF Shutdown, Apply, Undo, Started, Stopped, Loads, Reloads
<1>8. CASE Status(c)
  BY <1>8 DEF Status, Apply, Undo, Started, Stopped, Loads, Reloads
<1>9. CASE List(c)
  BY <1>9 DEF List, Apply, Undo, Started, Stopped, Loads, Reloads
<1>10. CASE Reload(c)
  BY <1>10 DEF Reload, Apply, Undo, Started, Stopped, Loads, Reloads
<1>11. CASE Restore(c)
  BY <1>11 DEF Restore, Apply, Undo, Started, Stopped, Loads, Reloads
<1>12. CASE Halt(c)
  BY <1>12 DEF Halt, Apply, Undo, Started, Stopped, Loads, Reloads
<1>13. CASE Relaunch(c)
  BY <1>13 DEF Relaunch, Apply, Undo, Started, Stopped, Loads, Reloads
<1>14. CASE Relist(c)
  BY <1>14 DEF Relist, Apply, Undo, Started, Stopped, Loads, Reloads
<1>15. CASE Capture(c)
  BY <1>15 DEF Capture, Apply, Undo, Started, Stopped, Loads, Reloads
<1>16. CASE CaptureList(c)
  BY <1>16 DEF CaptureList, Apply, Undo, Started, Stopped, Loads, Reloads
<1>17. CASE Save(c)
  BY <1>17 DEF Save, Apply, Undo, Started, Stopped, Loads, Reloads
<1>18. CASE Reread(c)
  BY <1>18 DEF Reread, Apply, Undo, Started, Stopped, Loads, Reloads
<1>19. CASE Revert(c)
  BY <1>19 DEF Revert, Apply, Undo, Started, Stopped, Loads, Reloads
<1>20. CASE EnableCheck(c)
  BY <1>20 DEF EnableCheck, Apply, Undo, Started, Stopped, Loads, Reloads
<1>21. CASE Write(c)
  BY <1>21 DEF Write, Apply, Undo, Started, Stopped, Loads, Reloads
<1>22. CASE CheckDelete(c)
  BY <1>22 DEF CheckDelete, Apply, Undo, Started, Stopped, Loads, Reloads
<1>23. CASE CheckCleanup(c)
  BY <1>23 DEF CheckCleanup, Apply, Undo, Started, Stopped, Loads, Reloads
<1>24. CASE CheckModel(c)
  BY <1>24 DEF CheckModel, Apply, Undo, Started, Stopped, Loads, Reloads, ModelPaths, ModelDirs
<1>25. CASE Unlink(c)
  BY <1>25 DEF Unlink, Apply, Undo, Started, Stopped, Loads, Reloads
<1>26. CASE Unref(c)
  BY <1>26 DEF Unref, Apply, Undo, Started, Stopped, Loads, Reloads
<1>27. CASE Erase(c)
  BY <1>27 DEF Erase, Apply, Undo, Started, Stopped, Loads, Reloads
<1> QED
  BY <1>1, <1>2, <1>3, <1>4, <1>5, <1>6, <1>7, <1>8, <1>9, <1>10, <1>11,
    <1>12, <1>13, <1>14, <1>15, <1>16, <1>17, <1>18, <1>19, <1>20, <1>21,
    <1>22, <1>23, <1>24, <1>25, <1>26, <1>27 DEF Step, OperationStep,
    RefreshStep, PresetStep, RemovalStep

LEMMA IInvStep ==
    ASSUME IInv, ~ConfigReadFails, ~OutsideLoads, [Next]_vars
    PROVE  IInv'
<1> TypeInv
  BY DEF IInv, ReferenceInv, TypeInv
<1>1. ReferenceInv'
  BY ReferenceInvStep DEF IInv
<1>2. ASSUME NEW c \in Clients, Step(c)
      PROVE  active' \subseteq Existing' /\ \A d \in Clients : ActiveOf(d)'
  <2>1. active' \subseteq Existing'
    BY <1>2, StepActiveExists
  <2>2. ASSUME NEW d \in Clients \ {c} PROVE ActiveOf(d)'
    BY <1>2, OthersIdle DEF IInv, ReferenceInv, ActiveOf, Saved
  <2>3. ActiveOf(c)'
    <3>1. CASE \E r \in Answers : Finish(c, r)
      BY <3>1 DEF Finish, ActiveOf, Saved, TypeInv, TypeOK, TasksOK
    <3>2. CASE \A r \in Answers : ~Finish(c, r)
      BY <1>2, <3>2, MoveActiveOf
    <3> QED
      BY <3>1, <3>2
  <2> QED
    BY <2>1, <2>2, <2>3
<1>3. ASSUME NEW c \in Clients, NEW j \in Jobs, Begin(c, j)
      PROVE  active' \subseteq Existing' /\ \A d \in Clients : ActiveOf(d)'
  <2>1. UNCHANGED <<disk, server>> /\ pc' = [pc EXCEPT ![c] = First(j.kind)]
        /\ job' = [job EXCEPT ![c] = j]
    BY <1>3 DEF Begin
  <2>2. active' \subseteq Existing'
    BY <2>1 DEF IInv, Existing, disk, server
  <2>3. \A d \in Clients \ {c} : pc'[d] = "idle"
    BY <1>3, <2>1 DEF Begin, IInv, ReferenceInv, OneOperation, TypeOK, TasksOK
  <2>4. pc'[c] = First(j.kind) /\ job'[c] = j
    BY <2>1 DEF TypeInv, TypeOK, TasksOK
  <2>5. ASSUME NEW d \in Clients PROVE ActiveOf(d)'
    BY <2>3, <2>4, FirstCall DEF ActiveOf, Saved, Creating
  <2> QED
    BY <2>2, <2>5
<1>4. CASE Environment \/ UNCHANGED vars
  <2>1. presets' = presets /\ active' \subseteq active /\ known' \subseteq known
    BY <1>4 DEF Environment, Restart, RouterDies, PresetDrops, OutsideLoad,
                FileChanges, Stopped, disk, server, vars
  <2>2. active' \subseteq Existing'
    BY <2>1 DEF IInv, Existing
  <2>3. \/ \A c \in Clients : pc'[c] = "idle"
        \/ UNCHANGED <<pc, job, todo, before>>
    BY <1>4 DEF Environment, Restart, RouterDies, PresetDrops, OutsideLoad,
                FileChanges, locals, vars
  <2>4. ASSUME NEW d \in Clients PROVE ActiveOf(d)'
    BY <2>1, <2>3 DEF IInv, ActiveOf, Saved, Creating, Existing
  <2> QED
    BY <1>1, <2>2, <2>4 DEF IInv
<1> QED
  BY <1>1, <1>2, <1>3, <1>4 DEF Next, IInv

LEMMA InitIInv ==
    Init => IInv
<1> SUFFICES ASSUME Init PROVE IInv
  OBVIOUS
<1>1. \A c \in Clients : ActiveOf(c)
  BY DEF Init, ActiveOf, Saved
<1> QED
  BY <1>1, InitReferenceInv DEF Init, IInv

LEMMA IInvHolds ==
    ASSUME ~ConfigReadFails, ~OutsideLoads
    PROVE  Spec => []IInv
<1>1. IInv /\ [Next]_vars => IInv'
  BY IInvStep
<1> QED
  BY <1>1, InitIInv, PTL DEF Spec

\* As long as only the daemon loads Presets, the file it unlinks is read by no
\* loaded Preset at that very step.
THEOREM LoadedFilesStayHolds ==
    ASSUME ~ConfigReadFails, ~OutsideLoads
    PROVE  Spec => LoadedFilesStay
<1> DEFINE Stays ==
      \A c \in Clients :
         pc[c] = "unlink" /\ pc'[c] # "unlink" /\ job[c].source \notin files'
            /\ job[c].source \in files
            => \A n \in active : presets[n] \notin {job[c].source, StorageDir}
<1>1. IInv => Stays
  BY DEF IInv, ActiveOf
<1>2. Spec => [][Stays]_vars
  BY <1>1, IInvHolds, PTL DEF Spec
<1> QED
  BY <1>2 DEF LoadedFilesStay

-----------------------------------------------------------------------------
(* Refinement *)

LEMMA InitCatalog ==
    Init => Catalog!Init
<1> SUFFICES ASSUME Init PROVE Catalog!Init
  OBVIOUS
<1>1. autostart \in ShortLists \cap SUBSET Catalog!Existing
  BY DEF Init, ShortLists, Existing, Catalog!Existing
<1> QED
  BY <1>1 DEF Init, Catalog!Init, Existing, Catalog!Existing

LEMMA StepCatalog ==
    ASSUME IInv, IInv', NEW c \in Clients, Step(c)
    PROVE  [Catalog!Next]_(Catalog!catalog)
<1> TypeInv
  BY DEF IInv, ReferenceInv, TypeInv
<1> USE StepOfJob, JobFields
    DEF Catalog!Next, Catalog!catalog, Existing, Catalog!Existing,
        Referenced, Catalog!Referenced
<1>1. CASE Save(c)
  BY <1>1 DEF Save, Catalog!Save, server, TypeInv, TaskOf
<1>2. CASE Revert(c)
  BY <1>2 DEF Revert, Undo, Catalog!Remove, server, TypeInv, TaskOf, IInv,
              ReferenceInv, ReferenceOf, ActiveOf, Saved, Creating
<1>3. CASE Erase(c)
  BY <1>3 DEF Erase, Erased, Catalog!Remove, server, IInv, ReferenceInv,
              TypeOK, TasksOK, ReferenceOf, ActiveOf
<1>4. CASE Unref(c)
  BY <1>4 DEF Unref, Catalog!Unreference, server
<1>5. CASE Write(c)
  <2>1. CASE UNCHANGED autostart
    BY <1>5, <2>1 DEF Write, server
  <2>2. CASE autostart' = autostart \cup {job[c].name} /\ job[c].flag
    <3>1. Cardinality(autostart') <= ModelsMax \/ UNCHANGED autostart
      BY <1>5 DEF Write
    <3>2. job[c].name \in Existing /\ UNCHANGED <<presets, dflt, active>>
      BY <1>5, <2>2 DEF Write, server, IInv, ReferenceInv, ReferenceOf
    <3>3. CASE Cardinality(autostart') <= ModelsMax
      <4>1. autostart' \in ShortLists
        BY <2>2, <3>2, <3>3 DEF ShortLists, IInv, ReferenceInv, TypeOK, DiskOK
      <4> QED
        BY <2>2, <3>2, <4>1 DEF Catalog!Enable
    <3> QED
      BY <2>1, <3>1, <3>2, <3>3
  <2>3. CASE autostart' = autostart \ {job[c].name}
    BY <1>5, <2>3 DEF Write, Catalog!Unreference, server
  <2> QED
    BY <1>5, <2>1, <2>2, <2>3 DEF Write
<1>6. CASE UNCHANGED <<presets, dflt, autostart>>
  BY <1>6 DEF Catalog!RouterChanges, IInv
<1> QED
  BY <1>1, <1>2, <1>3, <1>4, <1>5, <1>6, DocumentsKept

LEMMA NextCatalog ==
    ASSUME IInv, IInv', [Next]_vars
    PROVE  [Catalog!Next]_(Catalog!catalog)
<1>1. CASE \E c \in Clients : Step(c)
  BY <1>1, StepCatalog
<1>2. CASE UNCHANGED <<presets, dflt, autostart>>
  BY <1>2 DEF Catalog!Next, Catalog!catalog, Catalog!RouterChanges, IInv,
              Existing, Catalog!Existing
<1>3. CASE (\E c \in Clients, j \in Jobs : Begin(c, j)) \/ Environment \/ UNCHANGED vars
  BY <1>2, <1>3 DEF Begin, Environment, RouterDies, PresetDrops, OutsideLoad,
                    FileChanges, Restart, disk, vars
<1> QED
  BY <1>1, <1>3 DEF Next

\* The manager implements the atomic catalog: what an operation checked before
\* it released control to the Router, the disk or the kernel is still true when
\* it acts on it.
THEOREM ImplementsCatalog ==
    ASSUME ~ConfigReadFails, ~OutsideLoads
    PROVE  Spec => AtomicCatalog
<1>1. IInv /\ IInv' /\ [Next]_vars => [Catalog!Next]_(Catalog!catalog)
  BY NextCatalog
<1> QED
  BY <1>1, IInvHolds, InitCatalog, PTL DEF Spec, AtomicCatalog, Catalog!Spec

-----------------------------------------------------------------------------
(* Creations, cascades and stopped Routers *)

Serving == {"admit", "ensure", "launch", "unload", "load"}
Refresher == {"status", "list", "reload", "restore", "halt", "relaunch", "relist"}

\* Which operations make which calls, beyond TaskOf.
KindOf(c) ==
    /\ pc[c] # "idle" =>
          (job[c].kind \in {"start", "stop", "restart"} <=> pc[c] \in Serving)
    /\ pc[c] = "shutdown" => job[c].kind = "stopRouter"
    /\ pc[c] = "idle" => ~ran[c]

\* A refresh that gets as far as a list, and a creation that saw a Router, began
\* while it ran.
WasUpOf(c) ==
    /\ pc[c] \notin Serving \cup {"idle"} /\ router = "up" => wasUp
    /\ pc[c] \in Refresher \ {"status"} => wasUp
    /\ ran[c] => wasUp

\* A creation that recovers the Router is undone already.
UndoneOf(c) ==
    pc[c] # "idle" /\ job[c].kind = "revert" =>
        pc[c] \in Refresher /\ job[c].name \in Names /\ presets[job[c].name] = NoSource

\* The Presets that still name the model are those still to be erased.
CascadeOf(c) ==
    pc[c] # "idle" /\ job[c].kind = "deleteModel" =>
        /\ pc[c] \in {"unlink", "unref", "erase"} => ModelPaths(job[c].source) \subseteq todo[c]
        /\ pc[c] \in Refresher => ModelPaths(job[c].source) = {}

OutcomeOf(c) == KindOf(c) /\ WasUpOf(c) /\ UndoneOf(c) /\ CascadeOf(c)

OutcomeInv == TypeInv /\ OneOperation /\ \A c \in Clients : OutcomeOf(c)

LEMMA MoveKindOf ==
    ASSUME OutcomeInv, NEW c \in Clients, Step(c), \A r \in Answers : ~Finish(c, r)
    PROVE  KindOf(c)'
<1>1. TypeInv /\ KindOf(c) /\ pc[c] # "idle" /\ pc'[c] # "idle"
  BY StepOfJob, MoveKeeps DEF OutcomeInv, OutcomeOf
<1>2. pc'[c] \in Serving <=> pc[c] \in Serving
  <2> USE <1>1 DEF TypeInv, TypeOK, TasksOK, Answers, Goto, GoOn, Refreshed, Plan, Unless,
          Erased, locals, Serving
  <2>1. CASE ReadFails(c)
    BY <2>1 DEF ReadFails, Apply, Undo
  <2>2. CASE Admit(c)
    BY <2>2 DEF Admit, Apply, Undo
  <2>3. CASE Ensure(c)
    BY <2>3 DEF Ensure, Apply, Undo
  <2>4. CASE Launch(c)
    BY <2>4 DEF Launch, Apply, Undo
  <2>5. CASE Unload(c)
    BY <2>5 DEF Unload, Apply, Undo
  <2>6. CASE Load(c)
    BY <2>6 DEF Load, Apply, Undo
  <2>7. CASE Shutdown(c)
    BY <2>7 DEF Shutdown, Apply, Undo
  <2>8. CASE Status(c)
    BY <2>8 DEF Status, Apply, Undo
  <2>9. CASE List(c)
    BY <2>9 DEF List, Apply, Undo
  <2>10. CASE Reload(c)
    BY <2>10 DEF Reload, Apply, Undo
  <2>11. CASE Restore(c)
    BY <2>11 DEF Restore, Apply, Undo
  <2>12. CASE Halt(c)
    BY <2>12 DEF Halt, Apply, Undo
  <2>13. CASE Relaunch(c)
    BY <2>13 DEF Relaunch, Apply, Undo
  <2>14. CASE Relist(c)
    BY <2>14 DEF Relist, Apply, Undo
  <2>15. CASE Capture(c)
    BY <2>15 DEF Capture, Apply, Undo
  <2>16. CASE CaptureList(c)
    BY <2>16 DEF CaptureList, Apply, Undo
  <2>17. CASE Save(c)
    BY <2>17 DEF Save, Apply, Undo
  <2>18. CASE Reread(c)
    BY <2>18 DEF Reread, Apply, Undo
  <2>19. CASE Revert(c)
    BY <2>19 DEF Revert, Apply, Undo
  <2>20. CASE EnableCheck(c)
    BY <2>20 DEF EnableCheck, Apply, Undo
  <2>21. CASE Write(c)
    BY <2>21 DEF Write, Apply, Undo
  <2>22. CASE CheckDelete(c)
    BY <2>22 DEF CheckDelete, Apply, Undo
  <2>23. CASE CheckCleanup(c)
    BY <2>23 DEF CheckCleanup, Apply, Undo
  <2>24. CASE CheckModel(c)
    BY <2>24 DEF CheckModel, Apply, Undo
  <2>25. CASE Unlink(c)
    BY <2>25 DEF Unlink, Apply, Undo
  <2>26. CASE Unref(c)
    BY <2>26 DEF Unref, Apply, Undo
  <2>27. CASE Erase(c)
    BY <2>27 DEF Erase, Apply, Undo
  <2> QED
    BY <2>1, <2>2, <2>3, <2>4, <2>5, <2>6, <2>7, <2>8, <2>9, <2>10, <2>11,
      <2>12, <2>13, <2>14, <2>15, <2>16, <2>17, <2>18, <2>19, <2>20, <2>21,
      <2>22, <2>23, <2>24, <2>25, <2>26, <2>27 DEF Step, OperationStep,
      RefreshStep, PresetStep, RemovalStep
<1>3. pc'[c] # "shutdown"
  <2> USE <1>1 DEF TypeInv, TypeOK, TasksOK, Answers, Goto, GoOn, Refreshed, Plan, Unless,
          Erased, locals, Serving
  <2>1. CASE ReadFails(c)
    BY <2>1 DEF ReadFails, Apply, Undo
  <2>2. CASE Admit(c)
    BY <2>2 DEF Admit, Apply, Undo
  <2>3. CASE Ensure(c)
    BY <2>3 DEF Ensure, Apply, Undo
  <2>4. CASE Launch(c)
    BY <2>4 DEF Launch, Apply, Undo
  <2>5. CASE Unload(c)
    BY <2>5 DEF Unload, Apply, Undo
  <2>6. CASE Load(c)
    BY <2>6 DEF Load, Apply, Undo
  <2>7. CASE Shutdown(c)
    BY <2>7 DEF Shutdown, Apply, Undo
  <2>8. CASE Status(c)
    BY <2>8 DEF Status, Apply, Undo
  <2>9. CASE List(c)
    BY <2>9 DEF List, Apply, Undo
  <2>10. CASE Reload(c)
    BY <2>10 DEF Reload, Apply, Undo
  <2>11. CASE Restore(c)
    BY <2>11 DEF Restore, Apply, Undo
  <2>12. CASE Halt(c)
    BY <2>12 DEF Halt, Apply, Undo
  <2>13. CASE Relaunch(c)
    BY <2>13 DEF Relaunch, Apply, Undo
  <2>14. CASE Relist(c)
    BY <2>14 DEF Relist, Apply, Undo
  <2>15. CASE Capture(c)
    BY <2>15 DEF Capture, Apply, Undo
  <2>16. CASE CaptureList(c)
    BY <2>16 DEF CaptureList, Apply, Undo
  <2>17. CASE Save(c)
    BY <2>17 DEF Save, Apply, Undo
  <2>18. CASE Reread(c)
    BY <2>18 DEF Reread, Apply, Undo
  <2>19. CASE Revert(c)
    BY <2>19 DEF Revert, Apply, Undo
  <2>20. CASE EnableCheck(c)
    BY <2>20 DEF EnableCheck, Apply, Undo
  <2>21. CASE Write(c)
    BY <2>21 DEF Write, Apply, Undo
  <2>22. CASE CheckDelete(c)
    BY <2>22 DEF CheckDelete, Apply, Undo
  <2>23. CASE CheckCleanup(c)
    BY <2>23 DEF CheckCleanup, Apply, Undo
  <2>24. CASE CheckModel(c)
    BY <2>24 DEF CheckModel, Apply, Undo
  <2>25. CASE Unlink(c)
    BY <2>25 DEF Unlink, Apply, Undo
  <2>26. CASE Unref(c)
    BY <2>26 DEF Unref, Apply, Undo
  <2>27. CASE Erase(c)
    BY <2>27 DEF Erase, Apply, Undo
  <2> QED
    BY <2>1, <2>2, <2>3, <2>4, <2>5, <2>6, <2>7, <2>8, <2>9, <2>10, <2>11,
      <2>12, <2>13, <2>14, <2>15, <2>16, <2>17, <2>18, <2>19, <2>20, <2>21,
      <2>22, <2>23, <2>24, <2>25, <2>26, <2>27 DEF Step, OperationStep,
      RefreshStep, PresetStep, RemovalStep
<1>4. CASE Revert(c)
  <2>1. pc'[c] = "halt" /\ job'[c].kind = "revert"
    BY <1>1, <1>4 DEF Revert, Undo, Goto, Answers, TypeInv, TypeOK, TasksOK
  <2> QED
    BY <1>1, <2>1 DEF KindOf, Serving
<1>5. CASE job' = job
  BY <1>1, <1>2, <1>3, <1>5 DEF KindOf
<1> QED
  BY <1>1, <1>4, <1>5, MoveKeeps

LEMMA MoveWasUpOf ==
    ASSUME OutcomeInv, NEW c \in Clients, Step(c), \A r \in Answers : ~Finish(c, r)
    PROVE  WasUpOf(c)'
<1> TypeInv /\ KindOf(c) /\ WasUpOf(c) /\ pc[c] # "idle"
  BY StepOfJob DEF OutcomeInv, OutcomeOf
<1> USE DEF TypeInv, TypeOK, TasksOK, ServerOK, Answers, Goto, GoOn, Refreshed, Plan, Unless,
        Erased, locals, Serving, Refresher, KindOf, WasUpOf
<1>1. CASE ReadFails(c)
  BY <1>1 DEF ReadFails, Apply, Undo, Unloaded, Started, Stopped, Loads, Reloads, server
<1>2. CASE Admit(c)
  BY <1>2 DEF Admit, Apply, Undo, Unloaded, Started, Stopped, Loads, Reloads, server
<1>3. CASE Ensure(c)
  BY <1>3 DEF Ensure, Apply, Undo, Unloaded, Started, Stopped, Loads, Reloads, server
<1>4. CASE Launch(c)
  BY <1>4 DEF Launch, Apply, Undo, Unloaded, Started, Stopped, Loads, Reloads, server
<1>5. CASE Unload(c)
  BY <1>5 DEF Unload, Apply, Undo, Unloaded, Started, Stopped, Loads, Reloads, server
<1>6. CASE Load(c)
  BY <1>6 DEF Load, Apply, Undo, Unloaded, Started, Stopped, Loads, Reloads, server
<1>7. CASE Shutdown(c)
  BY <1>7 DEF Shutdown, Apply, Undo, Unloaded, Started, Stopped, Loads, Reloads, server
<1>8. CASE Status(c)
  BY <1>8 DEF Status, Apply, Undo, Unloaded, Started, Stopped, Loads, Reloads, server
<1>9. CASE List(c)
  BY <1>9 DEF List, Apply, Undo, Unloaded, Started, Stopped, Loads, Reloads, server
<1>10. CASE Reload(c)
  BY <1>10 DEF Reload, Apply, Undo, Unloaded, Started, Stopped, Loads, Reloads, server
<1>11. CASE Restore(c)
  BY <1>11 DEF Restore, Apply, Undo, Unloaded, Started, Stopped, Loads, Reloads, server
<1>12. CASE Halt(c)
  BY <1>12 DEF Halt, Apply, Undo, Unloaded, Started, Stopped, Loads, Reloads, server
<1>13. CASE Relaunch(c)
  BY <1>13 DEF Relaunch, Apply, Undo, Unloaded, Started, Stopped, Loads, Reloads, server
<1>14. CASE Relist(c)
  BY <1>14 DEF Relist, Apply, Undo, Unloaded, Started, Stopped, Loads, Reloads, server
<1>15. CASE Capture(c)
  BY <1>15 DEF Capture, Apply, Undo, Unloaded, Started, Stopped, Loads, Reloads, server
<1>16. CASE CaptureList(c)
  BY <1>16 DEF CaptureList, Apply, Undo, Unloaded, Started, Stopped, Loads, Reloads, server
<1>17. CASE Save(c)
  BY <1>17 DEF Save, Apply, Undo, Unloaded, Started, Stopped, Loads, Reloads, server
<1>18. CASE Reread(c)
  BY <1>18 DEF Reread, Apply, Undo, Unloaded, Started, Stopped, Loads, Reloads, server
<1>19. CASE Revert(c)
  BY <1>19 DEF Revert, Apply, Undo, Unloaded, Started, Stopped, Loads, Reloads, server
<1>20. CASE EnableCheck(c)
  BY <1>20 DEF EnableCheck, Apply, Undo, Unloaded, Started, Stopped, Loads, Reloads, server
<1>21. CASE Write(c)
  BY <1>21 DEF Write, Apply, Undo, Unloaded, Started, Stopped, Loads, Reloads, server
<1>22. CASE CheckDelete(c)
  BY <1>22 DEF CheckDelete, Apply, Undo, Unloaded, Started, Stopped, Loads, Reloads, server
<1>23. CASE CheckCleanup(c)
  BY <1>23 DEF CheckCleanup, Apply, Undo, Unloaded, Started, Stopped, Loads, Reloads, server
<1>24. CASE CheckModel(c)
  BY <1>24 DEF CheckModel, Apply, Undo, Unloaded, Started, Stopped, Loads, Reloads, server
<1>25. CASE Unlink(c)
  BY <1>25 DEF Unlink, Apply, Undo, Unloaded, Started, Stopped, Loads, Reloads, server
<1>26. CASE Unref(c)
  BY <1>26 DEF Unref, Apply, Undo, Unloaded, Started, Stopped, Loads, Reloads, server
<1>27. CASE Erase(c)
  BY <1>27 DEF Erase, Apply, Undo, Unloaded, Started, Stopped, Loads, Reloads, server
<1> QED
  BY <1>1, <1>2, <1>3, <1>4, <1>5, <1>6, <1>7, <1>8, <1>9, <1>10, <1>11,
    <1>12, <1>13, <1>14, <1>15, <1>16, <1>17, <1>18, <1>19, <1>20, <1>21,
    <1>22, <1>23, <1>24, <1>25, <1>26, <1>27 DEF Step, OperationStep,
    RefreshStep, PresetStep, RemovalStep

LEMMA MoveUndoneOf ==
    ASSUME OutcomeInv, NEW c \in Clients, Step(c), \A r \in Answers : ~Finish(c, r)
    PROVE  UndoneOf(c)'
<1>1. TypeInv /\ TaskOf(c) /\ UndoneOf(c) /\ pc[c] # "idle" /\ job[c] \in JobTypes /\ DiskOK
  BY StepOfJob DEF OutcomeInv, OutcomeOf, TypeInv, TypeOK
<1>2. CASE Revert(c)
  <2> DEFINE undo == [kind |-> "revert", name |-> job[c].name,
                      source |-> job[c].source, flag |-> TRUE]
  <2>1. /\ pc'[c] = "halt" /\ job'[c] = undo
        /\ presets' = [presets EXCEPT ![job[c].name] = NoSource]
    BY <1>1, <1>2 DEF Revert, Undo, Goto, Answers, TypeInv, TypeOK, TasksOK
  <2>2. job[c].name \in Names
    BY <1>1, <1>2, JobFields DEF Revert, TaskOf, Creating
  <2> QED
    BY <1>1, <2>1, <2>2 DEF UndoneOf, Refresher, DiskOK
<1>3. CASE ~Revert(c) /\ job[c].kind = "revert"
  <2>1. job' = job /\ presets' = presets
    <3>1. ~Save(c) /\ ~Erase(c)
      BY <1>1, <1>3 DEF Save, Erase, TaskOf
    <3> QED
      BY <1>1, <1>3, <3>1, MoveKeeps, DocumentsKept DEF Unref, Write
  <2>2. pc[c] \in Refresher
    BY <1>1, <1>3 DEF UndoneOf
  <2>3. pc'[c] \in Refresher
    <3>1. RefreshStep(c)
      BY <1>3, <2>2 DEF Refresher, Step, OperationStep, PresetStep, RemovalStep, ReadFails, Admit,
         Ensure, Launch, Unload, Load, Shutdown, Capture, CaptureList, Save, Reread,
         EnableCheck, Write, CheckDelete, CheckCleanup, CheckModel, Unlink, Unref, Erase
    <3>2. ASSUME NEW ok \in BOOLEAN, Refreshed(c, ok) PROVE FALSE
      BY <1>3, <3>2 DEF Refreshed, Creating, Answers
    <3>3. sound[c] \in BOOLEAN
      BY <1>1 DEF TypeInv, TypeOK, TasksOK
    <3> QED
      BY <1>1, <3>1, <3>2, <3>3 DEF RefreshStep, Status, List, Reload, Restore, Halt, Relaunch,
         Relist, Goto, Plan, Refresher, TypeInv, TypeOK, TasksOK
  <2> QED
    BY <1>1, <1>3, <2>1, <2>3 DEF UndoneOf
<1>4. CASE ~Revert(c) /\ job[c].kind # "revert"
  BY <1>1, <1>4, MoveKeeps DEF UndoneOf
<1> QED
  BY <1>2, <1>3, <1>4

LEMMA MoveCascadeOf ==
    ASSUME OutcomeInv, NEW c \in Clients, Step(c), \A r \in Answers : ~Finish(c, r)
    PROVE  CascadeOf(c)'
<1>1. TypeInv /\ TaskOf(c) /\ KindOf(c) /\ CascadeOf(c) /\ pc[c] # "idle" /\ DiskOK
  BY StepOfJob DEF OutcomeInv, OutcomeOf, TypeInv, TypeOK
<1>2. SUFFICES ASSUME job'[c].kind = "deleteModel" PROVE CascadeOf(c)'
  BY DEF CascadeOf
<1>3. ~Revert(c)
  <2> SUFFICES ASSUME Revert(c) PROVE FALSE
    OBVIOUS
  <2>1. job'[c].kind = "revert"
    BY <1>1 DEF Revert, Undo, Goto, Answers, TypeInv, TypeOK, TasksOK
  <2> QED
    BY <1>2, <2>1
<1>4. job' = job /\ job[c].kind = "deleteModel"
  BY <1>1, <1>2, <1>3, MoveKeeps
<1>5. CASE CheckModel(c)
  <2>1. \/ ModelPaths(job[c].source) = {} /\ pc'[c] = "unlink"
        \/ pc'[c] = "unlink" /\ todo'[c] = ModelPaths(job[c].source)
    BY <1>1, <1>5 DEF CheckModel, Unless, GoOn, Goto, Answers, TypeInv, TypeOK, TasksOK
  <2>2. presets' = presets
    BY <1>5 DEF CheckModel, disk
  <2> QED
    BY <1>4, <2>1, <2>2 DEF CascadeOf, ModelPaths, Refresher
<1>6. CASE Unlink(c) \/ Unref(c)
  <2>1. pc[c] \in {"unlink", "unref"} /\ pc'[c] \in {"unref", "erase"} /\ todo' = todo /\ presets' = presets
    BY <1>1, <1>6 DEF Unlink, Unref, Goto, Answers, locals, TypeInv, TypeOK, TasksOK
  <2> QED
    BY <1>1, <1>4, <2>1 DEF CascadeOf, ModelPaths, Refresher
<1>7. CASE Erase(c)
  <2>1. PICK n \in todo[c] : Erased(c, n, todo[c] \ {n})
    BY <1>1, <1>7 DEF Erase, Answers
  <2>2. presets' = [presets EXCEPT ![n] = NoSource] /\ todo'[c] = todo[c] \ {n}
    BY <1>1, <2>1 DEF Erased, TypeInv, TypeOK, TasksOK
  <2>3. pc'[c] = IF todo[c] \ {n} = {} THEN "status" ELSE "erase"
    BY <1>1, <2>1 DEF Erased, Goto, TypeInv, TypeOK, TasksOK
  <2>4. ModelPaths(job[c].source) \subseteq todo[c]
    BY <1>1, <1>4, <1>7 DEF CascadeOf, Erase
  <2>5. job[c].source \in Sources
    BY <1>1, <1>4, JobFields, StepOfJob
  <2>6. ModelPaths(job[c].source)' \subseteq todo'[c]
    BY <1>1, <1>4, <2>2, <2>4, <2>5, ManagerAssumption DEF ModelPaths, DiskOK, ManagerAssumption
  <2> QED
    BY <1>4, <2>2, <2>3, <2>6 DEF CascadeOf, Refresher
<1>8. CASE RefreshStep(c)
  <2>1. pc[c] \in Refresher /\ presets' = presets
    BY <1>8 DEF RefreshStep, Refresher, Status, List, Reload, Restore, Halt, Relaunch, Relist, disk
  <2>2. pc'[c] \notin {"unlink", "unref", "erase"}
    <3>1. ASSUME NEW ok \in BOOLEAN, Refreshed(c, ok) PROVE pc'[c] = "revert"
      BY <1>1, <3>1 DEF Refreshed, Goto, Answers, TypeInv, TypeOK, TasksOK
    <3>2. sound[c] \in BOOLEAN
      BY <1>1 DEF TypeInv, TypeOK, TasksOK
    <3> QED
      BY <1>1, <1>8, <3>1, <3>2 DEF RefreshStep, Status, List, Reload, Restore, Halt, Relaunch,
         Relist, Goto, Plan, TypeInv, TypeOK, TasksOK
  <2> QED
    BY <1>1, <1>4, <2>1, <2>2 DEF CascadeOf, ModelPaths
<1>9. CASE ~(CheckModel(c) \/ Unlink(c) \/ Unref(c) \/ Erase(c) \/ RefreshStep(c))
  <2>1. pc[c] \notin Serving \cup {"shutdown"}
    BY <1>1, <1>4 DEF KindOf
  <2>2. ~PresetStep(c)
    BY <1>1, <1>3, <1>4 DEF PresetStep, Capture, CaptureList, Save, Reread, EnableCheck, Write, TaskOf
  <2>3. ~OperationStep(c)
    BY <2>1 DEF OperationStep, Admit, Ensure, Launch, Unload, Load, Shutdown, Serving
  <2>4. ~CheckDelete(c) /\ ~CheckCleanup(c)
    BY <1>4 DEF CheckDelete, CheckCleanup
  <2>5. ~ReadFails(c)
    BY DEF ReadFails, Answers
  <2> QED
    BY <1>9, <2>2, <2>3, <2>4, <2>5 DEF Step, RemovalStep
<1> QED
  BY <1>5, <1>6, <1>7, <1>8, <1>9

LEMMA StepOutcome ==
    ASSUME OutcomeInv, NEW c \in Clients, Step(c)
    PROVE  OutcomeInv'
<1>1. TypeInv /\ OneOperation
  BY DEF OutcomeInv
<1>2. TypeInv' /\ OneOperation'
  BY <1>1, StepTypeInv, OneOperationStep DEF Next
<1>3. ASSUME NEW d \in Clients \ {c} PROVE OutcomeOf(d)'
  <2>1. pc[d] = "idle" /\ pc'[d] = "idle" /\ ran'[d] = ran[d]
    BY <1>1, OthersIdle, OthersKeep
  <2>2. ~ran'[d]
    BY <2>1 DEF OutcomeInv, OutcomeOf, KindOf
  <2> QED
    BY <2>1, <2>2 DEF OutcomeOf, KindOf, WasUpOf, UndoneOf, CascadeOf, Refresher
<1>4. OutcomeOf(c)'
  <2>1. CASE \E r \in Answers : Finish(c, r)
    <3>1. pc'[c] = "idle" /\ ~ran'[c]
      BY <1>1, <2>1 DEF Finish, TypeInv, TypeOK, TasksOK
    <3> QED
      BY <3>1 DEF OutcomeOf, KindOf, WasUpOf, UndoneOf, CascadeOf, Refresher
  <2>2. CASE \A r \in Answers : ~Finish(c, r)
    BY <2>2, MoveKindOf, MoveWasUpOf, MoveUndoneOf, MoveCascadeOf DEF OutcomeOf
  <2> QED
    BY <2>1, <2>2
<1> QED
  BY <1>2, <1>3, <1>4 DEF OutcomeInv

LEMMA BeginOutcome ==
    ASSUME OutcomeInv, NEW c \in Clients, NEW j \in Jobs, Begin(c, j)
    PROVE  OutcomeInv'
<1>1. TypeInv /\ OneOperation
  BY DEF OutcomeInv
<1>2. TypeInv' /\ OneOperation'
  BY <1>1, BeginTypeInv, OneOperationStep DEF Next
<1>3. \A d \in Clients : pc[d] = "idle" /\ ~ran'[d]
  BY <1>1 DEF Begin, OneOperation, OutcomeInv, OutcomeOf, KindOf
<1>4. ASSUME NEW d \in Clients \ {c} PROVE OutcomeOf(d)'
  <2>1. pc'[d] = "idle"
    BY <1>1, <1>3 DEF Begin, TypeInv, TypeOK, TasksOK
  <2> QED
    BY <1>3, <2>1 DEF OutcomeOf, KindOf, WasUpOf, UndoneOf, CascadeOf, Refresher
<1>5. OutcomeOf(c)'
  <2>1. pc'[c] = First(j.kind) /\ job'[c] = j /\ wasUp' = (router' = "up")
    BY <1>1 DEF Begin, TypeInv, TypeOK, TasksOK, server
  <2>2. j.kind \in Kinds
    BY DEF Jobs, Requests
  <2>3. KindOf(c)'
    BY <1>3, <2>1, <2>2 DEF KindOf, Kinds, First, Serving
  <2>4. WasUpOf(c)'
    BY <1>3, <2>1, <2>2 DEF WasUpOf, Kinds, First, Refresher
  <2>5. UndoneOf(c)' /\ CascadeOf(c)'
    BY <2>1, <2>2 DEF UndoneOf, CascadeOf, Kinds, First, Refresher
  <2> QED
    BY <2>3, <2>4, <2>5 DEF OutcomeOf
<1> QED
  BY <1>2, <1>4, <1>5 DEF OutcomeInv

LEMMA EnvironmentOutcome ==
    ASSUME OutcomeInv, Environment \/ UNCHANGED vars
    PROVE  OutcomeInv'
<1>1. TypeInv' /\ OneOperation'
  BY NextTypeInv, OneOperationStep DEF OutcomeInv, Next
<1>2. presets' = presets
  BY DEF Environment, Restart, RouterDies, PresetDrops, OutsideLoad, FileChanges, disk, vars
<1>3. CASE \A c \in Clients : pc'[c] = "idle" /\ ~ran'[c]
  BY <1>1, <1>3 DEF OutcomeInv, OutcomeOf, KindOf, WasUpOf, UndoneOf, CascadeOf, Refresher
<1>4. CASE UNCHANGED <<pc, job, ran, todo, wasUp>> /\ (router' = "up" => router = "up")
  <2>1. ASSUME NEW c \in Clients PROVE OutcomeOf(c)'
    <3>1. KindOf(c) /\ WasUpOf(c) /\ UndoneOf(c) /\ CascadeOf(c)
      BY DEF OutcomeInv, OutcomeOf
    <3>2. KindOf(c)' /\ WasUpOf(c)'
      BY <1>4, <3>1 DEF KindOf, WasUpOf
    <3>3. UndoneOf(c)' /\ CascadeOf(c)'
      BY <1>2, <1>4, <3>1 DEF UndoneOf, CascadeOf, ModelPaths
    <3> QED
      BY <3>2, <3>3 DEF OutcomeOf
  <2> QED
    BY <1>1, <2>1 DEF OutcomeInv
<1>5. \/ \A c \in Clients : pc'[c] = "idle" /\ ~ran'[c]
      \/ UNCHANGED <<pc, job, ran, todo, wasUp>> /\ (router' = "up" => router = "up")
  BY DEF Environment, Restart, RouterDies, PresetDrops, OutsideLoad, FileChanges, Stopped,
    Loads, server, locals, history, vars
<1> QED
  BY <1>3, <1>4, <1>5

\* What the end of an operation answers for: a creation that failed is undone
\* before the Router is seen to, a model that is deleted loses every Preset that
\* names it before the Router is, and a Router that is relaunched ran before.
\* No constant is bound: neither unreadable documents, nor a Router that does not
\* answer, nor the loads of others matter to it.
THEOREM OutcomeInductive ==
    Spec => []OutcomeInv
<1>1. Init => OutcomeInv
  <2> SUFFICES ASSUME Init PROVE OutcomeInv
    OBVIOUS
  <2>1. TypeInv /\ OneOperation
    BY InitTypeInv DEF Init, OneOperation
  <2>2. ASSUME NEW c \in Clients PROVE OutcomeOf(c)
    <3>1. pc[c] = "idle" /\ ~ran[c]
      BY DEF Init
    <3> QED
      BY <3>1 DEF OutcomeOf, KindOf, WasUpOf, UndoneOf, CascadeOf, Refresher
  <2> QED
    BY <2>1, <2>2 DEF OutcomeInv
<1>2. OutcomeInv /\ [Next]_vars => OutcomeInv'
  BY StepOutcome, BeginOutcome, EnvironmentOutcome DEF Next
<1> QED
  BY <1>1, <1>2, PTL DEF Spec

\* The client whose operation ends took the step that answers it.
LEMMA EndIsStep ==
    ASSUME TypeInv, [Next]_vars, NEW c \in Clients, Ends(c), answer' # "none"
    PROVE  Step(c)
<1>1. ASSUME NEW d \in Clients, NEW j \in Jobs, Begin(d, j) PROVE FALSE
  BY <1>1 DEF Begin
<1>2. CASE Environment \/ UNCHANGED vars
  BY <1>2 DEF Environment, Restart, RouterDies, PresetDrops, OutsideLoad, FileChanges, vars, Ends
<1>3. ASSUME NEW d \in Clients, Step(d) PROVE d = c
  BY <1>3, OthersKeep DEF Ends
<1> QED
  BY <1>1, <1>2, <1>3 DEF Next

\* The steps that answer "ok".
LEMMA CascadeEnds ==
    ASSUME OutcomeInv, NEW c \in Clients, Step(c), Ends(c), answer' = "ok",
           job[c].kind = "deleteModel"
    PROVE  \A n \in Names : presets'[n] # job[c].source
<1>1. /\ TypeInv /\ TaskOf(c) /\ KindOf(c) /\ CascadeOf(c) /\ pc[c] # "idle"
      /\ pc'[c] = "idle"
  BY StepOfJob DEF OutcomeInv, OutcomeOf, TypeInv, Ends
<1>2. pc[c] \notin Serving \cup {"shutdown"}
  BY <1>1 DEF KindOf
<1>3. ~OperationStep(c)
  BY <1>2 DEF OperationStep, Admit, Ensure, Launch, Unload, Load, Shutdown, Serving
<1>4. ~PresetStep(c)
  BY <1>1 DEF PresetStep, Capture, CaptureList, Save, Reread, Revert, EnableCheck, Write, TaskOf, Creating
<1>5. ~ReadFails(c) /\ ~CheckDelete(c) /\ ~CheckCleanup(c)
  BY DEF ReadFails, Finish, CheckDelete, CheckCleanup
<1>6. CASE CheckModel(c)
  <2>1. ASSUME NEW p \in {"unlink"}, NEW ns, GoOn(c, p, ns) PROVE FALSE
    BY <1>1, <2>1 DEF GoOn, Goto, TypeInv, TypeOK, TasksOK
  <2> QED
    BY <1>6, <2>1 DEF CheckModel, Unless, Finish
<1>7. CASE Unlink(c) \/ Unref(c)
  <2>1. pc[c] \in {"unlink", "unref"} /\ todo[c] = {} /\ presets' = presets
    BY <1>1, <1>7 DEF Unlink, Unref, Goto, Finish, TypeInv, TypeOK, TasksOK
  <2> QED
    BY <1>1, <2>1 DEF CascadeOf, ModelPaths
<1>8. CASE Erase(c)
  BY <1>1, <1>8 DEF Erase, Erased, Goto, Finish, TypeInv, TypeOK, TasksOK
<1>9. CASE RefreshStep(c)
  <2>1. pc[c] \in Refresher /\ presets' = presets
    BY <1>9 DEF RefreshStep, Refresher, Status, List, Reload, Restore, Halt, Relaunch, Relist, disk
  <2> QED
    BY <1>1, <2>1 DEF CascadeOf, ModelPaths
<1> QED
  BY <1>3, <1>4, <1>5, <1>6, <1>7, <1>8, <1>9 DEF Step, RemovalStep

\* After a successful deletion of a model no Preset names it, whatever its checks
\* met and whatever the Router did meanwhile.
THEOREM CascadeCompleteHolds ==
    Spec => CascadeComplete
<1>1. OutcomeInv /\ [Next]_vars =>
        [\A c \in Clients :
            Ends(c) /\ answer' = "ok" /\ job[c].kind = "deleteModel"
               => \A n \in Names : presets'[n] # job[c].source]_vars
  <2> SUFFICES ASSUME OutcomeInv, [Next]_vars, NEW c \in Clients, Ends(c), answer' = "ok",
                      job[c].kind = "deleteModel"
               PROVE  \A n \in Names : presets'[n] # job[c].source
    OBVIOUS
  <2>1. Step(c)
    BY EndIsStep DEF OutcomeInv
  <2> QED
    BY <2>1, CascadeEnds
<1> QED
  BY <1>1, OutcomeInductive, PTL DEF Spec, CascadeComplete

\* Only a rollback and a refresh may answer otherwise than these.
LEMMA OtherAnswers ==
    ASSUME TypeInv, NEW c \in Clients, Step(c), ~Revert(c), ~RefreshStep(c)
    PROVE  pc'[c] = "idle" => answer' \in {"ok", "failed", "rejected"}
<1> USE DEF Goto, GoOn, Unless, Erased, Finish, TypeInv, TypeOK, TasksOK
<1>1. CASE ReadFails(c)
  BY <1>1 DEF ReadFails, Apply
<1>2. CASE Admit(c)
  BY <1>2 DEF Admit, Apply
<1>3. CASE Ensure(c)
  BY <1>3 DEF Ensure, Apply
<1>4. CASE Launch(c)
  BY <1>4 DEF Launch, Apply
<1>5. CASE Unload(c)
  BY <1>5 DEF Unload, Apply
<1>6. CASE Load(c)
  BY <1>6 DEF Load, Apply
<1>7. CASE Shutdown(c)
  BY <1>7 DEF Shutdown, Apply
<1>8. CASE Capture(c)
  BY <1>8 DEF Capture, Apply
<1>9. CASE CaptureList(c)
  BY <1>9 DEF CaptureList, Apply
<1>10. CASE Save(c)
  BY <1>10 DEF Save, Apply
<1>11. CASE Reread(c)
  BY <1>11 DEF Reread, Apply
<1>12. CASE EnableCheck(c)
  BY <1>12 DEF EnableCheck, Apply
<1>13. CASE Write(c)
  BY <1>13 DEF Write, Apply
<1>14. CASE CheckDelete(c)
  BY <1>14 DEF CheckDelete, Apply
<1>15. CASE CheckCleanup(c)
  BY <1>15 DEF CheckCleanup, Apply
<1>16. CASE CheckModel(c)
  BY <1>16 DEF CheckModel, Apply
<1>17. CASE Unlink(c)
  BY <1>17 DEF Unlink, Apply
<1>18. CASE Unref(c)
  BY <1>18 DEF Unref, Apply
<1>19. CASE Erase(c)
  BY <1>19 DEF Erase, Apply
<1> QED
  BY <1>1, <1>2, <1>3, <1>4, <1>5, <1>6, <1>7, <1>8, <1>9, <1>10, <1>11, <1>12, <1>13, <1>14, <1>15, <1>16, <1>17, <1>18, <1>19 DEF Step, OperationStep, PresetStep, RemovalStep

\* The steps that answer that a creation was undone.
LEMMA RevertEnds ==
    ASSUME OutcomeInv, NEW c \in Clients, Step(c), Ends(c),
           answer' \in {"reverted", "recoveryFailed"}
    PROVE  presets'[job[c].name] = NoSource
<1>1. /\ TypeInv /\ TaskOf(c) /\ UndoneOf(c) /\ pc[c] # "idle" /\ pc'[c] = "idle"
      /\ job[c] \in JobTypes /\ DiskOK
  BY StepOfJob DEF OutcomeInv, OutcomeOf, TypeInv, TypeOK, Ends
<1>2. CASE Revert(c)
  <2>1. presets' = [presets EXCEPT ![job[c].name] = NoSource]
    BY <1>2 DEF Revert, Undo, Finish
  <2>2. job[c].name \in Names
    BY <1>1, <1>2, JobFields DEF Revert, TaskOf, Creating
  <2> QED
    BY <1>1, <2>1, <2>2 DEF DiskOK
<1>3. CASE RefreshStep(c)
  <2>1. presets' = presets
    BY <1>3 DEF RefreshStep, Status, List, Reload, Restore, Halt, Relaunch, Relist, disk
  <2>2. job[c].kind = "revert"
    <3>1. ASSUME NEW ok, Refreshed(c, ok) PROVE job[c].kind = "revert"
      BY <1>1, <3>1 DEF Refreshed, Goto, Finish, TypeInv, TypeOK, TasksOK
    <3> QED
      BY <1>1, <1>3, <3>1 DEF RefreshStep, Status, List, Reload, Restore, Halt, Relaunch, Relist,
        Goto, Plan, TypeInv, TypeOK, TasksOK
  <2> QED
    BY <1>1, <2>1, <2>2 DEF UndoneOf
<1>4. CASE ~Revert(c) /\ ~RefreshStep(c)
  <2>1. answer' \in {"ok", "failed", "rejected"}
    BY <1>1, <1>4, OtherAnswers
  <2> QED
    BY <1>1, <2>1
<1> QED
  BY <1>2, <1>3, <1>4

\* A creation that is answered as reverted has left no Preset behind, even when
\* the recovery of the Router fails.
THEOREM CreateAtomicHolds ==
    Spec => CreateAtomic
<1>1. OutcomeInv /\ [Next]_vars =>
        [\A c \in Clients :
            Ends(c) /\ answer' \in {"reverted", "recoveryFailed"}
               => presets'[job[c].name] = NoSource]_vars
  <2> SUFFICES ASSUME OutcomeInv, [Next]_vars, NEW c \in Clients, Ends(c),
                      answer' \in {"reverted", "recoveryFailed"}
               PROVE  presets'[job[c].name] = NoSource
    OBVIOUS
  <2>1. Step(c)
    BY EndIsStep DEF OutcomeInv
  <2> QED
    BY <2>1, RevertEnds
<1> QED
  BY <1>1, OutcomeInductive, PTL DEF Spec, CreateAtomic

\* Two calls launch a Router.
LEMMA StartingSteps ==
    ASSUME NEW c \in Clients, Step(c), router = "stopped", router' = "up"
    PROVE  pc[c] \in {"launch", "relaunch"}
BY DEF Step, OperationStep, RefreshStep, PresetStep, RemovalStep, disk, server,
  ReadFails, Admit, Ensure, Launch, Unload, Unloaded, Load, Loads, Shutdown, Stopped, Status,
  List, Reload, Reloads, Restore, Halt, Relaunch, Relist, Capture, CaptureList, Save, Reread,
  Revert, EnableCheck, Write, CheckDelete, CheckCleanup, CheckModel, Unlink, Unref, Erase

\* A stopped Router stays stopped: no change of the sources, refresh or rollback
\* starts a Router that was stopped when the operation began; only the operations
\* on a Preset launch one.
THEOREM StoppedStaysHolds ==
    Spec => StoppedStays
<1> DEFINE Excused == \E c \in Clients :
                          pc[c] # "idle" /\ (job[c].kind \in Serves \/ wasUp)
<1>1. OutcomeInv /\ [Next]_vars => [router = "stopped" /\ router' = "up" => Excused]_vars
  <2> SUFFICES ASSUME OutcomeInv, Next, router = "stopped", router' = "up"
               PROVE  Excused
    BY DEF vars
  <2>1. PICK c \in Clients : Step(c)
    BY DEF Next, Begin, Environment, Restart, RouterDies, PresetDrops, OutsideLoad, Loads,
      FileChanges, Stopped, server
  <2>2. pc[c] \in {"launch", "relaunch"}
    BY <2>1, StartingSteps
  <2>3. pc[c] = "launch" => job[c].kind \in Serves
    BY DEF OutcomeInv, OutcomeOf, KindOf, Serving, Serves
  <2>4. pc[c] = "relaunch" => wasUp
    BY DEF OutcomeInv, OutcomeOf, WasUpOf, Refresher
  <2> QED
    BY <2>2, <2>3, <2>4
<1> QED
  BY <1>1, OutcomeInductive, PTL DEF Spec, StoppedStays

-----------------------------------------------------------------------------
(* The Presets a refresh owes *)

\* As many Presets as the Router takes.
Bounded(S) == IsFiniteSet(S) /\ Cardinality(S) <= ModelsMax

\* What is owed is loaded, or on the list of what is to be restored.
OwedOf(c) ==
    /\ pc[c] \in {"capture", "captureList", "save", "reread", "check", "unlink", "unref",
                  "erase", "status", "list"} => owed \subseteq active
    /\ pc[c] \in Serving \cup {"shutdown", "enable", "write"} => owed = {}
    /\ pc[c] \in {"reload", "halt", "relaunch", "relist"} =>
          owed \subseteq todo[c] /\ Bounded(todo[c])
    /\ pc[c] = "reload" => active \subseteq todo[c]
    /\ pc[c] \in {"relaunch", "relist"} => active = {}
    /\ pc[c] = "restore" =>
          /\ sound[c] => owed \subseteq todo[c] \cup active
          /\ Bounded(todo[c] \cup active)

\* A creation has noted what it may have to bring back.
NotedOf(c) ==
    /\ pc[c] \notin {"idle", "capture", "captureList"} /\ Creating(c) => owed \subseteq before[c]
    /\ pc[c] \notin {"idle", "capture"} /\ Creating(c) /\ ~ran[c] => owed = {}
    /\ Bounded(before[c])

OwedInv ==
    /\ TypeInv /\ OneOperation
    /\ Bounded(active)
    /\ \A c \in Clients : OwedOf(c) /\ NotedOf(c)

LEMMA EmptyBounded == Bounded({})
  BY ManagerAssumption, FS_EmptySet DEF Bounded, ManagerAssumption

LEMMA SubsetBounded ==
    ASSUME NEW S, Bounded(S), NEW T \in SUBSET S
    PROVE  Bounded(T)
<1>1. IsFiniteSet(T) /\ Cardinality(T) <= Cardinality(S)
  BY FS_Subset DEF Bounded
<1>2. Cardinality(T) \in Nat /\ Cardinality(S) \in Nat
  BY <1>1, FS_CardinalityType DEF Bounded
<1> QED
  BY <1>1, <1>2, ManagerAssumption DEF Bounded, ManagerAssumption

LEMMA LoadsBounded ==
    ASSUME Bounded(active), NEW n, Loads(n)
    PROVE  Bounded(active')
<1>1. IsFiniteSet(active \cup {n})
  BY FS_AddElement DEF Bounded
<1>2. active' \subseteq active \cup {n} /\ Cardinality(active') <= ModelsMax
  BY DEF Loads
<1> QED
  BY <1>1, <1>2, FS_Subset DEF Bounded

\* The Router makes no room for what fits.
LEMMA LoadsFits ==
    ASSUME NEW S, Bounded(S), NEW n, active \cup {n} \subseteq S, Loads(n)
    PROVE  active' = active \cup {n}
<1>1. PICK gone \in SUBSET (active \ {n}) :
        /\ active' = (active \ gone) \cup {n}
        /\ gone # {} => Cardinality(active') = ModelsMax
  BY DEF Loads
<1>2. SUFFICES ASSUME gone # {} PROVE FALSE
  BY <1>1
<1>3. Bounded(active \cup {n})
  BY SubsetBounded
<1>4. active' \subseteq active \cup {n} /\ active' # active \cup {n}
  BY <1>1, <1>2
<1>5. /\ Cardinality(active') <= Cardinality(active \cup {n})
      /\ Cardinality(active') # Cardinality(active \cup {n})
      /\ Cardinality(active') \in Nat /\ Cardinality(active \cup {n}) \in Nat
  BY <1>3, <1>4, FS_Subset, FS_CardinalityType DEF Bounded
<1>6. Cardinality(active') = ModelsMax /\ Cardinality(active \cup {n}) <= ModelsMax
  BY <1>1, <1>2, <1>3 DEF Bounded
<1> QED
  BY <1>5, <1>6, ManagerAssumption DEF ManagerAssumption

LEMMA StepBounded ==
    ASSUME TypeInv, Bounded(active), NEW c \in Clients, Step(c)
    PROVE  Bounded(active')
<1>1. active' = {} \/ active' \subseteq active \/ \E n \in Names : Loads(n)
  <2>1. todo[c] \subseteq Names
    BY DEF TypeInv, TypeOK, TasksOK
  <2> QED
    BY <2>1 DEF Step, OperationStep, RefreshStep, PresetStep, RemovalStep, disk, server,
      ReadFails, Admit, Ensure, Launch, Started, Unload, Unloaded, Load, Shutdown, Stopped,
      Status, List, Reload, Reloads, Restore, Halt, Relaunch, Relist, Capture, CaptureList, Save,
      Reread, Revert, EnableCheck, Write, CheckDelete, CheckCleanup, CheckModel, Unlink, Unref,
      Erase
<1> QED
  BY <1>1, EmptyBounded, SubsetBounded, LoadsBounded

\* Nothing more is owed while an operation goes on.
LEMMA OwedShrinks ==
    ASSUME TypeInv, NEW c \in Clients, Step(c), \A r \in Answers : ~Finish(c, r)
    PROVE  /\ owed' \subseteq owed
           /\ CaptureList(c) \/ before' = before
           /\ Capture(c) \/ ran' = ran
<1> USE DEF Answers, GoOn, Refreshed, Plan, Unless, Erased, Undo, locals
<1>1. CASE ReadFails(c)
  BY <1>1 DEF ReadFails
<1>2. CASE Admit(c)
  BY <1>2 DEF Admit
<1>3. CASE Ensure(c)
  BY <1>3 DEF Ensure
<1>4. CASE Launch(c)
  BY <1>4 DEF Launch
<1>5. CASE Unload(c)
  BY <1>5 DEF Unload
<1>6. CASE Load(c)
  BY <1>6 DEF Load
<1>7. CASE Shutdown(c)
  BY <1>7 DEF Shutdown
<1>8. CASE Status(c)
  BY <1>8 DEF Status
<1>9. CASE List(c)
  BY <1>9 DEF List
<1>10. CASE Reload(c)
  BY <1>10 DEF Reload
<1>11. CASE Restore(c)
  BY <1>11 DEF Restore
<1>12. CASE Halt(c)
  BY <1>12 DEF Halt
<1>13. CASE Relaunch(c)
  BY <1>13 DEF Relaunch
<1>14. CASE Relist(c)
  BY <1>14 DEF Relist
<1>15. CASE Capture(c)
  BY <1>15 DEF Capture
<1>16. CASE CaptureList(c)
  BY <1>16 DEF CaptureList
<1>17. CASE Save(c)
  BY <1>17 DEF Save
<1>18. CASE Reread(c)
  BY <1>18 DEF Reread
<1>19. CASE Revert(c)
  BY <1>19 DEF Revert
<1>20. CASE EnableCheck(c)
  BY <1>20 DEF EnableCheck
<1>21. CASE Write(c)
  BY <1>21 DEF Write
<1>22. CASE CheckDelete(c)
  BY <1>22 DEF CheckDelete
<1>23. CASE CheckCleanup(c)
  BY <1>23 DEF CheckCleanup
<1>24. CASE CheckModel(c)
  BY <1>24 DEF CheckModel
<1>25. CASE Unlink(c)
  BY <1>25 DEF Unlink
<1>26. CASE Unref(c)
  BY <1>26 DEF Unref
<1>27. CASE Erase(c)
  BY <1>27 DEF Erase
<1> QED
  BY <1>1, <1>2, <1>3, <1>4, <1>5, <1>6, <1>7, <1>8, <1>9, <1>10, <1>11,
    <1>12, <1>13, <1>14, <1>15, <1>16, <1>17, <1>18, <1>19, <1>20, <1>21,
    <1>22, <1>23, <1>24, <1>25, <1>26, <1>27 DEF Step, OperationStep,
    RefreshStep, PresetStep, RemovalStep

LEMMA PresetSteps ==
    ASSUME NEW c \in Clients, Step(c), ~Capture(c), ~CaptureList(c)
    PROVE  pc[c] \notin {"capture", "captureList"}
BY DEF Step, OperationStep, RefreshStep, PresetStep, RemovalStep, ReadFails, Admit, Ensure,
  Launch, Unload, Load, Shutdown, Status, List, Reload, Restore, Halt, Relaunch, Relist, Save,
  Reread, Revert, EnableCheck, Write, CheckDelete, CheckCleanup, CheckModel, Unlink, Unref, Erase

LEMMA MoveNotedOf ==
    ASSUME OwedInv, ~ListFails, NEW c \in Clients, Step(c), \A r \in Answers : ~Finish(c, r)
    PROVE  NotedOf(c)'
<1>1. /\ TypeInv /\ TaskOf(c) /\ OwedOf(c) /\ NotedOf(c) /\ pc[c] # "idle" /\ ServerOK
      /\ Bounded(active)
  BY StepOfJob DEF OwedInv, TypeInv, TypeOK
<1>2. CASE Capture(c)
  <2>1. /\ owed' = owed /\ before' = before /\ owed \subseteq active /\ job' = job
        /\ ran'[c] = (job[c].flag /\ router = "up")
    BY <1>1, <1>2 DEF Capture, OwedOf, TypeInv, TypeOK, TasksOK
  <2>2. pc'[c] = IF job[c].flag /\ router = "up" THEN "captureList" ELSE "save"
    BY <1>1, <1>2 DEF Capture, Goto, TypeInv, TypeOK, TasksOK
  <2>3. router # "up" => owed = {}
    BY <1>1, <2>1 DEF ServerOK
  <2> QED
    BY <1>1, <2>1, <2>2, <2>3 DEF NotedOf, Creating
<1>3. CASE CaptureList(c)
  <2>1. owed' = owed /\ ran' = ran /\ owed \subseteq active /\ job' = job /\ before[c] = {}
    BY <1>1, <1>3 DEF CaptureList, OwedOf, TaskOf
  <2>2. \/ before'[c] = active
        \/ router = "up" /\ ListFails /\ before'[c] = {}
        \/ router = "stopped" /\ before'[c] = {}
    BY <1>1, <1>3, <2>1 DEF CaptureList, TypeInv, TypeOK, TasksOK, ServerOK
  <2>3. router = "stopped" => owed = {}
    BY <1>1, <2>1 DEF ServerOK
  <2>4. Bounded(before'[c])
    BY <1>1, <2>2, EmptyBounded
  <2>5. ~ListFails => owed \subseteq before'[c]
    BY <2>1, <2>2, <2>3
  <2> QED
    BY <1>1, <1>3, <2>1, <2>4, <2>5 DEF NotedOf, Creating, CaptureList
<1>4. CASE Revert(c)
  <2>1. job'[c].kind = "revert" /\ before' = before
    BY <1>1, <1>4 DEF Revert, Undo, Answers, TypeInv, TypeOK, TasksOK
  <2> QED
    BY <1>1, <2>1 DEF NotedOf, Creating
<1>5. CASE ~Capture(c) /\ ~CaptureList(c) /\ ~Revert(c)
  <2>1. owed' \subseteq owed /\ before' = before /\ ran' = ran /\ job' = job
    BY <1>1, <1>5, OwedShrinks, MoveKeeps
  <2>2. pc[c] \notin {"capture", "captureList"}
    BY <1>5, PresetSteps
  <2> QED
    BY <1>1, <2>1, <2>2 DEF NotedOf, Creating
<1> QED
  BY <1>2, <1>3, <1>4, <1>5

LEMMA MoveOwedOf ==
    ASSUME OwedInv, ~ListFails, NEW c \in Clients, Step(c), \A r \in Answers : ~Finish(c, r)
    PROVE  OwedOf(c)'
<1>a. /\ TypeInv /\ TaskOf(c) /\ OwedOf(c) /\ NotedOf(c) /\ pc[c] # "idle" /\ ServerOK
      /\ Bounded(active) /\ sound[c] \in BOOLEAN
  BY StepOfJob DEF OwedInv, TypeInv, TypeOK, TasksOK
<1>b. ASSUME NEW ok \in BOOLEAN, Refreshed(c, ok) PROVE OwedOf(c)'
  <2>1. pc'[c] = "revert"
    BY <1>a, <1>b DEF Refreshed, Goto, Answers, TypeInv, TypeOK, TasksOK
  <2> QED
    BY <2>1 DEF OwedOf, Serving
<1>1. CASE ReadFails(c)
  BY <1>a, <1>1 DEF ReadFails, Apply, GoOn, Goto, Unless, Answers, OwedOf, Serving, TypeInv, TypeOK, TasksOK, server, locals
<1>2. CASE Admit(c)
  BY <1>a, <1>2 DEF Admit, Apply, GoOn, Goto, Unless, Answers, OwedOf, Serving, TypeInv, TypeOK, TasksOK, server, locals
<1>3. CASE Ensure(c)
  BY <1>a, <1>3 DEF Ensure, Apply, GoOn, Goto, Unless, Answers, OwedOf, Serving, TypeInv, TypeOK, TasksOK, server, locals
<1>4. CASE Launch(c)
  BY <1>a, <1>4 DEF Launch, Apply, GoOn, Goto, Unless, Answers, OwedOf, Serving, TypeInv, TypeOK, TasksOK, server, locals
<1>5. CASE Unload(c)
  BY <1>a, <1>5 DEF Unload, Apply, GoOn, Goto, Unless, Answers, OwedOf, Serving, TypeInv, TypeOK, TasksOK, server, locals
<1>6. CASE Load(c)
  BY <1>a, <1>6 DEF Load, Apply, GoOn, Goto, Unless, Answers, OwedOf, Serving, TypeInv, TypeOK, TasksOK, server, locals
<1>7. CASE Shutdown(c)
  BY <1>a, <1>7 DEF Shutdown, Apply, GoOn, Goto, Unless, Answers, OwedOf, Serving, TypeInv, TypeOK, TasksOK, server, locals
<1>8. CASE Status(c)
  <2>1. CASE Refreshed(c, TRUE)
    BY <1>a, <1>b, <2>1
  <2>2. CASE Goto(c, "list") /\ UNCHANGED <<locals, owed>>
    BY <1>a, <1>8, <2>2 DEF Status, Goto, OwedOf, Serving, server, TypeInv, TypeOK, TasksOK
  <2> QED
    BY <1>8, <2>1, <2>2 DEF Status
<1>9. CASE List(c)
  <2>1. owed' = owed /\ active' = active /\ owed \subseteq active
    BY <1>a, <1>9 DEF List, OwedOf, server
  <2>2. \/ pc'[c] = "reload" /\ todo'[c] = active
        \/ pc'[c] = "halt" /\ todo'[c] = {} /\ router = "stopped"
    BY <1>a, <1>9 DEF List, Goto, TypeInv, TypeOK, TasksOK
  <2>3. router = "stopped" => active = {}
    BY <1>a DEF ServerOK
  <2> QED
    BY <1>a, <2>1, <2>2, <2>3, EmptyBounded DEF OwedOf, Serving
<1>10. CASE Reload(c)
  <2>1. owed' = owed /\ owed \subseteq todo[c] /\ active \subseteq todo[c] /\ Bounded(todo[c])
    BY <1>a, <1>10 DEF Reload, Plan, OwedOf
  <2>2. CASE Reloads /\ Plan(c, known', active')
    <3>1. /\ pc'[c] = "restore" /\ todo'[c] = (todo[c] \cap known') \ active'
          /\ sound'[c] = (todo[c] \subseteq known')
      BY <1>a, <2>2 DEF Plan, Goto, TypeInv, TypeOK, TasksOK
    <3>2. active' \subseteq active
      BY <2>2 DEF Reloads
    <3>3. Bounded(todo'[c] \cup active')
      BY <2>1, <3>1, <3>2, SubsetBounded
    <3>4. sound'[c] => owed' \subseteq todo'[c] \cup active'
      BY <2>1, <3>1
    <3> QED
      BY <3>1, <3>3, <3>4 DEF OwedOf, Serving
  <2>3. CASE Goto(c, "halt") /\ UNCHANGED locals
    BY <1>a, <2>1, <2>3 DEF Goto, OwedOf, Serving, TypeInv, TypeOK, TasksOK, locals
  <2> QED
    BY <1>10, <2>2, <2>3 DEF Reload
<1>11. CASE Restore(c)
  <2>1. CASE Refreshed(c, sound[c])
    BY <1>a, <1>b, <2>1
  <2>2. ASSUME NEW n \in todo[c], Goto(c, "restore"), todo' = [todo EXCEPT ![c] = todo[c] \ {n}],
               \/ Loads(n) /\ UNCHANGED sound
               \/ /\ Loads(n) \/ UNCHANGED server
                  /\ sound' = [sound EXCEPT ![c] = FALSE],
               owed' = owed
        PROVE  OwedOf(c)'
    <3>1. /\ Bounded(todo[c] \cup active)
          /\ sound[c] => owed \subseteq todo[c] \cup active
      BY <1>a, <1>11 DEF Restore, OwedOf
    <3>2. pc'[c] = "restore" /\ todo'[c] = todo[c] \ {n} /\ sound'[c] \in {sound[c], FALSE}
      BY <1>a, <2>2 DEF Goto, TypeInv, TypeOK, TasksOK
    <3>3. Loads(n) => active' = active \cup {n}
      BY <3>1, LoadsFits
    <3>4. active' \in {active, active \cup {n}}
      BY <2>2, <3>3 DEF server
    <3>5. Bounded(todo'[c] \cup active')
      BY <3>1, <3>2, <3>4, SubsetBounded
    <3>6. sound'[c] => sound[c] /\ Loads(n)
      BY <1>a, <2>2, <3>2 DEF TypeInv, TypeOK, TasksOK
    <3>7. sound'[c] => owed' \subseteq todo'[c] \cup active'
      BY <2>2, <3>1, <3>2, <3>3, <3>6
    <3> QED
      BY <3>2, <3>5, <3>7 DEF OwedOf, Serving
  <2> QED
    BY <1>11, <2>1, <2>2 DEF Restore
<1>12. CASE Halt(c)
  <2>1. CASE Refreshed(c, FALSE)
    BY <1>a, <1>b, <2>1
  <2>2. CASE Goto(c, "relaunch") /\ UNCHANGED <<locals, owed>>
    <3>1. active' = {} /\ pc'[c] = "relaunch" /\ todo' = todo /\ owed' = owed
      BY <1>a, <1>12, <2>2 DEF Halt, Stopped, Goto, TypeInv, TypeOK, TasksOK, locals
    <3> QED
      BY <1>a, <1>12, <3>1 DEF Halt, OwedOf, Serving
  <2> QED
    BY <1>12, <2>1, <2>2 DEF Halt
<1>13. CASE Relaunch(c)
  <2>1. CASE Refreshed(c, FALSE)
    BY <1>a, <1>b, <2>1
  <2>2. CASE Started /\ Goto(c, "relist") /\ UNCHANGED <<locals, owed>>
    <3>1. active' = {} /\ pc'[c] = "relist" /\ todo' = todo /\ owed' = owed
      BY <1>a, <2>2 DEF Started, Goto, TypeInv, TypeOK, TasksOK, locals
    <3> QED
      BY <1>a, <1>13, <3>1 DEF Relaunch, OwedOf, Serving
  <2> QED
    BY <1>13, <2>1, <2>2 DEF Relaunch
<1>14. CASE Relist(c)
  <2>1. CASE Refreshed(c, FALSE)
    BY <1>a, <1>b, <2>1
  <2>2. CASE Plan(c, known, active)
    <3>1. owed \subseteq todo[c] /\ active = {} /\ Bounded(todo[c]) /\ active' = active
      BY <1>a, <1>14 DEF Relist, OwedOf, server
    <3>2. /\ pc'[c] = "restore" /\ todo'[c] = (todo[c] \cap known) \ active
          /\ sound'[c] = (todo[c] \subseteq known) /\ owed' = owed
      BY <1>a, <2>2 DEF Plan, Goto, TypeInv, TypeOK, TasksOK
    <3>3. Bounded(todo'[c] \cup active')
      BY <3>1, <3>2, SubsetBounded
    <3> QED
      BY <3>1, <3>2, <3>3 DEF OwedOf, Serving
  <2> QED
    BY <1>14, <2>1, <2>2 DEF Relist
<1>15. CASE Capture(c)
  BY <1>a, <1>15 DEF Capture, Apply, GoOn, Goto, Unless, Answers, OwedOf, Serving, TypeInv, TypeOK, TasksOK, server, locals
<1>16. CASE CaptureList(c)
  BY <1>a, <1>16 DEF CaptureList, Apply, GoOn, Goto, Unless, Answers, OwedOf, Serving, TypeInv, TypeOK, TasksOK, server, locals
<1>17. CASE Save(c)
  BY <1>a, <1>17 DEF Save, Apply, GoOn, Goto, Unless, Answers, OwedOf, Serving, TypeInv, TypeOK, TasksOK, server, locals
<1>18. CASE Reread(c)
  BY <1>a, <1>18 DEF Reread, Apply, GoOn, Goto, Unless, Answers, OwedOf, Serving, TypeInv, TypeOK, TasksOK, server, locals
<1>19. CASE Revert(c)
  <2>1. /\ pc'[c] = "halt" /\ todo'[c] = before[c] /\ owed' = owed
    BY <1>a, <1>19 DEF Revert, Undo, Goto, Answers, TypeInv, TypeOK, TasksOK
  <2>2. Creating(c) /\ pc[c] = "revert"
    BY <1>a, <1>19 DEF Revert, TaskOf
  <2>3. owed \subseteq before[c] /\ Bounded(before[c])
    BY <1>a, <2>2 DEF NotedOf
  <2> QED
    BY <2>1, <2>3 DEF OwedOf, Serving
<1>20. CASE EnableCheck(c)
  BY <1>a, <1>20 DEF EnableCheck, Apply, GoOn, Goto, Unless, Answers, OwedOf, Serving, TypeInv, TypeOK, TasksOK, server, locals
<1>21. CASE Write(c)
  BY <1>a, <1>21 DEF Write, Apply, GoOn, Goto, Unless, Answers, OwedOf, Serving, TypeInv, TypeOK, TasksOK, server, locals
<1>22. CASE CheckDelete(c)
  BY <1>a, <1>22 DEF CheckDelete, Apply, GoOn, Goto, Unless, Answers, OwedOf, Serving, TypeInv, TypeOK, TasksOK, server, locals
<1>23. CASE CheckCleanup(c)
  BY <1>a, <1>23 DEF CheckCleanup, Apply, GoOn, Goto, Unless, Answers, OwedOf, Serving, TypeInv, TypeOK, TasksOK, server, locals
<1>24. CASE CheckModel(c)
  BY <1>a, <1>24 DEF CheckModel, Apply, GoOn, Goto, Unless, Answers, OwedOf, Serving, TypeInv, TypeOK, TasksOK, server, locals
<1>25. CASE Unlink(c)
  BY <1>a, <1>25 DEF Unlink, Apply, GoOn, Goto, Unless, Answers, OwedOf, Serving, TypeInv, TypeOK, TasksOK, server, locals
<1>26. CASE Unref(c)
  BY <1>a, <1>26 DEF Unref, Apply, GoOn, Goto, Unless, Answers, OwedOf, Serving, TypeInv, TypeOK, TasksOK, server, locals
<1>27. CASE Erase(c)
  <2>1. PICK n \in todo[c] : Erased(c, n, todo[c] \ {n})
    BY <1>27 DEF Erase, Answers
  <2>2. owed' = owed \ {n} /\ active' = active /\ pc[c] = "erase"
    BY <1>27, <2>1 DEF Erase, Erased, server
  <2>3. pc'[c] \in {"status", "erase"}
    BY <1>a, <2>1 DEF Erased, Goto, TypeInv, TypeOK, TasksOK
  <2> QED
    BY <1>a, <2>2, <2>3 DEF OwedOf, Serving
<1> QED
  BY <1>1, <1>2, <1>3, <1>4, <1>5, <1>6, <1>7, <1>8, <1>9, <1>10, <1>11,
    <1>12, <1>13, <1>14, <1>15, <1>16, <1>17, <1>18, <1>19, <1>20, <1>21,
    <1>22, <1>23, <1>24, <1>25, <1>26, <1>27 DEF Step, OperationStep,
    RefreshStep, PresetStep, RemovalStep

LEMMA StepOwed ==
    ASSUME OwedInv, ~ListFails, NEW c \in Clients, Step(c)
    PROVE  OwedInv'
<1>1. TypeInv /\ OneOperation
  BY DEF OwedInv
<1>2. TypeInv' /\ OneOperation' /\ Bounded(active')
  BY <1>1, StepTypeInv, OneOperationStep, StepBounded DEF Next, OwedInv
<1>3. ASSUME NEW d \in Clients \ {c} PROVE OwedOf(d)' /\ NotedOf(d)'
  <2>1. pc'[d] = "idle" /\ before'[d] = before[d]
    BY <1>1, OthersIdle, OthersKeep
  <2>2. Bounded(before[d])
    BY DEF OwedInv, NotedOf
  <2> QED
    BY <2>1, <2>2 DEF OwedOf, NotedOf, Serving
<1>4. OwedOf(c)' /\ NotedOf(c)'
  <2>1. CASE \E r \in Answers : Finish(c, r)
    <3>1. pc'[c] = "idle" /\ before'[c] = {}
      BY <1>1, <2>1 DEF Finish, TypeInv, TypeOK, TasksOK
    <3> QED
      BY <3>1, EmptyBounded DEF OwedOf, NotedOf, Serving
  <2>2. CASE \A r \in Answers : ~Finish(c, r)
    BY <2>2, MoveOwedOf, MoveNotedOf
  <2> QED
    BY <2>1, <2>2
<1> QED
  BY <1>2, <1>3, <1>4 DEF OwedInv

LEMMA BeginOwed ==
    ASSUME OwedInv, NEW c \in Clients, NEW j \in Jobs, Begin(c, j)
    PROVE  OwedInv'
<1>1. TypeInv /\ OneOperation
  BY DEF OwedInv
<1>2. TypeInv' /\ OneOperation' /\ active' = active
  BY <1>1, BeginTypeInv, OneOperationStep DEF Next, Begin, server
<1>3. ASSUME NEW d \in Clients PROVE Bounded(before[d])' /\ (d # c => pc'[d] = "idle")
  BY <1>1, <1>3 DEF Begin, OneOperation, OwedInv, NotedOf, TypeInv, TypeOK, TasksOK
<1>4. /\ pc'[c] = First(j.kind) /\ j.kind \in Kinds
      /\ owed' = IF j.kind \in Refreshing THEN active ELSE {}
  BY <1>1 DEF Begin, TypeInv, TypeOK, TasksOK, Jobs, Requests
<1>5. OwedOf(c)'
  BY <1>2, <1>4 DEF OwedOf, Kinds, First, Refreshing, Serving
<1>6. job'[c] = j
  BY <1>1 DEF Begin, TypeInv, TypeOK, TasksOK
<1>7. NotedOf(c)'
  BY <1>3, <1>4, <1>6 DEF NotedOf, Creating, Kinds, First
<1>8. ASSUME NEW d \in Clients \ {c} PROVE OwedOf(d)' /\ NotedOf(d)'
  BY <1>3 DEF OwedOf, NotedOf, Serving
<1> QED
  BY <1>2, <1>5, <1>7, <1>8 DEF OwedInv

LEMMA EnvironmentOwed ==
    ASSUME OwedInv, ~OutsideLoads, Environment \/ UNCHANGED vars
    PROVE  OwedInv'
<1>1. TypeInv' /\ OneOperation'
  BY NextTypeInv, OneOperationStep DEF OwedInv, Next
<1>2. CASE Restart
  <2>1. active' = active /\ \A c \in Clients : pc'[c] = "idle" /\ before'[c] = {}
    BY <1>2 DEF Restart, server
  <2>2. ASSUME NEW c \in Clients PROVE OwedOf(c)' /\ NotedOf(c)'
    BY <2>1, EmptyBounded DEF OwedOf, NotedOf, Serving
  <2> QED
    BY <1>1, <2>1, <2>2 DEF OwedInv
<1>3. ASSUME NEW gone, active' = active \ gone, owed' = owed \ gone,
             UNCHANGED <<pc, locals>>
      PROVE  OwedInv'
  <2>1. Bounded(active')
    BY <1>3, SubsetBounded DEF OwedInv
  <2>2. ASSUME NEW c \in Clients PROVE OwedOf(c)' /\ NotedOf(c)'
    <3>1. OwedOf(c) /\ NotedOf(c) /\ todo' = todo /\ sound' = sound /\ ran' = ran
          /\ before' = before /\ job' = job /\ pc' = pc
      BY <1>3 DEF OwedInv, locals
    <3>2. Bounded(todo[c] \cup active) => Bounded(todo[c] \cup active')
      BY <1>3, SubsetBounded
    <3>3. OwedOf(c)'
      BY <1>3, <3>1, <3>2 DEF OwedOf
    <3>4. NotedOf(c)'
      BY <1>3, <3>1 DEF NotedOf, Creating
    <3> QED
      BY <3>3, <3>4
  <2> QED
    BY <1>1, <2>1, <2>2 DEF OwedInv
<1>4. CASE RouterDies
  <2>1. active' = active \ (active \cup owed) /\ owed' = owed \ (active \cup owed)
        /\ UNCHANGED <<pc, locals>>
    BY <1>4 DEF RouterDies, Stopped
  <2> QED
    BY <1>3, <2>1
<1>5. ASSUME NEW n \in Names, PresetDrops(n) PROVE OwedInv'
  BY <1>3, <1>5 DEF PresetDrops
<1>6. CASE (\E m \in Models : FileChanges(m)) \/ UNCHANGED vars
  <2>1. active' = active \ {} /\ owed' = owed \ {} /\ UNCHANGED <<pc, locals>>
    BY <1>6 DEF FileChanges, server, history, locals, vars
  <2> QED
    BY <1>3, <2>1
<1> QED
  BY <1>2, <1>4, <1>5, <1>6 DEF Environment, OutsideLoad

\* What the operation in progress owes is loaded, or noted where its refresh or its
\* rollback will find it, and it all fits in the Router.
THEOREM OwedInductive ==
    ASSUME ~ListFails, ~OutsideLoads
    PROVE  Spec => []OwedInv
<1>1. Init => OwedInv
  <2> SUFFICES ASSUME Init PROVE OwedInv
    OBVIOUS
  <2>1. TypeInv /\ OneOperation
    BY InitTypeInv DEF Init, OneOperation
  <2>2. active = {} /\ \A c \in Clients : pc[c] = "idle" /\ before[c] = {}
    BY DEF Init
  <2>3. ASSUME NEW c \in Clients PROVE OwedOf(c) /\ NotedOf(c)
    BY <2>2, EmptyBounded DEF OwedOf, NotedOf, Serving
  <2> QED
    BY <2>1, <2>2, <2>3, EmptyBounded DEF OwedInv
<1>2. OwedInv /\ [Next]_vars => OwedInv'
  BY StepOwed, BeginOwed, EnvironmentOwed DEF Next
<1> QED
  BY <1>1, <1>2, PTL DEF Spec

LEMMA OwedEnds ==
    ASSUME OwedInv, NEW c \in Clients, Step(c), Ends(c), answer' \in {"ok", "reverted"}
    PROVE  owed \subseteq active'
<1>1. /\ TypeInv /\ TaskOf(c) /\ OwedOf(c) /\ NotedOf(c) /\ pc[c] # "idle"
      /\ pc'[c] = "idle" /\ ServerOK
  BY StepOfJob DEF OwedInv, TypeInv, TypeOK, Ends
<1>2. CASE OperationStep(c) \/ EnableCheck(c) \/ Write(c)
  <2>1. pc[c] \in Serving \cup {"shutdown", "enable", "write"}
    BY <1>2 DEF OperationStep, Admit, Ensure, Launch, Unload, Load, Shutdown, EnableCheck,
      Write, Serving
  <2> QED
    BY <1>1, <2>1 DEF OwedOf
<1>3. CASE ReadFails(c)
  BY <1>3 DEF ReadFails, Finish
<1>4. CASE Capture(c) \/ CaptureList(c) \/ Save(c) \/ Reread(c)
  BY <1>1, <1>4 DEF Capture, CaptureList, Save, Reread, Goto, Finish, TypeInv, TypeOK, TasksOK
<1>5. CASE Revert(c)
  <2>1. Creating(c) /\ pc[c] = "revert"
    BY <1>1, <1>5 DEF Revert, TaskOf
  <2>2. ~ran[c]
    BY <1>1, <1>5 DEF Revert, Undo, Goto, Finish, TypeInv, TypeOK, TasksOK
  <2> QED
    BY <1>1, <2>1, <2>2 DEF NotedOf
<1>6. CASE RemovalStep(c)
  <2>1. pc[c] \in {"check", "unlink", "unref", "erase"} /\ active' = active
    BY <1>6 DEF RemovalStep, CheckDelete, CheckCleanup, CheckModel, Unlink, Unref, Erase, server
  <2> QED
    BY <1>1, <2>1 DEF OwedOf
<1>7. CASE RefreshStep(c)
  <2>1. ASSUME NEW ok, Refreshed(c, ok) PROVE ok
    BY <1>1, <2>1 DEF Refreshed, Goto, Finish, TypeInv, TypeOK, TasksOK
  <2>2. CASE Status(c)
    BY <1>1, <2>2 DEF Status, OwedOf, server
  <2>3. CASE Restore(c)
    <3>1. todo[c] = {} /\ Refreshed(c, sound[c]) /\ active' = active
      BY <1>1, <2>3 DEF Restore, Goto, server, TypeInv, TypeOK, TasksOK
    <3>2. sound[c]
      BY <2>1, <3>1
    <3> QED
      BY <1>1, <2>3, <3>1, <3>2 DEF Restore, OwedOf
  <2>4. CASE List(c) \/ Reload(c) \/ Halt(c) \/ Relaunch(c) \/ Relist(c)
    BY <1>1, <2>1, <2>4 DEF List, Reload, Halt, Relaunch, Relist, Plan, Goto, TypeInv, TypeOK,
      TasksOK
  <2> QED
    BY <1>7, <2>2, <2>3, <2>4 DEF RefreshStep
<1> QED
  BY <1>2, <1>3, <1>4, <1>5, <1>6, <1>7 DEF Step, PresetStep

\* "Active Presets are restored when a source change unloads them": for any number
\* of Presets, operations, crashes and failed loads, as long as the Router answers
\* its lists and nobody else loads Presets.
THEOREM ActiveRestoredHolds ==
    ASSUME ~ListFails, ~OutsideLoads
    PROVE  Spec => ActiveRestored
<1>1. OwedInv /\ [Next]_vars =>
        [\A c \in Clients :
            Ends(c) /\ answer' \in {"ok", "reverted"} => owed \subseteq active']_vars
  <2> SUFFICES ASSUME OwedInv, [Next]_vars, NEW c \in Clients, Ends(c),
                      answer' \in {"ok", "reverted"}
               PROVE  owed \subseteq active'
    OBVIOUS
  <2>1. Step(c)
    BY EndIsStep DEF OwedInv
  <2> QED
    BY <2>1, OwedEnds
<1> QED
  BY <1>1, OwedInductive, PTL DEF Spec, ActiveRestored

=============================================================================
