-------------------------- MODULE Downloads_proofs --------------------------
(***************************************************************************)
(* Proofs about the two components that fetch files: ModelDownload, for any*)
(* sets of callers, jobs and destinations, and LlamaInstall, for any sets  *)
(* of tags and builds.  They share no state.                               *)
(***************************************************************************)
EXTENDS ModelDownload, LlamaInstall, TLAPS


-----------------------------------------------------------------------------
(* ModelDownload *)

LEMMA OutcomeType ==
    ASSUME NEW i \in Ids
    PROVE  Outcome(i) \in {"cancelled", "failed", "completed"}
BY Zenon DEF Outcome

LEMMA TypeStep ==
    TypeOK /\ [Next]_vars => TypeOK'
<1> USE DEF TypeOK, maps, storage
<1> SUFFICES ASSUME TypeOK, [Next]_vars PROVE TypeOK'
  OBVIOUS
<1>1. CASE UNCHANGED vars
  BY <1>1 DEF vars
<1>2. CASE Next
  <2>1. ASSUME NEW c \in Callers, NEW t \in Targets, NEW force \in BOOLEAN,
               Resolve(c, t, force)
        PROVE  TypeOK'
    BY <2>1 DEF Resolve
  <2>2. ASSUME NEW c \in Callers, StartJoins(c) PROVE TypeOK'
    BY <2>2 DEF StartJoins
  <2>3. ASSUME NEW c \in Callers, NEW i \in Unused, StartSkips(c, i) PROVE TypeOK'
    BY <2>3, DownloadAssumption DEF StartSkips, Unused
  <2>4. ASSUME NEW c \in Callers, NEW i \in Unused, StartQueues(c, i) PROVE TypeOK'
    BY <2>4, DownloadAssumption DEF StartQueues, Unused
  <2>5. ASSUME NEW i \in Ids, Cancel(i) PROVE TypeOK'
    BY <2>5 DEF Cancel
  <2>6. ASSUME NEW i \in Ids, Begin(i) PROVE TypeOK'
    BY <2>6 DEF Begin, Goto
  <2>7. ASSUME NEW i \in Ids, Open(i) \/ Create(i) PROVE TypeOK'
    BY <2>7 DEF Open, Create, Goto, Returns, SetPart
  <2>8. ASSUME NEW i \in Ids, Copy(i) \/ Check(i) PROVE TypeOK'
    BY <2>8 DEF Copy, Check, Goto, Returns, SetPart
  <2>9. ASSUME NEW i \in Ids, Place(i) PROVE TypeOK'
    BY <2>9 DEF Place, Returns, SetPart
  <2>10. ASSUME NEW i \in Ids, Report(i) PROVE TypeOK'
    BY <2>10, OutcomeType DEF Report, Goto
  <2>11. ASSUME NEW i \in Ids, Clear(i) PROVE TypeOK'
    BY <2>11 DEF Clear, Goto
  <2>12. ASSUME NEW t \in Targets, FileRemoved(t) PROVE TypeOK'
    BY <2>12 DEF FileRemoved
  <2>13. CASE Crash
    BY <2>13 DEF Crash
  <2> QED
    BY <1>2, <2>1, <2>2, <2>3, <2>4, <2>5, <2>6, <2>7, <2>8, <2>9, <2>10, <2>11,
       <2>12, <2>13 DEF Next, Start, Run
<1> QED
  BY <1>1, <1>2

\* Every job, destination and file keeps its type for ever.
THEOREM TypeCorrect ==
    Spec => []TypeOK
<1>1. Init => TypeOK
  BY DEF Init, TypeOK
<1> QED
  BY <1>1, TypeStep, PTL DEF Spec
-----------------------------------------------------------------------------
(* The inductive invariant of the downloads *)

\* What the working jobs and the files share, without the types.
Shared == ActiveOK /\ ActiveTarget /\ PartOK /\ WholeFiles

LEMMA SharedStep ==
    TypeOK /\ Shared /\ [Next]_vars => Shared'
<1> USE DEF Shared, ActiveOK, ActiveTarget, PartOK, WholeFiles, Working, maps,
   storage
<1> SUFFICES ASSUME TypeOK, Shared, [Next]_vars PROVE Shared'
  OBVIOUS
<1> USE DEF TypeOK
<1>1. CASE UNCHANGED vars
  BY <1>1 DEF vars
<1>2. CASE Next
  <2>1. ASSUME NEW c \in Callers, NEW t \in Targets, NEW force \in BOOLEAN,
               Resolve(c, t, force) PROVE Shared'
    BY <2>1 DEF Resolve
  <2>2. ASSUME NEW c \in Callers, StartJoins(c) PROVE Shared'
    BY <2>2 DEF StartJoins
  <2>3. ASSUME NEW c \in Callers, NEW i \in Unused, StartSkips(c, i) PROVE Shared'
    BY <2>3, DownloadAssumption DEF StartSkips, Unused
  <2>4. ASSUME NEW c \in Callers, NEW i \in Unused, StartQueues(c, i) PROVE Shared'
    BY <2>4, DownloadAssumption DEF StartQueues, Unused
  <2>5. ASSUME NEW i \in Ids, Cancel(i) PROVE Shared'
    BY <2>5 DEF Cancel
  <2>6. ASSUME NEW i \in Ids, Begin(i) PROVE Shared'
    BY <2>6 DEF Begin, Goto
  <2>7. ASSUME NEW i \in Ids, Open(i) PROVE Shared'
    BY <2>7, DownloadAssumption DEF Open, Goto, Returns, SetPart
  <2>8. ASSUME NEW i \in Ids, Create(i) PROVE Shared'
    BY <2>8, DownloadAssumption DEF Create, Goto, Returns, SetPart
  <2>9. ASSUME NEW i \in Ids, Copy(i) PROVE Shared'
    BY <2>9, DownloadAssumption DEF Copy, Goto, Returns, SetPart
  <2>10. ASSUME NEW i \in Ids, Check(i) PROVE Shared'
    BY <2>10, DownloadAssumption DEF Check, Goto, Returns, SetPart
  <2>11. ASSUME NEW i \in Ids, Place(i) PROVE Shared'
    BY <2>11, DownloadAssumption DEF Place, Returns, SetPart
  <2>12. ASSUME NEW i \in Ids, Report(i) PROVE Shared'
    BY <2>12 DEF Report, Goto
  <2>13. ASSUME NEW i \in Ids, Clear(i) PROVE Shared'
    BY <2>13, DownloadAssumption DEF Clear, Goto
  <2>14. ASSUME NEW t \in Targets, FileRemoved(t) PROVE Shared'
    BY <2>14 DEF FileRemoved
  <2>15. CASE Crash
    BY <2>15, DownloadAssumption DEF Crash
  <2> QED
    BY <1>2, <2>1, <2>2, <2>3, <2>4, <2>5, <2>6, <2>7, <2>8, <2>9, <2>10, <2>11,
       <2>12, <2>13, <2>14, <2>15 DEF Next, Start, Run
<1> QED
  BY <1>1, <1>2
\* IInv holds in every reachable state: the working jobs are the active ones and
\* each owns the .part file of its destination.
THEOREM IInvHolds ==
    Spec => []IInv
<1>1. Init => IInv
  BY DownloadAssumption
  DEF Init, IInv, TypeOK, ActiveOK, ActiveTarget, PartOK, WholeFiles, Working
<1>2. IInv /\ [Next]_vars => IInv'
  BY TypeStep, SharedStep DEF IInv, Shared
<1> QED
  BY <1>1, <1>2, PTL DEF Spec

\* One goroutine at a time works on a destination, whatever order Start, Cancel,
\* a second Start and the end of the first download take: both would be its
\* active job.
THEOREM OneWriterHolds ==
    Spec => []OneWriter
<1>1. IInv => OneWriter
  BY DEF IInv, ActiveOK, OneWriter
<1> QED
  BY <1>1, IInvHolds, PTL

\* No model file is ever half written: what Place renames was filled by the job
\* that renames it.
THEOREM WholeFilesHold ==
    Spec => []WholeFiles
<1>1. IInv => WholeFiles
  BY DEF IInv
<1> QED
  BY <1>1, IInvHolds, PTL

\* A goroutine that has ended has removed its .part file.
THEOREM NoLitterHolds ==
    Spec => []NoLitter
<1>1. IInv => NoLitter
  BY DEF IInv, TypeOK, PartOK, NoLitter
<1> QED
  BY <1>1, IInvHolds, PTL

LEMMA OutcomeStep ==
    ASSUME TypeOK, [Next]_vars, NEW i \in Ids,
           state[i] \in {"already", "completed", "failed", "cancelled"}
    PROVE  state'[i] \in {state[i], "none"}
<1> USE DEF TypeOK, maps, storage
<1>1. CASE UNCHANGED vars
  BY <1>1 DEF vars
<1>2. CASE Next
  <2>1. ASSUME NEW c \in Callers, Start(c) PROVE state'[i] = state[i]
    BY <2>1 DEF Start, Resolve, StartJoins, StartSkips, StartQueues, Unused
  <2>2. ASSUME NEW j \in Ids, Cancel(j) PROVE state'[i] = state[i]
    BY <2>2 DEF Cancel
  <2>3. ASSUME NEW j \in Ids, Begin(j) PROVE state'[i] = state[i]
    BY <2>3 DEF Begin
  <2>4. ASSUME NEW j \in Ids, Report(j) PROVE state'[i] = state[i]
    <3>1. state[j] = "cancelled" => Outcome(j) = "cancelled"
      BY Zenon DEF Outcome
    <3> QED
      BY <2>4, <3>1 DEF Report
  <2>5. ASSUME NEW j \in Ids,
               Open(j) \/ Create(j) \/ Copy(j) \/ Check(j) \/ Place(j) \/ Clear(j)
        PROVE  state'[i] = state[i]
    BY <2>5 DEF Open, Create, Copy, Check, Place, Clear
  <2>6. ASSUME NEW t \in Targets, FileRemoved(t) PROVE state'[i] = state[i]
    BY <2>6 DEF FileRemoved
  <2>7. CASE Crash
    BY <2>7 DEF Crash
  <2> QED
    BY <1>2, <2>1, <2>2, <2>3, <2>4, <2>5, <2>6, <2>7 DEF Next, Run
<1> QED
  BY <1>1, <1>2

\* The answer of a finished job never changes: a cancel is not overwritten by the
\* goroutine that was about to complete or fail.
THEOREM OutcomeIsFinalHolds ==
    Spec => OutcomeIsFinal
<1>1. TypeOK /\ [Next]_vars =>
        [\A i \in Ids :
            state[i] \in {"already", "completed", "failed", "cancelled"}
               => state'[i] \in {state[i], "none"}]_vars
  BY OutcomeStep
<1> QED
  BY <1>1, TypeCorrect, PTL DEF Spec, OutcomeIsFinal

-----------------------------------------------------------------------------
(* LlamaInstall *)

LEMMA InstallTypeStep ==
    InstallTypeOK /\ [InstallNext]_installVars => InstallTypeOK'
<1> USE DEF InstallTypeOK, locals, history
<1> SUFFICES ASSUME InstallTypeOK, [InstallNext]_installVars PROVE InstallTypeOK'
  OBVIOUS
<1>1. CASE UNCHANGED installVars
  BY <1>1 DEF installVars
<1>2. CASE InstallNext
  <2>1. ASSUME NEW d \in Dirs, Reinstall(d) PROVE InstallTypeOK'
    BY <2>1 DEF Reinstall
  <2>2. ASSUME NEW d \in Dirs, Stage(d) PROVE InstallTypeOK'
    BY <2>2 DEF Stage
  <2>3. CASE ClearDestination
    BY <2>3 DEF ClearDestination
  <2>4. CASE Move
    BY <2>4 DEF Move
  <2>5. CASE Record
    BY <2>5 DEF Record
  <2>6. CASE Prune
    BY <2>6 DEF Prune
  <2>7. CASE Point
    BY <2>7 DEF Point
  <2>8. CASE Abort
    BY <2>8 DEF Abort
  <2>9. CASE Publish
    BY <2>9 DEF Publish
  <2>10. CASE UserEdits
    BY <2>10 DEF UserEdits
  <2>11. CASE Setup
    BY <2>11 DEF Setup
  <2> QED
    BY <1>2, <2>1, <2>2, <2>3, <2>4, <2>5, <2>6, <2>7, <2>8, <2>9, <2>10, <2>11
       DEF InstallNext
<1> QED
  BY <1>1, <1>2

\* Records, paths and locals keep their type for ever.
THEOREM InstallTypeCorrect ==
    InstallSpec => []InstallTypeOK
<1>1. InstallInit => InstallTypeOK
  BY DEF InstallInit, InstallTypeOK
<1> QED
  BY <1>1, InstallTypeStep, PTL DEF InstallSpec

-----------------------------------------------------------------------------
(* The records and the disk, with steps that fail and processes that die *)

LEMMA RStep ==
    ASSUME InstallTypeOK, RInv, [InstallNext]_installVars
    PROVE  RInv'
<1> USE DEF InstallTypeOK, RInv, Placing, Recorded, RecordedOnDisk, locals, history
<1>1. CASE UNCHANGED installVars
  BY <1>1 DEF installVars
<1>2. CASE InstallNext
  <2>1. ASSUME NEW d \in Dirs, Reinstall(d) PROVE RInv'
    BY <2>1 DEF Reinstall
  <2>2. ASSUME NEW d \in Dirs, Stage(d) PROVE RInv'
    BY <2>2 DEF Stage
  <2>3. CASE ClearDestination
    BY <2>3 DEF ClearDestination
  <2>4. CASE Move
    BY <2>4 DEF Move
  <2>5. CASE Record
    BY <2>5 DEF Record
  <2>6. CASE Prune
    BY <2>6 DEF Prune
  <2>7. CASE Point
    BY <2>7 DEF Point
  <2>8. CASE Abort
    BY <2>8 DEF Abort
  <2>9. CASE Publish
    BY <2>9 DEF Publish
  <2>10. CASE UserEdits
    BY <2>10 DEF UserEdits
  <2>11. CASE Setup
    BY <2>11 DEF Setup
  <2> QED
    BY <1>2, <2>1, <2>2, <2>3, <2>4, <2>5, <2>6, <2>7, <2>8, <2>9, <2>10, <2>11
       DEF InstallNext
<1> QED
  BY <1>1, <1>2

\* RInv holds in every reachable state, wherever operations break off.
THEOREM RInvHolds ==
    InstallSpec => []RInv
<1>1. InstallInit => RInv
  BY DEF InstallInit, RInv, Placing, Recorded, RecordedOnDisk
<1>2. InstallTypeOK /\ RInv /\ [InstallNext]_installVars => RInv'
  BY RStep
<1> QED
  BY <1>1, <1>2, InstallTypeCorrect, PTL DEF InstallSpec

\* What state.json records is on disk at every step, wherever an operation breaks
\* off, but for installs that were last asked for as the previous one.
THEOREM RecordedOnDiskHolds ==
    InstallSpec => []RecordedOnDisk
<1>1. RInv => RecordedOnDisk
  BY DEF RInv
<1> QED
  BY <1>1, RInvHolds, PTL

-----------------------------------------------------------------------------
(* The configured path and the retained installs, until an operation breaks  *)
(* off                                                                       *)

LEMMA CStep ==
    ASSUME InstallTypeOK, CInv, [InstallNext]_installVars
    PROVE  CInv'
<1> USE InstallAssumption DEF InstallTypeOK, CInv, Managed, Retained, locals, history
<1>0. RInv'
  BY RStep
<1> USE DEF RInv, Placing, Recorded, RecordedOnDisk
<1>1. CASE UNCHANGED installVars
  BY <1>0, <1>1 DEF installVars
<1>2. CASE InstallNext
  <2>1. ASSUME NEW d \in Dirs, Reinstall(d) PROVE CInv'
    BY <2>1, <1>0 DEF Reinstall
  <2>2. ASSUME NEW d \in Dirs, Stage(d) PROVE CInv'
    BY <2>2, <1>0 DEF Stage
  <2>3. CASE ClearDestination
    BY <2>3, <1>0 DEF ClearDestination
  <2>4. CASE Move
    BY <2>4, <1>0 DEF Move
  <2>5. CASE Record
    BY <2>5, <1>0 DEF Record
  <2>6. CASE Prune
    BY <2>6, <1>0 DEF Prune
  <2>7. CASE Point
    BY <2>7, <1>0 DEF Point
  <2>8. CASE Abort
    BY <2>8, <1>0 DEF Abort
  <2>9. CASE Publish
    BY <2>9, <1>0 DEF Publish
  <2>10. CASE UserEdits
    BY <2>10, <1>0 DEF UserEdits
  <2>11. CASE Setup
    BY <2>11, <1>0 DEF Setup
  <2> QED
    BY <1>2, <2>1, <2>2, <2>3, <2>4, <2>5, <2>6, <2>7, <2>8, <2>9, <2>10, <2>11
       DEF InstallNext
<1> QED
  BY <1>1, <1>2

\* CInv holds in every reachable state.
THEOREM CInvHolds ==
    InstallSpec => []CInv
<1>1. InstallInit => CInv
  BY InstallAssumption
  DEF InstallInit, CInv, RInv, Placing, Recorded, RecordedOnDisk, Managed, Retained
<1>2. InstallTypeOK /\ CInv /\ [InstallNext]_installVars => CInv'
  BY CStep
<1> QED
  BY <1>1, <1>2, InstallTypeCorrect, PTL DEF InstallSpec

\* Until an operation breaks off, the managed path in config.yaml is on disk, unless
\* that install was last asked for as the previous one: an upgrade leaves no moment
\* in which the Router cannot be started.
THEOREM ConfiguredOnDiskHolds ==
    InstallSpec => []ConfiguredOnDisk
<1>1. InstallTypeOK /\ CInv => ConfiguredOnDisk
  BY InstallAssumption
  DEF InstallTypeOK, CInv, RInv, Recorded, RecordedOnDisk, Managed, ConfiguredOnDisk
<1> QED
  BY <1>1, CInvHolds, InstallTypeCorrect, PTL

\* Until an operation breaks off, the disk holds the active and the previous
\* install only between operations.
THEOREM OnlyRetainedHolds ==
    InstallSpec => []OnlyRetained
<1>1. CInv => OnlyRetained
  BY DEF CInv, Retained, OnlyRetained
<1> QED
  BY <1>1, CInvHolds, PTL

\* Until an operation breaks off, each one leaves a managed configuration at the
\* active install.
THEOREM FollowsUnbrokenHolds ==
    InstallSpec => FollowsUnbroken
<1>1. InstallTypeOK /\ CInv /\ [InstallNext]_installVars =>
        [~broken /\ Point =>
            configured' \in {Custom, NoConfig, activeInstall}]_installVars
  BY InstallAssumption DEF InstallTypeOK, CInv, RInv, Recorded, Managed, Point
<1> QED
  BY <1>1, CInvHolds, InstallTypeCorrect, PTL DEF InstallSpec, FollowsUnbroken
=============================================================================
