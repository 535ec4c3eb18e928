---------------------------- MODULE MCDownloads ----------------------------
(***************************************************************************)
(* Instances of ModelDownload and LlamaInstall for TLC.  The two components*)
(* share no state: a behaviour moves the one its scope names, and the other*)
(* rests in one initial state.                                             *)
(***************************************************************************)
EXTENDS ModelDownload, LlamaInstall

VARIABLE scope

allVars == <<scope, vars, installVars>>

ModelsAtRest ==
    /\ part = [t \in Targets |-> NoId]
    /\ file = [t \in Targets |-> "absent"]

InstallerAtRest ==
    /\ configured = Custom
    /\ latest = CHOOSE t \in Tags : TRUE

DownloadsInit ==
    /\ Init
    /\ InstallInit
    /\ \/ scope = "models" /\ InstallerAtRest
       \/ scope = "llama" /\ ModelsAtRest

DownloadsNext ==
    \/ scope = "models" /\ Next /\ UNCHANGED <<scope, installVars>>
    \/ scope = "llama" /\ InstallNext /\ UNCHANGED <<scope, vars>>

\* The fairness of ModelDownload; the installer needs none.
DownloadsSpec ==
    /\ DownloadsInit
    /\ [][DownloadsNext]_allVars
    /\ \A i \in Ids :
          WF_vars((pc[i] \notin {"open", "copy"} \/ i \in stopped) /\ Run(i)
                     /\ UNCHANGED <<scope, installVars>>)
=============================================================================
