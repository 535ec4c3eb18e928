------------------------------ MODULE StorageWatch ------------------------------
(***************************************************************************)
(* The watch over the model storage (core/modelcatalog/local.go) and the   *)
(* goroutine that makes the Router read its sources again                  *)
(* (bootstrap/service.go).  An inventory is the list of finished model     *)
(* files; only whether two of them are equal matters.                      *)
(***************************************************************************)
EXTENDS Naturals, Sequences, FiniteSets

CONSTANTS Inventories,   \* of the storage directory
          None,          \* no inventory
          MaxMoves       \* bound: changes of the storage and of the Router

ASSUME StorageAssumption == None \notin Inventories /\ MaxMoves \in Nat

VARIABLES disk,       \* what the storage directory holds
          watch,      \* localWatchState
          token,      \* the channel of changes, of capacity one
          reading,    \* watchModelStorage is in its refresh
          loaded,     \* what the Router read, None while it is stopped
          moves,
          excused     \* history: a refresh failed for good, or the storage is again
                      \* what the watch knows while the Router read something else

storageVars == <<disk, watch, token, reading, loaded, moves, excused>>

StorageInit ==
    /\ disk \in Inventories /\ loaded \in {disk, None}
    /\ watch = [current |-> None, candidate |-> None, initialized |-> FALSE]
    /\ token = FALSE /\ reading = FALSE /\ moves = 0 /\ excused = FALSE

Unread(files) == loaded \notin {None, files}

\* Files are finished, replaced, renamed or removed.
StorageChanges ==
    /\ moves < MaxMoves /\ moves' = moves + 1
    /\ disk' \in Inventories \ {disk}
    /\ excused' = (excused \/ (disk' = watch.current /\ Unread(disk')))
    /\ UNCHANGED <<watch, token, reading, loaded>>

\* The Router is started, restarted or refreshed by anyone else, or stopped.
RouterMoves ==
    /\ moves < MaxMoves /\ moves' = moves + 1
    /\ loaded' \in {disk, None}
    /\ UNCHANGED <<disk, watch, token, reading, excused>>

\* localWatchState.observe: the next state, and whether a change is reported.
Observe(next) ==
    CASE ~watch.initialized      -> <<[current |-> next, candidate |-> None, initialized |-> TRUE], FALSE>>
      [] next = watch.current    -> <<[watch EXCEPT !.candidate = None], FALSE>>
      [] next # watch.candidate  -> <<[watch EXCEPT !.candidate = next], FALSE>>
      [] OTHER -> <<[watch EXCEPT !.current = next, !.candidate = None], TRUE>>

\* watchLocal: one tick; a list that fails is passed over.
Scan ==
    /\ watch' = Observe(disk)[1]
    /\ token' = (token \/ Observe(disk)[2])
    /\ excused' = (excused \/ (~watch.initialized /\ Unread(disk)))
    /\ UNCHANGED <<disk, reading, loaded, moves>>

\* watchModelStorage
TakeChange ==
    /\ token /\ ~reading
    /\ token' = FALSE /\ reading' = TRUE
    /\ UNCHANGED <<disk, watch, loaded, moves, excused>>

\* RefreshRouterSources: a conflict is tried again, any other failure is logged.
MutConflict == reading' = FALSE
Conflict == UNCHANGED reading

RefreshRefused ==
    /\ reading /\ Conflict
    /\ UNCHANGED <<disk, watch, token, loaded, moves, excused>>

RefreshEnds ==
    /\ reading /\ reading' = FALSE
    /\ \/ loaded' = (IF loaded = None THEN None ELSE disk) /\ UNCHANGED excused
       \/ excused' = TRUE /\ UNCHANGED loaded
    /\ UNCHANGED <<disk, watch, token, moves>>

StorageStep == StorageChanges \/ RouterMoves \/ Scan \/ TakeChange \/ RefreshRefused \/ RefreshEnds

----------------------------------------------------------------------------
(* Properties *)

\* "refreshes after finalized .gguf files are added, changed, renamed, or
\* removed": a running Router reads at last what the storage holds, unless its
\* refresh failed, or it had read something the watch never reported.
StorageReached == Unread(disk) ~> (~Unread(disk) \/ excused)
=================================================================================
