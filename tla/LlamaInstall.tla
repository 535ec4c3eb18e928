---------------------------- MODULE LlamaInstall ----------------------------
(***************************************************************************)
(* The installer of llama.cpp (core/llamainstall): `llama install` and     *)
(* `llama upgrade` under the file lock install.lock, the installs below    *)
(* ~/.llamarig/llama.cpp, state.json, and router.executable of             *)
(* config.yaml.  The steps of the lock's holder are separate actions:      *)
(* each may fail, and the process may be killed between any two.  The      *)
(* names it would share with ModelDownload say install.                    *)
(***************************************************************************)
CONSTANTS
    Tags,       \* release tags of llama.cpp
    Builds,     \* a backend with prebuilt or source
    NoInstall,  \* no record in state.json
    Default,    \* router.executable is absent or "llama-server"
    Custom,     \* router.executable is a path of the user's
    NoConfig    \* there is no config.yaml

\* An install's directory is <tag>/<os>-<arch>-<build>; it names the executable.
Dirs == [tag : Tags, build : Builds]

ASSUME InstallAssumption ==
    /\ NoInstall \notin Dirs
    /\ Default \notin Dirs
    /\ Custom \notin Dirs \cup {Default}
    /\ NoConfig \notin Dirs \cup {Default, Custom}

VARIABLES
    latest,     \* the tag GitHub calls the latest release
    dirs,       \* the complete installs on disk
    activeInstall, \* state.json: Active
    previous,   \* state.json: Previous
    configured, \* router.executable
    step,       \* the next step of the lock's holder, "idle" without one
    next,       \* its locals: the install it makes,
    old,        \* the active one it found
    oldest      \* and the previous one it found

VARIABLES
    broken,     \* for the properties: an operation has broken off
    again       \* and the installs that were last asked for as the previous one

locals == <<next, old, oldest>>
history == <<broken, again>>
installVars ==
    <<latest, dirs, activeInstall, previous, configured, step, next, old, oldest, history>>

InstallInit ==
    /\ latest \in Tags
    /\ dirs = {}
    /\ activeInstall = NoInstall
    /\ previous = NoInstall
    /\ configured \in {Default, Custom, NoConfig}
    /\ step = "idle"
    /\ next = NoInstall
    /\ old = NoInstall
    /\ oldest = NoInstall
    /\ broken = FALSE
    /\ again = {}

-----------------------------------------------------------------------------
(* Install and Upgrade *)

\* The release is the active one already: only state.json and the configuration
\* are written.
Reinstall(d) ==
    /\ step = "idle"
    /\ d.tag = latest
    /\ d = activeInstall
    /\ next' = d
    /\ old' = d
    /\ step' = "point"
    /\ UNCHANGED <<latest, dirs, activeInstall, previous, configured, oldest, history>>

\* The payload has been downloaded or built in a staging directory, and its
\* executable answered --version.  What fails before that changes nothing.  The
\* previous install is staged like any other.
Stage(d) ==
    /\ step = "idle"
    /\ d.tag = latest
    /\ d # activeInstall
    /\ next' = d
    /\ old' = activeInstall
    /\ oldest' = previous
    /\ step' = "clear"
    /\ again' = IF d = previous THEN again \cup {d} ELSE again \ {d}
    /\ UNCHANGED <<latest, dirs, activeInstall, previous, configured, broken>>

\* Whatever an earlier attempt left at the destination is removed.
ClearDestination ==
    /\ step = "clear"
    /\ dirs' = dirs \ {next}
    /\ step' = "move"
    /\ UNCHANGED <<latest, activeInstall, previous, configured, locals, history>>

Move ==
    /\ step = "move"
    /\ dirs' = dirs \cup {next}
    /\ step' = "record"
    /\ UNCHANGED <<latest, activeInstall, previous, configured, locals, history>>

\* Mutant: the install that is replaced is not kept as the previous one.
MutRecord ==
    /\ step = "record"
    /\ activeInstall' = next
    /\ previous' = oldest
    /\ step' = "prune"
    /\ UNCHANGED <<latest, dirs, configured, locals, history>>

\* state.json is replaced by a rename.
Record ==
    /\ step = "record"
    /\ activeInstall' = next
    /\ previous' = old
    /\ step' = "prune"
    /\ UNCHANGED <<latest, dirs, configured, locals, history>>

\* Mutant: the install that was active until now is pruned.
MutPrune ==
    /\ step = "prune"
    /\ dirs' = dirs \ {old}
    /\ step' = "point"
    /\ UNCHANGED <<latest, activeInstall, previous, configured, locals, history>>

\* The install before the previous one goes, even if it is the one just made; an
\* error is ignored.
Prune ==
    /\ step = "prune"
    /\ \/ dirs' = IF oldest # old THEN dirs \ {oldest} ELSE dirs
       \/ UNCHANGED dirs
    /\ broken' = (broken \/ (oldest \notin {old, next} /\ oldest \in dirs'))
    /\ step' = "point"
    /\ UNCHANGED <<latest, activeInstall, previous, configured, locals, again>>

\* configure and SetRouterExecutable: the path is replaced if it is the default
\* or the active install that this operation found.
Point ==
    /\ step = "point"
    /\ configured' = IF configured \in {Default, old} THEN next ELSE configured
    /\ step' = "idle"
    /\ UNCHANGED <<latest, dirs, activeInstall, previous, locals, history>>

\* A step fails, or the process dies: the lock is free again.
Abort ==
    /\ step # "idle"
    /\ step' = "idle"
    /\ broken' = TRUE
    /\ UNCHANGED <<latest, dirs, activeInstall, previous, configured, locals, again>>

-----------------------------------------------------------------------------
(* The world *)

Publish ==
    /\ latest' \in Tags \ {latest}
    /\ UNCHANGED <<dirs, activeInstall, previous, configured, step, locals, history>>

UserEdits ==
    /\ configured # NoConfig
    /\ configured' \in {Default, Custom}
    /\ UNCHANGED <<latest, dirs, activeInstall, previous, step, locals, history>>

\* The setup form writes config.yaml with the default, a path of the user's, or
\* the executable that the install it offered returned.
Setup ==
    /\ step = "idle"
    /\ configured = NoConfig
    /\ configured' \in {Default, Custom, activeInstall} \ {NoInstall}
    /\ UNCHANGED <<latest, dirs, activeInstall, previous, step, locals, history>>

-----------------------------------------------------------------------------
InstallNext ==
    \/ \E d \in Dirs : Reinstall(d) \/ Stage(d)
    \/ ClearDestination \/ Move \/ Record \/ Prune \/ Point \/ Abort
    \/ Publish \/ UserEdits \/ Setup

InstallSpec == InstallInit /\ [][InstallNext]_installVars

-----------------------------------------------------------------------------
(* Properties *)

\* Every variable stays in its range, and the locals are those of an operation
\* that knows what it makes.
InstallTypeOK ==
    /\ latest \in Tags
    /\ dirs \subseteq Dirs
    /\ activeInstall \in Dirs \cup {NoInstall}
    /\ previous \in Dirs \cup {NoInstall}
    /\ configured \in Dirs \cup {Default, Custom, NoConfig}
    /\ step \in {"idle", "clear", "move", "record", "prune", "point"}
    /\ next \in Dirs \cup {NoInstall}
    /\ old \in Dirs \cup {NoInstall}
    /\ oldest \in Dirs \cup {NoInstall}
    /\ broken \in BOOLEAN
    /\ again \subseteq Dirs
    /\ step # "idle" => next \in Dirs

\* What state.json records is on disk, at every step and wherever an operation
\* breaks off, but for an install that was last asked for while it was the
\* previous one: activate replaces the recorded directory of such a one, records
\* it as active and then removes it as the oldest.
RecordedOnDisk == {activeInstall, previous} \ ({NoInstall} \cup again) \subseteq dirs

\* A managed path in config.yaml is an install that is on disk, at every step:
\* the daemon can start the Router while an upgrade is going on.  The same
\* installs are excepted, and what follows an operation that broke off.
ConfiguredOnDisk ==
    ~broken /\ configured \in Dirs \ again => configured \in dirs

\* The README: the installer points config.yaml at the llama-server it has
\* installed.  Between operations, none of which broke off, the path exists.  It
\* fails when an install is asked for again while it is the previous one.
PointsAtInstall ==
    ~broken /\ step = "idle" /\ configured \in Dirs => configured \in dirs

\* Between operations the active and the previous install are all there is:
\* upgrades do not fill the disk.
OnlyRetained == ~broken /\ step = "idle" => dirs \subseteq {activeInstall, previous}

\* An operation that ends well leaves a managed configuration pointing at the
\* active install.
FollowsUnbroken ==
    [][~broken /\ Point => configured' \in {Custom, NoConfig, activeInstall}]_installVars

-----------------------------------------------------------------------------
(* What each step of the lock's holder knows.  RecordedOnDisk needs that the *)
(* destination is not recorded while it is replaced, or in again;            *)
(* ConfiguredOnDisk that a managed path is the active install or, until      *)
(* Point, the one before.                                                    *)

Placing ==
    step \in {"clear", "move", "record"} =>
        /\ activeInstall = old
        /\ previous = oldest
        /\ next # activeInstall
        /\ next = previous => next \in again
        /\ step = "record" => next \in dirs

Recorded ==
    /\ step = "prune" => activeInstall = next /\ previous = old
    /\ step = "prune" /\ next = oldest => next \in again
    /\ step = "point" => activeInstall = next /\ old \in {next, previous}

RInv == Placing /\ Recorded /\ RecordedOnDisk

Managed ==
    configured \in Dirs =>
        configured = activeInstall \/ (step \in {"prune", "point"} /\ configured = old)

Retained ==
    /\ dirs \subseteq {activeInstall, previous, next, oldest}
    /\ step \in {"clear", "move"} => dirs \subseteq {activeInstall, previous, next}
    /\ step \in {"idle", "point"} => dirs \subseteq {activeInstall, previous}

CInv == RInv /\ (~broken => Managed /\ Retained)
=============================================================================
