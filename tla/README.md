# LlamaRig in TLA+

LlamaRig supervises one `llama-server` process (the Router), keeps its Presets
in `models.ini` and its own settings in `config.yaml`, and answers requests of
a command line, a terminal UI, a web UI and MCP through one control daemon.
This directory models the parts of it that keep state and run concurrently.
Paths below are relative to `src/`.

## Inventory

| Part | State | Operations | What is hard | What makes it correct |
|---|---|---|---|---|
| Router supervisor `core/runtime` | `cmd`, `done`, `pid`, `ready` under `mu` | Start, Stop, Status, Recover; a waiter goroutine per child | exits racing operations, signals and deadlines, daemon crashes, pid reuse | one Router, and it is the tracked one; "stopped" is true; the mutex comes back |
| PID files `platform/pidfile` | `router.pid`, `llamarig.pid` | Write, Running, Remove(expected) | removal racing the next write | it names the live process, and no dead one |
| Control manager `core/control` | `busy` and the locals of one operation | start, stop, restart, put, delete, cleanup, delete model, autostart, refresh | a sequence of fallible calls to two documents, the disk, the supervisor and the Router's HTTP API | references name existing Presets; no file is pulled from a loaded Preset; active Presets come back; a failed creation leaves nothing |
| Preset store `core/modelpresets` | `models.ini` | List, Get, Put, Delete | line editing of a file users edit too | Put and Delete touch one section, and what was put is what is read |
| Config store `core/configstore`, `platform/filedoc`, parsing in `config` | `config.yaml`, its backup | two reference mutations, services, executable | several processes, crash between backup and rename, absent and null nodes | no lost change, never a file that cannot be read |
| Setup `core/setup` | both documents | first run, forced run | one file of two written | the same |
| Local models `core/modelcatalog/local.go` | storage directory, the last two scans | ListLocal, DeleteLocal, watch | debounce, coalescing, a refused refresh | the Router reads what the storage holds |
| Hugging Face catalog `core/modelcatalog` | a cache file per query, refreshes under way, watchers | List, background refresh, watch | fetches that overlap, events dropped or failed | the cache does not go back; who waits for a refresh hears of it |
| Download manager `core/modeldownload` | jobs and the active destinations | Start, Get, Cancel; one goroutine per job | cancel against finish, start against cancel | one job per file; a file appears whole or not at all |
| llama.cpp installer `core/llamainstall` | installs, `state.json`, the configured path | install, upgrade | crash between four writes | the configured executable exists |
| Event store `core/control/events.go`, stream in `core/rpc` | ring, subscribers | Record, WatchEvents(after) | slow subscribers, eviction, reconnection, restart | no event twice, order kept, no silent gap |
| Logs `platform/audit` | active log, archives | archive, tail, follow | rotation under a follower | a follower prints each line once |
| Detached services `platform/process` | PID file, child | start, status, stop | a daemon that dies or two commands in between | `down` finds what `up` started |
| Daemon composition `bootstrap`, `cmd/serve.go`, `core/rpc/internal_server.go` | the control socket | boot, recover, bind, shutdown | a second daemon | one daemon serves, is reachable, and manages the Router |
| Terminal dashboard `adapters/tui/tabs` | snapshot, poll, locks, selection | poll, actions, deletion with confirmation, autostart | messages that arrive late or are dropped | nothing goes back; the selected model is the deleted one; a Stop is remembered |
| Signals, RPC translation, HTTP, MCP, web UI, help parser, payloads | none that a decision rests on | | | |

Interaction: every adapter calls the RPC server over the control socket; nearly
each RPC method is one operation of the control manager; the storage watcher
calls its refresh. The manager calls the stores, the supervisor and the Router's
HTTP client. The supervisor owns the process and the PID file. Nothing calls
back into the manager.

## Modules

A module stands for the code on its own side of an interface and abstracts the
other side: `ControlManager` sees the supervisor as "up" or "stopped", `Daemon`
sees the Router as one process. Modules that extend one another compose: their
actions are interleaved in one next-state relation.

| Module | Models | Extends |
|---|---|---|
| `RouterProcess` | supervisor, waiter goroutines, operating system | |
| `ControlManager` | the operations of the manager, call by call | |
| `PresetCatalog` | what the manager promises (abstract) | |
| `ModelDownload` | jobs, goroutines, `.part` files | |
| `LlamaInstall` | install and upgrade | |
| `EventStream` | event store, WatchEvents, clients | |
| `ConfigFile` | edits of the YAML tree, parsing, validation (operators) | |
| `PresetFile` | lines of `models.ini`: reading and editing (operators) | |
| `Documents` | who writes the two documents, and how | `ConfigFile`, `PresetFile` |
| `LogFiles` | log, archives, follower | |
| `Daemon` | commands, daemons, socket, Router | `LogFiles` |
| `Dashboard` | the dashboard's Model and its commands | |
| `StorageWatch` | scans, debounce, watcher goroutine | |
| `Catalog` | catalog, cache, refreshes, watchers | `StorageWatch` |

The `MC` modules define symmetry sets, records and scopes for the runs
(`MCDownloads` holds `ModelDownload` and `LlamaInstall`, which share no state: a
behaviour moves the one its scope names); the
`_proofs` modules hold the theorems of the module they are named after,
`Downloads_proofs` those of `ModelDownload` and `LlamaInstall`. Some modules have a variable `scope`, chosen in `Init` and never changed: it says
which inputs a behaviour uses, so that one run explores several small instances
and not their product. `Mut...` operators are mutated forms of the definition
after them and are used by no specification.

`RouterProcess` models one `LlamaServer` value, the goroutine of each child
and the operating system. The mutex `r.mu` is the variable `phase`: `idle` when
free, otherwise how far its holder got, so that the kernel, the waiters and a
crash of the daemon act between the holder's steps. `gen` numbers the Starts of
one daemon; `child[i]`, `waiter[i]` and `chan[i]` are the pid, the goroutine and
the `done` channel of Start `i`. `pidfile.Remove` reads, compares and unlinks: a
waiter, which does not hold `r.mu`, takes the read (`WaiterLook`) and the unlink
(`WaiterUnlink`) as separate steps; for the holder of `r.mu` they are one, since
beside it only a waiter touches the file, to delete it. The PID file survives a
crash; `Boot` is `Recover` with a record that can be read and names the configured
executable (`Daemon` has the other outcomes). `proc` is the process table: a Router that exits is a zombie while
its waiter lives and is gone otherwise; with `PidReuse` a freed pid may be
taken by another Router or a foreign program. `LateExit` lets a waiter be
delayed past the next Start, `UnrecordedCrash` lets the daemon die between
`cmd.Start` and the write of the PID file.

`ControlManager` models `core/control.Manager` with any number of client
goroutines. An operation is `pc[c]`, the next call it makes; every call that can
fail or change something is a step, and each step has the outcomes the callee
has: success, failure without effect and, where the callee may have acted
before it failed, failure with effect. Between two calls the Router may die,
drop a Preset, load one for its own users (`OutsideLoads`), files may come and
go, and the daemon may be killed and started again. A document is written by a
rename and a sync of its directory after it (`platform/filedoc/filedoc.go:148-153`),
so each write may fail with the change in place. `StartAutostartPresets` of
`bootstrap/service.go` is a sequence of start operations of one client.

`PresetCatalog` is the abstract specification: Presets, the references to them
and the loaded ones, changed in single steps whose guards hold at that very
step. `ControlManager` implements it (property `AtomicCatalog`; the refinement
mapping is the identity on the four variables, `ShortLists` says which autostart
lists a valid configuration holds).

`ModelDownload` models `core/modeldownload.Manager`. Its maps are `state` and
`target` (the jobs), `active` and `cancels`; `stopped` holds the jobs whose
context is cancelled. `m.mu` is held inside one action. The goroutine of job `i`
is `pc[i]`: it opens the request, creates `<target>.part`, copies, looks at its
context, renames, reports and clears. `part[t]` says which job created the
`.part` file last, so that the rename of a file another job is still filling
shows as "broken". `request[c]` is a Start that has seen the catalog and has not
yet taken the mutex. A body that ends early is an error of the copy: the HTTP
client reports a short body when the length is announced.

`LlamaInstall` models `llama install` and `llama upgrade` from `install.lock` to
the configured path. The lock admits one process at a time, so `step` and three
locals are enough; each call that changes the disk, `state.json` or
`config.yaml` is a step, and the operation may break off before any of them;
the history variable `broken` remembers that one did. A user may ask for any
install, the previous one included; `again` holds the installs that were last
asked for while they were the previous one.

`EventStream` composes `EventStore` with the handlers of `WatchEvents` and
clients that come back with the last ID they got. `Record` assigns an ID,
evicts and offers the event to every channel in one action, as it does under the
store's mutex; `Watch` subscribes and takes the backlog in one action, as
`SubscribeAndList` does; the handler then sends first `todo[w]` and afterwards
what is in `chan[w]`. `recorded` counts the events of all daemons, `base` is
where the daemon of today began, so an event's ID is its number less `base`. The
client goes away at any moment, and the deferred unsubscribe comes later. The
history `lost[w]` holds what a full channel or the ring dropped; `crossed[w]`
says that the client named an ID of an earlier daemon.

`ConfigFile` represents `config.yaml` by the nodes the code distinguishes:
`startup_services`, `router`, its `autostart_presets`, `models_max`,
`default_preset` and `executable`; a node may be absent, null, or hold a value.
Each editing function of `config_store.go` is an operator from tree to tree,
`Settings` is what `config.Load` makes of a tree, `Valid` what it refuses. In the
same way `PresetFile` represents `models.ini` by its lines (blank, comment,
header, entry, a line without "="), and `PutSection` and `DeleteSection` rewrite
the lines as the code does: aliases of a key, repeated headers and trailing
blank lines included. A text is a pair: a model value, and whether it carries
what reading cuts away (spaces around a name, a comment behind a value).

`Documents` puts both files on disk. `job[p]` is the write a process is in:
backup, rename, sync, with a failure possible at any, and `Setup` writes one
file after the other. The daemon's operations run one at a time (the busy flag),
save `ApplyModelDownloadToPreset`, which reads a Preset before it takes the flag
(`ReadForApply`, `Apply`); a command of the same user writes beside it; an
editor leaves any of a set of files. A request travels with its write (`ask`);
the history `want` is changed as it asks (`Asked`: settings and Presets, no text)
when the file is replaced, so `ConfigAsAsked` and `PresetsAsAsked` say that the
edits of the text, one after the other, did what the requests asked. A write that
replaces a version it has not read sets `raced`, and `want` follows that file no
further until the user edits it by hand. A missing `models.ini` reads as `NewFile`.

`Daemon` models processes 1..`MaxDaemons` from start to death, the commands
`up`, `status` and `down` as sequences of calls of `detached.go`, the control
socket as a file that belongs to a listener, and the Router as one process that
outlives a daemon that dies: `recorded` in `router.pid`, or `lost`, in no record. A
daemon boots and looks for the Router (`RecoverRouter`): it adopts it, or refuses it
and removes its record, or fails to read the record; whatever the end, it goes on,
may start a Router for its autostart Presets, dials the socket, removes it when
nobody answers, binds it, serves, and on SIGTERM removes the socket and stops the
Router it manages. A daemon that starts a Router beside one it does not manage
(`Launch`) cannot bind the Router's port: the new process ends, and the record that
was written over goes with it. `LogFiles` gives it its log: `up` archives the
log that is there and opens a new one; each line is written at once; archives
are deleted; a follower stats and opens the path in two steps.

`Dashboard` is the bubbletea Model: a message at a time, and the commands it
started running beside it. `polls` are the polls under way, each with fields
still to be read; `cmds` are the actions, by the key that started them, from the
request to their result; `snapshot` keeps each field with the time it was read,
`changed` the time config and files last changed. Other clients change all of
it at any time.

`StorageWatch` is `watchLocal` and `watchModelStorage`: an inventory is a model
value, `Observe` is `localWatchState.observe`, `token` the channel of capacity
one. `Catalog` adds `List` with the cache file of each query, the refresh tasks
and the broker. The content of a cache file is the version of the hub it was
fetched from, which is all that the properties tell apart.

## Runs

| Run | Question | Distinct states |
|---|---|---|
| `router_process` | do supervisor, PID file and process table agree, is every exit collected, and does each operation give the mutex back, when exits are reported before the next Start? | 82,287 |
| `router_process_stale_exit` | is there a single supervised Router with late exits? No: see Findings | |
| `router_process_lost_record` | does an old process never delete the record of its replacement, with late exits? No: see Findings | |
| `control_manager` | references, files of loaded Presets, implementation of `PresetCatalog`, active Presets active again after a refresh that answers "succeeded", with failing calls, a dying Router and daemon restarts, while lists are answered | 487,948 |
| `control_manager_outside` | what holds when the Router also loads on its own users' requests and lists fail: rollback, cascade, a stopped Router stays stopped; does every operation end? | 308,274 |
| `downloads` | models: one writer per file, whole files, no forgotten `.part`, final answers, with cancels, errors and crashes; does a cancelled download free its destination, even if the server is silent? llama.cpp: do `state.json`, wherever an operation breaks off, and `config.yaml`, until one does, name installs on disk, but for one asked for again? are no others kept? | 443,154 |
| `llama_install_again` | does an install point `config.yaml` at an executable that is there, even the previous one asked for again? No: see Findings | |
| `event_stream` | over disconnections and restarts: order, no repetition, no gap but the accounted ones; does an event reach who is connected? | 309,956 |
| `documents` | do the files say what all accepted requests together ask for, and does no write spoil a good file? | 546,692 |
| `daemon` | is each daemon found by `down`, the serving one reached and the manager of the recorded Router, though recovery may fail, and does a follower print each line once? | 1,771,434 |
| `dashboard` | is nothing shown replaced by something older, is the model deleted that was selected, is a change shown at last, is a Stop remembered? | 172,514 |
| `catalog` | does the cache never go back, does a client that waits hear of the refresh, does the Router read what the storage holds? | 304,713 |

All pass but the three that "Findings" is about. Where deadlock checking is off, the
model uses up its bounds and may stop.

### Bounds

- `RouterProcess`: three Starts per daemon and two boots, over two pids, which are
  reused; two or three Starts and three pids for the counterexamples. A hazard of the supervisor
  relates one child, its replacement and the record of either; a third Start
  shows that the state left by the second is as good as the initial one, and a
  second boot meets every state a crash can leave.
- `ControlManager`: two clients, because the flag admits one and refuses the
  other; three Presets (one asked for, one referenced, one loaded) where the
  interplay of the three matters, two elsewhere; one model file and one
  directory; `router.models_max` of 2 for three Presets, or of 1 for two, so that
  capacity is reached.
- `ModelDownload`: three jobs and one file, since jobs of different files meet
  nowhere (the proofs cover any number), and two callers, one of which holds a
  stale look at the catalog. Nothing in the code frees a job's identifier; a
  crash gives them back.
- `LlamaInstall`: two releases and two builds; the oldest, the previous and the
  new install differ, any of the four may be left over from a failed operation, and
  each may be asked for again. One release and two builds for the counterexample.
  The proofs cover any number of each.
- `EventStream`: a ring of two and a channel of one, so that both overflow with
  four events; two watchers, of which one may be slow; two boots, so that an ID of
  the first daemon can name an event of the second. The proofs cover any bounds.
- `Documents`: two writes and one hand edit (the proofs cover any number); two
  processes. A lost update needs two writes, a null node or a line without "=" one
  edit. The hand-made files hold each kind of node and line that the code treats
  apart.
- `Daemon`: three daemons and two commands: one that serves, one that died, one
  that comes. Three scopes: two commands at once; a command
  beside foreground daemons and a Router that is used; a command beside a log of two
  lines that is followed with a tail of one. The proofs cover any number of daemons and commands.
- `Dashboard`: up to three keys and two changes, in four scopes (the controls of the
  gateway, those of the daemon with and without the launch, the model list): a Stop,
  the action that overtakes it and one more; two model files, so that a poll may put
  another row under the cursor.
- `Catalog`: two clients, one query (queries share nothing but the broker), four
  lists, two expiries, two versions of the hub; three inventories, so that one
  scan can differ from both the current and the candidate one.

### Fairness

`RouterProcess` asks weak fairness of the goroutines (the Go scheduler runs what
can run) and of the death of a process that was sent SIGKILL. The readiness
deadline gets strong fairness: it is real time, and the probe loop it ends
re-enables and disables it. `ControlManager` asks weak fairness of each client's
next call: file operations return, and the HTTP client, the readiness probe and
the stop of the Router have deadlines in the code. Nothing is asked of callers,
files or the Router. `ModelDownload` asks weak fairness of a job's goroutine
except while it waits for the server (`open`, `copy`) with a live context: the
client has no timeout, and a silent server is a legal one. A cancelled context
ends both waits, so there the goroutine is fair again. `EventStream` asks weak
fairness of a handler that has something to send and of its deferred
unsubscribe; a client may leave at any time. `Dashboard` asks it of the tick,
of each command and of each field of a poll (polls have a timeout of two
seconds), and strong fairness of the read of `config.yaml`, a local file that is
read anew with each poll. `Catalog` asks weak fairness of a background refresh,
which has a timeout of 90 seconds, of the scan and of the watcher goroutine;
strong fairness of the end of its refresh, since a refused one is tried again
every 250 ms until the manager's flag is free (`bootstrap/service.go:134`).

## Proofs

`RouterProcess_proofs` proves for every set of pids and any bound on Starts and
boots: `TypeOK` and `ExitErasesRecord`, whatever the environment does; and,
assuming `~LateExit` and `~UnrecordedCrash`, the inductive invariant `IInv` and
from it `SingleRouter`, `LiveRouterRecorded` and `StoppedMeansStopped`. `SingleRouter` alone is not inductive:
that a Stop may forget the pid depends on who reported the exit, so `WaiterOK`
says that only the latest Start has a goroutine at work and that a channel is
filled by its own goroutine, and `ControlOK` and `OwnershipOK` say what each phase
of an operation knows. The two assumptions are necessary: the violation runs show
what a late exit does, and a crash before the record is written leaves a Router
no one can find.

`ControlManager_proofs` proves for any number of clients, Presets and models:
`TypeOK`; `OneOperation`; `RefsExist`, assuming that `config.yaml` is readable;
`LoadedFilesStay` and the implementation of `PresetCatalog`, assuming further
that the Router loads on the manager's request only. The argument is that the
flag makes every operation run alone, so what a check found is still so when a
later call relies on it; `TaskOf` says which operation makes which call,
`ReferenceOf` what it still knows about references, `ActiveOf` what it still
knows about loaded Presets. With `OutsideLoads` the last two are false in the
model as in the code: nothing stops the Router from loading a Preset between
the check and the unlink. Two further invariants are about what an operation
still owes its answer. `OutcomeInv` needs no assumption: `UndoneOf` says that a
creation that brings the Router back has erased its Preset, `CascadeOf` that the
Presets that still name a deleted model are the ones still to be erased, and
`WasUpOf` that who lists or restarts saw the Router up, and `KindOf` that no other
operation than those on a Preset launches one; from them `CreateAtomic`,
`CascadeComplete` and `StoppedStays`. `OwedInv` says that each Preset a change owes
is loaded or on the list of what is to be loaded again (`OwedOf`), that a creation
noted them before it may have to undo (`NotedOf`), and that neither list outgrows
`models_max`, so that the Router takes every load; from it `ActiveRestored`, where
lists are answered (`~ListFails`) and the Router loads on request (`~OutsideLoads`),
as the property's run has it.

`Downloads_proofs` proves about `ModelDownload`, for any number of callers, jobs
and files and without an assumption about the environment, all safety properties
of its run.
`OneWriter` is not inductive: it rests on `ActiveOK`, that the jobs with a
goroutine at work are exactly the ones `m.active` names, which needs
`ActiveTarget`; `WholeFiles` and `NoLitter` rest on `PartOK`, that each `.part`
file belongs to the one job that fills it.

`Downloads_proofs` proves about `LlamaInstall`, for any releases and builds and any
order in which they are asked for: `RecordedOnDisk` with failures and crashes (from
`RInv`: the destination is no recorded install while it is replaced, unless it is in
`again`); and, until an operation breaks off, `ConfiguredOnDisk`, `OnlyRetained` and
`FollowsUnbroken` (from `CInv`: a managed path is the active install or, until the
last step, the one before). Neither exception, `again` or `broken`, can be dropped:
see Findings and Behaviours.

`EventStream_proofs` proves `Ordered` and `NoSilentGap` for any limit of the ring,
capacity of the channels, number of watchers, events and boots. `SInv` adds to
`TypeOK`: `RingOK`, the ring holds the newest events of this daemon without a
hole; `WatcherOK`, what a client has got, then its backlog, then its channel is one
increasing sequence; `CoverOK`, together with what it was passed over for
it covers every event up to the newest. Reconnection is the delicate
step: `after` names the last event got, and the backlog starts right behind it or
behind what the ring forgot.

`Daemon_proofs` proves `Reachable` and `RouterManaged` for any number of daemons
and commands, from `DInv`: `SocketInv` says that, unless two daemons crossed, at
most one is between its dial and its shutdown, and that the socket file is its
own once bound; `RouterInv` that every daemon that has looked for a Router manages
the one that `router.pid` records, unless a record could not be read (`unread`) or
a Router was started after another daemon had looked (`overtaken`). `Recorded` rests on `RecInv`: until
two commands ran at once, one that is on its way to another content of the PID file
has seen that no live daemon is in it. `FollowExact` of `LogFiles`, composed here
with the daemons that write and move the log, rests on `FInv`: lines ascend from
file to file, everything unread is newer than everything printed, and what lies
before the offset was printed.

`Dashboard_proofs` proves `NeverBack` and `DeleteAsShown` for any panels, models,
keys, polls and changes elsewhere. `VInv` says that a poll is under way exactly
when the view believes so and that there is one at most, so what it has read is
no older than what is shown when it lands; and that a deletion that waits for its
second key is of the model that was selected at the first. `SeenStopRemembered`
needs `KnownOK`, that a reading of `config.yaml` no older than its last change says
what is in it, and `StopOK`, that at most one command of the gateway acts on what
was shown and that it writes from what it read.

`Catalog_proofs` proves `NeverOlder` for any clients, queries and versions of the
hub. `CInv` says that a query has one refresh at most, and only while its key is
taken; and that, unless two fetches of it overlapped, at most one List or
refresh fetches it and holds a version no older than the cache.

`Documents_proofs` proves `ConfigAsAsked`, `PresetsAsAsked` and `NeverSpoiled` for
any names, values and lists asked for, any documents a user leaves, and any number of
writes and hand edits. `DocumentsAssumption` asks only that the constants stand for
documents: a tree has items under a sequence alone, an executable is not empty, a
Preset has finitely many keys, and what setup writes is valid. The properties are not
inductive, for while a write waits, other processes go on: `IInv` adds `JobsOK`, that
what is to be written is valid, and is the text that was read, changed as asked and
in nothing else. That is kept because the fact is about the text that was read
(`base`), not the file there now; if they are the same at the rename, `want` makes the
same step, and if not, the write has raced. Most of the proof is about the edits.
`Edits` says for each of the four of `config.yaml` that the settings of the edited
tree are those asked for. For `models.ini`, `Keeps` relates a text to a part of it
that keeps or drops whole sections, and gives that every other Preset reads as before
(`KeptSections`); from it what `PutSection` and `DeleteSection` do
(`PutFacts`, `DeleteFacts`), where a section ends before the comments of the next one.

Only model-checked: the liveness properties (`ExitCollected`, `MutexReleased`,
`GateReleased`, `CancelFrees`, `Delivered`, `ConfigShown`, `Announced`,
`StorageReached`; the prover has no fairness and no ENABLED).

## Findings

`router_process_stale_exit`: the waiter of a finished child reads `r.done`
without the mutex, after it removed the PID record
(`core/runtime/llama_server_runtime.go:119-121`). If a Start replaces the
field in between, the old exit is delivered as the new child's, and the next
operation forgets a live Router. `CONTEXT.md:10` promises one.

`router_process_lost_record`: the same waiter removes the record without the mutex,
and `Remove` (`platform/pidfile/pidfile.go:43-62`) reads the file, compares and
unlinks in three calls. If the next Start writes its pid between the read and the
unlink, the record of the running Router is gone and a later daemon cannot recover
it. `docs/adr/0007-pid-file-runtime-recovery.md:35-37` says that removal is
conditional "so an old process cannot delete a replacement process's record".

`llama_install_again`: after `install` of A, of B and of A again on one release,
`activate` removes the directory of A, which it has just recorded as active, and
points `config.yaml` at it (`core/llamainstall/llamainstall.go:215` compares the old
Previous record with the install that is replaced, not with the one just made).
`README.md:69-70` says that the installer points a default or managed config at the
`llama-server` it installs.

## Behaviours the properties except

Each property states under which condition it holds. The conditions are not
conveniences: without them the code behaves otherwise, as described here.

Router and manager.
- A recovered Router's identity is compared once; later only its pid is looked at
  (`llama_server_runtime.go:291`), and Stop signals whatever has it. Its readiness
  is probed once (`:89`): one that was loading stays unready.
- One unanswered list makes a refresh restart the Router with nothing to restore
  and answer "succeeded" (`core/control/router_refresh.go:41`): `ActiveRestored` is
  checked while lists are answered.
- A stop of one Preset goes through `ensureRouter` like a start
  (`core/control/runtime_controller.go:55-66, 157-171`) and launches a Router that was
  stopped. `StoppedStays` is about the operations that change or refresh sources.
- A creation whose read-back fails (`core/control/presets.go:65`) answers "failed"
  without a rollback and leaves the Preset; `CreateAtomic` is about answers that
  speak of a rollback.
- With `config.yaml` unreadable, the check of a deletion consults the configuration
  of daemon startup (`core/control/manager.go:117`) and lets a configured Preset go.

Downloads and installs.
- Jobs are never removed from the map (`core/modeldownload/manager.go:87`). A
  Cancel after the last look at the context answers "cancelled" though the file
  is put in place (`:191`).
- Going back to the previous install removes it (Findings): `RecordedOnDisk` and
  `ConfiguredOnDisk` except such an install (`again`). When an upgrade ends between the writes of `state.json` and
  `config.yaml`, no later operation recognises the managed path (`:167`).

Events. IDs start again at 1 with each daemon; a client that names an ID of an
earlier one is given the events behind that number of the new one (`crossed`).

Documents.
- Two processes that write `config.yaml` lose a change (`raced`;
  `core/configstore/config_store.go:100` holds a mutex of its own process only).
- A name with spaces around it is accepted, and the file cannot be read or the
  section not be found afterwards; a value with " ;" is cut at the next reading
  (`odd`; `core/modelpresets/store.go:122-135`).
- With `router:` empty (null), configuring an executable panics, and with
  `autostart_presets:` null, enabling autostart answers ok and changes nothing. An
  empty `executable:` reads as the default, but an upgrade leaves it as it is, since
  it is neither the default nor the old path; a first install, which has no old path,
  replaces it (`HasNull`; `core/configstore/config_store.go:82`).
- A first setup that dies between its two files leaves `config.yaml` alone; an
  unforced one replaces a `models.ini` that is there, without a backup.
- `ApplyModelDownloadToPreset` reads outside the flag (`core/rpc/model_rpc.go:162`);
  what was put in between is overwritten (`raced`).

Daemons and logs.
- A recovery that fails is logged and the daemon serves
  (`bootstrap/service.go:108-110`): a Router whose record it could not read runs on
  unmanaged (`unread`). One with another executable than the configured one is not
  adopted and loses its record (`llama_server_runtime.go:84-86`), and so does one
  whose record was written over by the start of another that could not get the port;
  a daemon that dies between a start and its record leaves one as well. They are
  nobody's (`lost`), and `RouterManaged` says nothing of them.
- A second `serve` looks for the Router and starts Presets before it finds the socket
  taken: the first does not manage what it started, nor the second what the first
  started after it had looked (`overtaken`).
- A command that dies after it started a daemon and before it wrote the PID
  (`platform/process/detached.go:48-52`) leaves one without a record; not modelled.
- The shutdown removes the socket's path after its listener did, and may hit a new
  daemon's file; two daemons between dial and bind remove each other's (`crossed`).
- A `status` that finds no process may delete the record of one just started, and two
  starts may both start (`raced`).
- A log moved between a follower's stat and its open is misread (`mixed`).

Dashboard. An explicit Stop pressed before a poll showed the present
configuration compares with an old base, skips the write, and `web` stays in
`startup_services` (`stale`; `adapters/tui/tabs/backend.go:283-302`).

Catalog.
- A fetch without a cache file may overlap a refresh and store what is older
  (`overlap`). A refresh gives its key back after its event, so a client may be told
  of a refresh that has announced its end already (`late`).
- The first scan only sets the base, and an inventory that comes back to the known
  one is not reported, whatever the Router read in between; a failed
  refresh of the sources is logged and not repeated (`excused`).

## Not modelled

Translation layers (RPC apart from the calls above, public HTTP, MCP) and the web
UI keep no state that a decision of the daemon rests on. Signals are sampled on
request. The payloads of llama.cpp (`archive.go`, `source.go`, `backend.go`) work
in a staging directory nothing else reads and end before anything shared changes;
`LlamaInstall` starts behind them. The parsers of help output, repository
listings and quantisation names, the estimates of fit and the scores are
functions of one input without state. Of the dashboard, drawing, scrolling, the log
panes, the Stop of a runtime, and the start, cleanup and autostart of a Preset are
left out: each of the latter is one RPC, whose operation is in `ControlManager`.
Not modelled within modelled parts: size limits and symlink checks of files;
reuse of the PID of a detached service and a PID file written half; lines of a log
that are written in parts. Cached values of the catalog that go stale on their own
(whether a file exists, the fit) are not told apart.
