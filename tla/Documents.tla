------------------------------- MODULE Documents -------------------------------
(***************************************************************************)
(* config.yaml and models.ini on disk, and who writes them: the daemon (one*)
(* operation at a time, the busy flag of ControlManager), a command of the *)
(* same user (llama.cpp install, setup) in a process of its own, and the   *)
(* user's editor.  A store reads the file, edits what it read and replaces *)
(* the file in steps (platform/filedoc): backup, temporary file, rename,   *)
(* sync.  Only the rename changes the file.                                *)
(***************************************************************************)
EXTENDS ConfigFile, PresetFile

CONSTANTS Puts,          \* Presets a client writes: [name, values]
          ServiceLists,  \* what SetStartupServices is asked for
          Exe, OldExe,   \* the install to configure and the one it replaces, "" for none
          Path,          \* the file a download left
          HandConfigs, HandPresets,   \* what the editor leaves
          SetupConfig, SetupPresets,  \* what setup renders from its answers
          MaxWrites, MaxEdits         \* bounds: operations, hand edits

ASSUME DocumentsAssumption ==
    /\ {DefaultExe, Exe} \cap {"absent", ""} = {}
    /\ \A d \in HandConfigs \cup {SetupConfig} : Document(d)
    /\ Valid(SetupConfig) /\ Readable(SetupPresets)
    /\ \A s \in HandPresets \cup {SetupPresets} : s \in Seq(ToSet(s))
    /\ \A put \in Puts : IsFiniteSet(DOMAIN put.values)

VARIABLES disk,    \* each file: <<>> when it is missing, <<content>> else
          job,     \* the write each process is in
          held,    \* the Preset a download is being applied to, as it was read
          ops, edits,
          \* history
          want,    \* what the writes done so far ask for, each applied as one step
          raced,   \* a write replaced a version of the file it had not read
          odd      \* a padded name or a value with a comment was accepted

vars == <<disk, job, held, ops, edits, want, raced, odd>>

Files == {"config", "ini"}
Processes == {"daemon", "cli"}
Idle == [step |-> "idle"]

\* What a reader gets of a file; models.ini may be missing.
Text(file) == IF file = <<>> THEN NewFile ELSE file[1]
Read(f, file) == IF f = "ini" THEN Sections(Text(file))
                 ELSE IF file = <<>> THEN <<>> ELSE Settings(file[1])
Whole(f, file) == IF file = <<>> THEN f = "ini"
                  ELSE IF f = "config" THEN Valid(file[1]) ELSE Readable(file[1])
\* A key the edits look for is there without a value: they leave it so.  An empty
\* executable is taken for the install to replace when there is none.
HasNull(d) == d.router = "null" \/ d.auto.node = "null" \/ (d.exe = "" /\ OldExe # "")

Begin == ops < MaxWrites /\ ops' = ops + 1
Busy(p) == job[p].step # "idle"

----------------------------------------------------------------------------
(* What an accepted change asks for, given what was asked for before *)

Change(do, name) == [do |-> do, name |-> name]
With(w, name, values) ==
    [n \in DOMAIN w \cup {name} |-> IF n = name THEN values ELSE w[n]]

Asked(ask, w) ==
    CASE ask.do = "enable" ->
           [w EXCEPT !.auto = IF ask.name \in ToSet(@) THEN @ ELSE Append(@, ask.name)]
      [] ask.do = "disable" -> [w EXCEPT !.auto = Without(@, {ask.name})]
      [] ask.do = "forget" -> [w EXCEPT !.auto = Without(@, {ask.name}),
                                        !.preset = IF @ = ask.name THEN "" ELSE @]
      [] ask.do = "services" -> [w EXCEPT !.services = ask.list]
      [] ask.do = "install" -> [w EXCEPT !.exe = IF @ \in {DefaultExe, OldExe} THEN Exe ELSE @]
      [] ask.do = "put" -> With(w, ask.name, ask.values)
      [] ask.do = "delete" -> Restrict(w, DOMAIN w \ {ask.name})
      [] ask.do = "setup" -> ask.all

\* What a race lost is not followed any further.
Follow(f, lost, ask) ==
    want' = IF lost THEN want ELSE [want EXCEPT ![f] = Asked(ask, @)]

----------------------------------------------------------------------------
(* A write (filedoc.writeFile) *)

FirstStep(keep) == IF keep THEN "backup" ELSE "rename"

Write(f, new, keep, ask) ==
    [step |-> FirstStep(keep), file |-> f, base |-> disk[f], new |-> new,
     ask |-> ask, by |-> "store"]

\* writeBackup reads the file again; the copy it leaves is nobody's input.
Backup(p) ==
    /\ job[p].step = "backup"
    /\ disk[job[p].file] # <<>>
    /\ job' = [job EXCEPT ![p].step = "rename"]
    /\ UNCHANGED <<disk, held, ops, edits, want, raced, odd>>

\* The temporary file is written, synced and renamed over the file.
Rename(p) ==
    /\ job[p].step = "rename"
    /\ LET f == job[p].file
           lost == raced[f] \/ disk[f] # job[p].base IN
         /\ disk' = [disk EXCEPT ![f] = <<job[p].new>>]
         /\ raced' = [raced EXCEPT ![f] = lost]
         /\ Follow(f, lost, job[p].ask)
    /\ job' = [job EXCEPT ![p].step = "sync"]
    /\ UNCHANGED <<held, ops, edits, odd>>

\* Setup goes on with models.ini once config.yaml is written (writeSetupFiles);
\* a file that is there is kept aside only when setup is forced.
SetupWrite(f, force) ==
    [Write(f, IF f = "config" THEN SetupConfig ELSE SetupPresets,
           force /\ disk[f] # <<>>,
           [do |-> "setup", all |-> IF f = "config" THEN Settings(SetupConfig)
                                    ELSE Sections(SetupPresets)])
     EXCEPT !.by = IF force THEN "rerun" ELSE "setup"]

Sync(p) ==
    /\ job[p].step = "sync"
    /\ job' = [job EXCEPT ![p] = IF @.by # "store" /\ @.file = "config"
                                 THEN SetupWrite("ini", @.by = "rerun") ELSE Idle]
    /\ UNCHANGED <<disk, held, ops, edits, want, raced, odd>>

\* Any step may fail, and the process may die at any: the temporary file is of
\* no account, and after the rename the file is replaced whatever is answered.
Fail(p) ==
    /\ Busy(p)
    /\ job' = [job EXCEPT ![p] = Idle]
    /\ UNCHANGED <<disk, held, ops, edits, want, raced, odd>>

----------------------------------------------------------------------------
(* configstore: mutateDocument reads, edits, validates and replaces; an edit *)
(* that changes nothing is answered at once.                                 *)

\* The edited document is written as it is.
MutAccepts(new) == TRUE
\* FileStore.Validate
Accepts(new) == Valid(new)

MutateDocument(p, new, ask) ==
    /\ ~Busy(p) /\ disk["config"] # <<>> /\ Valid(disk["config"][1])
    /\ Begin
    /\ IF new = disk["config"][1]
       THEN Follow("config", raced["config"], ask) /\ UNCHANGED job
       ELSE /\ Accepts(new)
            /\ job' = [job EXCEPT ![p] = Write("config", new, TRUE, ask)]
            /\ UNCHANGED want
    /\ UNCHANGED <<disk, held, edits, raced, odd>>

Doc == disk["config"][1]
Ini == Text(disk["ini"])

SetPresetAutostart(name, enabled) ==
    /\ disk["config"] # <<>>
    /\ enabled => Readable(Ini) /\ <<name, FALSE>> \in DOMAIN Sections(Ini)
    /\ MutateDocument("daemon", SetAutostartPreset(Doc, name, enabled),
                      Change(IF enabled THEN "enable" ELSE "disable", name))

SetServices(list) ==
    /\ disk["config"] # <<>>
    /\ MutateDocument("daemon", SetStartupServices(Doc, list), [do |-> "services", list |-> list])

\* CleanupPreset and DeleteModel take the names they delete out of config.yaml.
RemoveReferences(name) ==
    /\ disk["config"] # <<>>
    /\ MutateDocument("daemon", RemovePresetReferences(Doc, {name}), Change("forget", name))

\* llama.cpp install in the command's process
ConfigureInstall ==
    /\ disk["config"] # <<>> /\ ~Panics(Doc)
    /\ MutateDocument("cli", SetRouterExecutable(Doc, Exe, OldExe), [do |-> "install"])

----------------------------------------------------------------------------
(* modelpresets *)

Odd(put) == put.name # Plain(put.name)
            \/ \E k \in DOMAIN put.values : put.values[k] # Plain(put.values[k])

\* Put refuses two keys that mean the same and stores the canonical ones.
PutPreset(put, createOnly) ==
    /\ ~Busy("daemon") /\ Readable(Ini)
    /\ Begin
    /\ \A k, l \in DOMAIN put.values : Canonical(k) = Canonical(l) => k = l
    /\ createOnly => put.name \notin DOMAIN Sections(Ini)
    /\ LET values == [c \in {Canonical(k) : k \in DOMAIN put.values} |->
                        put.values[CHOOSE k \in DOMAIN put.values : Canonical(k) = c]]
       IN job' = [job EXCEPT !["daemon"] =
                    Write("ini", PutSection(Ini, put.name, values), FALSE,
                          [do |-> "put", name |-> put.name, values |-> values])]
    /\ odd' = (odd \/ Odd(put))

Put(put, createOnly) ==
    /\ PutPreset(put, createOnly)
    /\ UNCHANGED <<disk, held, edits, want, raced>>

Delete(name) ==
    /\ ~Busy("daemon") /\ Readable(Ini)
    /\ Begin
    /\ name \in DOMAIN Sections(Ini)
    /\ job' = [job EXCEPT !["daemon"] =
                 Write("ini", DeleteSection(Ini, name), FALSE, Change("delete", name))]
    /\ UNCHANGED <<disk, held, edits, want, raced, odd>>

\* ApplyModelDownloadToPreset reads the Preset, and puts it back with the new
\* source in an operation of its own; what was written in between is lost.
ReadForApply(name) ==
    /\ held = <<>> /\ Readable(Ini) /\ name \in DOMAIN Sections(Ini)
    /\ held' = <<[name |-> name, values |-> Sections(Ini)[name]]>>
    /\ UNCHANGED <<disk, job, ops, edits, want, raced, odd>>

Apply ==
    /\ held # <<>>
    /\ PutPreset([name |-> held[1].name,
                  values |-> [k \in (DOMAIN held[1].values \ {"models-dir"}) \cup {"model"} |->
                                IF k = "model" THEN Path ELSE held[1].values[k]]], FALSE)
    /\ held' = <<>>
    /\ raced' = [raced EXCEPT !["ini"] =
                   @ \/ (/\ held[1].name \in DOMAIN want["ini"]
                         /\ want["ini"][held[1].name] # held[1].values)]
    /\ UNCHANGED <<disk, edits, want>>

----------------------------------------------------------------------------
(* setup (core/setup) and the editor *)

\* Without force setup runs only when there is no config.yaml; the wizard has
\* the answers and WriteFiles looks once more before it begins.
Setup(force) ==
    /\ ~Busy("cli")
    /\ force \/ disk["config"] = <<>>
    /\ Begin
    /\ job' = [job EXCEPT !["cli"] = SetupWrite("config", force)]
    /\ UNCHANGED <<disk, held, edits, want, raced, odd>>

\* The user edits or removes a file; what it holds then is what is asked for.
HandEdit(f, file) ==
    /\ edits < MaxEdits /\ file # disk[f]
    /\ edits' = edits + 1
    /\ disk' = [disk EXCEPT ![f] = file]
    /\ want' = [want EXCEPT ![f] = Read(f, file)]
    /\ raced' = [raced EXCEPT ![f] = FALSE]
    /\ UNCHANGED <<job, held, ops, odd>>

HandFiles(f) == {<<>>} \cup {<<c>> : c \in IF f = "config" THEN HandConfigs ELSE HandPresets}

Init ==
    /\ \E c \in HandFiles("config"), i \in HandFiles("ini") :
         /\ disk = [f \in Files |-> IF f = "config" THEN c ELSE i]
         /\ want = [f \in Files |-> IF f = "config" THEN Read(f, c) ELSE Read(f, i)]
    /\ job = [p \in Processes |-> Idle]
    /\ held = <<>>
    /\ ops = 0 /\ edits = 0
    /\ raced = [f \in Files |-> FALSE]
    /\ odd = FALSE

Step(p) == Backup(p) \/ Rename(p) \/ Sync(p)

Texts == {put.name[1] : put \in Puts}
Configure ==
    \/ \E n \in Texts, enabled \in BOOLEAN : SetPresetAutostart(n, enabled)
    \/ \E list \in ServiceLists : SetServices(list)
    \/ \E n \in Texts : RemoveReferences(n)
    \/ ConfigureInstall

Preset ==
    \/ \E put \in Puts, createOnly \in BOOLEAN : Put(put, createOnly)
    \/ \E n \in Texts : Delete(<<n, FALSE>>) \/ ReadForApply(<<n, FALSE>>)
    \/ Apply

Next ==
    \/ \E p \in Processes : Step(p) \/ Fail(p)
    \/ Configure
    \/ Preset
    \/ \E force \in BOOLEAN : Setup(force)
    \/ \E f \in Files : \E file \in HandFiles(f) : HandEdit(f, file)

Spec == Init /\ [][Next]_vars

----------------------------------------------------------------------------
(* Properties *)

\* A reader of config.yaml gets what all accepted changes together ask for, as
\* long as no two processes wrote over each other and no key is without a value.
ConfigAsAsked ==
    (disk["config"] # <<>> /\ ~raced["config"] /\ ~HasNull(disk["config"][1]))
      => Settings(disk["config"][1]) = want["config"]

\* The same for the Presets; a padded name or a value with a comment is accepted
\* and read back as another one.
PresetsAsAsked ==
    ~raced["ini"] /\ ~odd => Sections(Ini) = want["ini"]

\* A file the program can read is never replaced by one it cannot.
NeverSpoiled ==
    [][\A p \in Processes : Rename(p) =>
         \A f \in Files : Whole(f, disk[f]) /\ ~odd => Whole(f, disk'[f])]_vars

================================================================================
