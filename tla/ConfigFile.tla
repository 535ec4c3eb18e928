------------------------------- MODULE ConfigFile -------------------------------
(***************************************************************************)
(* config.yaml as core/configstore sees it: a tree of YAML nodes of which  *)
(* four edits change one each, and what config.Parse makes of it.  Only    *)
(* the nodes those edits touch are kept; a key that is absent, a key whose *)
(* value is null and a key with a sequence are told apart, as the edits    *)
(* do.                                                                     *)
(***************************************************************************)
EXTENDS Naturals, SequencesExt

CONSTANT DefaultExe   \* DefaultLlamaExecutable

\* services, auto: [node |-> "absent" | "null" | "seq", items |-> a sequence]
\* router: "absent", "null" or "map"; max: models_max, 0 when it is not given;
\* preset, exe: default_preset and executable, "" for an empty scalar,
\* "absent" for no node.
Node(kind) == [node |-> kind, items |-> <<>>]
List(items) == [node |-> "seq", items |-> items]
\* The trees that stand for a document: only a sequence has items, and only a
\* mapping has keys.
Document(d) ==
    /\ d = [services |-> d.services, router |-> d.router, auto |-> d.auto,
            max |-> d.max, preset |-> d.preset, exe |-> d.exe]
    /\ d.auto = [node |-> d.auto.node, items |-> d.auto.items]
    /\ d.auto.node # "seq" => d.auto.items = <<>>
    /\ d.router \in {"absent", "null", "map"}
    /\ d.router # "map" => d.auto.node = "absent" /\ d.preset = "absent" /\ d.exe = "absent"
Services == {"control", "web"}
DefaultServices == <<"control", "web">>

\* What a reader of the file gets: Parse, with the defaults of applyDefaults.
ModelsMax(d) == IF d.router = "map" /\ d.max > 0 THEN d.max ELSE 1
Autostart(d) == IF d.router = "map" THEN d.auto.items ELSE <<>>

Settings(d) ==
    [services |-> IF d.services.node = "seq" THEN d.services.items ELSE DefaultServices,
     auto |-> Autostart(d),
     preset |-> IF d.router = "map" /\ d.preset # "absent" THEN d.preset ELSE "",
     exe |-> IF d.router = "map" /\ d.exe \notin {"absent", ""} THEN d.exe ELSE DefaultExe]

Valid(d) == /\ Len(Autostart(d)) <= ModelsMax(d)
            /\ ToSet(Settings(d).services) \subseteq Services

----------------------------------------------------------------------------
(* The edits; one that changes nothing reports so and nothing is written. *)

RouterMap(d) == IF d.router = "absent" THEN [d EXCEPT !.router = "map"] ELSE d

\* The items that stay; the same sequence when none goes.
Without(items, gone) ==
    IF ToSet(items) \cap gone = {} THEN items ELSE SelectSeq(items, LAMBDA x : x \notin gone)

\* setAutostartPreset, appendNameIfAbsent and removeSeqItems
AppendName(d, name) ==
    LET r == RouterMap(d) IN
    IF r.router # "map" \/ r.auto.node = "null" \/ name \in ToSet(r.auto.items) THEN d
    ELSE [r EXCEPT !.auto = List(Append(@.items, name))]

RemoveNames(d, gone) ==
    IF d.router = "map" THEN [d EXCEPT !.auto.items = Without(@, gone)] ELSE d

SetAutostartPreset(d, name, enabled) ==
    IF enabled THEN AppendName(d, name) ELSE RemoveNames(d, {name})

\* The default Preset keeps its name.
MutRemovePresetReferences(d, gone) == RemoveNames(d, gone)

\* removePresetReferenceNodes
RemovePresetReferences(d, gone) ==
    LET kept == RemoveNames(d, gone)
    IN IF d.router = "map" /\ d.preset \in gone THEN [kept EXCEPT !.preset = ""] ELSE kept

SetStartupServices(d, services) ==
    IF d.services = List(services) THEN d ELSE [d EXCEPT !.services = List(services)]

\* Only the default executable or the one to replace is changed.  A router that
\* is null leaves no node to add to, and the process panics.
SetRouterExecutable(d, exe, replace) ==
    LET r == RouterMap(d) IN
    IF r.exe \notin {"absent", DefaultExe, replace} THEN d ELSE [r EXCEPT !.exe = exe]
Panics(d) == d.router = "null"
================================================================================
