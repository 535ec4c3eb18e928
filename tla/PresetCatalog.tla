--------------------------- MODULE PresetCatalog ---------------------------
(***************************************************************************)
(* What the control daemon promises about its Presets, free of calls,      *)
(* goroutines and failures: the sections of models.ini, the two kinds of   *)
(* references to them in config.yaml, and which Presets the Router has     *)
(* loaded.  Every change is one atomic step whose guard holds at that very *)
(* step.  ControlManager is shown to implement it.                         *)
(***************************************************************************)
CONSTANTS
    Names,      \* names of Presets
    NoName,     \* no default_preset
    Sources,    \* what a Preset can load from
    NoSource,   \* the Preset does not exist
    Lists       \* the autostart lists a valid config.yaml may hold

VARIABLES
    presets,    \* models.ini: the source of each Preset
    dflt,       \* router.default_preset
    autostart,  \* router.autostart_presets
    active      \* Presets the Router has loaded or is loading

catalog == <<presets, dflt, autostart, active>>

Existing == {n \in Names : presets[n] # NoSource}

Referenced == autostart \cup ({dflt} \ {NoName})

Init ==
    /\ presets \in [Names -> Sources \cup {NoSource}]
    /\ dflt \in Existing \cup {NoName}
    /\ autostart \in Lists \cap SUBSET Existing
    /\ active = {}

Save(n, s) ==
    /\ presets' = [presets EXCEPT ![n] = s]
    /\ UNCHANGED <<dflt, autostart, active>>

\* A Preset that config.yaml names or that is loaded is never removed.
Remove(n) ==
    /\ n \notin Referenced
    /\ n \notin active
    /\ presets' = [presets EXCEPT ![n] = NoSource]
    /\ UNCHANGED <<dflt, autostart, active>>

\* References may always be dropped.
Unreference ==
    /\ dflt' \in {dflt, NoName}
    /\ autostart' \in SUBSET autostart
    /\ UNCHANGED <<presets, active>>

\* Only an existing Preset is put on the list, and only while it has room.
Enable(n) ==
    /\ n \in Existing
    /\ autostart' = autostart \cup {n}
    /\ autostart' \in Lists
    /\ UNCHANGED <<presets, dflt, active>>

\* The Router comes and goes, but it only ever has existing Presets loaded.
RouterChanges ==
    /\ active' \in SUBSET Existing
    /\ UNCHANGED <<presets, dflt, autostart>>

Next ==
    \/ \E n \in Names, s \in Sources : Save(n, s)
    \/ \E n \in Names : Remove(n) \/ Enable(n)
    \/ Unreference
    \/ RouterChanges

Spec == Init /\ [][Next]_catalog
=============================================================================
