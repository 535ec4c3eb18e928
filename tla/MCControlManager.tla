-------------------------- MODULE MCControlManager --------------------------
(* ControlManager for TLC: the goroutines, the Presets and the model files *)
(* are interchangeable.                                                    *)
EXTENDS ControlManager, TLC

ManagerSymmetry ==
    Permutations(Clients) \cup Permutations(Names) \cup Permutations(Models)
=============================================================================
