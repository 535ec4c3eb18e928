-------------------------- MODULE MCRouterProcess --------------------------
(* Instances of RouterProcess for TLC. *)
EXTENDS RouterProcess, TLC

\* The pids are interchangeable: no action or property orders them.
PidSymmetry == Permutations(Pids)
=============================================================================
