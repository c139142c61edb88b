---------------------------- MODULE MCSupervisor ----------------------------
(* The bounds of the model-checking runs of Supervisor.                    *)
EXTENDS Supervisor, TLC

Symmetry == Permutations(Procs) \cup Permutations(Callers)
=============================================================================
