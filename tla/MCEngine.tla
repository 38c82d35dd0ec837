------------------------------- MODULE MCEngine -------------------------------
(* Engine with a small set of processes, for TLC. *)
EXTENDS Engine, TLC

\* Processes are interchangeable.
ProcSymmetry == Permutations(Procs)
=============================================================================
