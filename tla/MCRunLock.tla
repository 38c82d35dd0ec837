------------------------------ MODULE MCRunLock ------------------------------
(* RunLock on small sets of processes, for TLC. *)
EXTENDS RunLock, TLC

CONSTANT away  \* the process that may run on another host than the others

\* Every process on one host.
OneHost == {[p \in Procs |-> "local"]}

\* All on one host, or `away` on a host of its own.
TwoHosts == OneHost \cup {[p \in Procs |-> IF p = away THEN "remote" ELSE "local"]}

\* Processes are interchangeable when they share a host.
ProcSymmetry == Permutations(Procs)
=============================================================================
