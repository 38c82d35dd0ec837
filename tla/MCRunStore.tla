------------------------------ MODULE MCRunStore ------------------------------
(* RunStore with a small set of backends, for TLC. *)
EXTENDS RunStore, TLC
=============================================================================
