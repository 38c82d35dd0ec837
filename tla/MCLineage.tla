------------------------------- MODULE MCLineage -------------------------------
(* Lineage with small bounds, for TLC. *)
EXTENDS Lineage
=============================================================================
