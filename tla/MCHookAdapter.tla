---------------------------- MODULE MCHookAdapter -----------------------------
(***************************************************************************)
(* Model values for checking HookAdapter: two calls that may run in parallel. *)
(***************************************************************************)
EXTENDS HookAdapter
=============================================================================
