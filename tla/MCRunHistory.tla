----------------------------- MODULE MCRunHistory -----------------------------
(* RunHistory over ledgers of tool calls and ledgers of side effects, for TLC. *)
EXTENDS RunHistory

CONSTANTS a, b

Observation(role, kind, id, payload) ==
  [role |-> role, kind |-> kind, id |-> id, payload |-> payload, target |-> 0]

\* Tool calls: one that is retried under its id, one other, one without an id;
\* the acknowledgement's payload is offloaded.
ToolCalls ==
  {Observation("request", "tool", a, a),
   Observation("request", "tool", b, b),
   Observation("request", "tool", None, None),
   Observation("acknowledgement", "tool", a, None),
   Observation("failure", "tool", a, a)}

\* Side effects, some with an offloaded payload and some without a top-level id.
SideEffects ==
  {Observation("request", "side_effect", a, a),
   Observation("request", "side_effect", a, None),
   Observation("request", "side_effect", b, b),
   Observation("acknowledgement", "side_effect", a, a),
   Observation("acknowledgement", "side_effect", None, a)}

BothKinds == {ToolCalls, SideEffects}
=============================================================================
