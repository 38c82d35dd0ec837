-------------------------- MODULE MCResumeContext --------------------------
(* Small widths, counts in binary, pages of two events, and budgets around     *)
(* the width of the fixed text.                                               *)
EXTENDS ResumeContext

CONSTANTS a

Observation(role, kind, id) ==
  [role |-> role, kind |-> kind, id |-> id, payload |-> id, target |-> 0]

\* A tool that is retried, and a side effect.
MCAlphabets ==
  {{Observation("request", "tool", a), Observation("failure", "tool", a), Observation("acknowledgement", "tool", a)},
   {Observation("request", "side_effect", a), Observation("acknowledgement", "side_effect", a)}}

Claim(field, chars, cites) == [field |-> field, chars |-> chars, cites |-> cites]
MCClaimLists == {<<>>, <<Claim("goal", 2, FALSE), Claim("plan", 1, TRUE), Claim("plan", 6, TRUE)>>}
MCOrigins == {<<>>, <<Claim("plan", 3, FALSE)>>}

MCEventChars(event) ==
  CASE event.role = "failure" -> 9 [] event.role = "request" -> 4 [] OTHER -> 2
MCIntentLineChars(intent) == IF intent.status = "in_progress" THEN 5 ELSE 3
MCIntentEntryChars(intent) == IF intent.resolved_seq = 0 THEN 2 ELSE 3
=============================================================================
