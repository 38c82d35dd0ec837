----------------------------- MODULE ResumeIntent -----------------------------
(***************************************************************************)
(* What the ledger of a run says about work that was requested: the pending *)
(* intents of src/ledger/pending-intent.ts, the windows of the ledger that  *)
(* restores abandon (src/engine/resume-intent.ts), and the side effects that *)
(* a rollback warns about (src/engine/side-effects.ts).                      *)
(*                                                                         *)
(* A ledger is a sequence of events; an event's seq is its position.  Of an  *)
(* event only its part in the correlation is kept: the role and kind that    *)
(* its type gives it (RULES), its top-level intent id, the id in its inline   *)
(* payload (None when the payload is offloaded to a blob), and the ledger    *)
(* position that a restore goes back to.                                     *)
(***************************************************************************)
EXTENDS Naturals, Sequences, SequencesExt

CONSTANTS Ids,  \* tool call ids and side effect ids
          None  \* no id, and no kind of intent

IntentKinds == {"tool", "side_effect"}

ASSUME ResumeIntentAssumption == None \notin Ids \cup IntentKinds

Roles == {"request", "acknowledgement", "failure", "checkpoint", "restore"}

Events == [role : Roles, kind : IntentKinds \cup {None},
           id : Ids \cup {None}, payload : Ids \cup {None}, target : Nat]

\* RULES: the events that request or resolve.
Observations ==
  {event \in Events : \/ /\ event.kind = "tool"
                        /\ event.role \in {"request", "acknowledgement", "failure"}
                     \/ /\ event.kind = "side_effect"
                        /\ event.role \in {"request", "acknowledgement"}}

Statuses == {"in_progress", "pending", "completed"}

-----------------------------------------------------------------------------
(* derivePendingIntent *)

\* The top-level id, or else the one in the payload.
IntentId(event) == IF event.id # None THEN event.id ELSE event.payload

\* An intent: its request, and what the ledger shows of its outcome.
Requested(event, seq) ==
  [kind |-> event.kind, intent_id |-> IntentId(event), requested_seq |-> seq,
   status |-> "in_progress", resolved_seq |-> 0]

\* Mutant: a failure after an acknowledgement undoes it.
ResolveUnsticky(intents, seq, event) ==
  {[intent EXCEPT !.status = IF event.role = "acknowledgement" THEN "completed" ELSE "pending",
                  !.resolved_seq = seq] : intent \in intents}

\* An acknowledgement or a failure of these intents; completion is sticky.
Resolve(intents, seq, event) ==
  {IF intent.status = "completed" THEN intent
   ELSE [intent EXCEPT !.status = IF event.role = "acknowledgement" THEN "completed" ELSE "pending",
                       !.resolved_seq = seq] : intent \in intents}

\* latestById: the intent of that kind and id requested last, if there is one.
LatestOf(intents, event) ==
  LET same == {intent \in intents : intent.kind = event.kind /\ intent.intent_id = IntentId(event)}
  IN {intent \in same : \A other \in same : other.requested_seq <= intent.requested_seq}

\* What one event, at this seq, makes of the intents before it.
Correlate(intents, seq, event) ==
  LET resolved == IF IntentId(event) = None THEN {} ELSE LatestOf(intents, event)
  IN CASE event.role = "request" -> intents \cup {Requested(event, seq)}
       [] event.role \in {"acknowledgement", "failure"}
            -> (intents \ resolved) \cup Resolve(resolved, seq, event)
       [] OTHER -> intents

\* The intents of the ledger's events whose seqs are in the set kept.
DerivePendingIntent(ledger, kept) ==
  FoldLeft(LAMBDA intents, seq : IF seq \in kept THEN Correlate(intents, seq, ledger[seq]) ELSE intents,
           {}, [seq \in DOMAIN ledger |-> seq])

-----------------------------------------------------------------------------
(* abandonedWindows and pendingIntentAt *)

\* The restores in a ledger, oldest first.
Lineage(ledger) ==
  FoldLeft(LAMBDA marks, seq : IF ledger[seq].role = "restore"
                               THEN Append(marks, [seq |-> seq, target |-> ledger[seq].target]) ELSE marks,
           <<>>, [seq \in DOMAIN ledger |-> seq])

\* One restore, on the way back from a position: unless it lies after the
\* position, (target, seq] is abandoned and the walk goes on at its target.
WalkBack(mark, walk) ==
  IF mark.seq > walk.position \/ mark.target >= mark.seq THEN walk
  ELSE [position |-> mark.target, windows |-> walk.windows \cup {<<mark.target, mark.seq>>}]

\* The windows (after, upto] that the history leading to cursor abandons, and
\* what lies between the cursor and the head.
AbandonedWindows(lineage, cursor, head) ==
  FoldRight(WalkBack, lineage,
            [position |-> cursor, windows |-> IF cursor < head THEN {<<cursor, head>>} ELSE {}]).windows

Abandoned(windows, seq) == \E window \in windows : window[1] < seq /\ seq <= window[2]

\* The events but the tool resolutions inside a window.
ToolResolutionsOutside(ledger, windows) ==
  {seq \in DOMAIN ledger :
     ~(/\ ledger[seq].kind = "tool"
       /\ ledger[seq].role \in {"acknowledgement", "failure"}
       /\ Abandoned(windows, seq))}

\* Every side effect as of the head; a tool request inside a window only while
\* nothing resolved it; any other tool request as resolved outside the windows.
PendingIntentAt(ledger, windows) ==
  LET throughHead == DerivePendingIntent(ledger, DOMAIN ledger)
      outside == DerivePendingIntent(ledger, ToolResolutionsOutside(ledger, windows))
  IN {intent \in throughHead :
        \/ intent.kind # "tool"
        \/ Abandoned(windows, intent.requested_seq) /\ intent.status = "in_progress"}
     \cup {intent \in outside : intent.kind = "tool" /\ ~Abandoned(windows, intent.requested_seq)}

-----------------------------------------------------------------------------
(* deriveSideEffects *)

NoGroup == [request |-> 0, commit |-> 0]

\* Mutant: a commit joins the group of its id whatever that group has.
JoinsAny(group, event) == group # NoGroup

\* The group can take the event: its slot for this role is free.
Joins(group, event) ==
  /\ group # NoGroup
  /\ IF event.role = "request" THEN group.request = 0 ELSE group.commit = 0

\* The event at seq joins the current group of its payload id, or starts one.
\* An event without an id in its payload has a group of its own.
GroupEvent(grouping, seq, event) ==
  LET current == IF event.payload = None THEN NoGroup ELSE grouping.current[event.payload]
      base == IF Joins(current, event) THEN current ELSE NoGroup
      group == IF event.role = "request" THEN [base EXCEPT !.request = seq]
                                         ELSE [base EXCEPT !.commit = seq]
  IN [groups |-> (grouping.groups \ {base}) \cup {group},
      current |-> [id \in Ids |-> IF id = event.payload THEN group ELSE grouping.current[id]]]

\* The side effects with an event in (after, upto], among the events up to upto.
DeriveSideEffects(ledger, after, upto) ==
  LET grouping ==
        FoldLeft(LAMBDA acc, seq : IF ledger[seq].kind = "side_effect" THEN GroupEvent(acc, seq, ledger[seq]) ELSE acc,
                 [groups |-> {}, current |-> [id \in Ids |-> NoGroup]],
                 [seq \in 1..upto |-> seq])
  IN {group \in grouping.groups : group.request > after \/ group.commit > after}
=============================================================================
