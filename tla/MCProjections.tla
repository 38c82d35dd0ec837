--------------------------- MODULE MCProjections ---------------------------
(* A provider that claims nothing, cites an event, a payload, a checkpoint,   *)
(* or mixes what it was shown with what it was not.                           *)
EXTENDS Projections, TLC

Cite(kind, n) == [kind |-> kind, n |-> n]
MCReplies ==
  {{{Cite("event", 1)}, {}}, {{Cite("event", 2), Cite("artifact", 4)}}, {{Cite("checkpoint", 2)}}}
\* One declared projection falls into an old directory; others share a new one.
MCFanOut(id) == IF id = <<"declared", 1>> THEN "old" ELSE "new"
MCSymmetry == Permutations(Others)
=============================================================================
