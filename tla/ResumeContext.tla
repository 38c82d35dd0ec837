---------------------------- MODULE ResumeContext ----------------------------
(***************************************************************************)
(* The Context Builder (src/context): what a fresh agent is told of a run     *)
(* when a checkpoint is resumed.  Claims come from the nearest checkpoint of   *)
(* the lineage that has any, pending intents from the engine, and events from  *)
(* one backward walk of the ledger, all under a budget of characters.         *)
(*                                                                           *)
(* RunHistory grows the run; here its checkpoints also have claims, and the    *)
(* builder is evaluated on every checkpoint, at several budgets.  Of a text    *)
(* only its width counts.  Counts are written in some radix, and what is in    *)
(* the context in any case is one width.  A run that was forked inherits the   *)
(* claims of its origin; its agent.forked event is left out.                   *)
(***************************************************************************)
EXTENDS RunHistory, Integers, FiniteSetsExt

CONSTANTS ClaimLists,         \* what may be claimed at a checkpoint
          MaxCiting,          \* bound: claims of the run that cite an event
          Origins,            \* the claims that a run may inherit by its fork
          Fields, MandatoryFields,
          EventChars(_),      \* the width of an event
          IntentLineChars(_), IntentEntryChars(_),  \* of an intent in the preamble, and in the state
          FixedChars, OmittedChars, NoneChars,      \* of the rest, of a line that counts, of a "none" line
          Radix,
          PageSize,           \* HISTORY_PAGE_SIZE
          PendingCap, CompletedCap,
          Budgets             \* values of maxTokens * CHARS_PER_TOKEN

\* The events that a ledger may hold.
Written ==
  (UNION Alphabets) \cup {Marker("checkpoint", 0)} \cup {Marker("restore", c) : c \in 1..MaxLedger}

\* The intents that it may be told to have.
Told ==
  [kind : IntentKinds \cup {None}, intent_id : Ids \cup {None}, requested_seq : 0..MaxLedger,
   status : Statuses, resolved_seq : 0..MaxLedger]

\* A claim: whether its provenance names events, and its width.
Claims == [field : Fields, chars : Nat, cites : BOOLEAN]

ASSUME ResumeContextAssumption ==
  /\ IsFiniteSet(Fields) /\ MandatoryFields \subseteq Fields
  /\ ClaimLists \cup Origins \subseteq Seq(Claims)
  /\ \A event \in Written : EventChars(event) \in Nat
  /\ \A intent \in Told : IntentLineChars(intent) \in Nat /\ IntentEntryChars(intent) \in Nat
  /\ FixedChars \in Nat /\ OmittedChars \in Nat /\ NoneChars \in Nat
  /\ Radix \in Nat /\ Radix > 1 /\ PageSize \in Nat \ {0}
  /\ PendingCap \in Nat /\ CompletedCap \in Nat /\ Budgets \subseteq Nat

VARIABLES claimed,  \* [checkpoints -> [claims, cited]]
          origin    \* the claims of the checkpoint that the run was forked from

contextVars == <<alphabet, ledger, recorded, claimed, origin>>

ContextInit == Init /\ claimed = <<>> /\ origin \in Origins

\* The checkpoint that was current when c was created, 0 for none.
ParentOf(c) ==
  LET moves == {i \in 1..(c - 1) : ledger[i].role \in {"checkpoint", "restore"}}
  IN  IF moves = {} THEN 0
      ELSE IF ledger[Max(moves)].role = "restore" THEN ledger[Max(moves)].target ELSE Max(moves)

\* A checkpoint, and the claims declared or distilled for it; each that may cites an event
\* since the parent's cursor (assertDeclaredEvents; the distiller reads no others), or none (0).
ClaimedCheckpoint ==
  /\ Checkpoint
  /\ \E claims \in ClaimLists : \E cited \in [DOMAIN claims -> 0..HeadSeq] :
       /\ \A i \in DOMAIN claims : cited[i] # 0 => claims[i].cites /\ cited[i] > ParentOf(HeadSeq + 1)
       /\ claimed' = [c \in DOMAIN claimed \cup {HeadSeq + 1} |->
                        IF c = HeadSeq + 1 THEN [claims |-> claims, cited |-> cited] ELSE claimed[c]]
  /\ MapThenSumSet(LAMBDA c : Cardinality({i \in DOMAIN claimed'[c].cited : claimed'[c].cited[i] # 0}),
                   DOMAIN claimed') <= MaxCiting
  /\ UNCHANGED origin

ContextNext ==
  \/ ClaimedCheckpoint
  \/ /\ \/ \E event \in alphabet : Record(event)
        \/ \E c \in Checkpoints : Restore(c)
     /\ UNCHANGED <<claimed, origin>>

ContextSpec == ContextInit /\ [][ContextNext]_contextVars

-----------------------------------------------------------------------------
(* The lineage, and the claims that are shown.                               *)

\* The nearest checkpoint with claims; claims of another run cite nothing here.
SelectedFrom[c \in 0..HeadSeq] ==
  IF c = 0 THEN [claims |-> origin, cited |-> [i \in DOMAIN origin |-> 0]]
  ELSE IF claimed[c].claims # <<>> THEN claimed[c]
  ELSE SelectedFrom[ParentOf(c)]

\* The events that the claims shown cite.
CitedBy(source, shown) == {source.cited[i] : i \in shown} \ {0}

-----------------------------------------------------------------------------
(* Widths.                                                                   *)

Digits[n \in Nat] == IF n < Radix THEN 1 ELSE 1 + Digits[n \div Radix]

\* A line of the preamble, with its escaped newline.
LineChars(chars) == chars + 2

OmittedLineChars(count) == IF count = 0 THEN 0 ELSE LineChars(OmittedChars + Digits[count])

DroppedLineChars(counts) ==
  LineChars(Digits[counts.cited] + Digits[counts.lastFailure] + Digits[counts.delta])

\* The greatest digit in place of each digit.
Nines[n \in Nat] == IF n < Radix THEN Radix - 1 ELSE Radix * Nines[n \div Radix] + Radix - 1

\* Before the counts are known: none is wider than the cursor.
Reserved(cursor) ==
  [cited |-> Nines[cursor], lastFailure |-> Nines[cursor], delta |-> Nines[cursor]]

Separators(n) == IF n = 0 THEN 0 ELSE n - 1

RenderedStatus(intent) ==
  IF intent.resolved_seq > intent.requested_seq /\ intent.status \in {"completed", "pending"}
  THEN intent.status ELSE "in_progress"

\* Mutant: a side effect may be left out like a tool.
IntentGroupByStatus(intent) ==
  IF RenderedStatus(intent) = "in_progress" THEN "never_dropped" ELSE RenderedStatus(intent)

IntentGroup(intent) ==
  IF intent.kind # "tool" \/ RenderedStatus(intent) = "in_progress" THEN "never_dropped"
  ELSE RenderedStatus(intent)

\* A section of the preamble: what is kept, and how many are left out.
SectionChars(kept, omitted) ==
  kept + OmittedLineChars(omitted) + (IF kept = 0 /\ omitted = 0 THEN LineChars(NoneChars) ELSE 0)

\* The claims of a field, and the intents of a status, of which some are shown.
ClaimSection(all, shown, field) ==
  LET of == {i \in DOMAIN all.claims : all.claims[i].field = field}
  IN  SectionChars(SumFunctionOnSet([i \in DOMAIN all.claims |-> LineChars(all.claims[i].chars)], of \cap shown.claims),
                   Cardinality(of \ shown.claims))
IntentSection(all, shown, status) ==
  LET of == {intent \in all.intents : RenderedStatus(intent) = status}
  IN  SectionChars(SumFunctionOnSet([i \in all.intents |-> LineChars(IntentLineChars(i))], of \cap shown.intents),
                   Cardinality(of \ shown.intents))

\* The width of a preamble that shows some of `all` claims and intents.
PreambleChars(all, shown, counts) ==
  FixedChars + DroppedLineChars(counts)
    + SumFunction([field \in Fields |-> ClaimSection(all, shown, field)])
    + SumFunction([status \in Statuses |-> IntentSection(all, shown, status)])

\* The width of the intents in the state, and of events.
StateChars(all, shown) ==
  SumFunctionOnSet([i \in all.intents |-> IntentEntryChars(i)], shown.intents) + Separators(Cardinality(shown.intents))
EventsChars(events) ==
  SumFunction([i \in DOMAIN events |-> EventChars(ledger[events[i]])]) + Separators(Len(events))

ContextChars(all, shown, counts, events) ==
  PreambleChars(all, shown, counts) + StateChars(all, shown) + EventsChars(events)

-----------------------------------------------------------------------------
(* Tier 1: claims and intents that fit.                                      *)

\* What is shown in any case, and what is added to it.
Mandatory(all) ==
  [claims |-> {i \in DOMAIN all.claims : all.claims[i].field \in MandatoryFields},
   intents |-> {intent \in all.intents : IntentGroup(intent) = "never_dropped"},
   added |-> 0, listed |-> 0]

\* What the selection has still left out of a field, or of a group of intents.
LeftOutOf(all, field, shown) ==
  Cardinality({i \in DOMAIN all.claims \ shown.claims : all.claims[i].field = field})
LeftOutIn(all, group, shown) ==
  Cardinality({intent \in all.intents \ shown.intents : IntentGroup(intent) = group})

OneFewer(count) == OmittedLineChars(count - 1) - OmittedLineChars(count)

\* Take it if it fits whole, and else leave it.
TakeClaim(all, room, tier, i) ==
  LET claim == all.claims[i]
      delta == LineChars(claim.chars) + OneFewer(LeftOutOf(all, claim.field, tier))
  IN  IF i \in tier.claims \/ tier.added + delta > room THEN tier
      ELSE [tier EXCEPT !.claims = @ \cup {i}, !.added = @ + delta]

\* Mutant: the first intent of the state is counted with a comma.
TakeIntentWithComma(all, room, group, cap, tier, intent) ==
  LET delta == LineChars(IntentLineChars(intent)) + OneFewer(LeftOutIn(all, group, tier))
                 + IntentEntryChars(intent) + 1
  IN  IF tier.listed = cap \/ tier.added + delta > room THEN tier
      ELSE [tier EXCEPT !.intents = @ \cup {intent}, !.added = @ + delta, !.listed = @ + 1]

TakeIntent(all, room, group, cap, tier, intent) ==
  LET delta == LineChars(IntentLineChars(intent)) + OneFewer(LeftOutIn(all, group, tier))
                 + IntentEntryChars(intent) + (IF tier.intents = {} THEN 0 ELSE 1)
  IN  IF tier.listed = cap \/ tier.added + delta > room THEN tier
      ELSE [tier EXCEPT !.intents = @ \cup {intent}, !.added = @ + delta, !.listed = @ + 1]

\* The tool intents of a group, by what was requested last.
NewestFirst(all, group) ==
  LET Oldest(intents) == CHOOSE i \in intents : \A other \in intents : i.requested_seq <= other.requested_seq
  IN  MapThenFoldSet(LAMBDA intent, newer : Append(newer, intent), <<>>, LAMBDA intent : intent, Oldest,
                     {intent \in all.intents : IntentGroup(intent) = group})

TakeClaims(all, room, tier) ==
  FoldLeft(LAMBDA t, i : TakeClaim(all, room, t, i), tier, [i \in DOMAIN all.claims |-> i])

TakeGroup(all, room, group, cap, tier) ==
  FoldLeft(LAMBDA t, intent : TakeIntent(all, room, group, cap, t, intent),
           [tier EXCEPT !.listed = 0], NewestFirst(all, group))

\* The mandatory ones, the other claims in order, failed and then completed tools.
SelectTier1(all, room) ==
  TakeGroup(all, room, "completed", CompletedCap,
            TakeGroup(all, room, "pending", PendingCap, TakeClaims(all, room, Mandatory(all))))

-----------------------------------------------------------------------------
(* Tier 3: the backward walk over the ledger, a page at a time.              *)

IsFailure(event) == event.role = "failure"

\* The query: the cursor, the parent's cursor, the cited events, and the room.
Complete(walk, query) ==
  walk.done /\ walk.lastFailure # 0 /\ walk.cited = query.cited

\* An event of the lineage: is it cited, the last failure, or of the delta?
Candidate(walk, query, seq) ==
  LET found == [walk EXCEPT !.cited = @ \cup ({seq} \cap query.cited),
                            !.lastFailure = IF @ = 0 /\ IsFailure(ledger[seq]) THEN seq ELSE @]
      chars == EventChars(ledger[seq])
  IN  IF walk.done THEN found
      ELSE IF seq <= query.parent THEN [found EXCEPT !.done = TRUE]
      ELSE IF chars <= query.room
      THEN [found EXCEPT !.delta = Append(@, seq), !.deltaChars = @ + chars + 1,
                         !.done = walk.deltaChars + chars + 1 > query.room]
      ELSE IF seq \notin query.cited /\ seq # found.lastFailure
      THEN [found EXCEPT !.oversized = @ \cup {seq}]
      ELSE found

\* Mutant: a restore is a mark for the events of later pages only.
VisitLate(walk, query, seq) ==
  LET mark == [seq |-> seq, target |-> ledger[seq].target]
  IN  IF Abandoned(walk.windows, seq) THEN walk
      ELSE IF ledger[seq].role = "restore" THEN [walk EXCEPT !.marks = <<mark>> \o @]
      ELSE Candidate(walk, query, seq)

\* One event, newest first.  A restore is a mark; the windows are those of the
\* marks met so far.
Visit(walk, query, seq) ==
  LET mark == [seq |-> seq, target |-> ledger[seq].target]
      marks == IF ledger[seq].role = "restore" THEN <<mark>> \o walk.marks ELSE walk.marks
      marked == [walk EXCEPT !.marks = marks, !.windows = AbandonedWindows(marks, query.cursor, query.cursor)]
  IN  IF Abandoned(walk.windows, seq) THEN walk
      ELSE IF Abandoned(marked.windows, seq) THEN marked
      ELSE Candidate(marked, query, seq)

\* A page, and where the next one ends: below it, and below every window so far.
Page(walk, query) ==
  LET lo == Max({1, walk.hi - PageSize + 1})
      read == FoldRight(LAMBDA seq, w : Visit(w, query, seq), [i \in 1..(walk.hi - lo + 1) |-> lo + i - 1], walk)
      next == Min({lo - 1, query.cursor} \cup {window[1] : window \in read.windows})
  IN  [read EXCEPT !.hi = next, !.done = @ \/ next <= query.parent]

ScanRelevantHistory(query) ==
  FoldLeft(LAMBDA walk, page : IF walk.hi < 1 \/ Complete(walk, query) THEN walk ELSE Page(walk, query),
           [hi |-> query.cursor, cited |-> {}, lastFailure |-> 0, delta |-> <<>>, deltaChars |-> 0,
            oversized |-> {}, done |-> query.parent >= query.cursor, marks |-> <<>>, windows |-> {}],
           [page \in 1..query.cursor |-> page])

-----------------------------------------------------------------------------
(* The context.                                                              *)

\* Each candidate once, at its highest priority; one that does not fit is dropped.
Consider(limit, of, context, seq) ==
  LET chars == context.chars + EventChars(ledger[seq]) + (IF context.events = <<>> THEN 0 ELSE 1)
      dropped == [context.dropped EXCEPT ![of] = @ + 1]
  IN  IF seq \in context.considered THEN context
      ELSE IF chars > limit
      THEN [context EXCEPT !.considered = @ \cup {seq}, !.dropped = dropped]
      ELSE [context EXCEPT !.considered = @ \cup {seq}, !.events = Append(@, seq), !.chars = chars]

\* A set of seqs, in order.
Ascending(seqs) == MapThenFoldSet(LAMBDA seq, before : Append(before, seq), <<>>, LAMBDA seq : seq, Max, seqs)

ConsiderAll(limit, of, context, seqs) ==
  FoldLeft(LAMBDA ctx, seq : Consider(limit, of, ctx, seq), context, seqs)

QueryAt(c, cited, room) == [cursor |-> c, parent |-> ParentOf(c), cited |-> cited, room |-> room]

\* Tier 3: what the walk found, beyond a base width.
SelectTier3(limit, base, history) ==
  LET before == [events |-> <<>>, chars |-> base, considered |-> {},
                 dropped |-> [cited |-> 0, lastFailure |-> 0, delta |-> Cardinality(history.oversized)]]
      cited == ConsiderAll(limit, "cited", before, Ascending(history.cited))
      failed == ConsiderAll(limit, "lastFailure", cited,
                            IF history.lastFailure = 0 THEN <<>> ELSE <<history.lastFailure>>)
  IN  ConsiderAll(limit, "delta", failed, history.delta)

\* The context, with its measures.
Context(c, all, minimal, tier1, base, tier3) ==
  [minimal |-> minimal, base |-> base, selected |-> minimal + tier1.added,
   all |-> all, shown |-> tier1, events |-> tier3.events, dropped |-> tier3.dropped,
   assembled |-> tier3.chars - PreambleChars(all, tier1, Reserved(c))
                   + PreambleChars(all, tier1, tier3.dropped),
   measured |-> ContextChars(all, tier1, tier3.dropped, tier3.events)]

\* build(): the checkpoint created at seq c, in at most `limit` characters.
Build(c, limit) ==
  LET source == SelectedFrom[c]
      all == [claims |-> source.claims, intents |-> ResumeReports(c)]
      minimal == ContextChars(all, Mandatory(all), Reserved(c), <<>>)
      tier1 == SelectTier1(all, limit - minimal)
      base == ContextChars(all, tier1, Reserved(c), <<>>)
      history == ScanRelevantHistory(QueryAt(c, CitedBy(source, tier1.claims), limit - base))
  IN  Context(c, all, minimal, tier1, base, SelectTier3(limit, base, history))

OutOfBudget(context, limit) == context.base > limit

-----------------------------------------------------------------------------
(* Properties.                                                               *)

\* The width of these events of the ledger, each with its separator.
Width(seqs) == MapThenSumSet(LAMBDA seq : EventChars(ledger[seq]) + 1, seqs)

\* The paged walk, which learns of restores while it goes and jumps over what
\* they abandoned, finds what the checkpoint's own history holds: every cited
\* event, the newest failure, and the newest events since the parent for which
\* there is room; the others that could never fit are counted.
ScanFindsHistory ==
  \A c \in Checkpoints, limit \in Budgets :
    LET query == QueryAt(c, CitedBy(SelectedFrom[c], DOMAIN SelectedFrom[c].claims), limit)
        walk == ScanRelevantHistory(query)
        failures == {seq \in History[c] : IsFailure(ledger[seq])}
        since == {seq \in History[c] : seq > query.parent}
        Fits(seq) == EventChars(ledger[seq]) <= query.room
        Newer(seq) == Width({other \in since : other > seq /\ Fits(other)})
        met == {seq \in since : Newer(seq) <= query.room}
    IN  /\ walk.cited = query.cited \cap History[c]
        /\ walk.lastFailure = (IF failures = {} THEN 0 ELSE Max(failures))
        /\ ToSet(walk.delta) = {seq \in met : Fits(seq)}
        /\ \A i, j \in DOMAIN walk.delta : i < j => walk.delta[i] > walk.delta[j]
        /\ walk.oversized = {seq \in met : ~Fits(seq)} \ (query.cited \cup {walk.lastFailure})

\* The builder's own accounting holds, so it never throws its internal errors,
\* and what it returns is within the budget; it gives up only if the mandatory
\* context alone is too large.
ContextFits ==
  LET Fits(context, limit) ==
        /\ context.base = context.selected
        /\ IF OutOfBudget(context, limit) THEN context.minimal > limit
           ELSE context.measured = context.assembled /\ context.measured <= limit
  IN  \A c \in Checkpoints, limit \in Budgets : Fits(Build(c, limit), limit)

\* However small the budget, a context shows every request whose outcome is not
\* known and every side effect since the run began; it shows no event that a
\* restore abandoned, none twice, and counts what it left out of the events that
\* the claims it shows cite.
NothingHidden ==
  LET Outstanding(r) == ledger[r].kind = "side_effect" \/ StatusOf(r, DOMAIN ledger) = "in_progress"
      ShowsAll(context, history, cited) ==
        LET shown == ToSet(context.events)
        IN  /\ {r \in Requests : Outstanding(r)} \subseteq {i.requested_seq : i \in context.shown.intents}
            /\ shown \subseteq history
            /\ Cardinality(shown) = Len(context.events)
            /\ Cardinality((cited \cap history) \ shown) = context.dropped.cited
      Honest(context, limit, c) ==
        OutOfBudget(context, limit) \/ ShowsAll(context, History[c], CitedBy(SelectedFrom[c], context.shown.claims))
  IN  \A c \in Checkpoints, limit \in Budgets : Honest(Build(c, limit), limit, c)
=============================================================================
