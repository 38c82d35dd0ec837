--------------------------- MODULE RunHistoryProofs ---------------------------
(***************************************************************************)
(* Proofs of the invariants of RunHistory and of ResumeContext, for every    *)
(* alphabet of observations, every length of the ledger, every number of     *)
(* checkpoints, and every width, page and budget.                            *)
(*                                                                         *)
(* The derivations are folds over a ledger that grows without bound.  The    *)
(* first part says what each fold computes, of any ledger: a fold of the     *)
(* community modules is unfolded from left to right (FoldUp) or from right   *)
(* to left (FoldDown), and what it has computed after k events is shown by   *)
(* the least number for which it would be wrong (UpTo).  The second part is  *)
(* the inductive invariant of a run.  The third is the walk: what it knows   *)
(* between two events and between two pages, and what a run with claims      *)
(* keeps so that it may start at any checkpoint.  The fourth is the context: *)
(* the widths of its lines and sections, what each tier adds to it, and      *)
(* where the claims and the intents that it shows come from.                 *)
(***************************************************************************)
EXTENDS ResumeContext, FiniteSetTheorems, WellFoundedInduction, TLAPS

-----------------------------------------------------------------------------
(* Least counterexamples, and the steps of a fold *)

\* The least of a set of naturals.
LEMMA LeastOf ==
  ASSUME NEW S \in SUBSET Nat, S # {}
  PROVE  Min(S) \in S /\ \A i \in S : Min(S) <= i
<1>1. PICK m \in S : \A i \in S : <<i, m>> \notin OpToRel(<, Nat)
  <2>1. IsWellFoundedOn(OpToRel(<, Nat), Nat)
    BY NatLessThanWellFounded
  <2> QED
    BY <2>1, WFMin
<1>2. \A i \in S : ~(i < m)
  BY <1>1, Zenon DEF OpToRel
<1>3. \A i \in S : m <= i
  BY <1>2
<1> QED
  BY <1>3 DEF Min

\* The greatest of a set of numbers up to n.
LEMMA GreatestOf ==
  ASSUME NEW n \in Nat, NEW S \in SUBSET (0..n), S # {}
  PROVE  Max(S) \in S /\ \A i \in S : i <= Max(S)
<1> DEFINE T == {n - i : i \in S}
<1>1. T \in SUBSET Nat /\ T # {}
  <2>1. \A i \in S : i \in 0..n /\ n - i \in Nat
    OBVIOUS
  <2>2. \E i \in S : TRUE
    OBVIOUS
  <2> QED
    BY <2>1, <2>2
<1>2. PICK m \in S : Min(T) = n - m
  BY <1>1, LeastOf
<1>3. \A i \in S : i <= m
  <2> TAKE i \in S
  <2>1. n - i \in T
    OBVIOUS
  <2>2. Min(T) <= n - i
    BY <1>1, <2>1, LeastOf
  <2> QED
    BY <1>2, <2>2
<1> QED
  BY <1>3 DEF Max

\* A property of 0 that goes from each number to the next one, up to n.
LEMMA UpTo ==
  ASSUME NEW n \in Nat, NEW good, 0 \in good, \A k \in 0..(n - 1) : k \in good => k + 1 \in good
  PROVE  \A k \in 0..n : k \in good
<1> DEFINE bad == {k \in 0..n : k \notin good}
<1> SUFFICES ASSUME bad # {} PROVE FALSE
  OBVIOUS
<1>1. Min(bad) \in bad /\ \A i \in bad : Min(bad) <= i
  BY LeastOf
<1>2. Min(bad) - 1 \in 0..(n - 1) /\ Min(bad) - 1 \notin bad
  BY <1>1
<1> QED
  BY <1>1, <1>2

\* The value at each subset of D is a step, by the element picked, from the value
\* without it.
FoldsBy(g, D, pick, b, step) ==
  \A s \in SUBSET D : g[s] = IF s = {} THEN b ELSE step[pick[s]][g[s \ {pick[s]}]]

\* A fold that takes the elements of a finite set in any order.
LEMMA FoldExists ==
  ASSUME NEW D, IsFiniteSet(D), NEW pick, \A s \in SUBSET D : s # {} => pick[s] \in s,
         NEW S, NEW b \in S, NEW step \in [D -> [S -> S]]
  PROVE  \E g \in [SUBSET D -> S] : FoldsBy(g, D, pick, b, step)
<1> DEFINE Small(n) == {s \in SUBSET D : Cardinality(s) <= n}
           good == {n \in Nat : \E g \in [Small(n) -> S] :
                      \A s \in Small(n) : g[s] = IF s = {} THEN b ELSE step[pick[s]][g[s \ {pick[s]}]]}
           N == Cardinality(D)
<1>1. N \in Nat /\ \A s \in SUBSET D : IsFiniteSet(s) /\ Cardinality(s) \in 0..N
  BY FS_Subset, FS_CardinalityType
<1>2. \A s \in SUBSET D : s = {} <=> Cardinality(s) = 0
  BY <1>1, FS_EmptySet
<1>3. \A s \in SUBSET D : s # {} => /\ s \ {pick[s]} \in SUBSET D
                                    /\ Cardinality(s \ {pick[s]}) = Cardinality(s) - 1
  BY <1>1, FS_RemoveElement
<1>4. 0 \in good
  <2> DEFINE g == [s \in Small(0) |-> b]
  <2>1. g \in [Small(0) -> S]
    OBVIOUS
  <2>2. \A s \in Small(0) : s = {}
    BY <1>1, <1>2
  <2>3. \A s \in Small(0) : g[s] = IF s = {} THEN b ELSE step[pick[s]][g[s \ {pick[s]}]]
    BY <2>2
  <2> HIDE DEF g, Small
  <2> QED
    BY <2>1, <2>3
<1>5. ASSUME NEW n \in 0..(N - 1), n \in good PROVE n + 1 \in good
  <2>1. PICK g \in [Small(n) -> S] :
          \A s \in Small(n) : g[s] = IF s = {} THEN b ELSE step[pick[s]][g[s \ {pick[s]}]]
    BY <1>5
  <2> DEFINE h == [s \in Small(n + 1) |-> IF s \in Small(n) THEN g[s] ELSE step[pick[s]][g[s \ {pick[s]}]]]
  <2>2. \A s \in Small(n + 1) : s # {} => s \ {pick[s]} \in Small(n) /\ s \ {pick[s]} \in Small(n + 1)
    BY <1>1, <1>3
  <2>3. \A s \in Small(n + 1) : s = {} => s \in Small(n)
    BY <1>2
  <2>4. h \in [Small(n + 1) -> S]
    <3> SUFFICES ASSUME NEW s \in Small(n + 1), s \notin Small(n)
                 PROVE  step[pick[s]][g[s \ {pick[s]}]] \in S
      OBVIOUS
    <3>1. s # {} /\ pick[s] \in D /\ g[s \ {pick[s]}] \in S
      BY <2>2, <2>3
    <3>2. step[pick[s]] \in [S -> S]
      BY <3>1
    <3> QED
      BY <3>1, <3>2
  <2>5. \A s \in Small(n + 1) : h[s] = IF s = {} THEN b ELSE step[pick[s]][h[s \ {pick[s]}]]
    <3> TAKE s \in Small(n + 1)
    <3>1. s # {} => h[s \ {pick[s]}] = g[s \ {pick[s]}]
      BY <2>2
    <3> QED
      BY <2>1, <2>3, <3>1
  <2> HIDE DEF h, Small
  <2>6. n + 1 \in Nat
    BY <1>1
  <2> QED
    BY <2>4, <2>5, <2>6
<1>6. \A n \in 0..N : n \in good
  <2> HIDE DEF good, N
  <2> QED
    BY <1>1, <1>4, <1>5, UpTo
<1>7. Small(N) = SUBSET D
  BY <1>1
<1>8. \E g \in [Small(N) -> S] :
        \A s \in Small(N) : g[s] = IF s = {} THEN b ELSE step[pick[s]][g[s \ {pick[s]}]]
  BY <1>1, <1>6
<1> HIDE DEF Small
<1> QED
  BY <1>7, <1>8 DEF FoldsBy

\* A fold that takes the greatest first, that is, applies steps from left to right.
FoldsUp(g, D, b, step) ==
  \A s \in SUBSET D : g[s] = IF s = {} THEN b ELSE step[Max(s)][g[s \ {Max(s)}]]

LEMMA FoldUp ==
  ASSUME NEW n \in Nat, NEW S, NEW b \in S, NEW step \in [1..n -> [S -> S]]
  PROVE  \E g \in [SUBSET (1..n) -> S] : FoldsUp(g, 1..n, b, step)
<1> DEFINE D == 1..n
<1>1. PICK pick : pick = [s \in SUBSET D |-> Max(s)]
  OBVIOUS
<1>2. \A s \in SUBSET D : pick[s] = Max(s)
  BY <1>1
<1>3. \A s \in SUBSET D : s # {} => pick[s] \in s
  <2> TAKE s \in SUBSET D
  <2> HAVE s # {}
  <2>1. s \in SUBSET (0..n)
    OBVIOUS
  <2> QED
    BY <1>2, <2>1, GreatestOf
<1>4. IsFiniteSet(D)
  BY FS_Interval
<1>5. step \in [D -> [S -> S]]
  OBVIOUS
<1> HIDE DEF D
<1>6. PICK g \in [SUBSET D -> S] : FoldsBy(g, D, pick, b, step)
  BY <1>3, <1>4, <1>5, FoldExists
<1>7. FoldsUp(g, D, b, step)
  BY <1>2, <1>6 DEF FoldsBy, FoldsUp
<1> QED
  BY <1>6, <1>7 DEF D

-----------------------------------------------------------------------------
IsRun(L) == L \in Seq(Events)

Intents == [kind : IntentKinds \cup {None}, intent_id : Ids \cup {None}, requested_seq : Nat,
            status : Statuses, resolved_seq : Nat]

\* What an event makes of intents are intents.
LEMMA CorrelateType ==
  ASSUME NEW intents \in SUBSET Intents, NEW seq \in Nat, NEW event \in Events
  PROVE  Correlate(intents, seq, event) \in SUBSET Intents
<1> DEFINE resolved == IF IntentId(event) = None THEN {} ELSE LatestOf(intents, event)
<1>1. Requested(event, seq) \in Intents
  BY DEF Events, Intents, Requested, IntentId, Statuses
<1>2. resolved \subseteq intents
  BY DEF LatestOf
<1>3. Resolve(resolved, seq, event) \subseteq Intents
  <2> HIDE DEF resolved
  <2> SUFFICES ASSUME NEW intent \in resolved, intent.status # "completed"
               PROVE  [intent EXCEPT !.status = IF event.role = "acknowledgement" THEN "completed" ELSE "pending",
                                     !.resolved_seq = seq] \in Intents
    BY <1>2 DEF Resolve
  <2>1. intent \in Intents
    BY <1>2
  <2> QED
    BY <2>1 DEF Intents, Statuses
<1> QED
  BY <1>1, <1>2, <1>3 DEF Correlate

\* The steps of a derivation.
DerivationStep(L, kept, intents, seq) ==
  IF seq \in kept THEN Correlate(intents, seq, L[seq]) ELSE intents

LEMMA DerivationSteps ==
  ASSUME NEW L, IsRun(L), NEW kept
  PROVE  \E h : /\ h[0] = {}
                /\ \A k \in 1..Len(L) : h[k] = DerivationStep(L, kept, h[k - 1], k)
                /\ DerivePendingIntent(L, kept) = h[Len(L)]
<1> DEFINE D == 1..Len(L)
           S == SUBSET Intents
           id == [seq \in DOMAIN L |-> seq]
           step == [seq \in D |-> [intents \in S |-> DerivationStep(L, kept, intents, seq)]]
           IsIter(g) == g = [s \in SUBSET D |->
                               IF s = {} THEN {}
                               ELSE IF id[Max(s)] \in kept
                                    THEN Correlate(g[s \ {Max(s)}], id[Max(s)], L[id[Max(s)]])
                                    ELSE g[s \ {Max(s)}]]
<1>1. DOMAIN L = D /\ Len(L) \in Nat /\ \A i \in D : L[i] \in Events
  BY DEF IsRun
<1>2. DerivePendingIntent(L, kept) = (CHOOSE g : IsIter(g))[DOMAIN id]
  BY <1>1, Zenon DEF DerivePendingIntent, FoldLeft, MapThenFoldSet
<1>3. \A s \in SUBSET D : s # {} => /\ Max(s) \in s /\ id[Max(s)] = Max(s)
  <2> TAKE s \in SUBSET D
  <2> HAVE s # {}
  <2>1. s \in SUBSET (0..Len(L))
    BY <1>1
  <2>2. Max(s) \in s
    BY <1>1, <2>1, GreatestOf
  <2> QED
    BY <1>1, <2>2
<1>4. step \in [D -> [S -> S]]
  <2> SUFFICES ASSUME NEW seq \in D, NEW intents \in S
               PROVE  DerivationStep(L, kept, intents, seq) \in S
    OBVIOUS
  <2>1. seq \in Nat
    BY <1>1
  <2> QED
    BY <1>1, <2>1, CorrelateType DEF DerivationStep
<1>5. \E g : IsIter(g)
  <2>1. {} \in S
    OBVIOUS
  <2> HIDE DEF step
  <2>2. PICK g \in [SUBSET D -> S] : FoldsUp(g, D, {}, step)
    BY <1>1, <1>4, <2>1, FoldUp
  <2> HIDE DEF D, S, id
  <2>3. \A s \in SUBSET D :
          g[s] = IF s = {} THEN {}
                 ELSE IF id[Max(s)] \in kept
                      THEN Correlate(g[s \ {Max(s)}], id[Max(s)], L[id[Max(s)]])
                      ELSE g[s \ {Max(s)}]
    <3> TAKE s \in SUBSET D
    <3>1. s = {} => g[s] = {}
      BY <2>2 DEF FoldsUp
    <3>2. ASSUME s # {} PROVE g[s] = DerivationStep(L, kept, g[s \ {Max(s)}], Max(s))
      <4>1. g[s] = step[Max(s)][g[s \ {Max(s)}]]
        BY <2>2, <3>2 DEF FoldsUp
      <4>2. Max(s) \in D /\ g[s \ {Max(s)}] \in S
        BY <1>3, <2>2, <3>2
      <4> QED
        BY <4>1, <4>2 DEF step
    <3> QED
      BY <1>3, <3>1, <3>2 DEF DerivationStep
  <2>5. g = [s \in SUBSET D |-> g[s]]
    BY <2>2
  <2>6. IsIter(g)
    BY <2>3, <2>5, Zenon
  <2> QED
    BY <2>6
<1> DEFINE G == CHOOSE g : IsIter(g)
           h == [k \in 0..Len(L) |-> G[1..k]]
<1>6. IsIter(G)
  BY <1>5
<1>7. \A k \in 0..Len(L) : 1..k \in SUBSET D
  BY <1>1
<1>8. h[0] = {}
  <2>1. 1..0 = {} /\ 0 \in 0..Len(L)
    BY <1>1
  <2> HIDE DEF G
  <2> QED
    BY <1>6, <1>7, <2>1
<1>9. \A k \in 1..Len(L) : h[k] = DerivationStep(L, kept, h[k - 1], k)
  <2> TAKE k \in 1..Len(L)
  <2>1. 1..k \in SUBSET (0..k) /\ k \in 1..k /\ k \in Nat /\ \A i \in 1..k : i <= k
    BY <1>1
  <2>2. Max(1..k) = k
    <3>1. Max(1..k) \in 1..k /\ k <= Max(1..k)
      BY <2>1, GreatestOf
    <3> QED
      BY <2>1, <3>1
  <2>3. (1..k) \ {k} = 1..(k - 1) /\ k - 1 \in 0..Len(L) /\ k \in 0..Len(L)
    BY <1>1, <2>1
  <2> HIDE DEF G
  <2>5. 1..k \in SUBSET D /\ 1..k # {} /\ id[k] = k
    BY <1>1, <1>7, <2>1, <2>3
  <2> HIDE DEF id, D
  <2>6. G[1..k] = IF 1..k = {} THEN {}
                  ELSE IF id[Max(1..k)] \in kept
                       THEN Correlate(G[(1..k) \ {Max(1..k)}], id[Max(1..k)], L[id[Max(1..k)]])
                       ELSE G[(1..k) \ {Max(1..k)}]
    BY <1>6, <2>5, Zenon
  <2>4. G[1..k] = DerivationStep(L, kept, G[1..(k - 1)], k)
    BY <2>2, <2>3, <2>5, <2>6 DEF DerivationStep
  <2> QED
    BY <2>3, <2>4
<1>11. DerivePendingIntent(L, kept) = h[Len(L)]
  BY <1>1, <1>2
<1> HIDE DEF h
<1> QED
  BY <1>8, <1>9, <1>11

AnswersIn(L, r, role, among) ==
  {a \in among :
     /\ L[a].role = role
     /\ L[a].kind = L[r].kind
     /\ IntentId(L[a]) = IntentId(L[r])
     /\ IntentId(L[r]) # None
     /\ r < a
     /\ \A later \in among \cap {q \in DOMAIN L : L[q].role = "request"} :
          /\ r < later /\ later < a
          /\ L[later].kind = L[r].kind
          => IntentId(L[later]) # IntentId(L[r])}
StatusIn(L, r, among) ==
  IF AnswersIn(L, r, "acknowledgement", among) # {} THEN "completed"
  ELSE IF AnswersIn(L, r, "failure", among) # {} THEN "pending"
  ELSE "in_progress"

\* The first acknowledgement, or else the last failure.
ResolvedIn(L, r, among) ==
  IF AnswersIn(L, r, "acknowledgement", among) # {} THEN Min(AnswersIn(L, r, "acknowledgement", among))
  ELSE IF AnswersIn(L, r, "failure", among) # {} THEN Max(AnswersIn(L, r, "failure", among))
  ELSE 0

RequestsIn(L) == {r \in DOMAIN L : L[r].role = "request"}
IntentIn(L, r, among) ==
  [kind |-> L[r].kind, intent_id |-> IntentId(L[r]), requested_seq |-> r,
   status |-> StatusIn(L, r, among), resolved_seq |-> ResolvedIn(L, r, among)]
IntentsIn(L, among) == {IntentIn(L, r, among) : r \in RequestsIn(L) \cap among}

\* n belongs to r, if it comes after all of K.
Belongs(L, r, n, K) ==
  /\ L[n].kind = L[r].kind
  /\ IntentId(L[n]) = IntentId(L[r])
  /\ IntentId(L[r]) # None
  /\ \A later \in K \cap RequestsIn(L) :
       r < later /\ L[later].kind = L[r].kind => IntentId(L[later]) # IntentId(L[r])

\* What the next event adds to the answers.
NextAnswers(L, r, role, n, K) == {a \in {n} : L[a].role = role /\ Belongs(L, r, a, K)}

LEMMA AnswersGrow ==
  ASSUME NEW L, IsRun(L), NEW n \in DOMAIN L, NEW K \in SUBSET (1..(n - 1)), NEW r \in K
  PROVE  \A role \in {"acknowledgement", "failure"} :
           AnswersIn(L, r, role, K \cup {n}) =
             AnswersIn(L, r, role, K) \cup NextAnswers(L, r, role, n, K)
<1> TAKE role \in {"acknowledgement", "failure"}
<1>1. n \in Nat /\ DOMAIN L = 1..Len(L) /\ n \notin K /\ \A i \in K : i \in DOMAIN L /\ i \in Nat /\ i < n
  BY DEF IsRun
<1>2. \A a \in K : a \in AnswersIn(L, r, role, K \cup {n}) <=> a \in AnswersIn(L, r, role, K)
  BY <1>1 DEF AnswersIn
<1>3. n \in AnswersIn(L, r, role, K \cup {n}) <=> L[n].role = role /\ Belongs(L, r, n, K)
  BY <1>1 DEF AnswersIn, Belongs, RequestsIn
<1>4. AnswersIn(L, r, role, K \cup {n}) \subseteq K \cup {n} /\ AnswersIn(L, r, role, K) \subseteq K
  BY DEF AnswersIn
<1> QED
  BY <1>1, <1>2, <1>3, <1>4 DEF NextAnswers

\* A request that comes after all of K has no answer in it.
LEMMA Unanswered ==
  ASSUME NEW L, IsRun(L), NEW n \in DOMAIN L, NEW K \in SUBSET (1..(n - 1)), NEW role
  PROVE  AnswersIn(L, n, role, K \cup {n}) = {}
<1>1. n \in Nat /\ \A i \in K : i \in Nat /\ i < n
  BY DEF IsRun
<1>2. \A a \in K \cup {n} : ~(n < a)
  BY <1>1
<1> QED
  BY <1>2 DEF AnswersIn

\* Records of intents are equal if their fields are.
LEMMA IntentEqual ==
  ASSUME NEW T, NEW i \in [kind : T, intent_id : T, requested_seq : T, status : T, resolved_seq : T],
         NEW j \in [kind : T, intent_id : T, requested_seq : T, status : T, resolved_seq : T],
         i.kind = j.kind, i.intent_id = j.intent_id, i.requested_seq = j.requested_seq,
         i.status = j.status, i.resolved_seq = j.resolved_seq
  PROVE  i = j
OBVIOUS

\* An intent with another status.
Answered(i, x, n) == [i EXCEPT !.status = x, !.resolved_seq = n]

LEMMA IntentExcept ==
  ASSUME NEW k, NEW d, NEW r, NEW s, NEW q, NEW x, NEW n, NEW i,
         i = [kind |-> k, intent_id |-> d, requested_seq |-> r, status |-> s, resolved_seq |-> q]
  PROVE  Answered(i, x, n) =
           [kind |-> k, intent_id |-> d, requested_seq |-> r, status |-> x, resolved_seq |-> n]
<1> DEFINE T == {k, d, r, s, q, x, n}
           Rec == [kind : T, intent_id : T, requested_seq : T, status : T, resolved_seq : T]
           j == [i EXCEPT !.status = x, !.resolved_seq = n]
           out == [kind |-> k, intent_id |-> d, requested_seq |-> r, status |-> x, resolved_seq |-> n]
<1>1. i \in Rec /\ out \in Rec
  OBVIOUS
<1>2. j \in Rec
  <2> HIDE DEF T
  <2>1. x \in T /\ n \in T
    BY DEF T
  <2> QED
    BY <1>1, <2>1
<1>3. j.kind = k /\ j.intent_id = d /\ j.requested_seq = r /\ j.status = x /\ j.resolved_seq = n
  OBVIOUS
<1>4. out.kind = k /\ out.intent_id = d /\ out.requested_seq = r /\ out.status = x /\ out.resolved_seq = n
  OBVIOUS
<1> HIDE DEF j, out, T
<1>5. j = out
  BY <1>1, <1>2, <1>3, <1>4, IntentEqual
<1> QED
  BY <1>5 DEF j, out, Answered

\* What the next event makes of the intent of an earlier request.
LEMMA IntentGrows ==
  ASSUME NEW L, IsRun(L), NEW n \in DOMAIN L, NEW K \in SUBSET (1..(n - 1)), NEW r \in K
  PROVE  IntentIn(L, r, K \cup {n}) =
           IF /\ L[n].role \in {"acknowledgement", "failure"}
              /\ Belongs(L, r, n, K)
              /\ IntentIn(L, r, K).status # "completed"
           THEN Answered(IntentIn(L, r, K), IF L[n].role = "acknowledgement" THEN "completed" ELSE "pending", n)
           ELSE IntentIn(L, r, K)
<1> DEFINE acks == AnswersIn(L, r, "acknowledgement", K)
           fails == AnswersIn(L, r, "failure", K)
           acks1 == AnswersIn(L, r, "acknowledgement", K \cup {n})
           fails1 == AnswersIn(L, r, "failure", K \cup {n})
<1>1. /\ acks1 = acks \cup (IF L[n].role = "acknowledgement" /\ Belongs(L, r, n, K) THEN {n} ELSE {})
      /\ fails1 = fails \cup (IF L[n].role = "failure" /\ Belongs(L, r, n, K) THEN {n} ELSE {})
  <2>1. \A role \in {"acknowledgement", "failure"} :
          AnswersIn(L, r, role, K \cup {n}) =
            AnswersIn(L, r, role, K) \cup NextAnswers(L, r, role, n, K)
    BY AnswersGrow
  <2> QED
    BY <2>1 DEF NextAnswers
<1>2. acks \in SUBSET K /\ fails \in SUBSET K /\ n \in Nat /\ \A i \in K : i \in 0..n /\ i \in Nat /\ i < n
  BY DEF AnswersIn, IsRun
<1>3. Min({n}) = n
  BY <1>2, LeastOf
<1>4. acks # {} => Min(acks \cup {n}) = Min(acks)
  <2> SUFFICES ASSUME acks # {} PROVE Min(acks \cup {n}) = Min(acks)
    OBVIOUS
  <2> HIDE DEF acks
  <2>3. acks \in SUBSET Nat /\ acks \cup {n} \in SUBSET Nat /\ acks \cup {n} # {}
    BY <1>2
  <2>1. Min(acks) \in acks /\ \A i \in acks : Min(acks) <= i
    BY <2>3, LeastOf
  <2>2. Min(acks \cup {n}) \in acks \cup {n} /\ \A i \in acks \cup {n} : Min(acks \cup {n}) <= i
    BY <2>3, LeastOf
  <2>4. Min(acks) \in Nat /\ Min(acks \cup {n}) \in Nat /\ Min(acks) < n
    BY <1>2, <2>1, <2>2
  <2>5. Min(acks \cup {n}) <= Min(acks)
    BY <2>1, <2>2
  <2> QED
    BY <2>1, <2>2, <2>4, <2>5
<1>5. Max(fails \cup {n}) = n
  <2> HIDE DEF fails
  <2>1. fails \cup {n} \in SUBSET (0..n)
    <3>1. n \in 0..n
      BY <1>2
    <3> QED
      BY <1>2, <3>1
  <2>2. Max(fails \cup {n}) \in fails \cup {n} /\ n <= Max(fails \cup {n})
    <3>1. fails \cup {n} # {} /\ n \in fails \cup {n}
      OBVIOUS
    <3> QED
      BY <1>2, <2>1, <3>1, GreatestOf
  <2>3. Max(fails \cup {n}) \in 0..n
    BY <2>1, <2>2
  <2> QED
    BY <1>2, <2>2, <2>3
<1> DEFINE status == IF acks # {} THEN "completed" ELSE IF fails # {} THEN "pending" ELSE "in_progress"
           resolved == IF acks # {} THEN Min(acks) ELSE IF fails # {} THEN Max(fails) ELSE 0
           status1 == IF acks1 # {} THEN "completed" ELSE IF fails1 # {} THEN "pending" ELSE "in_progress"
           resolved1 == IF acks1 # {} THEN Min(acks1) ELSE IF fails1 # {} THEN Max(fails1) ELSE 0
<1>6. /\ IntentIn(L, r, K) = [kind |-> L[r].kind, intent_id |-> IntentId(L[r]), requested_seq |-> r,
                              status |-> status, resolved_seq |-> resolved]
      /\ IntentIn(L, r, K \cup {n}) = [kind |-> L[r].kind, intent_id |-> IntentId(L[r]), requested_seq |-> r,
                                       status |-> status1, resolved_seq |-> resolved1]
  BY DEF IntentIn, StatusIn, ResolvedIn
<1>7. IntentIn(L, r, K).status # "completed" <=> acks = {}
  BY <1>6
<1> HIDE DEF acks, fails, acks1, fails1
<1>11. ASSUME NEW x
       PROVE  Answered(IntentIn(L, r, K), x, n) =
                [kind |-> L[r].kind, intent_id |-> IntentId(L[r]), requested_seq |-> r,
                 status |-> x, resolved_seq |-> n]
  <2> HIDE DEF status, resolved
  <2> QED
    BY <1>6, IntentExcept
<1>8. CASE L[n].role = "acknowledgement" /\ Belongs(L, r, n, K)
  <2>1. acks1 = acks \cup {n} /\ status1 = "completed" /\ resolved1 = IF acks = {} THEN n ELSE Min(acks)
    BY <1>1, <1>3, <1>4, <1>8
  <2> HIDE DEF status1, resolved1
  <2>2. CASE acks = {}
    BY <1>6, <1>7, <1>8, <1>11, <2>1, <2>2
  <2>3. CASE acks # {}
    <3>1. status1 = status /\ resolved1 = resolved
      BY <2>1, <2>3
    <3> HIDE DEF status, resolved
    <3> QED
      BY <1>6, <1>7, <2>3, <3>1
  <2> QED
    BY <2>2, <2>3
<1>9. CASE L[n].role = "failure" /\ Belongs(L, r, n, K)
  <2>1. acks1 = acks /\ fails1 = fails \cup {n}
    BY <1>1, <1>9
  <2>2. /\ status1 = IF acks # {} THEN "completed" ELSE "pending"
        /\ resolved1 = IF acks # {} THEN Min(acks) ELSE n
    BY <1>5, <2>1
  <2> HIDE DEF status1, resolved1
  <2>3. CASE acks = {}
    BY <1>6, <1>7, <1>9, <1>11, <2>2, <2>3
  <2>4. CASE acks # {}
    <3>1. status1 = status /\ resolved1 = resolved
      BY <2>2, <2>4
    <3> HIDE DEF status, resolved
    <3> QED
      BY <1>6, <1>7, <2>4, <3>1
  <2> QED
    BY <2>3, <2>4
<1>10. CASE ~(L[n].role \in {"acknowledgement", "failure"} /\ Belongs(L, r, n, K))
  <2>1. acks1 = acks /\ fails1 = fails
    BY <1>1, <1>10
  <2>2. status1 = status /\ resolved1 = resolved
    BY <2>1
  <2> HIDE DEF status1, resolved1, status, resolved
  <2> QED
    BY <1>6, <1>10, <2>2
<1> QED
  BY <1>8, <1>9, <1>10

\* The fields of an intent.
LEMMA IntentFields ==
  ASSUME NEW L, NEW r, NEW K
  PROVE  /\ IntentIn(L, r, K).kind = L[r].kind
         /\ IntentIn(L, r, K).intent_id = IntentId(L[r])
         /\ IntentIn(L, r, K).requested_seq = r
         /\ IntentIn(L, r, K).status = StatusIn(L, r, K)
         /\ IntentIn(L, r, K).resolved_seq = ResolvedIn(L, r, K)
BY DEF IntentIn

\* One event makes of the intents before it the intents with it.
LEMMA CorrelateMeans ==
  ASSUME NEW L, IsRun(L), NEW n \in DOMAIN L, NEW K \in SUBSET (1..(n - 1))
  PROVE  Correlate(IntentsIn(L, K), n, L[n]) = IntentsIn(L, K \cup {n})
<1> DEFINE I == IntentsIn(L, K)
           e == L[n]
           R == RequestsIn(L) \cap K
<1>1. n \in Nat /\ n \notin K /\ \A r \in K : r \in Nat /\ r < n /\ r \in DOMAIN L
  BY DEF IsRun
<1>2. I = {IntentIn(L, r, K) : r \in R}
  BY DEF IntentsIn
<1>3. IntentsIn(L, K \cup {n}) =
        {IntentIn(L, r, K \cup {n}) : r \in R} \cup (IF e.role = "request" THEN {IntentIn(L, n, K \cup {n})} ELSE {})
  BY DEF IntentsIn, RequestsIn
<1>4. ASSUME e.role \notin {"acknowledgement", "failure"}
      PROVE  {IntentIn(L, r, K \cup {n}) : r \in R} = I
  <2>1. \A r \in R : IntentIn(L, r, K \cup {n}) = IntentIn(L, r, K)
    BY <1>4, IntentGrows
  <2> QED
    BY <1>2, <2>1
<1>5. CASE e.role = "request"
  <2>1. IntentIn(L, n, K \cup {n}) = Requested(e, n)
    <3>1. \A role \in {"acknowledgement", "failure"} : AnswersIn(L, n, role, K \cup {n}) = {}
      BY Unanswered
    <3> QED
      BY <3>1 DEF IntentIn, StatusIn, ResolvedIn, Requested
  <2>2. Correlate(I, n, e) = I \cup {Requested(e, n)}
    BY <1>5 DEF Correlate
  <2> QED
    BY <1>3, <1>4, <1>5, <2>1, <2>2
<1>6. CASE e.role \notin {"request", "acknowledgement", "failure"}
  <2>1. Correlate(I, n, e) = I
    BY <1>6 DEF Correlate
  <2> QED
    BY <1>3, <1>4, <1>6, <2>1
<1>7. CASE e.role \in {"acknowledgement", "failure"}
  <2> DEFINE status == IF e.role = "acknowledgement" THEN "completed" ELSE "pending"
             resolved == IF IntentId(e) = None THEN {} ELSE LatestOf(I, e)
             Mine == {r \in R : Belongs(L, r, n, K)}
  <2>1. resolved = {IntentIn(L, r, K) : r \in Mine}
    <3>1. CASE IntentId(e) = None
      BY <3>1 DEF Belongs
    <3>2. CASE IntentId(e) # None
      <4> DEFINE same == {i \in I : i.kind = e.kind /\ i.intent_id = IntentId(e)}
      <4>1. same = {IntentIn(L, r, K) : r \in {q \in R : L[q].kind = e.kind /\ IntentId(L[q]) = IntentId(e)}}
        BY <1>2, IntentFields
      <4>2. ASSUME NEW r \in R, L[r].kind = e.kind, IntentId(L[r]) = IntentId(e)
            PROVE  Belongs(L, r, n, K) <=> \A other \in same : other.requested_seq <= IntentIn(L, r, K).requested_seq
        <5>1. Belongs(L, r, n, K)
                <=> \A q \in R : L[q].kind = e.kind /\ IntentId(L[q]) = IntentId(e) => ~(r < q)
          BY <3>2, <4>2 DEF Belongs
        <5>2. (\A other \in same : other.requested_seq <= IntentIn(L, r, K).requested_seq)
                <=> \A q \in R : L[q].kind = e.kind /\ IntentId(L[q]) = IntentId(e) => q <= r
          BY <4>1, IntentFields
        <5>3. ASSUME NEW q \in R PROVE q <= r <=> ~(r < q)
          <6>1. q \in Nat /\ r \in Nat
            BY <1>1
          <6> QED
            BY <6>1
        <5> HIDE DEF same, R
        <5> QED
          BY <5>1, <5>2, <5>3
      <4>3. LatestOf(I, e) = {i \in same : \A other \in same : other.requested_seq <= i.requested_seq}
        BY DEF LatestOf
      <4>4. \A r \in R : Belongs(L, r, n, K) => L[r].kind = e.kind /\ IntentId(L[r]) = IntentId(e)
        BY DEF Belongs
      <4> HIDE DEF same, R, I, e
      <4> QED
        BY <3>2, <4>1, <4>2, <4>3, <4>4
    <3> QED
      BY <3>1, <3>2
  <2>2. I \ resolved = {IntentIn(L, r, K) : r \in R \ Mine}
    BY <1>2, <2>1, IntentFields
  <2>3. Resolve(resolved, n, e) = {IntentIn(L, r, K \cup {n}) : r \in Mine}
    <3>1. \A r \in Mine : IntentIn(L, r, K \cup {n}) =
            IF IntentIn(L, r, K).status = "completed" THEN IntentIn(L, r, K)
            ELSE Answered(IntentIn(L, r, K), status, n)
      <4> TAKE r \in Mine
      <4>1. r \in K /\ Belongs(L, r, n, K)
        OBVIOUS
      <4> HIDE DEF Mine
      <4> QED
        BY <1>7, <4>1, IntentGrows
    <3>2. Resolve(resolved, n, e) = {IF i.status = "completed" THEN i ELSE Answered(i, status, n) : i \in resolved}
      BY DEF Resolve, Answered
    <3> HIDE DEF resolved, Mine, status
    <3> QED
      BY <2>1, <3>1, <3>2
  <2>4. \A r \in R \ Mine : IntentIn(L, r, K \cup {n}) = IntentIn(L, r, K)
    BY <1>7, IntentGrows
  <2>5. Correlate(I, n, e) = (I \ resolved) \cup Resolve(resolved, n, e)
    BY <1>7 DEF Correlate
  <2>6. {IntentIn(L, r, K \cup {n}) : r \in R} =
          {IntentIn(L, r, K) : r \in R \ Mine} \cup {IntentIn(L, r, K \cup {n}) : r \in Mine}
    <3> HIDE DEF R
    <3> QED
      BY <2>4
  <2> HIDE DEF resolved, Mine, status
  <2> QED
    BY <1>3, <1>7, <2>2, <2>3, <2>5, <2>6
<1> QED
  BY <1>5, <1>6, <1>7

\* A derivation is the intents of the requests among the events kept, with the
\* outcome that these events give them.
LEMMA DerivationMeans ==
  ASSUME NEW L, IsRun(L), NEW kept \in SUBSET (DOMAIN L)
  PROVE  DerivePendingIntent(L, kept) = IntentsIn(L, kept)
<1> DEFINE N == Len(L)
           K(k) == kept \cap (1..k)
<1>1. L \in Seq(Events) /\ N \in Nat /\ DOMAIN L = 1..N
  BY DEF IsRun
<1>2. PICK h : /\ h[0] = {}
               /\ \A k \in 1..N : h[k] = DerivationStep(L, kept, h[k - 1], k)
               /\ DerivePendingIntent(L, kept) = h[N]
  BY <1>1, DerivationSteps
<1> DEFINE good == {k \in 0..N : h[k] = IntentsIn(L, K(k))}
<1>3. 0 \in good
  <2>1. K(0) = {}
    OBVIOUS
  <2> QED
    BY <1>1, <1>2, <2>1 DEF IntentsIn
<1>4. ASSUME NEW k \in 0..(N - 1), k \in good PROVE k + 1 \in good
  <2>1. k + 1 \in 1..N /\ (k + 1) - 1 = k /\ k + 1 \in DOMAIN L /\ k \in Nat
    BY <1>1
  <2>2. h[k + 1] = DerivationStep(L, kept, IntentsIn(L, K(k)), k + 1)
    BY <1>2, <1>4, <2>1
  <2>3. CASE k + 1 \in kept
    <3>1. K(k + 1) = K(k) \cup {k + 1} /\ K(k) \in SUBSET (1..((k + 1) - 1))
      BY <2>1, <2>3
    <3>2. Correlate(IntentsIn(L, K(k)), k + 1, L[k + 1]) = IntentsIn(L, K(k) \cup {k + 1})
      BY <2>1, <3>1, CorrelateMeans
    <3>4. k + 1 \in 0..N
      BY <2>1
    <3> HIDE DEF K, N
    <3>3. h[k + 1] = IntentsIn(L, K(k + 1))
      BY <2>2, <2>3, <3>1, <3>2 DEF DerivationStep
    <3> QED
      BY <3>3, <3>4
  <2>4. CASE k + 1 \notin kept
    <3>1. K(k + 1) = K(k)
      BY <2>1, <2>4
    <3>4. k + 1 \in 0..N
      BY <2>1
    <3> HIDE DEF K, N
    <3>3. h[k + 1] = IntentsIn(L, K(k + 1))
      BY <2>2, <2>4, <3>1 DEF DerivationStep
    <3> QED
      BY <3>3, <3>4
  <2> QED
    BY <2>3, <2>4
<1>5. N \in good
  <2> HIDE DEF good, N
  <2>1. \A k \in 0..N : k \in good
    BY <1>1, <1>3, <1>4, UpTo
  <2> QED
    BY <1>1, <2>1
<1>6. K(N) = kept
  BY <1>1
<1> QED
  BY <1>2, <1>5, <1>6

\* A fold that takes the least first, that is, applies steps from right to left.
FoldsDown(g, D, b, step) ==
  \A s \in SUBSET D : g[s] = IF s = {} THEN b ELSE step[Min(s)][g[s \ {Min(s)}]]

LEMMA FoldDown ==
  ASSUME NEW n \in Nat, NEW S, NEW b \in S, NEW step \in [1..n -> [S -> S]]
  PROVE  \E g \in [SUBSET (1..n) -> S] : FoldsDown(g, 1..n, b, step)
<1> DEFINE D == 1..n
<1>1. PICK pick : pick = [s \in SUBSET D |-> Min(s)]
  OBVIOUS
<1>2. \A s \in SUBSET D : pick[s] = Min(s)
  BY <1>1
<1>3. \A s \in SUBSET D : s # {} => pick[s] \in s
  <2> TAKE s \in SUBSET D
  <2> HAVE s # {}
  <2>1. s \in SUBSET Nat
    OBVIOUS
  <2> QED
    BY <1>2, <2>1, LeastOf
<1>4. IsFiniteSet(D)
  BY FS_Interval
<1>5. step \in [D -> [S -> S]]
  OBVIOUS
<1> HIDE DEF D
<1>6. PICK g \in [SUBSET D -> S] : FoldsBy(g, D, pick, b, step)
  BY <1>3, <1>4, <1>5, FoldExists
<1>7. FoldsDown(g, D, b, step)
  BY <1>2, <1>6 DEF FoldsBy, FoldsDown
<1> QED
  BY <1>6, <1>7 DEF D

\* The steps of collecting the restores.
Marks == [seq : Nat, target : Nat]
MarkStep(L, marks, seq) ==
  IF L[seq].role = "restore" THEN Append(marks, [seq |-> seq, target |-> L[seq].target]) ELSE marks

LEMMA LineageSteps ==
  ASSUME NEW L, IsRun(L)
  PROVE  \E h : /\ h[0] = <<>>
                /\ \A k \in 1..Len(L) : h[k] = MarkStep(L, h[k - 1], k)
                /\ Lineage(L) = h[Len(L)]
<1> DEFINE D == 1..Len(L)
           S == Seq(Marks)
           id == [seq \in DOMAIN L |-> seq]
           step == [seq \in D |-> [marks \in S |-> MarkStep(L, marks, seq)]]
           IsIter(g) == g = [s \in SUBSET D |->
                               IF s = {} THEN <<>>
                               ELSE IF L[id[Max(s)]].role = "restore"
                                    THEN Append(g[s \ {Max(s)}], [seq |-> id[Max(s)], target |-> L[id[Max(s)]].target])
                                    ELSE g[s \ {Max(s)}]]
<1>1. DOMAIN L = D /\ Len(L) \in Nat /\ \A i \in D : L[i] \in Events
  BY DEF IsRun
<1>2. Lineage(L) = (CHOOSE g : IsIter(g))[DOMAIN id]
  BY <1>1, Zenon DEF Lineage, FoldLeft, MapThenFoldSet
<1>3. \A s \in SUBSET D : s # {} => /\ Max(s) \in s /\ id[Max(s)] = Max(s)
  <2> TAKE s \in SUBSET D
  <2> HAVE s # {}
  <2>1. s \in SUBSET (0..Len(L))
    BY <1>1
  <2>2. Max(s) \in s
    BY <1>1, <2>1, GreatestOf
  <2> QED
    BY <1>1, <2>2
<1>4. step \in [D -> [S -> S]]
  <2> SUFFICES ASSUME NEW seq \in D, NEW marks \in S
               PROVE  MarkStep(L, marks, seq) \in S
    OBVIOUS
  <2>1. seq \in Nat /\ L[seq].target \in Nat
    BY <1>1 DEF Events
  <2>2. [seq |-> seq, target |-> L[seq].target] \in Marks
    BY <2>1 DEF Marks
  <2> QED
    BY <2>2 DEF MarkStep
<1>5. \E g : IsIter(g)
  <2>1. <<>> \in S
    OBVIOUS
  <2> HIDE DEF step
  <2>2. PICK g \in [SUBSET D -> S] : FoldsUp(g, D, <<>>, step)
    BY <1>1, <1>4, <2>1, FoldUp
  <2> HIDE DEF D, S, id
  <2>3. \A s \in SUBSET D :
          g[s] = IF s = {} THEN <<>>
                 ELSE IF L[id[Max(s)]].role = "restore"
                      THEN Append(g[s \ {Max(s)}], [seq |-> id[Max(s)], target |-> L[id[Max(s)]].target])
                      ELSE g[s \ {Max(s)}]
    <3> TAKE s \in SUBSET D
    <3>1. s = {} => g[s] = <<>>
      BY <2>2 DEF FoldsUp
    <3>2. ASSUME s # {} PROVE g[s] = MarkStep(L, g[s \ {Max(s)}], Max(s))
      <4>1. g[s] = step[Max(s)][g[s \ {Max(s)}]]
        BY <2>2, <3>2 DEF FoldsUp
      <4>2. Max(s) \in D /\ g[s \ {Max(s)}] \in S
        BY <1>3, <2>2, <3>2
      <4> QED
        BY <4>1, <4>2 DEF step
    <3> QED
      BY <1>3, <3>1, <3>2 DEF MarkStep
  <2>5. g = [s \in SUBSET D |-> g[s]]
    BY <2>2
  <2>6. IsIter(g)
    BY <2>3, <2>5, Zenon
  <2> QED
    BY <2>6
<1> DEFINE G == CHOOSE g : IsIter(g)
           h == [k \in 0..Len(L) |-> G[1..k]]
<1>6. IsIter(G)
  BY <1>5
<1>7. \A k \in 0..Len(L) : 1..k \in SUBSET D
  BY <1>1
<1>8. h[0] = <<>>
  <2>1. 1..0 = {} /\ 0 \in 0..Len(L)
    BY <1>1
  <2> HIDE DEF G
  <2> QED
    BY <1>6, <1>7, <2>1
<1>9. \A k \in 1..Len(L) : h[k] = MarkStep(L, h[k - 1], k)
  <2> TAKE k \in 1..Len(L)
  <2>1. 1..k \in SUBSET (0..k) /\ k \in 1..k /\ k \in Nat /\ \A i \in 1..k : i <= k
    BY <1>1
  <2>2. Max(1..k) = k
    <3>1. Max(1..k) \in 1..k /\ k <= Max(1..k)
      BY <2>1, GreatestOf
    <3> QED
      BY <2>1, <3>1
  <2>3. (1..k) \ {k} = 1..(k - 1) /\ k - 1 \in 0..Len(L) /\ k \in 0..Len(L)
    BY <1>1, <2>1
  <2> HIDE DEF G
  <2>5. 1..k \in SUBSET D /\ 1..k # {} /\ id[k] = k
    BY <1>1, <1>7, <2>1, <2>3
  <2> HIDE DEF id, D
  <2>6. G[1..k] = IF 1..k = {} THEN <<>>
                  ELSE IF L[id[Max(1..k)]].role = "restore"
                       THEN Append(G[(1..k) \ {Max(1..k)}], [seq |-> id[Max(1..k)], target |-> L[id[Max(1..k)]].target])
                       ELSE G[(1..k) \ {Max(1..k)}]
    BY <1>6, <2>5, Zenon
  <2>4. G[1..k] = MarkStep(L, G[1..(k - 1)], k)
    BY <2>2, <2>3, <2>5, <2>6 DEF MarkStep
  <2> QED
    BY <2>3, <2>4
<1>11. Lineage(L) = h[Len(L)]
  BY <1>1, <1>2
<1> HIDE DEF h
<1> QED
  BY <1>8, <1>9, <1>11

\* A sequence of marks: the restores among the events up to k, oldest first.
AreMarks(M, L, k) ==
  /\ M \in Seq(Marks)
  /\ \A i \in DOMAIN M : /\ M[i].seq \in 1..k
                         /\ L[M[i].seq].role = "restore"
                         /\ M[i].target = L[M[i].seq].target
  /\ \A i, j \in DOMAIN M : i < j => M[i].seq < M[j].seq
  /\ \A p \in 1..k : L[p].role = "restore" => \E i \in DOMAIN M : M[i].seq = p

LEMMA LineageMarks ==
  ASSUME NEW L, IsRun(L)
  PROVE  AreMarks(Lineage(L), L, Len(L))
<1> DEFINE N == Len(L)
<1>1. L \in Seq(Events) /\ N \in Nat /\ DOMAIN L = 1..N
  BY DEF IsRun
<1>2. PICK h : /\ h[0] = <<>>
               /\ \A k \in 1..N : h[k] = MarkStep(L, h[k - 1], k)
               /\ Lineage(L) = h[N]
  BY LineageSteps
<1> DEFINE good == {k \in 0..N : AreMarks(h[k], L, k)}
<1>3. 0 \in good
  <2>1. <<>> \in Seq(Marks) /\ DOMAIN <<>> = {} /\ 1..0 = {} /\ 0 \in 0..N
    BY <1>1
  <2>2. AreMarks(<<>>, L, 0)
    BY <2>1 DEF AreMarks
  <2> QED
    BY <1>2, <2>1, <2>2
<1>4. ASSUME NEW k \in 0..(N - 1), k \in good PROVE k + 1 \in good
  <2> DEFINE M == h[k]
             n == k + 1
             mark == [seq |-> n, target |-> L[n].target]
  <2>1. n \in 1..N /\ n - 1 = k /\ n \in 0..N /\ n \in Nat /\ k \in Nat /\ L[n] \in Events
    BY <1>1
  <2>2. h[n] = MarkStep(L, M, n)
    BY <1>2, <2>1
  <2>3. AreMarks(M, L, k)
    BY <1>4
  <2>4. CASE L[n].role = "restore"
    <3>1. h[n] = Append(M, mark) /\ mark \in Marks
      BY <2>1, <2>2, <2>4 DEF MarkStep, Marks, Events
    <3>2. M \in Seq(Marks) /\ Len(M) \in Nat /\ DOMAIN M = 1..Len(M)
      BY <2>3 DEF AreMarks
    <3>3. /\ h[n] \in Seq(Marks) /\ DOMAIN h[n] = 1..(Len(M) + 1)
          /\ \A i \in DOMAIN M : h[n][i] = M[i] /\ i \in DOMAIN h[n]
          /\ h[n][Len(M) + 1] = mark
          /\ \A i \in DOMAIN h[n] : i \in DOMAIN M \/ i = Len(M) + 1
      BY <3>1, <3>2
    <3>4. mark.seq = n /\ mark.target = L[n].target
      OBVIOUS
    <3> HIDE DEF M, n, mark
    <3>5. \A i \in DOMAIN h[n] : /\ h[n][i].seq \in 1..n
                                 /\ L[h[n][i].seq].role = "restore"
                                 /\ h[n][i].target = L[h[n][i].seq].target
      <4> TAKE i \in DOMAIN h[n]
      <4>1. CASE i \in DOMAIN M
        <5>1. /\ M[i].seq \in 1..k /\ L[M[i].seq].role = "restore"
              /\ M[i].target = L[M[i].seq].target
          BY <2>3, <4>1 DEF AreMarks
        <5>2. 1..k \subseteq 1..n
          BY <2>1
        <5> QED
          BY <3>3, <4>1, <5>1, <5>2
      <4>2. CASE i = Len(M) + 1
        BY <2>1, <2>4, <3>3, <3>4, <4>2
      <4> QED
        BY <3>3, <4>1, <4>2
    <3>6. \A i, j \in DOMAIN h[n] : i < j => h[n][i].seq < h[n][j].seq
      <4> SUFFICES ASSUME NEW i \in DOMAIN h[n], NEW j \in DOMAIN h[n], i < j
                   PROVE  h[n][i].seq < h[n][j].seq
        OBVIOUS
      <4>1. i \in DOMAIN M
        BY <3>2, <3>3
      <4>2. CASE j \in DOMAIN M
        BY <2>3, <3>3, <4>1, <4>2 DEF AreMarks
      <4>3. CASE j = Len(M) + 1
        <5>1. M[i].seq \in 1..k
          BY <2>3, <4>1 DEF AreMarks
        <5> QED
          BY <2>1, <3>3, <3>4, <4>1, <4>3, <5>1
      <4> QED
        BY <3>3, <4>2, <4>3
    <3>7. \A p \in 1..n : L[p].role = "restore" => \E i \in DOMAIN h[n] : h[n][i].seq = p
      <4> SUFFICES ASSUME NEW p \in 1..n, L[p].role = "restore"
                   PROVE  \E i \in DOMAIN h[n] : h[n][i].seq = p
        OBVIOUS
      <4>1. CASE p = n
        <5>1. Len(M) + 1 \in DOMAIN h[n]
          BY <3>2, <3>3
        <5> QED
          BY <3>3, <3>4, <4>1, <5>1
      <4>2. CASE p # n
        <5>1. p \in 1..k
          BY <2>1, <4>2
        <5>2. PICK i \in DOMAIN M : M[i].seq = p
          BY <2>3, <5>1 DEF AreMarks
        <5> QED
          BY <3>3, <5>2
      <4> QED
        BY <4>1, <4>2
    <3>8. AreMarks(h[n], L, n)
      BY <3>3, <3>5, <3>6, <3>7 DEF AreMarks
    <3> QED
      BY <2>1, <3>8 DEF n
  <2>5. CASE L[n].role # "restore"
    <3>1. h[n] = M
      BY <2>2, <2>5 DEF MarkStep
    <3>2. 1..k \subseteq 1..n /\ \A p \in 1..n : p = n \/ p \in 1..k
      BY <2>1
    <3> HIDE DEF M, n
    <3>3. AreMarks(h[n], L, n)
      BY <2>3, <2>5, <3>1, <3>2 DEF AreMarks
    <3> QED
      BY <2>1, <3>3 DEF n
  <2> QED
    BY <2>4, <2>5
<1>5. N \in good
  <2> HIDE DEF good, N
  <2>1. \A k \in 0..N : k \in good
    BY <1>1, <1>3, <1>4, UpTo
  <2> QED
    BY <1>1, <2>1
<1> QED
  BY <1>2, <1>5

-----------------------------------------------------------------------------
(* The history of a ledger's positions, and the windows that a restore abandons *)

\* A restore goes back to an earlier position.
Backward(L) == \A p \in DOMAIN L : L[p].role = "restore" => L[p].target \in 0..(p - 1)

\* History, of any ledger.
HistoryStep(L, H, p) ==
  IF p = 0 THEN {}
  ELSE IF L[p].role = "restore" THEN H[L[p].target]
  ELSE H[p - 1] \cup {p}
IsHistory(L, H) == H = [p \in 0..Len(L) |-> HistoryStep(L, H, p)]
HistoryIn(L) == CHOOSE H : IsHistory(L, H)

LEMMA HistoryExists ==
  ASSUME NEW L, IsRun(L), Backward(L)
  PROVE  IsHistory(L, HistoryIn(L))
<1> DEFINE N == Len(L)
           good == {n \in 0..N : \E f : /\ DOMAIN f = 0..n
                                        /\ \A p \in 0..n : f[p] = HistoryStep(L, f, p)}
<1>1. N \in Nat /\ DOMAIN L = 1..N
  BY DEF IsRun
<1>2. 0 \in good
  <2> DEFINE f == [p \in 0..0 |-> {}]
  <2>1. \A p \in 0..0 : f[p] = HistoryStep(L, f, p)
    BY DEF HistoryStep
  <2>2. DOMAIN f = 0..0 /\ 0 \in 0..N
    BY <1>1
  <2> HIDE DEF f
  <2> QED
    BY <2>1, <2>2
<1>3. ASSUME NEW n \in 0..(N - 1), n \in good PROVE n + 1 \in good
  <2>1. PICK f : DOMAIN f = 0..n /\ \A p \in 0..n : f[p] = HistoryStep(L, f, p)
    BY <1>3
  <2> DEFINE h == [p \in 0..(n + 1) |-> IF p = n + 1 THEN HistoryStep(L, f, p) ELSE f[p]]
  <2>2. \A p \in 0..n : h[p] = f[p] /\ p # n + 1 /\ p \in 0..(n + 1)
    OBVIOUS
  <2>3. h[n + 1] = HistoryStep(L, f, n + 1)
    OBVIOUS
  <2>4. \A p \in 0..(n + 1) : HistoryStep(L, h, p) = HistoryStep(L, f, p)
    <3> TAKE p \in 0..(n + 1)
    <3>1. ASSUME p # 0 PROVE p - 1 \in 0..n /\ p \in DOMAIN L
      BY <1>1, <3>1
    <3>2. ASSUME p # 0, L[p].role = "restore" PROVE L[p].target \in 0..n
      <4>1. L[p].target \in 0..(p - 1)
        BY <3>1, <3>2 DEF Backward
      <4> QED
        BY <4>1
    <3> HIDE DEF h
    <3> QED
      BY <2>2, <3>1, <3>2 DEF HistoryStep
  <2>5. \A p \in 0..(n + 1) : p \in 0..n \/ p = n + 1
    OBVIOUS
  <2>6. DOMAIN h = 0..(n + 1) /\ n + 1 \in 0..N
    BY <1>1
  <2> HIDE DEF h
  <2>7. \A p \in 0..(n + 1) : h[p] = HistoryStep(L, h, p)
    BY <2>1, <2>2, <2>3, <2>4, <2>5
  <2> QED
    BY <2>6, <2>7
<1>4. N \in good
  <2> HIDE DEF good, N
  <2>1. \A n \in 0..N : n \in good
    BY <1>1, <1>2, <1>3, UpTo
  <2> QED
    BY <1>1, <2>1
<1>5. PICK f : DOMAIN f = 0..N /\ \A p \in 0..N : f[p] = HistoryStep(L, f, p)
  BY <1>4
<1> DEFINE H == [p \in 0..N |-> f[p]]
<1>6. \A p \in 0..N : HistoryStep(L, H, p) = HistoryStep(L, f, p)
  <2> TAKE p \in 0..N
  <2>1. ASSUME p # 0 PROVE p - 1 \in 0..N /\ p \in DOMAIN L
    BY <1>1, <2>1
  <2>2. ASSUME p # 0, L[p].role = "restore" PROVE L[p].target \in 0..N
    <3>1. L[p].target \in 0..(p - 1)
      BY <2>1, <2>2 DEF Backward
    <3> QED
      BY <1>1, <3>1
  <2>3. \A q \in 0..N : H[q] = f[q]
    OBVIOUS
  <2> HIDE DEF H
  <2> QED
    BY <2>1, <2>2, <2>3 DEF HistoryStep
<1>7. H = [p \in 0..N |-> HistoryStep(L, H, p)]
  <2>1. \A p \in 0..N : f[p] = HistoryStep(L, H, p)
    BY <1>5, <1>6
  <2>2. [p \in 0..N |-> f[p]] = [p \in 0..N |-> HistoryStep(L, H, p)]
    BY <2>1
  <2> QED
    BY <2>2
<1>8. \E g : IsHistory(L, g)
  BY <1>7 DEF IsHistory
<1> QED
  BY <1>8 DEF HistoryIn

\* The history at each position.
LEMMA HistoryAt ==
  ASSUME NEW L, IsRun(L), Backward(L), NEW H, IsHistory(L, H)
  PROVE  /\ H[0] = {}
         /\ \A p \in DOMAIN L : IF L[p].role = "restore"
                                THEN L[p].target \in 0..(p - 1) /\ H[p] = H[L[p].target]
                                ELSE H[p] = H[p - 1] \cup {p}
         /\ \A p \in 0..Len(L) : H[p] \in SUBSET (1..p)
<1>1. Len(L) \in Nat /\ DOMAIN L = 1..Len(L)
  BY DEF IsRun
<1>2. \A p \in 0..Len(L) : H[p] = HistoryStep(L, H, p)
  BY DEF IsHistory
<1>3. H[0] = {}
  <2>1. 0 \in 0..Len(L)
    BY <1>1
  <2>2. H[0] = HistoryStep(L, H, 0)
    BY <1>2, <2>1
  <2> QED
    BY <2>2 DEF HistoryStep
<1>4. \A p \in DOMAIN L : IF L[p].role = "restore"
                          THEN L[p].target \in 0..(p - 1) /\ H[p] = H[L[p].target]
                          ELSE H[p] = H[p - 1] \cup {p}
  <2> TAKE p \in DOMAIN L
  <2>1. p \in 0..Len(L) /\ p # 0
    BY <1>1
  <2> QED
    BY <1>2, <2>1 DEF HistoryStep, Backward
<1> DEFINE good == {n \in 0..Len(L) : \A p \in 0..n : H[p] \in SUBSET (1..p)}
<1>5. 0 \in good
  BY <1>1, <1>3
<1>6. ASSUME NEW n \in 0..(Len(L) - 1), n \in good PROVE n + 1 \in good
  <2>1. n + 1 \in DOMAIN L /\ n + 1 \in 0..Len(L) /\ (n + 1) - 1 = n /\ n \in Nat
    BY <1>1
  <2>2. \A p \in 0..n : H[p] \in SUBSET (1..p)
    BY <1>6
  <2>3. \A p \in 0..n : H[p] \in SUBSET (1..n)
    <3> TAKE p \in 0..n
    <3>1. 1..p \subseteq 1..n
      BY <2>1
    <3> QED
      BY <2>2, <3>1
  <2>4. H[n + 1] \in SUBSET (1..(n + 1))
    <3>1. CASE L[n + 1].role = "restore"
      <4>1. L[n + 1].target \in 0..n /\ H[n + 1] = H[L[n + 1].target]
        BY <1>4, <2>1, <3>1
      <4>2. 1..n \subseteq 1..(n + 1)
        BY <2>1
      <4> QED
        BY <2>3, <4>1, <4>2
    <3>2. CASE L[n + 1].role # "restore"
      <4>1. H[n + 1] = H[n] \cup {n + 1} /\ n \in 0..n
        BY <1>4, <2>1, <3>2
      <4>2. 1..n \subseteq 1..(n + 1) /\ n + 1 \in 1..(n + 1)
        BY <2>1
      <4> QED
        BY <2>3, <4>1, <4>2
    <3> QED
      BY <3>1, <3>2
  <2>5. \A p \in 0..(n + 1) : p \in 0..n \/ p = n + 1
    OBVIOUS
  <2> QED
    BY <2>1, <2>2, <2>4, <2>5
<1>7. Len(L) \in good
  <2> HIDE DEF good
  <2>1. \A n \in 0..Len(L) : n \in good
    BY <1>1, <1>5, <1>6, UpTo
  <2> QED
    BY <1>1, <2>1
<1> QED
  BY <1>3, <1>4, <1>7

\* Where nothing is restored, the history continues.
LEMMA HistoryContinues ==
  ASSUME NEW L, IsRun(L), Backward(L), NEW H, IsHistory(L, H),
         NEW p \in 0..Len(L), NEW q \in p..Len(L),
         \A i \in (p + 1)..q : L[i].role # "restore"
  PROVE  H[q] = H[p] \cup ((p + 1)..q)
<1>1. Len(L) \in Nat /\ DOMAIN L = 1..Len(L) /\ p \in Nat /\ q \in Nat /\ q - p \in Nat
  BY DEF IsRun
<1> DEFINE good == {n \in 0..(q - p) : H[p + n] = H[p] \cup ((p + 1)..(p + n))}
<1>2. 0 \in good
  <2>1. (p + 1)..(p + 0) = {} /\ p + 0 = p /\ 0 \in 0..(q - p)
    BY <1>1
  <2> QED
    BY <2>1
<1>3. ASSUME NEW n \in 0..((q - p) - 1), n \in good PROVE n + 1 \in good
  <2> DEFINE m == p + (n + 1)
  <2>1. /\ m \in DOMAIN L /\ m \in (p + 1)..q /\ m - 1 = p + n /\ n + 1 \in 0..(q - p)
        /\ (p + 1)..m = ((p + 1)..(p + n)) \cup {m}
    BY <1>1
  <2>2. H[m] = H[m - 1] \cup {m}
    BY <2>1, HistoryAt
  <2>3. H[p + n] = H[p] \cup ((p + 1)..(p + n))
    BY <1>3
  <2>4. H[m] = H[p] \cup ((p + 1)..m)
    BY <2>1, <2>2, <2>3
  <2> QED
    BY <2>1, <2>4
<1>4. q - p \in good
  <2> DEFINE d == q - p
  <2>1. d \in Nat /\ \A n \in 0..(d - 1) : n \in good => n + 1 \in good
    BY <1>1, <1>3
  <2> HIDE DEF good, d
  <2>2. \A n \in 0..d : n \in good
    <3>1. 0 \in good
      BY <1>2
    <3> QED
      BY <2>1, <3>1, UpTo
  <2>3. d \in 0..d
    BY <2>1
  <2> QED
    BY <2>2, <2>3 DEF d
<1>5. p + (q - p) = q
  BY <1>1
<1> QED
  BY <1>4, <1>5

\* The steps of the walk back.
Walks == [position : Nat, windows : SUBSET (Nat \X Nat)]

LEMMA WalkBackType ==
  ASSUME NEW mark \in Marks, NEW walk \in Walks
  PROVE  WalkBack(mark, walk) \in Walks
<1>1. mark.seq \in Nat /\ mark.target \in Nat /\ walk.windows \subseteq Nat \X Nat
  BY DEF Marks, Walks
<1>2. [position |-> mark.target, windows |-> walk.windows \cup {<<mark.target, mark.seq>>}] \in Walks
  BY <1>1 DEF Walks
<1> QED
  BY <1>2 DEF WalkBack

WalkedBy(M, base, h) ==
  /\ h[Len(M) + 1] = base
  /\ \A k \in 1..Len(M) : h[k] = WalkBack(M[k], h[k + 1])
  /\ FoldRight(WalkBack, M, base) = h[1]

LEMMA WalkSteps ==
  ASSUME NEW M, M \in Seq(Marks), NEW base \in Walks
  PROVE  \E h : WalkedBy(M, base, h)
<1> DEFINE D == 1..Len(M)
           S == Walks
           step == [k \in D |-> [walk \in S |-> WalkBack(M[k], walk)]]
           IsIter(g) == g = [s \in SUBSET D |->
                               IF s = {} THEN base ELSE WalkBack(M[Min(s)], g[s \ {Min(s)}])]
<1>1. DOMAIN M = D /\ Len(M) \in Nat /\ \A i \in D : M[i] \in Marks
  OBVIOUS
<1>2. FoldRight(WalkBack, M, base) = (CHOOSE g : IsIter(g))[DOMAIN M]
  BY <1>1, Zenon DEF FoldRight, MapThenFoldSet
<1>3. \A s \in SUBSET D : s # {} => Min(s) \in s
  <2> TAKE s \in SUBSET D
  <2> HAVE s # {}
  <2>1. s \in SUBSET Nat
    BY <1>1
  <2> QED
    BY <2>1, LeastOf
<1>4. step \in [D -> [S -> S]]
  BY <1>1, WalkBackType
<1>5. \E g : IsIter(g)
  <2> HIDE DEF step
  <2>2. PICK g \in [SUBSET D -> S] : FoldsDown(g, D, base, step)
    BY <1>1, <1>4, FoldDown
  <2> HIDE DEF D, S
  <2>3. \A s \in SUBSET D : g[s] = IF s = {} THEN base ELSE WalkBack(M[Min(s)], g[s \ {Min(s)}])
    <3> TAKE s \in SUBSET D
    <3>1. s = {} => g[s] = base
      BY <2>2 DEF FoldsDown
    <3>2. ASSUME s # {} PROVE g[s] = WalkBack(M[Min(s)], g[s \ {Min(s)}])
      <4>1. g[s] = step[Min(s)][g[s \ {Min(s)}]]
        BY <2>2, <3>2 DEF FoldsDown
      <4>2. Min(s) \in D /\ g[s \ {Min(s)}] \in S
        BY <1>3, <2>2, <3>2
      <4> QED
        BY <4>1, <4>2 DEF step
    <3> QED
      BY <3>1, <3>2
  <2>5. g = [s \in SUBSET D |-> g[s]]
    BY <2>2
  <2>6. IsIter(g)
    BY <2>3, <2>5, Zenon
  <2> QED
    BY <2>6
<1> DEFINE G == CHOOSE g : IsIter(g)
           h == [k \in 1..(Len(M) + 1) |-> G[k..Len(M)]]
<1>6. IsIter(G)
  BY <1>5
<1>7. \A k \in 1..(Len(M) + 1) : k..Len(M) \in SUBSET D
  BY <1>1
<1>8. h[Len(M) + 1] = base
  <2>1. (Len(M) + 1)..Len(M) = {} /\ Len(M) + 1 \in 1..(Len(M) + 1)
    BY <1>1
  <2> HIDE DEF G
  <2> QED
    BY <1>6, <1>7, <2>1
<1>9. \A k \in 1..Len(M) : h[k] = WalkBack(M[k], h[k + 1])
  <2> TAKE k \in 1..Len(M)
  <2>1. k..Len(M) \in SUBSET Nat /\ k \in k..Len(M) /\ k \in Nat /\ \A i \in k..Len(M) : k <= i
    BY <1>1
  <2>2. Min(k..Len(M)) = k
    <3>1. Min(k..Len(M)) \in k..Len(M) /\ Min(k..Len(M)) <= k
      BY <2>1, LeastOf
    <3> QED
      BY <2>1, <3>1
  <2>3. (k..Len(M)) \ {k} = (k + 1)..Len(M) /\ k + 1 \in 1..(Len(M) + 1) /\ k \in 1..(Len(M) + 1)
    BY <1>1, <2>1
  <2> HIDE DEF G
  <2>5. k..Len(M) \in SUBSET D /\ k..Len(M) # {}
    BY <1>1, <1>7, <2>1, <2>3
  <2> HIDE DEF D
  <2>6. G[k..Len(M)] = IF k..Len(M) = {} THEN base
                       ELSE WalkBack(M[Min(k..Len(M))], G[(k..Len(M)) \ {Min(k..Len(M))}])
    BY <1>6, <2>5, Zenon
  <2>4. G[k..Len(M)] = WalkBack(M[k], G[(k + 1)..Len(M)])
    BY <2>2, <2>3, <2>5, <2>6
  <2> QED
    BY <2>3, <2>4
<1>11. FoldRight(WalkBack, M, base) = h[1]
  <2>1. 1 \in 1..(Len(M) + 1)
    BY <1>1
  <2> QED
    BY <1>1, <1>2, <2>1
<1> HIDE DEF h
<1> QED
  BY <1>8, <1>9, <1>11 DEF WalkedBy

\* What a walk from c knows when it has come to the k-th mark: the rest of the
\* history is that of its position.
WalksTo(L, H, M, c, k, walk) ==
  /\ walk.position \in 0..Len(L)
  /\ \A j \in k..Len(M) : M[j].seq > walk.position
  /\ \A window \in walk.windows : window \in Nat \X Nat /\ window[1] >= walk.position
  /\ \A p \in 1..Len(L) :
       p \in H[c] <=> p \in H[walk.position] \/ (p > walk.position /\ ~Abandoned(walk.windows, p))

LEMMA WalkBackKeeps ==
  ASSUME NEW L, IsRun(L), Backward(L), NEW H, IsHistory(L, H),
         NEW M, AreMarks(M, L, Len(L)), NEW c \in 0..Len(L),
         NEW k \in DOMAIN M, NEW walk, WalksTo(L, H, M, c, k + 1, walk)
  PROVE  WalksTo(L, H, M, c, k, WalkBack(M[k], walk))
<1> DEFINE N == Len(L)
           s == M[k].seq
           t == M[k].target
           position == walk.position
<1>1. N \in Nat /\ DOMAIN L = 1..N /\ DOMAIN M = 1..Len(M) /\ Len(M) \in Nat
  BY DEF IsRun, AreMarks
<1>2. s \in 1..N /\ L[s].role = "restore" /\ t = L[s].target /\ t \in 0..(s - 1)
  BY <1>1 DEF AreMarks, Backward
<1>3. /\ position \in 0..N
      /\ \A j \in (k + 1)..Len(M) : M[j].seq \in 1..N /\ M[j].seq > position
      /\ \A window \in walk.windows : window \in Nat \X Nat /\ window[1] >= position
  <2>1. position \in 0..N
    BY Zenon DEF WalksTo
  <2>2. \A window \in walk.windows : window \in Nat \X Nat /\ window[1] >= position
    BY Zenon DEF WalksTo
  <2>3. \A j \in (k + 1)..Len(M) : M[j].seq \in 1..N /\ M[j].seq > position
    <3> TAKE j \in (k + 1)..Len(M)
    <3>1. M[j].seq > position
      BY Zenon DEF WalksTo
    <3>2. j \in DOMAIN M
      BY <1>1
    <3>3. M[j].seq \in 1..N
      BY <3>2, Zenon DEF AreMarks
    <3> QED
      BY <3>1, <3>3
  <2> QED
    BY <2>1, <2>2, <2>3
<1>4. \A j \in k..Len(M) : j = k \/ j \in (k + 1)..Len(M)
  BY <1>1
<1>5. CASE s > position
  <2>1. WalkBack(M[k], walk) = walk
    BY <1>5 DEF WalkBack
  <2>2. \A j \in k..Len(M) : M[j].seq > position
    BY <1>3, <1>4, <1>5
  <2> QED
    BY <2>1, <2>2 DEF WalksTo
<1>6. CASE ~(s > position)
  <2> DEFINE w == [position |-> t, windows |-> walk.windows \cup {<<t, s>>}]
  <2>1. s <= position /\ t < s /\ s \in Nat /\ t \in Nat /\ position \in Nat /\ t \in 0..N /\ s \in 0..N
    BY <1>1, <1>2, <1>3, <1>6
  <2>2. WalkBack(M[k], walk) = w
    BY <1>6, <2>1 DEF WalkBack
  <2>3. \A j \in k..Len(M) : M[j].seq > t
    <3> TAKE j \in k..Len(M)
    <3>1. CASE j = k
      BY <2>1, <3>1
    <3>2. CASE j \in (k + 1)..Len(M)
      <4>1. M[j].seq \in Nat /\ M[j].seq > position
        BY <1>3, <3>2
      <4> QED
        BY <2>1, <4>1
    <3> QED
      BY <1>4, <3>1, <3>2
  <2>4. \A window \in w.windows : window \in Nat \X Nat /\ window[1] >= t
    <3> TAKE window \in w.windows
    <3>1. CASE window \in walk.windows
      <4>1. window \in Nat \X Nat /\ window[1] >= position /\ window[1] \in Nat
        BY <1>3, <3>1
      <4> QED
        BY <2>1, <4>1
    <3>2. CASE window = <<t, s>>
      BY <2>1, <3>2
    <3> QED
      BY <3>1, <3>2
  <2>5. \A p \in (s + 1)..position : L[p].role # "restore"
    <3> SUFFICES ASSUME NEW p \in (s + 1)..position, L[p].role = "restore" PROVE FALSE
      OBVIOUS
    <3>1. p \in 1..N /\ p > s /\ p <= position /\ p \in Nat
      BY <1>1, <1>3, <2>1
    <3>2. PICK i \in DOMAIN M : M[i].seq = p
      BY <3>1 DEF AreMarks
    <3>3. ~(i < k)
      BY <2>1, <3>1, <3>2 DEF AreMarks
    <3>4. i \in (k + 1)..Len(M)
      <4>1. i # k
        BY <2>1, <3>1, <3>2
      <4> QED
        BY <1>1, <3>3, <4>1
    <3>5. M[i].seq > position
      BY <1>3, <3>4
    <3> QED
      BY <2>1, <3>1, <3>2, <3>5
  <2>6. H[position] = H[t] \cup ((s + 1)..position)
    <3>1. position \in s..N
      BY <1>1, <1>3, <2>1
    <3>2. H[position] = H[s] \cup ((s + 1)..position)
      <4>1. s \in 0..Len(L) /\ position \in s..Len(L)
        BY <2>1, <3>1
      <4> HIDE DEF s, position
      <4> QED
        BY <2>5, <4>1, HistoryContinues
    <3>3. H[s] = H[t]
      BY <1>1, <1>2, HistoryAt
    <3> QED
      BY <3>2, <3>3
  <2>7. \A p \in 1..N : Abandoned(w.windows, p) <=> Abandoned(walk.windows, p) \/ (t < p /\ p <= s)
    <3>1. <<t, s>>[1] = t /\ <<t, s>>[2] = s
      OBVIOUS
    <3> QED
      BY <3>1 DEF Abandoned
  <2>8. \A p \in 1..N : p \in H[c] <=> p \in H[t] \/ (p > t /\ ~Abandoned(w.windows, p))
    <3> TAKE p \in 1..N
    <3>1. p \in H[c] <=> p \in H[t] \/ (s < p /\ p <= position) \/ (p > position /\ ~Abandoned(walk.windows, p))
      <4>1. p \in H[c] <=> p \in H[position] \/ (p > position /\ ~Abandoned(walk.windows, p))
        BY DEF WalksTo
      <4>2. p \in (s + 1)..position <=> s < p /\ p <= position
        BY <1>1, <2>1
      <4> QED
        BY <2>6, <4>1, <4>2
    <3>2. p <= position => ~Abandoned(walk.windows, p)
      <4> SUFFICES ASSUME p <= position, NEW window \in walk.windows, window[1] < p PROVE FALSE
        BY DEF Abandoned
      <4>1. window[1] \in Nat /\ window[1] >= position /\ p \in Nat
        BY <1>3
      <4> QED
        BY <2>1, <4>1
    <3>3. p \in Nat
      OBVIOUS
    <3> HIDE DEF w, s, t, position
    <3> QED
      BY <2>1, <2>7, <3>1, <3>2, <3>3
  <2>9. w.position = t
    OBVIOUS
  <2> HIDE DEF w, t, s, position
  <2> QED
    BY <2>1, <2>2, <2>3, <2>4, <2>8, <2>9 DEF WalksTo
<1> QED
  BY <1>5, <1>6

\* The events of the history that leads to c are those that are not abandoned.
LEMMA WindowsHistory ==
  ASSUME NEW L, IsRun(L), Backward(L), NEW H, IsHistory(L, H), NEW c \in 0..Len(L)
  PROVE  \A p \in DOMAIN L :
           p \in H[c] <=> ~Abandoned(AbandonedWindows(Lineage(L), c, Len(L)), p)
<1> DEFINE N == Len(L)
           M == Lineage(L)
           m == Len(M)
           base == [position |-> c, windows |-> IF c < N THEN {<<c, N>>} ELSE {}]
<1>1. N \in Nat /\ DOMAIN L = 1..N
  BY DEF IsRun
<1>2. AreMarks(M, L, N)
  BY LineageMarks
<1>3. M \in Seq(Marks) /\ m \in Nat /\ DOMAIN M = 1..m
  BY <1>2 DEF AreMarks
<1>4. base \in Walks
  BY <1>1 DEF Walks
<1> HIDE DEF M
<1>5. PICK h : /\ h[m + 1] = base
               /\ \A k \in 1..m : h[k] = WalkBack(M[k], h[k + 1])
               /\ FoldRight(WalkBack, M, base) = h[1]
  <2>1. M \in Seq(Marks) /\ base \in Walks
    BY <1>3, <1>4
  <2> HIDE DEF base
  <2>2. \E h : WalkedBy(M, base, h)
    BY <2>1, WalkSteps
  <2> QED
    BY <2>2 DEF WalkedBy
<1> DEFINE good == {n \in 0..m : WalksTo(L, H, M, c, (m + 1) - n, h[(m + 1) - n])}
<1>6. 0 \in good
  <2>1. (m + 1) - 0 = m + 1 /\ 0 \in 0..m
    BY <1>3
  <2>2. WalksTo(L, H, M, c, m + 1, base)
    <3>1. base.position = c /\ base.windows = IF c < N THEN {<<c, N>>} ELSE {}
      OBVIOUS
    <3>2. (m + 1)..m = {} /\ c \in Nat /\ c \in 0..N
      BY <1>1, <1>3
    <3>3. \A window \in base.windows : window \in Nat \X Nat /\ window[1] >= c
      BY <1>1, <3>1, <3>2
    <3>4. H[c] \in SUBSET (1..c)
      BY HistoryAt
    <3>5. \A p \in 1..N : p > c => Abandoned(base.windows, p)
      <4> SUFFICES ASSUME NEW p \in 1..N, p > c PROVE Abandoned(base.windows, p)
        OBVIOUS
      <4>1. c < N /\ p <= N /\ <<c, N>>[1] = c /\ <<c, N>>[2] = N
        BY <1>1, <3>2
      <4>2. <<c, N>> \in base.windows
        BY <3>1, <4>1
      <4> QED
        BY <4>1, <4>2 DEF Abandoned
    <3> HIDE DEF base
    <3> QED
      BY <3>1, <3>2, <3>3, <3>5 DEF WalksTo
  <2> QED
    BY <1>5, <2>1, <2>2
<1>7. ASSUME NEW n \in 0..(m - 1), n \in good PROVE n + 1 \in good
  <2> DEFINE k == (m + 1) - (n + 1)
  <2>1. k \in 1..m /\ k + 1 = (m + 1) - n /\ n + 1 \in 0..m
    BY <1>3
  <2>2. WalksTo(L, H, M, c, k + 1, h[k + 1])
    BY <1>7, <2>1
  <2>3. h[k] = WalkBack(M[k], h[k + 1])
    BY <1>5, <2>1
  <2> HIDE DEF k
  <2>4. WalksTo(L, H, M, c, k, h[k])
    BY <1>2, <1>3, <2>1, <2>2, <2>3, WalkBackKeeps
  <2> QED
    BY <2>1, <2>4 DEF k
<1>8. WalksTo(L, H, M, c, 1, h[1])
  <2> HIDE DEF good, m
  <2>1. \A n \in 0..m : n \in good
    BY <1>3, <1>6, <1>7, UpTo
  <2>2. m \in 0..m /\ (m + 1) - m = 1
    BY <1>3
  <2>3. m \in good
    BY <2>1, <2>2
  <2> QED
    BY <2>2, <2>3 DEF good
<1> DEFINE walk == h[1]
<1>9. AbandonedWindows(M, c, N) = walk.windows
  BY <1>5 DEF AbandonedWindows
<1>10. walk.position \in 0..N /\ walk.position \in Nat
  BY <1>1, <1>8 DEF WalksTo
<1>11. H[walk.position] = 1..walk.position
  <2>1. \A p \in 1..walk.position : L[p].role # "restore"
    <3> SUFFICES ASSUME NEW p \in 1..walk.position, L[p].role = "restore" PROVE FALSE
      OBVIOUS
    <3>1. p \in 1..N /\ ~(p > walk.position)
      BY <1>1, <1>10
    <3>2. PICK i \in DOMAIN M : M[i].seq = p
      BY <1>2, <3>1 DEF AreMarks
    <3>3. M[i].seq > walk.position
      BY <1>3, <1>8 DEF WalksTo
    <3> QED
      BY <3>1, <3>2, <3>3
  <2>2. 0 \in 0..N /\ walk.position \in 0..N /\ 0 + 1 = 1
    BY <1>1, <1>10
  <2>3. H[walk.position] = H[0] \cup ((0 + 1)..walk.position)
    BY <2>1, <2>2, HistoryContinues
  <2> QED
    BY <2>2, <2>3, HistoryAt
<1>12. ASSUME NEW p \in DOMAIN L PROVE p \in H[c] <=> ~Abandoned(walk.windows, p)
  <2>1. p \in 1..N /\ p \in Nat
    BY <1>1
  <2>2. p \in H[c] <=> p \in H[walk.position] \/ (p > walk.position /\ ~Abandoned(walk.windows, p))
    BY <1>8, <2>1 DEF WalksTo
  <2>3. p \in H[walk.position] <=> ~(p > walk.position)
    BY <1>10, <1>11, <2>1
  <2>4. ~(p > walk.position) => ~Abandoned(walk.windows, p)
    <3> SUFFICES ASSUME ~(p > walk.position), NEW window \in walk.windows, window[1] < p PROVE FALSE
      BY DEF Abandoned
    <3>1. window \in Nat \X Nat /\ window[1] >= walk.position
      BY <1>8 DEF WalksTo
    <3>2. window[1] \in Nat
      BY <3>1
    <3> HIDE DEF walk
    <3> QED
      BY <1>10, <2>1, <3>1, <3>2
  <2> QED
    BY <2>2, <2>3, <2>4
<1> QED
  BY <1>9, <1>12 DEF M

-----------------------------------------------------------------------------
(* What a resume reports *)

\* The events that a report goes by: the tool resolutions of the set X and all
\* other events.
Kept(L, X) ==
  {seq \in DOMAIN L :
     ~(L[seq].kind = "tool" /\ L[seq].role \in {"acknowledgement", "failure"} /\ seq \notin X)}

\* What is reported of the tool requests in X, and of the others.
ToolsOn(L, X) ==
  {IntentIn(L, r, Kept(L, X)) : r \in {q \in RequestsIn(L) : L[q].kind = "tool" /\ q \in X}}
OthersOn(L, X) ==
  {IntentIn(L, r, DOMAIN L) :
     r \in {q \in RequestsIn(L) :
              L[q].kind # "tool" \/ (q \notin X /\ StatusIn(L, q, DOMAIN L) = "in_progress")}}

LEMMA ReportsOn ==
  ASSUME NEW L, IsRun(L), Backward(L), NEW H, IsHistory(L, H), NEW c \in 0..Len(L)
  PROVE  PendingIntentAt(L, AbandonedWindows(Lineage(L), c, Len(L))) = OthersOn(L, H[c]) \cup ToolsOn(L, H[c])
<1> DEFINE W == AbandonedWindows(Lineage(L), c, Len(L))
           X == H[c]
           K == Kept(L, X)
           A == IntentsIn(L, DOMAIN L)
           B == IntentsIn(L, K)
<1>1. \A p \in DOMAIN L : p \in X <=> ~Abandoned(W, p)
  BY WindowsHistory
<1> HIDE DEF W, X
<1>2. ToolResolutionsOutside(L, W) = K
  BY <1>1 DEF ToolResolutionsOutside, Kept
<1>3. K \subseteq DOMAIN L /\ RequestsIn(L) \cap K = RequestsIn(L) /\ RequestsIn(L) \subseteq DOMAIN L
  BY DEF Kept, RequestsIn
<1>4. DerivePendingIntent(L, DOMAIN L) = A /\ DerivePendingIntent(L, K) = B
  BY <1>3, DerivationMeans
<1> HIDE DEF K
<1>5. A = {IntentIn(L, r, DOMAIN L) : r \in RequestsIn(L)} /\ B = {IntentIn(L, r, K) : r \in RequestsIn(L)}
  BY <1>3 DEF IntentsIn
<1> HIDE DEF A, B
<1>6. PendingIntentAt(L, W) =
        {i \in A : i.kind # "tool" \/ (Abandoned(W, i.requested_seq) /\ i.status = "in_progress")}
          \cup {i \in B : i.kind = "tool" /\ ~Abandoned(W, i.requested_seq)}
  BY <1>2, <1>4 DEF PendingIntentAt
<1>7. {i \in A : i.kind # "tool" \/ (Abandoned(W, i.requested_seq) /\ i.status = "in_progress")} = OthersOn(L, X)
  BY <1>1, <1>3, <1>5, IntentFields DEF OthersOn
<1>8. {i \in B : i.kind = "tool" /\ ~Abandoned(W, i.requested_seq)} = ToolsOn(L, X)
  BY <1>1, <1>3, <1>5, IntentFields DEF ToolsOn, K
<1> QED
  BY <1>6, <1>7, <1>8 DEF W, X

\* The answers that a report of a tool request goes by are on its history; they
\* are all those of the history, if no abandoned request has its id.
LEMMA KeptAnswers ==
  ASSUME NEW L, NEW X \in SUBSET (DOMAIN L), NEW r \in RequestsIn(L), L[r].kind = "tool",
         NEW role \in {"acknowledgement", "failure"}
  PROVE  /\ AnswersIn(L, r, role, Kept(L, X)) \subseteq AnswersIn(L, r, role, X)
         /\ (\A other \in RequestsIn(L) \ X :
               L[other].kind = L[r].kind => IntentId(L[other]) # IntentId(L[r]))
              => AnswersIn(L, r, role, Kept(L, X)) = AnswersIn(L, r, role, X)
<1> DEFINE Q == {q \in DOMAIN L : L[q].role = "request"}
<1>1. Q = RequestsIn(L) /\ Q \subseteq Kept(L, X)
  BY DEF RequestsIn, Kept
<1>2. Kept(L, X) \cap Q = Q /\ X \cap Q \subseteq Q
  BY <1>1
<1>3. ASSUME NEW a \in AnswersIn(L, r, role, Kept(L, X)) PROVE a \in X /\ a \in AnswersIn(L, r, role, X)
  <2>1. a \in X
    BY <1>3 DEF AnswersIn, Kept
  <2> QED
    BY <1>2, <2>1 DEF AnswersIn
<1>4. ASSUME \A other \in RequestsIn(L) \ X :
               L[other].kind = L[r].kind => IntentId(L[other]) # IntentId(L[r]),
             NEW a \in AnswersIn(L, r, role, X)
      PROVE  a \in AnswersIn(L, r, role, Kept(L, X))
  <2>1. a \in Kept(L, X)
    BY DEF AnswersIn, Kept
  <2> QED
    BY <1>1, <1>2, <1>4, <2>1 DEF AnswersIn
<1> QED
  BY <1>3, <1>4

\* An event of another kind or role adds nothing to the answers.
LEMMA AnswersStay ==
  ASSUME NEW L, IsRun(L), NEW n \in DOMAIN L, NEW K \in SUBSET (1..(n - 1)), NEW r \in K,
         NEW role \in {"acknowledgement", "failure"}, ~(L[n].kind = L[r].kind /\ L[n].role = role)
  PROVE  AnswersIn(L, r, role, K \cup {n}) = AnswersIn(L, r, role, K)
<1>1. AnswersIn(L, r, role, K \cup {n}) = AnswersIn(L, r, role, K) \cup NextAnswers(L, r, role, n, K)
  BY AnswersGrow
<1>2. NextAnswers(L, r, role, n, K) = {}
  BY DEF NextAnswers, Belongs
<1> QED
  BY <1>1, <1>2

\* What a report says of the tool requests of a history does not change when the
\* ledger goes on with an event that the history does not contain, or that
\* neither requests nor resolves anything.
LEMMA ToolsOnStays ==
  ASSUME NEW L, IsRun(L), NEW e \in Events, NEW X \in SUBSET (DOMAIN L),
         NEW Y \in SUBSET (X \cup {Len(L) + 1}), X \subseteq Y,
         Len(L) + 1 \in Y => e.role \notin {"request", "acknowledgement", "failure"}
  PROVE  ToolsOn(Append(L, e), Y) = ToolsOn(L, X)
<1> DEFINE LL == Append(L, e)
           n == Len(L) + 1
           K == Kept(L, X)
           T == {q \in RequestsIn(L) : L[q].kind = "tool" /\ q \in X}
<1>1. /\ IsRun(LL) /\ DOMAIN L = 1..Len(L) /\ DOMAIN LL = 1..n /\ n \in DOMAIN LL /\ LL[n] = e
      /\ Len(L) \in Nat /\ n \in Nat /\ n - 1 = Len(L) /\ \A p \in DOMAIN L : LL[p] = L[p] /\ p # n
      /\ DOMAIN LL = DOMAIN L \cup {n}
  BY DEF IsRun
<1> HIDE DEF LL, n
<1>2. {q \in RequestsIn(LL) : LL[q].kind = "tool" /\ q \in Y} = T
  BY <1>1 DEF RequestsIn, n
<1>3. K \in SUBSET (1..(n - 1)) /\ K \subseteq DOMAIN L
  BY <1>1 DEF Kept
<1>4. Kept(LL, Y) = K \/ (/\ Kept(LL, Y) = K \cup {n}
                          /\ ~(e.kind = "tool" /\ e.role \in {"acknowledgement", "failure"}))
  BY <1>1 DEF Kept, n
<1>5. ASSUME NEW r \in T, NEW role \in {"acknowledgement", "failure"}
      PROVE  /\ AnswersIn(LL, r, role, K) = AnswersIn(L, r, role, K)
             /\ AnswersIn(LL, r, role, Kept(LL, Y)) = AnswersIn(L, r, role, K)
  <2>1. r \in DOMAIN L /\ r \in K /\ L[r].kind = "tool" /\ LL[r] = L[r]
    BY <1>1 DEF RequestsIn, Kept
  <2>2. AnswersIn(LL, r, role, K) = AnswersIn(L, r, role, K)
    <3>1. K \cap {q \in DOMAIN LL : LL[q].role = "request"} = K \cap {q \in DOMAIN L : L[q].role = "request"}
      BY <1>1, <1>3
    <3>2. \A a \in K : LL[a] = L[a]
      BY <1>1, <1>3
    <3> HIDE DEF K
    <3> QED
      BY <2>1, <3>1, <3>2 DEF AnswersIn
  <2>3. ASSUME ~(e.kind = "tool" /\ e.role \in {"acknowledgement", "failure"})
        PROVE  AnswersIn(LL, r, role, K \cup {n}) = AnswersIn(LL, r, role, K)
    <3>1. IsRun(LL) /\ n \in DOMAIN LL /\ K \in SUBSET (1..(n - 1)) /\ r \in K
      BY <1>1, <1>3, <2>1, Zenon
    <3>2. ~(LL[n].kind = LL[r].kind /\ LL[n].role = role)
      BY <1>1, <2>1, <2>3
    <3> HIDE DEF K
    <3> QED
      BY <3>1, <3>2, AnswersStay
  <2> HIDE DEF K, T
  <2> QED
    BY <1>4, <2>2, <2>3
<1>6. \A r \in T : IntentIn(LL, r, Kept(LL, Y)) = IntentIn(L, r, K)
  <2> TAKE r \in T
  <2>1. LL[r] = L[r]
    BY <1>1 DEF RequestsIn
  <2> HIDE DEF K, T
  <2> QED
    BY <1>5, <2>1 DEF IntentIn, StatusIn, ResolvedIn
<1> HIDE DEF T
<1>7. ToolsOn(LL, Y) = {IntentIn(LL, r, Kept(LL, Y)) : r \in T}
  BY <1>2 DEF ToolsOn
<1>8. ToolsOn(L, X) = {IntentIn(L, r, K) : r \in T}
  BY DEF ToolsOn, T
<1> HIDE DEF K
<1> QED
  BY <1>6, <1>7, <1>8 DEF LL

\* The history of a position stays when the ledger goes on.
LEMMA HistoryStays ==
  ASSUME NEW L, IsRun(L), Backward(L), NEW e \in Events, Backward(Append(L, e)),
         NEW H, IsHistory(L, H), NEW HH, IsHistory(Append(L, e), HH)
  PROVE  \A p \in 0..Len(L) : HH[p] = H[p]
<1> DEFINE LL == Append(L, e)
           N == Len(L)
           good == {n \in 0..N : \A p \in 0..n : HH[p] = H[p]}
<1>1. /\ IsRun(LL) /\ N \in Nat /\ DOMAIN L = 1..N /\ DOMAIN L \subseteq DOMAIN LL
      /\ \A p \in DOMAIN L : LL[p] = L[p]
  BY DEF IsRun
<1>2. H[0] = {} /\ \A p \in DOMAIN L : IF L[p].role = "restore"
                                       THEN L[p].target \in 0..(p - 1) /\ H[p] = H[L[p].target]
                                       ELSE H[p] = H[p - 1] \cup {p}
  BY HistoryAt
<1>3. HH[0] = {} /\ \A p \in DOMAIN LL : IF LL[p].role = "restore"
                                         THEN LL[p].target \in 0..(p - 1) /\ HH[p] = HH[LL[p].target]
                                         ELSE HH[p] = HH[p - 1] \cup {p}
  <2>1. Backward(LL) /\ IsHistory(LL, HH)
    OBVIOUS
  <2> HIDE DEF LL
  <2> QED
    BY <1>1, <2>1, HistoryAt
<1> HIDE DEF LL
<1>4. 0 \in good
  <2>1. 0 \in 0..N /\ \A p \in 0..0 : p = 0
    BY <1>1
  <2> QED
    BY <1>2, <1>3, <2>1
<1>5. ASSUME NEW n \in 0..(N - 1), n \in good PROVE n + 1 \in good
  <2>1. n + 1 \in DOMAIN L /\ n + 1 \in 0..N /\ (n + 1) - 1 = n /\ n \in 0..n
    BY <1>1
  <2>2. \A p \in 0..n : HH[p] = H[p]
    BY <1>5
  <2>3. HH[n + 1] = H[n + 1]
    <3> DEFINE p == n + 1
    <3>1. p \in DOMAIN L /\ p \in DOMAIN LL /\ LL[p] = L[p] /\ p - 1 = n /\ n \in 0..n
      BY <1>1, <2>1
    <3> HIDE DEF p
    <3>2. IF L[p].role = "restore"
          THEN L[p].target \in 0..n /\ H[p] = H[L[p].target]
          ELSE H[p] = H[n] \cup {p}
      BY <1>2, <3>1
    <3>3. IF L[p].role = "restore" THEN HH[p] = HH[L[p].target] ELSE HH[p] = HH[n] \cup {p}
      BY <1>3, <3>1
    <3>4. HH[p] = H[p]
      BY <2>2, <3>1, <3>2, <3>3
    <3> QED
      BY <3>4 DEF p
  <2>4. \A p \in 0..(n + 1) : p \in 0..n \/ p = n + 1
    OBVIOUS
  <2> QED
    BY <2>1, <2>2, <2>3, <2>4
<1>6. N \in good
  <2> HIDE DEF good, N
  <2>1. \A n \in 0..N : n \in good
    BY <1>1, <1>4, <1>5, UpTo
  <2> QED
    BY <1>1, <2>1
<1> QED
  BY <1>6

-----------------------------------------------------------------------------
(* What a rollback warns about *)

\* The groups of a rollback's warnings, and their steps.
Groups == [request : Nat, commit : Nat]
Groupings == [groups : SUBSET Groups, current : [Ids -> Groups]]
Ungrouped == [groups |-> {}, current |-> [id \in Ids |-> NoGroup]]
GroupStep(L, acc, seq) ==
  IF L[seq].kind = "side_effect" THEN GroupEvent(acc, seq, L[seq]) ELSE acc

LEMMA GroupEventType ==
  ASSUME NEW acc \in Groupings, NEW seq \in Nat, NEW event \in Events
  PROVE  GroupEvent(acc, seq, event) \in Groupings
<1> DEFINE current == IF event.payload = None THEN NoGroup ELSE acc.current[event.payload]
           base == IF Joins(current, event) THEN current ELSE NoGroup
           group == IF event.role = "request" THEN [base EXCEPT !.request = seq]
                                              ELSE [base EXCEPT !.commit = seq]
<1>1. NoGroup \in Groups
  BY DEF NoGroup, Groups
<1>2. acc.groups \subseteq Groups /\ acc.current \in [Ids -> Groups] /\ event.payload \in Ids \cup {None}
  BY DEF Groupings, Events
<1>3. base \in Groups
  BY <1>1, <1>2
<1>4. group \in Groups
  <2> HIDE DEF base
  <2> QED
    BY <1>3 DEF Groups
<1> HIDE DEF group, base
<1>5. [groups |-> (acc.groups \ {base}) \cup {group},
       current |-> [id \in Ids |-> IF id = event.payload THEN group ELSE acc.current[id]]] \in Groupings
  <2>1. (acc.groups \ {base}) \cup {group} \in SUBSET Groups
    BY <1>2, <1>4
  <2>2. [id \in Ids |-> IF id = event.payload THEN group ELSE acc.current[id]] \in [Ids -> Groups]
    BY <1>2, <1>4
  <2> QED
    BY <2>1, <2>2 DEF Groupings
<1> QED
  BY <1>5 DEF GroupEvent, group, base

LEMMA GroupSteps ==
  ASSUME NEW L, IsRun(L), NEW after
  PROVE  \E h : /\ h[0] = Ungrouped
                /\ \A k \in 1..Len(L) : h[k] = GroupStep(L, h[k - 1], k)
                /\ DeriveSideEffects(L, after, Len(L)) =
                     {group \in h[Len(L)].groups : group.request > after \/ group.commit > after}
<1> DEFINE D == 1..Len(L)
           S == Groupings
           id == [seq \in 1..Len(L) |-> seq]
           step == [seq \in D |-> [acc \in S |-> GroupStep(L, acc, seq)]]
           Base == [groups |-> {}, current |-> [i \in Ids |-> NoGroup]]
           IsIter(g) == g = [s \in SUBSET D |->
                               IF s = {} THEN Base
                               ELSE IF L[id[Max(s)]].kind = "side_effect"
                                    THEN GroupEvent(g[s \ {Max(s)}], id[Max(s)], L[id[Max(s)]])
                                    ELSE g[s \ {Max(s)}]]
<1>1. DOMAIN L = D /\ Len(L) \in Nat /\ \A i \in D : L[i] \in Events
  BY DEF IsRun
<1>2. DeriveSideEffects(L, after, Len(L)) =
        {group \in (CHOOSE g : IsIter(g))[DOMAIN id].groups : group.request > after \/ group.commit > after}
  BY <1>1, Zenon DEF DeriveSideEffects, FoldLeft, MapThenFoldSet
<1>3. \A s \in SUBSET D : s # {} => /\ Max(s) \in s /\ id[Max(s)] = Max(s)
  <2> TAKE s \in SUBSET D
  <2> HAVE s # {}
  <2>1. s \in SUBSET (0..Len(L))
    BY <1>1
  <2>2. Max(s) \in s
    BY <1>1, <2>1, GreatestOf
  <2> QED
    BY <1>1, <2>2
<1>4. step \in [D -> [S -> S]]
  <2> SUFFICES ASSUME NEW seq \in D, NEW acc \in S
               PROVE  GroupStep(L, acc, seq) \in S
    OBVIOUS
  <2>1. seq \in Nat /\ L[seq] \in Events
    BY <1>1
  <2> QED
    BY <2>1, GroupEventType DEF GroupStep
<1>5. \E g : IsIter(g)
  <2>1. Base \in S
    BY DEF Groupings, Groups, NoGroup
  <2> HIDE DEF step, Base
  <2>2. PICK g \in [SUBSET D -> S] : FoldsUp(g, D, Base, step)
    BY <1>1, <1>4, <2>1, FoldUp
  <2> HIDE DEF D, S, id
  <2>3. \A s \in SUBSET D :
          g[s] = IF s = {} THEN Base
                 ELSE IF L[id[Max(s)]].kind = "side_effect"
                      THEN GroupEvent(g[s \ {Max(s)}], id[Max(s)], L[id[Max(s)]])
                      ELSE g[s \ {Max(s)}]
    <3> TAKE s \in SUBSET D
    <3>1. s = {} => g[s] = Base
      BY <2>2 DEF FoldsUp
    <3>2. ASSUME s # {} PROVE g[s] = GroupStep(L, g[s \ {Max(s)}], Max(s))
      <4>1. g[s] = step[Max(s)][g[s \ {Max(s)}]]
        BY <2>2, <3>2 DEF FoldsUp
      <4>2. Max(s) \in D /\ g[s \ {Max(s)}] \in S
        BY <1>3, <2>2, <3>2
      <4> QED
        BY <4>1, <4>2 DEF step
    <3> QED
      BY <1>3, <3>1, <3>2 DEF GroupStep
  <2>5. g = [s \in SUBSET D |-> g[s]]
    BY <2>2
  <2>6. IsIter(g)
    BY <2>3, <2>5, Zenon
  <2> QED
    BY <2>6
<1> DEFINE G == CHOOSE g : IsIter(g)
           h == [k \in 0..Len(L) |-> G[1..k]]
<1>6. IsIter(G)
  BY <1>5
<1>7. \A k \in 0..Len(L) : 1..k \in SUBSET D
  BY <1>1
<1>8. h[0] = Ungrouped
  <2>1. 1..0 = {} /\ 0 \in 0..Len(L)
    BY <1>1
  <2>2. G[1..0] = Base
    <3> HIDE DEF G, Base
    <3> QED
      BY <1>6, <1>7, <2>1
  <2> QED
    BY <2>1, <2>2 DEF Ungrouped
<1>9. \A k \in 1..Len(L) : h[k] = GroupStep(L, h[k - 1], k)
  <2> TAKE k \in 1..Len(L)
  <2>1. 1..k \in SUBSET (0..k) /\ k \in 1..k /\ k \in Nat /\ \A i \in 1..k : i <= k
    BY <1>1
  <2>2. Max(1..k) = k
    <3>1. Max(1..k) \in 1..k /\ k <= Max(1..k)
      BY <2>1, GreatestOf
    <3> QED
      BY <2>1, <3>1
  <2>3. (1..k) \ {k} = 1..(k - 1) /\ k - 1 \in 0..Len(L) /\ k \in 0..Len(L)
    BY <1>1, <2>1
  <2> HIDE DEF G
  <2>5. 1..k \in SUBSET D /\ 1..k # {} /\ id[k] = k
    BY <1>1, <1>7, <2>1, <2>3
  <2> HIDE DEF id, D, Base
  <2>6. G[1..k] = IF 1..k = {} THEN Base
                  ELSE IF L[id[Max(1..k)]].kind = "side_effect"
                       THEN GroupEvent(G[(1..k) \ {Max(1..k)}], id[Max(1..k)], L[id[Max(1..k)]])
                       ELSE G[(1..k) \ {Max(1..k)}]
    BY <1>6, <2>5, Zenon
  <2>4. G[1..k] = GroupStep(L, G[1..(k - 1)], k)
    BY <2>2, <2>3, <2>5, <2>6 DEF GroupStep
  <2> QED
    BY <2>3, <2>4
<1>11. h[Len(L)] = G[1..Len(L)] /\ DOMAIN id = 1..Len(L)
  BY <1>1
<1> HIDE DEF G, id
<1>12. DeriveSideEffects(L, after, Len(L)) =
         {group \in h[Len(L)].groups : group.request > after \/ group.commit > after}
  BY <1>2, <1>11 DEF G
<1> HIDE DEF h
<1> QED
  BY <1>8, <1>9, <1>12

\* What an event that belongs to no request before it, or to another, changes.
LEMMA ResolvedStays ==
  ASSUME NEW L, IsRun(L), NEW n \in DOMAIN L, NEW K \in SUBSET (1..(n - 1)), NEW r \in K,
         ~(L[n].role \in {"acknowledgement", "failure"} /\ Belongs(L, r, n, K))
  PROVE  ResolvedIn(L, r, K \cup {n}) = ResolvedIn(L, r, K)
<1>1. IntentIn(L, r, K \cup {n}) = IntentIn(L, r, K)
  BY IntentGrows
<1> QED
  BY <1>1, IntentFields

\* An acknowledgement resolves the request it belongs to, if nothing did.
LEMMA ResolvedNow ==
  ASSUME NEW L, IsRun(L), NEW n \in DOMAIN L, NEW K \in SUBSET (1..(n - 1)), NEW r \in K,
         L[n].role = "acknowledgement", Belongs(L, r, n, K),
         AnswersIn(L, r, "acknowledgement", K) = {}
  PROVE  ResolvedIn(L, r, K \cup {n}) = n
<1>1. \A role \in {"acknowledgement", "failure"} :
        AnswersIn(L, r, role, K \cup {n}) = AnswersIn(L, r, role, K) \cup NextAnswers(L, r, role, n, K)
  BY AnswersGrow
<1>2. NextAnswers(L, r, "acknowledgement", n, K) = {n}
  BY DEF NextAnswers
<1>3. AnswersIn(L, r, "acknowledgement", K \cup {n}) = {n}
  BY <1>1, <1>2
<1>4. Min({n}) = n
  <2>1. n \in Nat
    BY DEF IsRun
  <2>2. {n} \in SUBSET Nat /\ {n} # {}
    BY <2>1
  <2> QED
    BY <2>2, LeastOf
<1> QED
  BY <1>3, <1>4 DEF ResolvedIn

\* A ledger whose payloads carry the ids and whose commits answer requests.
IsPaired(L) ==
  /\ \A p \in DOMAIN L : L[p].id = L[p].payload
  /\ \A p \in DOMAIN L : L[p].kind = "side_effect" => L[p].role \in {"request", "acknowledgement"}
  /\ \A a \in DOMAIN L : L[a].kind = "side_effect" /\ L[a].role = "acknowledgement" =>
       /\ L[a].payload # None
       /\ \E b \in 1..(a - 1) :
            /\ L[b].kind = "side_effect" /\ L[b].payload = L[a].payload /\ L[b].role = "request"
            /\ \A other \in 1..(a - 1) :
                 L[other].kind = "side_effect" /\ L[other].payload = L[a].payload => other <= b

\* The side effects requested among the first k events, as they are grouped.
Effects(L, k) == {r \in RequestsIn(L) : L[r].kind = "side_effect" /\ r <= k}
GroupIn(L, r, k) == [request |-> r, commit |-> ResolvedIn(L, r, 1..k)]
GroupsIn(L, k) == {GroupIn(L, r, k) : r \in Effects(L, k)}

\* The current group of an id is that of its latest request.
IsCurrent(L, k, id, group) ==
  \/ group = NoGroup /\ \A r \in Effects(L, k) : L[r].payload # id
  \/ \E r \in Effects(L, k) : /\ L[r].payload = id
                              /\ \A q \in Effects(L, k) : L[q].payload = id => q <= r
                              /\ group = GroupIn(L, r, k)

IsGrouping(L, k, acc) ==
  /\ acc.groups = GroupsIn(L, k)
  /\ \A id \in Ids : IsCurrent(L, k, id, acc.current[id])

\* What one event changes of the groups: nothing, for an event of another kind.
LEMMA OtherGrouped ==
  ASSUME NEW L, IsRun(L), NEW n \in DOMAIN L, NEW acc, IsGrouping(L, n - 1, acc), L[n].kind # "side_effect"
  PROVE  IsGrouping(L, n, acc)
<1> DEFINE k == n - 1
<1>1. n \in Nat /\ k \in Nat /\ k + 1 = n /\ \A r \in DOMAIN L : r \in Nat /\ r >= 1 /\ (r <= n <=> r <= k \/ r = n)
  BY DEF IsRun
<1>2. Effects(L, n) = Effects(L, k)
  BY <1>1 DEF Effects, RequestsIn
<1>3. 1..n = (1..k) \cup {n} /\ 1..k \in SUBSET (1..(n - 1))
  BY <1>1
<1>4. \A r \in Effects(L, k) : GroupIn(L, r, n) = GroupIn(L, r, k)
  <2> TAKE r \in Effects(L, k)
  <2>1. r \in 1..k /\ L[r].kind = "side_effect"
    BY <1>1 DEF Effects, RequestsIn
  <2>2. ~(L[n].role \in {"acknowledgement", "failure"} /\ Belongs(L, r, n, 1..k))
    BY <2>1 DEF Belongs
  <2>3. ResolvedIn(L, r, (1..k) \cup {n}) = ResolvedIn(L, r, 1..k)
    <3> DEFINE K == 1..k
    <3>1. K \in SUBSET (1..(n - 1)) /\ r \in K /\ ~(L[n].role \in {"acknowledgement", "failure"} /\ Belongs(L, r, n, K))
      BY <1>3, <2>1, <2>2
    <3> HIDE DEF K
    <3>2. ResolvedIn(L, r, K \cup {n}) = ResolvedIn(L, r, K)
      BY <3>1, ResolvedStays
    <3> QED
      BY <3>2 DEF K
  <2> QED
    BY <1>3, <2>3 DEF GroupIn
<1> HIDE DEF k
<1>5. GroupsIn(L, n) = GroupsIn(L, k)
  BY <1>2, <1>4 DEF GroupsIn
<1>6. \A id, group : IsCurrent(L, k, id, group) => IsCurrent(L, n, id, group)
  BY <1>2, <1>4 DEF IsCurrent
<1>7. IsGrouping(L, k, acc)
  BY DEF k
<1> QED
  BY <1>5, <1>6, <1>7 DEF IsGrouping

\* A request starts a group.
LEMMA RequestGrouped ==
  ASSUME NEW L, IsRun(L), IsPaired(L), NEW n \in DOMAIN L, NEW acc \in Groupings, IsGrouping(L, n - 1, acc),
         L[n].kind = "side_effect", L[n].role = "request"
  PROVE  IsGrouping(L, n, GroupEvent(acc, n, L[n]))
<1> DEFINE k == n - 1
           e == L[n]
           g == [request |-> n, commit |-> 0]
           next == [groups |-> acc.groups \cup {g},
                    current |-> [id \in Ids |-> IF id = e.payload THEN g ELSE acc.current[id]]]
<1>1. n \in Nat /\ k \in Nat /\ k + 1 = n /\ \A r \in DOMAIN L : r \in Nat /\ r >= 1 /\ (r <= n <=> r <= k \/ r = n)
  BY DEF IsRun
<1>0. IsGrouping(L, k, acc) /\ e \in Events
  BY DEF IsRun
<1>2. Effects(L, n) = Effects(L, k) \cup {n} /\ n \notin Effects(L, k)
  BY <1>1 DEF Effects, RequestsIn
<1>3. 1..n = (1..k) \cup {n} /\ 1..k \in SUBSET (1..(n - 1))
  BY <1>1
<1>4. \A r \in Effects(L, k) : GroupIn(L, r, n) = GroupIn(L, r, k)
  <2> TAKE r \in Effects(L, k)
  <2>1. r \in 1..k
    BY <1>1 DEF Effects, RequestsIn
  <2>3. ResolvedIn(L, r, (1..k) \cup {n}) = ResolvedIn(L, r, 1..k)
    <3> DEFINE K == 1..k
    <3>1. /\ K \in SUBSET (1..(n - 1)) /\ r \in K
          /\ ~(L[n].role \in {"acknowledgement", "failure"} /\ Belongs(L, r, n, K))
      BY <1>3, <2>1
    <3> HIDE DEF K
    <3>2. ResolvedIn(L, r, K \cup {n}) = ResolvedIn(L, r, K)
      BY <3>1, ResolvedStays
    <3> QED
      BY <3>2 DEF K
  <2> QED
    BY <1>3, <2>3 DEF GroupIn
<1>5. GroupIn(L, n, n) = g
  <2>1. \A role : AnswersIn(L, n, role, (1..k) \cup {n}) = {}
    BY <1>3, Unanswered
  <2>2. ResolvedIn(L, n, (1..k) \cup {n}) = 0
    BY <2>1 DEF ResolvedIn
  <2> QED
    BY <1>3, <2>2 DEF GroupIn
<1>6. ASSUME NEW group, IsCurrent(L, k, e.payload, group) PROVE ~Joins(group, e)
  <2>1. group = NoGroup \/ \E r \in Effects(L, k) : group.request = r /\ r >= 1
    BY <1>1, <1>6 DEF IsCurrent, GroupIn, Effects, RequestsIn
  <2>2. CASE group = NoGroup
    BY <2>2 DEF Joins
  <2>3. ASSUME NEW r \in Effects(L, k), group.request = r PROVE ~Joins(group, e)
    <3>1. r \in Nat /\ r >= 1
      BY <1>1 DEF Effects, RequestsIn
    <3>2. group.request # 0
      BY <2>3, <3>1
    <3> QED
      BY <3>2 DEF Joins
  <2> QED
    BY <2>1, <2>2, <2>3
<1>7. NoGroup \notin acc.groups
  <2> SUFFICES ASSUME NoGroup \in GroupsIn(L, k) PROVE FALSE
    BY <1>0 DEF IsGrouping
  <2>1. PICK r \in Effects(L, k) : NoGroup = GroupIn(L, r, k)
    BY DEF GroupsIn
  <2>2. NoGroup.request = 0 /\ GroupIn(L, r, k).request = r
    BY DEF NoGroup, GroupIn
  <2>3. r \in Nat /\ r >= 1
    BY <1>1 DEF Effects, RequestsIn
  <2> QED
    BY <2>1, <2>2, <2>3
<1>8. GroupEvent(acc, n, e) = next
  <2> DEFINE current == IF e.payload = None THEN NoGroup ELSE acc.current[e.payload]
  <2>1. ~Joins(current, e)
    <3>1. CASE e.payload = None
      BY <3>1 DEF Joins
    <3>2. CASE e.payload # None
      <4>1. e.payload \in Ids
        BY <1>0, <3>2 DEF Events
      <4>2. IsCurrent(L, k, e.payload, acc.current[e.payload])
        BY <1>0, <4>1 DEF IsGrouping
      <4> HIDE DEF e, k
      <4> QED
        BY <1>6, <3>2, <4>2
    <3> QED
      BY <3>1, <3>2
  <2>2. [NoGroup EXCEPT !.request = n] = g
    BY DEF NoGroup
  <2>3. acc.groups \ {NoGroup} = acc.groups
    BY <1>7
  <2> HIDE DEF current
  <2>4. e.role = "request"
    OBVIOUS
  <2> HIDE DEF e, g
  <2>5. GroupEvent(acc, n, e) =
          [groups |-> (acc.groups \ {NoGroup}) \cup {g},
           current |-> [id \in Ids |-> IF id = e.payload THEN g ELSE acc.current[id]]]
    BY <2>1, <2>2, <2>4 DEF GroupEvent, current
  <2> QED
    BY <2>3, <2>5
<1> HIDE DEF k, g
<1>9. next.groups = GroupsIn(L, n)
  <2>1. acc.groups = GroupsIn(L, k)
    BY <1>0 DEF IsGrouping
  <2> QED
    BY <1>2, <1>4, <1>5, <2>1 DEF GroupsIn
<1>10. ASSUME NEW id \in Ids PROVE IsCurrent(L, n, id, next.current[id])
  <2>1. CASE id = e.payload
    <3>1. next.current[id] = GroupIn(L, n, n) /\ n \in Effects(L, n)
      BY <1>2, <1>5, <2>1
    <3>2. \A q \in Effects(L, n) : q <= n
      BY DEF Effects
    <3> HIDE DEF next
    <3> QED
      BY <2>1, <3>1, <3>2 DEF IsCurrent
  <2>2. CASE id # e.payload
    <3>1. next.current[id] = acc.current[id] /\ IsCurrent(L, k, id, acc.current[id])
      BY <1>0, <2>2 DEF IsGrouping
    <3> HIDE DEF next
    <3> QED
      BY <1>2, <1>4, <2>2, <3>1 DEF IsCurrent
  <2> QED
    BY <2>1, <2>2
<1> HIDE DEF next
<1> QED
  BY <1>8, <1>9, <1>10 DEF IsGrouping

\* A commit joins the group of its request.
LEMMA CommitGrouped ==
  ASSUME NEW L, IsRun(L), IsPaired(L), NEW n \in DOMAIN L, NEW acc \in Groupings, IsGrouping(L, n - 1, acc),
         L[n].kind = "side_effect", L[n].role = "acknowledgement"
  PROVE  IsGrouping(L, n, GroupEvent(acc, n, L[n]))
<1> DEFINE k == n - 1
           e == L[n]
           p == e.payload
           K == 1..k
<1>1. n \in Nat /\ k \in Nat /\ k + 1 = n /\ \A r \in DOMAIN L : r \in Nat /\ r >= 1 /\ (r <= n <=> r <= k \/ r = n)
  BY DEF IsRun
<1>2. IsGrouping(L, k, acc) /\ e \in Events /\ p \in Ids /\ DOMAIN L = 1..Len(L) /\ Len(L) \in Nat
  <2>1. DOMAIN L = 1..Len(L) /\ Len(L) \in Nat /\ e \in Events
    BY DEF IsRun
  <2>2. e.payload # None
    BY DEF IsPaired
  <2>3. IsGrouping(L, k, acc)
    OBVIOUS
  <2> HIDE DEF e, k
  <2>4. e.payload \in Ids
    BY <2>1, <2>2 DEF Events
  <2> QED
    BY <2>1, <2>3, <2>4
<1>3. /\ \A q \in DOMAIN L : IntentId(L[q]) = L[q].payload
      /\ p # None
  BY DEF IsPaired, IntentId
<1>4. Effects(L, n) = Effects(L, k) /\ \A r \in Effects(L, k) : r \in K /\ r \in DOMAIN L /\ L[r].role = "request"
  BY <1>1 DEF Effects, RequestsIn
<1>5. 1..n = K \cup {n} /\ K \in SUBSET (1..(n - 1))
  BY <1>1
<1>6. PICK b \in Effects(L, k) :
        /\ L[b].payload = p
        /\ \A other \in K : L[other].kind = "side_effect" /\ L[other].payload = p => other <= b
  <2>1. PICK b \in 1..(n - 1) :
          /\ L[b].kind = "side_effect" /\ L[b].payload = p /\ L[b].role = "request"
          /\ \A other \in 1..(n - 1) : L[other].kind = "side_effect" /\ L[other].payload = p => other <= b
    BY DEF IsPaired
  <2>2. b \in DOMAIN L /\ b <= k
    BY <1>1, <1>2
  <2> QED
    BY <2>1, <2>2 DEF Effects, RequestsIn
<1> DEFINE g == GroupIn(L, b, k)
           m == [request |-> b, commit |-> n]
<1>7. b \in K /\ b \in Nat /\ b >= 1 /\ b \in DOMAIN L /\ L[b].kind = "side_effect" /\ L[b].role = "request"
  BY <1>1, <1>4 DEF Effects
<1>8. \A role : AnswersIn(L, b, role, K) = {}
  <2> SUFFICES ASSUME NEW role, NEW a \in AnswersIn(L, b, role, K) PROVE FALSE
    OBVIOUS
  <2>1. a \in K /\ L[a].kind = "side_effect" /\ IntentId(L[a]) = IntentId(L[b]) /\ b < a
    BY <1>7 DEF AnswersIn
  <2>2. a \in DOMAIN L /\ a \in Nat
    BY <1>1, <1>2, <2>1
  <2>3. L[a].payload = p
    BY <1>3, <1>6, <1>7, <2>1, <2>2
  <2>4. a <= b
    BY <1>6, <2>1, <2>3
  <2> QED
    BY <1>7, <2>1, <2>2, <2>4
<1>9. g = [request |-> b, commit |-> 0]
  BY <1>8 DEF GroupIn, ResolvedIn
<1>10. acc.current[p] = g
  <2>1. IsCurrent(L, k, p, acc.current[p])
    BY <1>2 DEF IsGrouping
  <2>2. PICK r \in Effects(L, k) : /\ L[r].payload = p
                                   /\ \A q \in Effects(L, k) : L[q].payload = p => q <= r
                                   /\ acc.current[p] = GroupIn(L, r, k)
    BY <1>6, <2>1 DEF IsCurrent
  <2>3. r <= b
    BY <1>4, <1>6, <2>2 DEF Effects
  <2>4. b <= r /\ r \in Nat
    BY <1>1, <1>4, <1>6, <2>2
  <2>5. r = b
    BY <1>7, <2>3, <2>4
  <2> QED
    BY <2>2, <2>5
<1>11. Belongs(L, b, n, K)
  <2>1. IntentId(L[n]) = IntentId(L[b]) /\ IntentId(L[b]) # None
    BY <1>3, <1>6, <1>7
  <2>2. ASSUME NEW later \in K \cap RequestsIn(L), b < later, L[later].kind = L[b].kind,
               IntentId(L[later]) = IntentId(L[b])
        PROVE  FALSE
    <3>1. later \in DOMAIN L /\ later \in Nat
      BY <1>1 DEF RequestsIn
    <3>2. L[later].payload = p
      BY <1>3, <1>6, <1>7, <2>2, <3>1
    <3>3. later <= b
      BY <1>6, <1>7, <2>2, <3>2
    <3> QED
      BY <1>7, <2>2, <3>1, <3>3
  <2> QED
    BY <1>7, <2>1, <2>2 DEF Belongs
<1>12. GroupIn(L, b, n) = m
  <2> HIDE DEF K
  <2>1. ResolvedIn(L, b, K \cup {n}) = n
    BY <1>5, <1>7, <1>8, <1>11, ResolvedNow
  <2> QED
    BY <1>5, <2>1 DEF GroupIn
<1>13. \A r \in Effects(L, k) : r # b => GroupIn(L, r, n) = GroupIn(L, r, k)
  <2> SUFFICES ASSUME NEW r \in Effects(L, k), r # b PROVE GroupIn(L, r, n) = GroupIn(L, r, k)
    OBVIOUS
  <2>1. r \in K /\ r \in DOMAIN L /\ L[r].kind = "side_effect" /\ r \in Nat
    BY <1>1, <1>4 DEF Effects
  <2>2. ~Belongs(L, r, n, K)
    <3> SUFFICES ASSUME Belongs(L, r, n, K) PROVE FALSE
      OBVIOUS
    <3>1. IntentId(L[n]) = IntentId(L[r])
      BY DEF Belongs
    <3>2. L[r].payload = p
      BY <1>3, <2>1, <3>1
    <3>3. r <= b
      BY <1>6, <2>1, <3>2
    <3>4. r < b
      BY <1>7, <2>1, <3>3
    <3>5. b \in K \cap RequestsIn(L) /\ L[b].kind = L[r].kind /\ IntentId(L[b]) = IntentId(L[r])
      BY <1>3, <1>6, <1>7, <2>1, <3>2 DEF RequestsIn
    <3> QED
      BY <3>4, <3>5 DEF Belongs
  <2> HIDE DEF K
  <2>3. ResolvedIn(L, r, K \cup {n}) = ResolvedIn(L, r, K)
    BY <1>5, <2>1, <2>2, ResolvedStays
  <2> QED
    BY <1>5, <2>3 DEF GroupIn, K
<1> DEFINE next == [groups |-> (acc.groups \ {g}) \cup {m},
                    current |-> [id \in Ids |-> IF id = p THEN m ELSE acc.current[id]]]
<1>14. GroupEvent(acc, n, e) = next
  <2> DEFINE current == IF e.payload = None THEN NoGroup ELSE acc.current[e.payload]
  <2>1. current = g
    BY <1>3, <1>10
  <2>2. Joins(g, e)
    <3>1. g # NoGroup /\ g.commit = 0
      <4>1. g.request = b /\ g.commit = 0
        BY <1>9
      <4> QED
        BY <1>7, <4>1 DEF NoGroup
    <3> HIDE DEF g
    <3> QED
      BY <3>1 DEF Joins
  <2>3. [g EXCEPT !.commit = n] = m
    BY <1>9
  <2>4. e.role # "request"
    OBVIOUS
  <2> HIDE DEF e, g, m, current
  <2> QED
    BY <2>1, <2>2, <2>3, <2>4 DEF GroupEvent, current
<1> HIDE DEF k, g, m, K
<1>15. next.groups = GroupsIn(L, n)
  <2>1. acc.groups = {GroupIn(L, r, k) : r \in Effects(L, k)}
    BY <1>2 DEF IsGrouping, GroupsIn
  <2>2. \A r \in Effects(L, k) : GroupIn(L, r, k) = g <=> r = b
    <3>1. \A r : GroupIn(L, r, k).request = r
      BY DEF GroupIn
    <3> QED
      BY <3>1 DEF g
  <2>3. next.groups = (acc.groups \ {g}) \cup {m}
    OBVIOUS
  <2> HIDE DEF next
  <2>4. acc.groups \ {g} = {GroupIn(L, r, k) : r \in Effects(L, k) \ {b}}
    BY <2>1, <2>2
  <2>5. GroupsIn(L, n) = {GroupIn(L, r, n) : r \in Effects(L, k) \ {b}} \cup {GroupIn(L, b, n)}
    BY <1>4 DEF GroupsIn
  <2>6. {GroupIn(L, r, n) : r \in Effects(L, k) \ {b}} = {GroupIn(L, r, k) : r \in Effects(L, k) \ {b}}
    BY <1>13
  <2> QED
    BY <1>12, <2>3, <2>4, <2>5, <2>6
<1>16. ASSUME NEW id \in Ids PROVE IsCurrent(L, n, id, next.current[id])
  <2>1. CASE id = p
    <3>1. next.current[id] = GroupIn(L, b, n) /\ b \in Effects(L, n)
      BY <1>4, <1>12, <2>1
    <3>2. \A q \in Effects(L, n) : L[q].payload = p => q <= b
      BY <1>4, <1>6 DEF Effects
    <3> HIDE DEF next, p
    <3> QED
      BY <1>6, <2>1, <3>1, <3>2 DEF IsCurrent
  <2>2. CASE id # p
    <3>1. next.current[id] = acc.current[id] /\ IsCurrent(L, k, id, acc.current[id])
      BY <1>2, <2>2 DEF IsGrouping
    <3>2. \A r \in Effects(L, k) : L[r].payload = id => GroupIn(L, r, n) = GroupIn(L, r, k)
      BY <1>6, <1>13, <2>2
    <3> HIDE DEF next
    <3> QED
      BY <1>4, <3>1, <3>2 DEF IsCurrent
  <2> QED
    BY <2>1, <2>2
<1> HIDE DEF next
<1> QED
  BY <1>14, <1>15, <1>16 DEF IsGrouping

\* The warnings pair requests with commits as the intents do.
LEMMA GroupingMeans ==
  ASSUME NEW L, IsRun(L), IsPaired(L), NEW after
  PROVE  DeriveSideEffects(L, after, Len(L)) =
           {group \in GroupsIn(L, Len(L)) : group.request > after \/ group.commit > after}
<1> DEFINE N == Len(L)
<1>1. N \in Nat /\ DOMAIN L = 1..N /\ \A i \in 1..N : L[i] \in Events
  BY DEF IsRun
<1>2. PICK h : /\ h[0] = Ungrouped
               /\ \A k \in 1..N : h[k] = GroupStep(L, h[k - 1], k)
               /\ DeriveSideEffects(L, after, N) =
                    {group \in h[N].groups : group.request > after \/ group.commit > after}
  BY GroupSteps
<1> DEFINE good == {k \in 0..N : h[k] \in Groupings /\ IsGrouping(L, k, h[k])}
<1>3. 0 \in good
  <2>1. Effects(L, 0) = {}
    BY <1>1 DEF Effects, RequestsIn
  <2>2. Ungrouped \in Groupings
    BY DEF Ungrouped, Groupings, Groups, NoGroup
  <2>3. IsGrouping(L, 0, Ungrouped)
    BY <2>1 DEF Ungrouped, IsGrouping, GroupsIn, IsCurrent
  <2> QED
    BY <1>1, <1>2, <2>2, <2>3
<1>4. ASSUME NEW k \in 0..(N - 1), k \in good PROVE k + 1 \in good
  <2> DEFINE n == k + 1
  <2>1. n \in 1..N /\ n \in 0..N /\ n - 1 = k /\ n \in DOMAIN L /\ n \in Nat
    BY <1>1
  <2>2. h[n - 1] \in Groupings /\ IsGrouping(L, n - 1, h[n - 1])
    BY <1>4, <2>1
  <2>3. h[n] = GroupStep(L, h[n - 1], n)
    BY <1>2, <2>1
  <2> HIDE DEF n
  <2>4. CASE L[n].kind # "side_effect"
    <3>1. h[n] = h[n - 1]
      BY <2>3, <2>4 DEF GroupStep
    <3>2. IsGrouping(L, n, h[n])
      BY <2>1, <2>2, <2>4, <3>1, OtherGrouped
    <3> QED
      BY <2>1, <2>2, <3>1, <3>2 DEF n
  <2>5. CASE L[n].kind = "side_effect"
    <3>1. h[n] = GroupEvent(h[n - 1], n, L[n])
      BY <2>3, <2>5 DEF GroupStep
    <3>2. h[n] \in Groupings
      BY <1>1, <2>1, <2>2, <3>1, GroupEventType
    <3>3. IsGrouping(L, n, h[n])
      <4>1. L[n].role = "request" \/ L[n].role = "acknowledgement"
        BY <2>1, <2>5 DEF IsPaired
      <4> QED
        BY <2>1, <2>2, <2>5, <3>1, <4>1, RequestGrouped, CommitGrouped
    <3> QED
      BY <2>1, <3>2, <3>3 DEF n
  <2> QED
    BY <2>4, <2>5
<1>5. N \in good
  <2> HIDE DEF good, N
  <2>1. \A k \in 0..N : k \in good
    BY <1>1, <1>3, <1>4, UpTo
  <2> QED
    BY <1>1, <2>1
<1>6. h[N].groups = GroupsIn(L, N)
  BY <1>5 DEF IsGrouping
<1> QED
  BY <1>2, <1>6

\* The pairs of the side effects' intents, through the head.
LEMMA WarningsMeans ==
  ASSUME NEW L, IsRun(L), IsPaired(L), NEW c
  PROVE  DeriveSideEffects(L, c, Len(L)) =
           {[request |-> intent.requested_seq, commit |-> intent.resolved_seq] :
              intent \in {i \in DerivePendingIntent(L, DOMAIN L) :
                            i.kind = "side_effect" /\ (i.requested_seq > c \/ i.resolved_seq > c)}}
<1> DEFINE N == Len(L)
           D == DOMAIN L
           Pair(i) == [request |-> i.requested_seq, commit |-> i.resolved_seq]
           I == DerivePendingIntent(L, D)
           E == Effects(L, N)
<1>1. D = 1..N /\ N \in Nat /\ RequestsIn(L) \cap D = RequestsIn(L)
  BY DEF IsRun, RequestsIn
<1>2. I = {IntentIn(L, r, D) : r \in RequestsIn(L)}
  <2>1. I = IntentsIn(L, D)
    BY DerivationMeans
  <2> QED
    BY <1>1, <2>1 DEF IntentsIn
<1>3. E = {r \in RequestsIn(L) : L[r].kind = "side_effect"}
  BY <1>1 DEF Effects, RequestsIn
<1>4. \A r : /\ Pair(IntentIn(L, r, D)) = GroupIn(L, r, N)
             /\ GroupIn(L, r, N).request = r /\ GroupIn(L, r, N).commit = ResolvedIn(L, r, D)
  BY <1>1, IntentFields DEF GroupIn
<1>5. DeriveSideEffects(L, c, N) = {group \in GroupsIn(L, N) : group.request > c \/ group.commit > c}
  BY GroupingMeans
<1>6. {group \in GroupsIn(L, N) : group.request > c \/ group.commit > c}
        = {GroupIn(L, r, N) : r \in {q \in E : q > c \/ ResolvedIn(L, q, D) > c}}
  <2> HIDE DEF E, D, N
  <2> QED
    BY <1>4 DEF GroupsIn, E
<1> HIDE DEF I, E
<1>7. {i \in I : i.kind = "side_effect" /\ (i.requested_seq > c \/ i.resolved_seq > c)}
        = {IntentIn(L, r, D) : r \in {q \in E : q > c \/ ResolvedIn(L, q, D) > c}}
  <2> HIDE DEF D
  <2> QED
    BY <1>2, <1>3, IntentFields
<1> DEFINE J == {i \in I : i.kind = "side_effect" /\ (i.requested_seq > c \/ i.resolved_seq > c)}
<1>8. {Pair(i) : i \in J} = {GroupIn(L, r, N) : r \in {q \in E : q > c \/ ResolvedIn(L, q, D) > c}}
  <2> HIDE DEF J, Pair, D, N
  <2> QED
    BY <1>4, <1>7 DEF J
<1> QED
  BY <1>5, <1>6, <1>8 DEF I

-----------------------------------------------------------------------------
(* The inductive invariant *)

\* The function History is the history of the ledger.
LEMMA HistoryIsHistory ==
  ASSUME IsRun(ledger), Backward(ledger)
  PROVE  IsHistory(ledger, History)
<1>1. \E H : IsHistory(ledger, H)
  BY HistoryExists
<1>2. \E H : H = [p \in 0..HeadSeq |-> IF p = 0 THEN {}
                                       ELSE IF ledger[p].role = "restore" THEN H[ledger[p].target]
                                       ELSE H[p - 1] \cup {p}]
  BY <1>1 DEF IsHistory, HistoryStep, HeadSeq
<1>3. History = [p \in 0..HeadSeq |-> IF p = 0 THEN {}
                                      ELSE IF ledger[p].role = "restore" THEN History[ledger[p].target]
                                      ELSE History[p - 1] \cup {p}]
  BY <1>2, Zenon DEF History
<1> QED
  BY <1>3 DEF IsHistory, HistoryStep, HeadSeq

\* What checkpoint c recorded of the tool requests of its history.
RecordedTools(c) == {intent \in recorded[c] : intent.kind = "tool" /\ intent.requested_seq \in History[c]}

\* Side effects are requested and acknowledged, and never fail.
EffectRoles(L) ==
  \A p \in DOMAIN L : L[p].kind = "side_effect" => L[p].role \in {"request", "acknowledgement"}

\* The inductive invariant: the ledger is one, restores go back, and what each
\* checkpoint recorded of the tool requests of its history is what the ledger
\* says of them now.
HistInv ==
  /\ alphabet \in Alphabets
  /\ IsRun(ledger)
  /\ Backward(ledger)
  /\ EffectRoles(ledger)
  /\ \A c \in Checkpoints : c \in 1..HeadSeq
  /\ \A c \in Checkpoints : RecordedTools(c) = ToolsOn(ledger, History[c])

\* A run records observations, and marks its checkpoints and restores.
LEMMA EventsAndMarkers ==
  ASSUME HistInv
  PROVE  /\ \A event \in alphabet :
              /\ event \in Events
              /\ event.role \notin {"checkpoint", "restore"}
              /\ event.kind = "side_effect" => event.role \in {"request", "acknowledgement"}
         /\ \A target \in Nat : \A role \in {"checkpoint", "restore"} :
              /\ Marker(role, target) \in Events
              /\ Marker(role, target).role = role
              /\ Marker(role, target).kind # "side_effect"
              /\ Marker(role, target).target = target
<1>1. \A event \in alphabet : event \in Observations
  BY RunHistoryAssumption DEF HistInv
<1>2. \A event \in Observations :
        /\ event \in Events
        /\ event.role \notin {"checkpoint", "restore"}
        /\ event.kind = "side_effect" => event.role \in {"request", "acknowledgement"}
  BY DEF Observations
<1>3. \A target \in Nat : \A role \in {"checkpoint", "restore"} : Marker(role, target) \in Events
  BY DEF Marker, Events, Roles
<1>4. \A target \in Nat : \A role \in {"checkpoint", "restore"} :
        Marker(role, target).role = role /\ Marker(role, target).kind = None /\ Marker(role, target).target = target
  BY DEF Marker
<1>5. None # "side_effect"
  BY ResumeIntentAssumption DEF IntentKinds
<1> QED
  BY <1>1, <1>2, <1>3, <1>4, <1>5

LEMMA RolesGrow ==
  ASSUME NEW L, IsRun(L), EffectRoles(L), NEW e \in Events,
         e.kind = "side_effect" => e.role \in {"request", "acknowledgement"}
  PROVE  EffectRoles(Append(L, e))
<1>1. /\ DOMAIN Append(L, e) = 1..(Len(L) + 1) /\ DOMAIN L = 1..Len(L) /\ Len(L) \in Nat
      /\ Append(L, e)[Len(L) + 1] = e
      /\ \A p \in 1..Len(L) : Append(L, e)[p] = L[p]
  BY DEF IsRun
<1>2. \A p \in 1..(Len(L) + 1) : p \in 1..Len(L) \/ p = Len(L) + 1
  BY <1>1
<1> QED
  BY <1>1, <1>2 DEF EffectRoles

\* Appending an event keeps a run a run.
LEMMA RunGrows ==
  ASSUME NEW L, IsRun(L), Backward(L), NEW e \in Events, e.role = "restore" => e.target \in 0..Len(L)
  PROVE  /\ IsRun(Append(L, e))
         /\ Backward(Append(L, e))
         /\ Len(Append(L, e)) = Len(L) + 1
         /\ DOMAIN L = 1..Len(L)
         /\ Append(L, e)[Len(L) + 1] = e
         /\ Len(L) \in Nat
<1>1. L \in Seq(Events)
  BY DEF IsRun
<1>2. /\ DOMAIN Append(L, e) = 1..(Len(L) + 1) /\ DOMAIN L = 1..Len(L) /\ Len(L) \in Nat
      /\ Append(L, e)[Len(L) + 1] = e
      /\ \A p \in 1..Len(L) : Append(L, e)[p] = L[p]
      /\ Append(L, e) \in Seq(Events) /\ Len(Append(L, e)) = Len(L) + 1
  BY <1>1
<1>3. ASSUME NEW p \in 1..(Len(L) + 1), Append(L, e)[p].role = "restore"
      PROVE  Append(L, e)[p].target \in 0..(p - 1)
  <2>1. CASE p = Len(L) + 1
    <3>1. p - 1 = Len(L) /\ Append(L, e)[p] = e
      BY <1>2, <2>1
    <3> QED
      BY <1>3, <3>1
  <2>2. CASE p \in 1..Len(L)
    BY <1>2, <1>3, <2>2 DEF Backward
  <2> QED
    BY <1>2, <2>1, <2>2
<1> QED
  BY <1>2, <1>3 DEF IsRun, Backward

\* The ledger goes on; what the checkpoints recorded stays true.
LEMMA HistoryGoesOn ==
  ASSUME HistInv, NEW e \in Events, ledger' = Append(ledger, e),
         e.role = "restore" => e.target \in 0..Len(ledger)
  PROVE  /\ IsRun(ledger')
         /\ Backward(ledger')
         /\ HeadSeq' = HeadSeq + 1
         /\ \A p \in 0..HeadSeq : History'[p] = History[p]
         /\ \A c \in Checkpoints : ToolsOn(ledger', History'[c]) = ToolsOn(ledger, History[c])
<1>1. /\ IsRun(ledger) /\ Backward(ledger) /\ IsRun(ledger') /\ Backward(ledger') /\ HeadSeq' = HeadSeq + 1
      /\ Len(ledger) \in Nat /\ DOMAIN ledger = 1..Len(ledger)
  BY RunGrows DEF HistInv, HeadSeq
<1>2. IsHistory(ledger, History)
  BY <1>1, HistoryIsHistory
<1>3. IsHistory(ledger', History')
  <2>1. (IsRun(ledger) /\ Backward(ledger) => IsHistory(ledger, History))'
    BY HistoryIsHistory, PTL
  <2> QED
    BY <1>1, <2>1
<1>4. \A p \in 0..HeadSeq : History'[p] = History[p]
  <2>1. IsHistory(Append(ledger, e), History') /\ Backward(Append(ledger, e))
    BY <1>1, <1>3
  <2> QED
    BY <1>1, <1>2, <2>1, HistoryStays DEF HeadSeq
<1>5. ASSUME NEW c \in Checkpoints PROVE ToolsOn(ledger', History'[c]) = ToolsOn(ledger, History[c])
  <2>1. c \in 0..Len(ledger)
    BY <1>1 DEF HistInv, HeadSeq
  <2>2. History[c] \in SUBSET (1..c)
    BY <1>1, <1>2, <2>1, HistoryAt
  <2>3. History[c] \in SUBSET (DOMAIN ledger) /\ Len(ledger) + 1 \notin History[c]
    BY <1>1, <2>1, <2>2
  <2>4. ToolsOn(Append(ledger, e), History[c]) = ToolsOn(ledger, History[c])
    BY <1>1, <2>3, ToolsOnStays
  <2> QED
    BY <1>4, <2>1, <2>4 DEF HeadSeq
<1> QED
  BY <1>1, <1>4, <1>5

LEMMA HistInvInit == Init => HistInv
<1> SUFFICES ASSUME Init PROVE HistInv
  OBVIOUS
<1>1. ledger = <<>> /\ recorded = <<>> /\ alphabet \in Alphabets
  BY DEF Init
<1>2. IsRun(ledger) /\ Backward(ledger) /\ EffectRoles(ledger)
  BY <1>1 DEF IsRun, Backward, EffectRoles
<1>3. Checkpoints = {}
  BY <1>1 DEF Checkpoints
<1> QED
  BY <1>1, <1>2, <1>3 DEF HistInv

LEMMA HistInvNext == HistInv /\ [Next]_vars => HistInv'
<1> SUFFICES ASSUME HistInv, [Next]_vars PROVE HistInv'
  OBVIOUS
<1>0. /\ alphabet \in Alphabets /\ IsRun(ledger) /\ Backward(ledger) /\ EffectRoles(ledger) /\ HeadSeq \in Nat
      /\ \A c \in Checkpoints : c \in 1..HeadSeq /\ c \in 0..HeadSeq
      /\ \A c \in Checkpoints : RecordedTools(c) = ToolsOn(ledger, History[c])
  BY DEF HistInv, HeadSeq, IsRun
<1>1. ASSUME NEW e \in Events, ledger' = Append(ledger, e), e.role = "restore" => e.target \in 0..Len(ledger),
             e.kind = "side_effect" => e.role \in {"request", "acknowledgement"},
             UNCHANGED <<alphabet, recorded>>
      PROVE  HistInv'
  <2>1. /\ IsRun(ledger') /\ Backward(ledger') /\ HeadSeq' = HeadSeq + 1
        /\ \A p \in 0..HeadSeq : History'[p] = History[p]
        /\ \A c \in Checkpoints : ToolsOn(ledger', History'[c]) = ToolsOn(ledger, History[c])
    BY <1>1, HistoryGoesOn
  <2>2. Checkpoints' = Checkpoints /\ recorded' = recorded /\ alphabet' = alphabet
    BY <1>1 DEF Checkpoints
  <2>3. \A c \in Checkpoints : RecordedTools(c)' = ToolsOn(ledger', History'[c])
    <3> TAKE c \in Checkpoints
    <3>1. History'[c] = History[c] /\ recorded'[c] = recorded[c]
      BY <1>0, <2>1, <2>2
    <3> QED
      BY <1>0, <2>1, <3>1 DEF RecordedTools
  <2>4. \A c \in Checkpoints : c \in 1..HeadSeq'
    BY <1>0, <2>1
  <2>5. EffectRoles(ledger')
    BY <1>0, <1>1, RolesGrow
  <2> QED
    BY <1>0, <2>1, <2>2, <2>3, <2>4, <2>5 DEF HistInv
<1>2. ASSUME NEW event \in alphabet, Record(event) PROVE HistInv'
  <2>1. /\ event \in Events /\ event.role # "restore"
        /\ event.kind = "side_effect" => event.role \in {"request", "acknowledgement"}
    BY EventsAndMarkers
  <2> QED
    BY <1>1, <1>2, <2>1 DEF Record
<1>3. ASSUME NEW c \in Checkpoints, Restore(c) PROVE HistInv'
  <2>1. c \in Nat /\ c \in 0..Len(ledger)
    BY <1>0 DEF HeadSeq
  <2>2. Marker("restore", c) \in Events /\ Marker("restore", c).target = c /\ Marker("restore", c).kind # "side_effect"
    BY <2>1, EventsAndMarkers
  <2> QED
    BY <1>1, <1>3, <2>1, <2>2 DEF Restore
<1>4. CASE Checkpoint
  <2>0. PICK n : n = HeadSeq + 1
    OBVIOUS
  <2> DEFINE e == Marker("checkpoint", 0)
             intents == PendingIntentAt(ledger, AbandonedWindows(Lineage(ledger), HeadSeq, HeadSeq))
  <2>1. e \in Events /\ e.role = "checkpoint" /\ e.kind # "side_effect" /\ ledger' = Append(ledger, e)
        /\ alphabet' = alphabet
        /\ recorded' = Recording(intents)
    BY <1>4, EventsAndMarkers DEF Checkpoint
  <2> HIDE DEF e, intents
  <2>2. /\ IsRun(ledger') /\ Backward(ledger') /\ HeadSeq' = HeadSeq + 1
        /\ \A p \in 0..HeadSeq : History'[p] = History[p]
        /\ \A c \in Checkpoints : ToolsOn(ledger', History'[c]) = ToolsOn(ledger, History[c])
    BY <2>1, HistoryGoesOn
  <2>3. Checkpoints' = Checkpoints \cup {n}
    BY <2>0, <2>1 DEF Checkpoints, Recording
  <2>4. \A c \in Checkpoints : recorded'[c] = recorded[c] /\ c # n
    BY <1>0, <2>0, <2>1 DEF Checkpoints, Recording
  <2>5. recorded'[n] = intents
    <3>1. n \notin Checkpoints
      BY <2>4
    <3> QED
      BY <2>0, <2>1, <3>1 DEF Checkpoints, Recording
  <2>6. \A c \in Checkpoints : RecordedTools(c)' = ToolsOn(ledger', History'[c])
    <3> TAKE c \in Checkpoints
    <3>1. History'[c] = History[c] /\ recorded'[c] = recorded[c]
      BY <1>0, <2>2, <2>4
    <3> QED
      BY <1>0, <2>2, <3>1 DEF RecordedTools
  <2> DEFINE X == History[HeadSeq]
             Y == History'[n]
  <2>7. X \in SUBSET (DOMAIN ledger) /\ DOMAIN ledger = 1..HeadSeq /\ n \notin X
    <3>1. IsHistory(ledger, History)
      BY <1>0, HistoryIsHistory
    <3>2. Len(ledger) \in 0..Len(ledger) /\ DOMAIN ledger = 1..HeadSeq
      BY <1>0 DEF IsRun, HeadSeq
    <3>3. X \in SUBSET (1..HeadSeq)
      BY <1>0, <3>1, <3>2, HistoryAt DEF HeadSeq
    <3> QED
      BY <1>0, <2>0, <3>2, <3>3
  <2>8. intents = OthersOn(ledger, X) \cup ToolsOn(ledger, X)
    <3>1. IsHistory(ledger, History)
      BY <1>0, HistoryIsHistory
    <3>2. HeadSeq \in 0..Len(ledger) /\ HeadSeq = Len(ledger)
      BY <1>0 DEF HeadSeq
    <3> QED
      BY <1>0, <3>1, <3>2, ReportsOn DEF intents
  <2>9. Y = X \cup {n}
    <3>1. IsHistory(ledger', History')
      <4>1. (IsRun(ledger) /\ Backward(ledger) => IsHistory(ledger, History))'
        BY HistoryIsHistory, PTL
      <4> QED
        BY <2>2, <4>1
    <3>2. n \in DOMAIN ledger' /\ ledger'[n].role # "restore" /\ n - 1 = HeadSeq
      <4>1. ledger \in Seq(Events)
        BY <1>0 DEF IsRun
      <4> QED
        BY <2>0, <2>1, <4>1 DEF HeadSeq
    <3>3. History'[n] = History'[n - 1] \cup {n}
      BY <2>2, <3>1, <3>2, HistoryAt
    <3>4. HeadSeq \in 0..HeadSeq
      BY <1>0
    <3> QED
      BY <2>2, <3>2, <3>3, <3>4
  <2>10. ToolsOn(ledger', Y) = ToolsOn(ledger, X)
    <3>1. X \subseteq Y /\ Y \in SUBSET (X \cup {Len(ledger) + 1})
      BY <2>0, <2>9 DEF HeadSeq
    <3>2. e.role \notin {"request", "acknowledgement", "failure"}
      BY <2>1
    <3>3. Len(ledger) + 1 = n
      BY <2>0 DEF HeadSeq
    <3> HIDE DEF X, Y
    <3> QED
      BY <1>0, <2>0, <2>1, <2>7, <3>1, <3>2, <3>3, ToolsOnStays
  <2>11. RecordedTools(n)' = ToolsOn(ledger, X)
    <3>1. RecordedTools(n)' = {i \in intents : i.kind = "tool" /\ i.requested_seq \in Y}
      BY <2>5, Zenon DEF RecordedTools
    <3>2. \A i \in OthersOn(ledger, X) : ~(i.kind = "tool" /\ i.requested_seq \in Y)
      <4>1. RequestsIn(ledger) \subseteq DOMAIN ledger
        BY DEF RequestsIn
      <4>2. n \notin DOMAIN ledger
        BY <1>0, <2>0, <2>7
      <4> HIDE DEF X, Y
      <4> QED
        BY <2>9, <4>1, <4>2, IntentFields DEF OthersOn
    <3>3. \A i \in ToolsOn(ledger, X) : i.kind = "tool" /\ i.requested_seq \in Y
      <4> HIDE DEF X, Y
      <4> QED
        BY <2>9, IntentFields DEF ToolsOn
    <3> HIDE DEF X, Y
    <3> QED
      BY <2>8, <3>1, <3>2, <3>3
  <2>12. \A c \in Checkpoints' : RecordedTools(c)' = ToolsOn(ledger', History'[c])
    BY <2>3, <2>6, <2>10, <2>11
  <2>13. \A c \in Checkpoints' : c \in 1..HeadSeq'
    BY <1>0, <2>0, <2>2, <2>3
  <2>14. EffectRoles(ledger')
    BY <1>0, <2>1, RolesGrow
  <2> QED
    BY <1>0, <2>1, <2>2, <2>12, <2>13, <2>14 DEF HistInv
<1>5. CASE UNCHANGED vars
  <2>1. ledger' = ledger /\ recorded' = recorded /\ alphabet' = alphabet
    BY <1>5 DEF vars
  <2>2. Checkpoints' = Checkpoints /\ HeadSeq' = HeadSeq /\ History' = History
    BY <2>1 DEF Checkpoints, HeadSeq, History
  <2>3. \A c \in Checkpoints : RecordedTools(c)' = RecordedTools(c)
    BY <2>1, <2>2 DEF RecordedTools
  <2> QED
    BY <1>0, <2>1, <2>2, <2>3 DEF HistInv
<1> QED
  BY <1>2, <1>3, <1>4, <1>5 DEF Next

\* What each checkpoint recorded stays true of its history.
THEOREM Inductive == Spec => []HistInv
BY HistInvInit, HistInvNext, PTL DEF Spec

LEMMA DerivationIsCorrect == HistInv => DerivationCorrect
<1> SUFFICES ASSUME HistInv PROVE DerivationCorrect
  OBVIOUS
<1> DEFINE D == DOMAIN ledger
           I == DerivePendingIntent(ledger, D)
<1>1. IsRun(ledger) /\ D = 1..Len(ledger) /\ Len(ledger) \in Nat
  BY DEF HistInv, IsRun
<1>2. I = {IntentIn(ledger, r, D) : r \in Requests}
  <2>1. I = IntentsIn(ledger, D)
    BY <1>1, DerivationMeans
  <2>2. RequestsIn(ledger) \cap D = Requests
    BY DEF RequestsIn, Requests
  <2> QED
    BY <2>1, <2>2 DEF IntentsIn
<1> HIDE DEF I
<1>3. {intent.requested_seq : intent \in I} = Requests
  BY <1>2, IntentFields
<1>4. Cardinality(I) = Cardinality(Requests)
  <2> DEFINE f == [r \in Requests |-> IntentIn(ledger, r, D)]
  <2>1. \A r, q \in Requests : IntentIn(ledger, r, D) = IntentIn(ledger, q, D) => r = q
    BY IntentFields
  <2>2. f \in [Requests -> I] /\ (\A r, q \in Requests : f[r] = f[q] => r = q)
        /\ (\A i \in I : \E r \in Requests : f[r] = i)
    BY <1>2, <2>1
  <2> HIDE DEF f
  <2>3. f \in Bijection(Requests, I)
    BY <2>2, Zenon DEF Bijection, Injection, Surjection, IsInjective
  <2>4. ExistsBijection(Requests, I)
    BY <2>3 DEF ExistsBijection
  <2>5. IsFiniteSet(Requests)
    <3>1. IsFiniteSet(D) /\ Requests \subseteq D
      BY <1>1, FS_Interval DEF Requests
    <3> HIDE DEF D
    <3> QED
      BY <3>1, FS_Subset
  <2> QED
    BY <2>4, <2>5, FS_Bijection
<1>5. \A intent \in I : intent.status = StatusOf(intent.requested_seq, D)
  <2>1. \A r \in Requests : StatusIn(ledger, r, D) = StatusOf(r, D)
    BY DEF StatusIn, StatusOf, AnswersIn, AnswersTo, Requests
  <2> QED
    BY <1>2, <2>1, IntentFields
<1> QED
  BY <1>3, <1>4, <1>5 DEF DerivationCorrect, I

LEMMA ReportsAreHistory == HistInv => ResumesReportHistory
<1> SUFFICES ASSUME HistInv PROVE ResumesReportHistory
  OBVIOUS
<1>1. /\ IsRun(ledger) /\ Backward(ledger)
      /\ \A c \in Checkpoints : RecordedTools(c) = ToolsOn(ledger, History[c])
      /\ DOMAIN ledger = 1..HeadSeq
  BY DEF HistInv, IsRun, HeadSeq
<1>2. \A c \in Checkpoints : c \in 0..HeadSeq
  BY DEF HistInv, HeadSeq, IsRun
<1>3. IsHistory(ledger, History)
  BY <1>1, HistoryIsHistory
<1>4. ASSUME NEW c \in Checkpoints
      PROVE  /\ ResumeReports(c) = OthersOn(ledger, History[c]) \cup ToolsOn(ledger, History[c])
             /\ History[c] \in SUBSET (DOMAIN ledger)
  <2>1. c \in 0..Len(ledger) /\ HeadSeq = Len(ledger) /\ Len(ledger) \in Nat
    BY <1>1, <1>2 DEF HeadSeq, IsRun
  <2>2. History[c] \in SUBSET (1..c)
    BY <1>1, <1>3, <2>1, HistoryAt
  <2>3. 1..c \subseteq DOMAIN ledger
    BY <1>1, <2>1
  <2> QED
    BY <1>1, <1>3, <2>1, <2>2, <2>3, ReportsOn DEF ResumeReports
<1>5. \A r, X : /\ StatusIn(ledger, r, X) = StatusOf(r, X)
                /\ \A role : AnswersIn(ledger, r, role, X) = AnswersTo(r, role, X)
  BY DEF StatusIn, StatusOf, AnswersIn, AnswersTo, Requests
<1>6. Requests = RequestsIn(ledger)
  BY DEF Requests, RequestsIn
<1>7. ToolStatusOnHistory
  <2> SUFFICES ASSUME NEW c \in Checkpoints, NEW intent \in ResumeReports(c),
                      intent.kind = "tool", intent.requested_seq \in History[c]
               PROVE  LET r == intent.requested_seq
                      IN /\ intent.status = "completed" => StatusOf(r, History[c]) = "completed"
                         /\ ~Reused(r, History[c]) => intent.status = StatusOf(r, History[c])
    BY DEF ToolStatusOnHistory
  <2> DEFINE X == History[c]
             r == intent.requested_seq
             K == Kept(ledger, X)
  <2>1. intent \notin OthersOn(ledger, X)
    BY IntentFields DEF OthersOn
  <2>2. intent \in ToolsOn(ledger, X) /\ X \in SUBSET (DOMAIN ledger)
    BY <1>4, <2>1
  <2>3. r \in RequestsIn(ledger) /\ ledger[r].kind = "tool" /\ intent.status = StatusIn(ledger, r, K)
    BY <2>2, IntentFields DEF ToolsOn
  <2> HIDE DEF X, r, K
  <2>4. \A role \in {"acknowledgement", "failure"} : AnswersIn(ledger, r, role, K) \subseteq AnswersTo(r, role, X)
    BY <1>5, <2>2, <2>3, KeptAnswers DEF K
  <2>5. ASSUME intent.status = "completed" PROVE StatusOf(r, X) = "completed"
    <3>1. AnswersIn(ledger, r, "acknowledgement", K) # {}
      BY <2>3, <2>5 DEF StatusIn
    <3>2. AnswersTo(r, "acknowledgement", X) # {}
      BY <2>4, <3>1
    <3> QED
      BY <3>2 DEF StatusOf
  <2>6. ASSUME ~Reused(r, X) PROVE intent.status = StatusOf(r, X)
    <3>1. \A other \in RequestsIn(ledger) \ X :
            ledger[other].kind = ledger[r].kind => IntentId(ledger[other]) # IntentId(ledger[r])
      BY <1>6, <2>6 DEF Reused
    <3>2. \A role \in {"acknowledgement", "failure"} : AnswersIn(ledger, r, role, K) = AnswersIn(ledger, r, role, X)
      BY <2>2, <2>3, <3>1, KeptAnswers DEF K
    <3>3. StatusIn(ledger, r, K) = StatusIn(ledger, r, X)
      BY <3>2 DEF StatusIn
    <3> QED
      BY <1>5, <2>3, <3>3
  <2> QED
    BY <2>5, <2>6 DEF X, r
<1>8. ResumeAgreesWithCheckpoint
  <2> SUFFICES ASSUME NEW c \in Checkpoints
               PROVE  {intent \in ResumeReports(c) : intent.kind = "tool" /\ intent.requested_seq \in History[c]}
                        = RecordedTools(c)
    BY DEF ResumeAgreesWithCheckpoint, RecordedTools
  <2> DEFINE X == History[c]
  <2>1. \A i \in OthersOn(ledger, X) : ~(i.kind = "tool" /\ i.requested_seq \in X)
    BY IntentFields DEF OthersOn
  <2>2. \A i \in ToolsOn(ledger, X) : i.kind = "tool" /\ i.requested_seq \in X
    BY IntentFields DEF ToolsOn
  <2>3. ResumeReports(c) = OthersOn(ledger, X) \cup ToolsOn(ledger, X) /\ RecordedTools(c) = ToolsOn(ledger, X)
    BY <1>1, <1>4
  <2> HIDE DEF X
  <2> QED
    BY <2>1, <2>2, <2>3 DEF X
<1>9. NothingForgotten
  <2> SUFFICES ASSUME NEW c \in Checkpoints, NEW r \in Requests,
                      ~(/\ ledger[r].kind = "tool" /\ r \notin History[c]
                        /\ StatusOf(r, DOMAIN ledger) # "in_progress")
               PROVE  \E intent \in ResumeReports(c) : intent.requested_seq = r
    BY DEF NothingForgotten
  <2> DEFINE X == History[c]
  <2>1. StatusIn(ledger, r, DOMAIN ledger) = StatusOf(r, DOMAIN ledger)
    BY <1>5
  <2>2. ResumeReports(c) = OthersOn(ledger, X) \cup ToolsOn(ledger, X)
    BY <1>4
  <2>3. CASE ledger[r].kind = "tool" /\ r \in X
    <3>1. IntentIn(ledger, r, Kept(ledger, X)) \in ToolsOn(ledger, X)
      BY <1>6, <2>3 DEF ToolsOn
    <3> HIDE DEF X
    <3> QED
      BY <2>2, <3>1, IntentFields
  <2>4. CASE ~(ledger[r].kind = "tool" /\ r \in X)
    <3>1. IntentIn(ledger, r, DOMAIN ledger) \in OthersOn(ledger, X)
      BY <1>6, <2>1, <2>4 DEF OthersOn
    <3> HIDE DEF X
    <3> QED
      BY <2>2, <3>1, IntentFields
  <2> QED
    BY <2>3, <2>4
<1> QED
  BY <1>7, <1>8, <1>9 DEF ResumesReportHistory

\* Warnings: the premises of the property make the ledger a paired one.
LEMMA WarningsArePairs == HistInv => WarningsAgreeWithIntents
<1> SUFFICES ASSUME HistInv, WellPaired, \A seq \in DOMAIN ledger : ledger[seq].id = ledger[seq].payload,
                    NEW c \in Checkpoints
             PROVE  RollbackWarns(c) =
                      {[request |-> intent.requested_seq, commit |-> intent.resolved_seq] :
                         intent \in {i \in DerivePendingIntent(ledger, DOMAIN ledger) :
                                       i.kind = "side_effect" /\ (i.requested_seq > c \/ i.resolved_seq > c)}}
  BY DEF WarningsAgreeWithIntents
<1>1. IsRun(ledger) /\ EffectRoles(ledger)
  BY DEF HistInv
<1>2. IsPaired(ledger)
  <2>1. \A a \in DOMAIN ledger : ledger[a].kind = "side_effect" /\ ledger[a].role = "acknowledgement" =>
          /\ ledger[a].payload # None
          /\ \E b \in 1..(a - 1) :
               /\ ledger[b].kind = "side_effect" /\ ledger[b].payload = ledger[a].payload /\ ledger[b].role = "request"
               /\ \A other \in 1..(a - 1) :
                    ledger[other].kind = "side_effect" /\ ledger[other].payload = ledger[a].payload => other <= b
    BY DEF WellPaired
  <2> QED
    BY <1>1, <2>1 DEF IsPaired, EffectRoles
<1> QED
  BY <1>1, <1>2, WarningsMeans DEF RollbackWarns, HeadSeq

\* derivePendingIntent reports every request of the ledger once, with the
\* outcome that its own acknowledgements and failures give it.
THEOREM DerivesCorrectly == Spec => []DerivationCorrect
BY Inductive, DerivationIsCorrect, PTL

\* resume() to any checkpoint, through any nesting of restores, reports of the
\* tool requests it takes back what their history shows, agrees with what the
\* checkpoint recorded, and forgets no request.
THEOREM ResumesReport == Spec => []ResumesReportHistory
BY Inductive, ReportsAreHistory, PTL

\* On a well paired ledger rollback() pairs requests with commits as the pending
\* intents do.
THEOREM WarningsAgree == Spec => []WarningsAgreeWithIntents
BY Inductive, WarningsArePairs, PTL
-----------------------------------------------------------------------------
(* Widths of sets of events *)

\* The sizes of the parts of a finite set.
LEMMA Parts ==
  ASSUME NEW T, IsFiniteSet(T)
  PROVE  /\ Cardinality(T) \in Nat
         /\ \A s \in SUBSET T : /\ Cardinality(s) \in 0..Cardinality(T)
                                /\ s = {} <=> Cardinality(s) = 0
                                /\ \A x \in s : s \ {x} \in SUBSET T /\ Cardinality(s \ {x}) = Cardinality(s) - 1
<1>1. Cardinality(T) \in Nat /\ \A s \in SUBSET T : IsFiniteSet(s) /\ Cardinality(s) \in 0..Cardinality(T)
  BY FS_Subset, FS_CardinalityType
<1>2. \A s \in SUBSET T : s = {} <=> Cardinality(s) = 0
  BY <1>1, FS_EmptySet
<1>3. \A s \in SUBSET T : \A x \in s : s \ {x} \in SUBSET T /\ Cardinality(s \ {x}) = Cardinality(s) - 1
  BY <1>1, FS_RemoveElement
<1> QED
  BY <1>1, <1>2, <1>3

\* A sum over the subsets of T: any element may be taken first.
SumsBy(g, T, w) ==
  /\ g[{}] = 0
  /\ \A s \in SUBSET T : \A x \in s : g[s] = w[x] + g[s \ {x}]

\* The sum that takes the elements as they are picked.
PicksBy(g, T, w) ==
  \A s \in SUBSET T : g[s] = IF s = {} THEN 0
                             ELSE w[CHOOSE x \in s : TRUE] + g[s \ {CHOOSE x \in s : TRUE}]

LEMMA PicksAny ==
  ASSUME NEW T, IsFiniteSet(T), NEW w \in [T -> Nat], NEW g, PicksBy(g, T, w)
  PROVE  SumsBy(g, T, w) /\ \A s \in SUBSET T : g[s] \in Nat
<1> DEFINE N == Cardinality(T)
           Small(n) == {s \in SUBSET T : Cardinality(s) <= n}
           Fine(s) == g[s] \in Nat /\ \A x \in s : g[s] = w[x] + g[s \ {x}]
           good == {n \in Nat : \A s \in Small(n) : Fine(s)}
<1>1. N \in Nat /\ \A s \in SUBSET T : Cardinality(s) \in 0..N
  BY Parts
<1>2. \A s \in SUBSET T : s = {} <=> Cardinality(s) = 0
  BY Parts
<1>3. \A s \in SUBSET T : \A x \in s : /\ s \ {x} \in SUBSET T
                                       /\ Cardinality(s \ {x}) = Cardinality(s) - 1
  BY Parts
<1>4. {} \in SUBSET T /\ g[{}] = 0
  BY DEF PicksBy
<1>5. 0 \in good
  <2>1. \A s \in Small(0) : s = {}
    BY <1>1, <1>2
  <2>2. \A s \in Small(0) : Fine(s)
    BY <1>4, <2>1
  <2> QED
    BY <2>2
<1>6. ASSUME NEW n \in 0..(N - 1), n \in good PROVE n + 1 \in good
  <2> SUFFICES ASSUME NEW s \in Small(n + 1) PROVE Fine(s)
    OBVIOUS
  <2>1. \A u \in Small(n) : g[u] \in Nat /\ \A x \in u : g[u] = w[x] + g[u \ {x}]
    BY <1>6
  <2>2. CASE s = {}
    BY <1>4, <2>2
  <2>3. CASE s # {}
    <3>1. PICK y : y = CHOOSE x \in s : TRUE
      OBVIOUS
    <3>2. y \in s
      BY <2>3, <3>1
    <3>3. g[s] = w[y] + g[s \ {y}]
      BY <2>3, <3>1 DEF PicksBy
    <3>4. \A x \in s : s \ {x} \in Small(n) /\ w[x] \in Nat
      BY <1>1, <1>3
    <3>5. g[s] \in Nat
      BY <2>1, <3>2, <3>3, <3>4
    <3>6. ASSUME NEW x \in s, x # y PROVE g[s] = w[x] + g[s \ {x}]
      <4>1. x \in s \ {y} /\ y \in s \ {x} /\ (s \ {y}) \ {x} = (s \ {x}) \ {y}
        BY <3>2, <3>6
      <4>2. PICK u : u = (s \ {y}) \ {x}
        OBVIOUS
      <4>3. g[s \ {y}] = w[x] + g[u] /\ g[s \ {x}] = w[y] + g[u]
        <5>1. s \ {y} \in Small(n) /\ s \ {x} \in Small(n)
          BY <3>2, <3>4
        <5> HIDE DEF Small
        <5>2. g[s \ {y}] = w[x] + g[(s \ {y}) \ {x}] /\ g[s \ {x}] = w[y] + g[(s \ {x}) \ {y}]
          BY <2>1, <4>1, <5>1
        <5> QED
          BY <4>1, <4>2, <5>2
      <4>4. u \in Small(n)
        <5>1. s \ {y} \in SUBSET T /\ Cardinality(s \ {y}) <= n /\ Cardinality(s \ {y}) \in Nat
          BY <1>1, <3>2, <3>4
        <5>2. u \in SUBSET T /\ Cardinality(u) = Cardinality(s \ {y}) - 1
          BY <1>3, <4>1, <4>2, <5>1
        <5> QED
          BY <5>1, <5>2
      <4>5. g[u] \in Nat /\ w[x] \in Nat /\ w[y] \in Nat
        BY <2>1, <3>2, <3>4, <4>4
      <4> QED
        BY <3>3, <4>3, <4>5
    <3> QED
      BY <3>3, <3>5, <3>6
  <2> QED
    BY <2>2, <2>3
<1>7. N \in good
  <2> HIDE DEF good, N
  <2>1. \A n \in 0..N : n \in good
    BY <1>1, <1>5, <1>6, UpTo
  <2> QED
    BY <1>1, <2>1
<1>8. \A s \in SUBSET T : s \in Small(N)
  BY <1>1
<1>9. \A s \in SUBSET T : Fine(s)
  <2> HIDE DEF Small, Fine, N
  <2> QED
    BY <1>7, <1>8
<1> QED
  BY <1>4, <1>9 DEF SumsBy

\* The width of no event, of one more, and of more.
LEMMA Widths ==
  ASSUME NEW N \in Nat, \A i \in 1..N : EventChars(ledger[i]) \in Nat
  PROVE  /\ Width({}) = 0
         /\ \A s \in SUBSET (1..N) : Width(s) \in Nat
         /\ \A s \in SUBSET (1..N) : \A x \in s : Width(s) = Width(s \ {x}) + EventChars(ledger[x]) + 1
         /\ \A s, u \in SUBSET (1..N) : s \subseteq u => Width(s) <= Width(u)
<1> DEFINE T == 1..N
           w == [i \in T |-> EventChars(ledger[i]) + 1]
           IsIter(g, U) == g = [s \in SUBSET U |->
                               IF s = {} THEN 0
                               ELSE (EventChars(ledger[CHOOSE x \in s : TRUE]) + 1)
                                      + g[s \ {CHOOSE x \in s : TRUE}]]
<1>1. IsFiniteSet(T) /\ w \in [T -> Nat]
  BY FS_Interval
<1>2. \A s \in SUBSET T : s # {} => (CHOOSE x \in s : TRUE) \in s
  OBVIOUS
<1>3. PICK f \in [SUBSET T -> Nat] : PicksBy(f, T, w)
  <2> DEFINE pick == [s \in SUBSET T |-> CHOOSE x \in s : TRUE]
             step == [x \in T |-> [n \in Nat |-> w[x] + n]]
  <2>1. \A s \in SUBSET T : s # {} => pick[s] \in s
    BY <1>2
  <2>2. step \in [T -> [Nat -> Nat]]
    BY <1>1
  <2>3. \A x \in T : \A n \in Nat : step[x][n] = w[x] + n
    OBVIOUS
  <2>4. \A s \in SUBSET T : pick[s] = CHOOSE x \in s : TRUE
    OBVIOUS
  <2> HIDE DEF T, w, pick, step
  <2>5. PICK f \in [SUBSET T -> Nat] : FoldsBy(f, T, pick, 0, step)
    BY <1>1, <2>1, <2>2, FoldExists
  <2>6. PicksBy(f, T, w)
    <3> SUFFICES ASSUME NEW s \in SUBSET T
                 PROVE  f[s] = IF s = {} THEN 0 ELSE w[CHOOSE x \in s : TRUE] + f[s \ {CHOOSE x \in s : TRUE}]
      BY DEF PicksBy
    <3>1. f[s] = IF s = {} THEN 0 ELSE step[pick[s]][f[s \ {pick[s]}]]
      BY <2>5 DEF FoldsBy
    <3>2. s # {} => pick[s] \in T /\ f[s \ {pick[s]}] \in Nat
      BY <2>1
    <3>3. s # {} => step[pick[s]][f[s \ {pick[s]}]] = w[pick[s]] + f[s \ {pick[s]}]
      BY <2>3, <3>2
    <3> QED
      BY <2>4, <3>1, <3>3
  <2> QED
    BY <2>6
<1>4. SumsBy(f, T, w)
  <2> HIDE DEF T, w
  <2> QED
    BY <1>1, <1>3, PicksAny
<1>5. ASSUME NEW U \in SUBSET T PROVE Width(U) = f[U]
  <2>1. Width(U) = (CHOOSE g : IsIter(g, U))[U]
    BY Zenon DEF Width, MapThenSumSet, MapThenFoldSet
  <2>2. \E g : IsIter(g, U)
    <3> DEFINE g == [s \in SUBSET U |-> f[s]]
    <3>1. \A s \in SUBSET U : f[s] = IF s = {} THEN 0
                                     ELSE (EventChars(ledger[CHOOSE x \in s : TRUE]) + 1)
                                            + f[s \ {CHOOSE x \in s : TRUE}]
      <4> TAKE s \in SUBSET U
      <4>1. s \in SUBSET T
        OBVIOUS
      <4>2. f[s] = IF s = {} THEN 0 ELSE w[CHOOSE x \in s : TRUE] + f[s \ {CHOOSE x \in s : TRUE}]
        BY <1>3, <4>1 DEF PicksBy
      <4>3. s # {} => (CHOOSE x \in s : TRUE) \in T
        BY <1>2, <4>1
      <4>4. s # {} => w[CHOOSE x \in s : TRUE] = EventChars(ledger[CHOOSE x \in s : TRUE]) + 1
        BY <4>3
      <4> HIDE DEF w
      <4> QED
        BY <4>2, <4>4
    <3>2. \A s \in SUBSET U : s # {} => g[s \ {CHOOSE x \in s : TRUE}] = f[s \ {CHOOSE x \in s : TRUE}]
      OBVIOUS
    <3>3. \A s \in SUBSET U : f[s] = IF s = {} THEN 0
                                     ELSE (EventChars(ledger[CHOOSE x \in s : TRUE]) + 1)
                                            + g[s \ {CHOOSE x \in s : TRUE}]
      BY <3>1, <3>2
    <3>4. \A s \in SUBSET U : g[s] = f[s]
      OBVIOUS
    <3>5. g = [s \in SUBSET U |-> g[s]]
      OBVIOUS
    <3> HIDE DEF g
    <3>6. \A s \in SUBSET U : g[s] = IF s = {} THEN 0
                                     ELSE (EventChars(ledger[CHOOSE x \in s : TRUE]) + 1)
                                            + g[s \ {CHOOSE x \in s : TRUE}]
      BY <3>3, <3>4
    <3>7. IsIter(g, U)
      BY <3>5, <3>6, Zenon
    <3> QED
      BY <3>7
  <2>3. PICK G : G = CHOOSE g : IsIter(g, U)
    OBVIOUS
  <2>4. IsIter(G, U)
    BY <2>2, <2>3
  <2> DEFINE good == {n \in Nat : \A s \in SUBSET U : Cardinality(s) <= n => G[s] = f[s]}
             M == Cardinality(U)
  <2>5. /\ M \in Nat
        /\ \A s \in SUBSET U : /\ Cardinality(s) \in 0..M
                               /\ s = {} <=> Cardinality(s) = 0
                               /\ \A x \in s : s \ {x} \in SUBSET U /\ Cardinality(s \ {x}) = Cardinality(s) - 1
    <3>1. IsFiniteSet(U)
      BY <1>1, FS_Subset
    <3> QED
      BY <3>1, Parts, Zenon
  <2>6. \A s \in SUBSET U : s = {} => G[s] = 0 /\ f[s] = 0
    <3>1. f[{}] = 0
      BY <1>4 DEF SumsBy
    <3>2. \A s \in SUBSET U : s = {} => G[s] = 0
      BY <2>4
    <3> QED
      BY <3>1, <3>2
  <2>7. \A s \in SUBSET U : s # {} => \E x \in s : G[s] = w[x] + G[s \ {x}] /\ f[s] = w[x] + f[s \ {x}]
    <3> TAKE s \in SUBSET U
    <3> HAVE s # {}
    <3>1. PICK y : y = CHOOSE x \in s : TRUE
      OBVIOUS
    <3>2. y \in s /\ y \in T /\ s \in SUBSET T
      BY <1>2, <3>1
    <3>3. G[s] = (EventChars(ledger[y]) + 1) + G[s \ {y}]
      BY <2>4, <3>1
    <3>4. w[y] = EventChars(ledger[y]) + 1
      BY <3>2
    <3>5. f[s] = w[y] + f[s \ {y}]
      BY <1>4, <3>2 DEF SumsBy
    <3> HIDE DEF w
    <3> QED
      BY <3>2, <3>3, <3>4, <3>5
  <2>8. 0 \in good
    BY <2>5, <2>6
  <2>9. ASSUME NEW n \in 0..(M - 1), n \in good PROVE n + 1 \in good
    <3>0. n + 1 \in Nat
      OBVIOUS
    <3> SUFFICES ASSUME NEW s \in SUBSET U, Cardinality(s) <= n + 1 PROVE G[s] = f[s]
      BY <3>0
    <3>1. CASE s = {}
      BY <2>6, <3>1
    <3>2. CASE s # {}
      <4> HIDE DEF w, M
      <4>1. PICK x \in s : G[s] = w[x] + G[s \ {x}] /\ f[s] = w[x] + f[s \ {x}]
        BY <2>7, <3>2
      <4>2. s \ {x} \in SUBSET U /\ Cardinality(s \ {x}) <= n
        BY <2>5
      <4>3. G[s \ {x}] = f[s \ {x}]
        BY <2>9, <4>2
      <4> QED
        BY <4>1, <4>3
    <3> QED
      BY <3>1, <3>2
  <2>10. M \in good
    <3> HIDE DEF good, M
    <3>1. \A n \in 0..M : n \in good
      BY <2>5, <2>8, <2>9, UpTo
    <3> QED
      BY <2>5, <3>1
  <2>11. G[U] = f[U]
    BY <2>5, <2>10
  <2> QED
    BY <2>1, <2>3, <2>11
<1>6. Width({}) = 0 /\ \A s \in SUBSET T : Width(s) \in Nat
  BY <1>4, <1>5 DEF SumsBy
<1>7. \A s \in SUBSET T : \A x \in s : Width(s) = Width(s \ {x}) + EventChars(ledger[x]) + 1
  <2> TAKE s \in SUBSET T
  <2> TAKE x \in s
  <2>1. x \in T /\ s \ {x} \in SUBSET T
    OBVIOUS
  <2>2. f[s] = w[x] + f[s \ {x}] /\ w[x] = EventChars(ledger[x]) + 1 /\ EventChars(ledger[x]) \in Nat
    BY <1>4, <2>1 DEF SumsBy
  <2>3. f[s \ {x}] \in Nat
    BY <2>1
  <2> HIDE DEF w, T
  <2> QED
    BY <1>5, <2>1, <2>2, <2>3
<1> DEFINE K == Cardinality(T)
           better == {n \in Nat : \A s, u \in SUBSET T :
                        s \subseteq u /\ Cardinality(u) <= n => Width(s) <= Width(u)}
<1>8. /\ K \in Nat
      /\ \A s \in SUBSET T : /\ Cardinality(s) \in 0..K
                             /\ s = {} <=> Cardinality(s) = 0
                             /\ \A x \in s : s \ {x} \in SUBSET T /\ Cardinality(s \ {x}) = Cardinality(s) - 1
  BY <1>1, Parts, Zenon
<1>9. 0 \in better
  <2> SUFFICES ASSUME NEW s \in SUBSET T, NEW u \in SUBSET T, s \subseteq u, Cardinality(u) <= 0
               PROVE  Width(s) <= Width(u)
    OBVIOUS
  <2>1. u = {} /\ s = {}
    BY <1>8
  <2> QED
    BY <1>6, <2>1
<1>10. ASSUME NEW n \in 0..(K - 1), n \in better PROVE n + 1 \in better
  <2> SUFFICES ASSUME NEW s \in SUBSET T, NEW u \in SUBSET T, s \subseteq u, Cardinality(u) <= n + 1
               PROVE  Width(s) <= Width(u)
    OBVIOUS
  <2>1. Width(s) \in Nat /\ Width(u) \in Nat
    BY <1>6
  <2>2. CASE s = u
    BY <2>1, <2>2
  <2>3. CASE s # u
    <3>1. PICK x \in u : x \notin s
      BY <2>3
    <3>2. x \in T /\ u \ {x} \in SUBSET T /\ s \subseteq u \ {x} /\ Cardinality(u \ {x}) <= n
      <4> HIDE DEF T, K
      <4> QED
        BY <1>8, <3>1
    <3>3. Width(s) <= Width(u \ {x}) /\ Width(u \ {x}) \in Nat /\ EventChars(ledger[x]) \in Nat
      BY <1>6, <1>10, <3>2
    <3>4. Width(u) = Width(u \ {x}) + EventChars(ledger[x]) + 1
      BY <1>7, <3>1
    <3> QED
      BY <2>1, <3>3, <3>4
  <2> QED
    BY <2>2, <2>3
<1>11. K \in better
  <2> HIDE DEF better, K
  <2>1. \A n \in 0..K : n \in better
    BY <1>8, <1>9, <1>10, UpTo
  <2> QED
    BY <1>8, <2>1
<1>12. \A s, u \in SUBSET T : s \subseteq u => Width(s) <= Width(u)
  BY <1>8, <1>11
<1> QED
  BY <1>6, <1>7, <1>12

-----------------------------------------------------------------------------
(* The steps of the paged walk *)

\* The walk back over these marks from a cursor, as the builder asks for it.
BackFrom(M, c) == FoldRight(WalkBack, M, [position |-> c, windows |-> IF c < c THEN {<<c, c>>} ELSE {}])

LEMMA BackSteps ==
  ASSUME NEW M, M \in Seq(Marks), NEW c \in Nat
  PROVE  /\ BackFrom(M, c) \in Walks
         /\ AbandonedWindows(M, c, c) = BackFrom(M, c).windows
         /\ BackFrom(<<>>, c) = [position |-> c, windows |-> {}]
         /\ \A mark \in Marks : /\ <<mark>> \o M \in Seq(Marks)
                                /\ BackFrom(<<mark>> \o M, c) = WalkBack(mark, BackFrom(M, c))
<1> DEFINE base == [position |-> c, windows |-> IF c < c THEN {<<c, c>>} ELSE {}]
           m == Len(M)
<1>1. base = [position |-> c, windows |-> {}]
  <2>1. ~(c < c)
    OBVIOUS
  <2> QED
    BY <2>1, Zenon
<1>2. base \in Walks
  BY <1>1 DEF Walks
<1>3. AbandonedWindows(M, c, c) = BackFrom(M, c).windows
  BY DEF AbandonedWindows, BackFrom
<1> HIDE DEF base
<1>4. PICK h : WalkedBy(M, base, h)
  BY <1>2, WalkSteps
<1>5. h[1] = BackFrom(M, c)
  BY <1>4 DEF WalkedBy, BackFrom, base
<1>6. m \in Nat /\ \A k \in 1..m : M[k] \in Marks
  OBVIOUS
<1>7. h[1] \in Walks
  <2> DEFINE good == {n \in 0..m : h[(m + 1) - n] \in Walks}
  <2>1. 0 \in good
    <3>1. (m + 1) - 0 = m + 1 /\ 0 \in 0..m
      BY <1>6
    <3> QED
      BY <1>2, <1>4, <3>1 DEF WalkedBy
  <2>2. ASSUME NEW n \in 0..(m - 1), n \in good PROVE n + 1 \in good
    <3>1. PICK k : k = (m + 1) - (n + 1)
      OBVIOUS
    <3>2. k \in 1..m /\ k + 1 = (m + 1) - n /\ n + 1 \in 0..m
      BY <1>6, <3>1
    <3>3. h[k] = WalkBack(M[k], h[k + 1]) /\ h[k + 1] \in Walks
      BY <1>4, <2>2, <3>2 DEF WalkedBy
    <3>4. h[k] \in Walks
      BY <1>6, <3>2, <3>3, WalkBackType
    <3> QED
      BY <3>1, <3>2, <3>4
  <2>3. m \in good
    <3> HIDE DEF good, m
    <3>1. \A n \in 0..m : n \in good
      BY <1>6, <2>1, <2>2, UpTo
    <3> QED
      BY <1>6, <3>1
  <2>4. (m + 1) - m = 1
    BY <1>6
  <2> QED
    BY <2>3, <2>4
<1>8. BackFrom(<<>>, c) = base
  <2>1. <<>> \in Seq(Marks) /\ Len(<<>>) + 1 = 1
    OBVIOUS
  <2>2. PICK g : WalkedBy(<<>>, base, g)
    BY <1>2, <2>1, WalkSteps
  <2>3. FoldRight(WalkBack, <<>>, base) = g[1] /\ g[1] = base
    BY <2>1, <2>2 DEF WalkedBy
  <2> QED
    BY <2>3 DEF BackFrom, base
<1>9. ASSUME NEW mark \in Marks
      PROVE  <<mark>> \o M \in Seq(Marks) /\ BackFrom(<<mark>> \o M, c) = WalkBack(mark, BackFrom(M, c))
  <2>1. PICK Q : Q = <<mark>> \o M
    OBVIOUS
  <2>2. Q \in Seq(Marks) /\ Len(Q) = m + 1 /\ Q[1] = mark /\ \A k \in 1..m : Q[k + 1] = M[k]
    BY <1>6, <2>1
  <2>3. PICK g : WalkedBy(Q, base, g)
    BY <1>2, <2>2, WalkSteps
  <2>4. /\ g[(m + 1) + 1] = base /\ FoldRight(WalkBack, Q, base) = g[1]
        /\ \A k \in 1..(m + 1) : g[k] = WalkBack(Q[k], g[k + 1])
    BY <2>2, <2>3 DEF WalkedBy
  <2> DEFINE good == {n \in 0..m : g[((m + 1) - n) + 1] = h[(m + 1) - n]}
  <2>5. 0 \in good
    <3>1. (m + 1) - 0 = m + 1 /\ 0 \in 0..m
      BY <1>6
    <3> QED
      BY <1>4, <2>4, <3>1 DEF WalkedBy
  <2>6. ASSUME NEW n \in 0..(m - 1), n \in good PROVE n + 1 \in good
    <3>1. PICK k : k = (m + 1) - (n + 1)
      OBVIOUS
    <3>2. k \in 1..m /\ k + 1 = (m + 1) - n /\ n + 1 \in 0..m /\ k + 1 \in 1..(m + 1)
      BY <1>6, <3>1
    <3>3. h[k] = WalkBack(M[k], h[k + 1]) /\ g[k + 1] = WalkBack(Q[k + 1], g[(k + 1) + 1])
      BY <1>4, <2>4, <3>2 DEF WalkedBy
    <3>4. g[(k + 1) + 1] = h[k + 1] /\ Q[k + 1] = M[k]
      BY <2>2, <2>6, <3>2
    <3>5. g[k + 1] = h[k]
      BY <3>3, <3>4
    <3> QED
      BY <3>1, <3>2, <3>5
  <2>7. m \in good
    <3> HIDE DEF good, m
    <3>1. \A n \in 0..m : n \in good
      BY <1>6, <2>5, <2>6, UpTo
    <3> QED
      BY <1>6, <3>1
  <2>8. (m + 1) - m = 1 /\ 1 + 1 = 2 /\ 1 \in 1..(m + 1)
    BY <1>6
  <2>9. g[2] = h[1]
    BY <2>7, <2>8
  <2>10. g[1] = WalkBack(mark, h[1])
    BY <2>2, <2>4, <2>8, <2>9
  <2> QED
    BY <1>5, <2>1, <2>2, <2>4, <2>10 DEF BackFrom, base
<1> QED
  BY <1>1, <1>3, <1>5, <1>7, <1>8, <1>9

\* What the walk over the ledger keeps.
Scans == [hi : Nat, cited : SUBSET Nat, lastFailure : Nat, delta : Seq(Nat), deltaChars : Nat,
          oversized : SUBSET Nat, done : BOOLEAN, marks : Seq(Marks), windows : SUBSET (Nat \X Nat)]

\* The events of a run have widths, and its restores go back.
Measured ==
  /\ IsRun(ledger) /\ Backward(ledger)
  /\ \A i \in 1..Len(ledger) : EventChars(ledger[i]) \in Nat

\* What is asked of a run.
IsQuery(query) == query.cursor \in 1..Len(ledger) /\ query.parent \in Nat /\ query.room \in Nat

\* The failure found when the event at seq has been met.
FailureNow(walk, seq) == IF walk.lastFailure = 0 /\ IsFailure(ledger[seq]) THEN seq ELSE walk.lastFailure

\* What an event of the lineage makes of a walk.
Met(walk, query, seq, to) ==
  /\ to \in Scans
  /\ to.hi = walk.hi /\ to.marks = walk.marks /\ to.windows = walk.windows
  /\ to.cited = walk.cited \cup ({seq} \cap query.cited)
  /\ to.lastFailure = FailureNow(walk, seq)
  /\ walk.done = TRUE \/ seq <= query.parent =>
       /\ to.delta = walk.delta /\ to.deltaChars = walk.deltaChars /\ to.oversized = walk.oversized
       /\ to.done = TRUE
  /\ walk.done = FALSE /\ seq > query.parent /\ EventChars(ledger[seq]) <= query.room =>
       /\ to.delta = Append(walk.delta, seq) /\ to.oversized = walk.oversized
       /\ to.deltaChars = walk.deltaChars + EventChars(ledger[seq]) + 1
       /\ IF walk.deltaChars + EventChars(ledger[seq]) + 1 > query.room THEN to.done = TRUE ELSE to.done = FALSE
  /\ walk.done = FALSE /\ seq > query.parent /\ EventChars(ledger[seq]) > query.room =>
       /\ to.delta = walk.delta /\ to.deltaChars = walk.deltaChars /\ to.done = FALSE
       /\ to.oversized = walk.oversized \cup {s \in {seq} : s \notin query.cited /\ s # FailureNow(walk, s)}

LEMMA CandidateMeets ==
  ASSUME Measured, NEW query, IsQuery(query), NEW seq \in 1..Len(ledger), NEW walk \in Scans
  PROVE  Met(walk, query, seq, Candidate(walk, query, seq))
<1> DEFINE found == [walk EXCEPT !.cited = @ \cup ({seq} \cap query.cited),
                                 !.lastFailure = IF @ = 0 /\ IsFailure(ledger[seq]) THEN seq ELSE @]
           to == Candidate(walk, query, seq)
<1>0. PICK chars \in Nat : chars = EventChars(ledger[seq])
  BY DEF Measured
<1>1. seq \in Nat /\ query.parent \in Nat /\ query.room \in Nat
  BY DEF IsQuery, Measured, IsRun
<1>2. /\ walk.hi \in Nat /\ walk.cited \in SUBSET Nat /\ walk.lastFailure \in Nat /\ walk.delta \in Seq(Nat)
      /\ walk.deltaChars \in Nat /\ walk.oversized \in SUBSET Nat /\ walk.marks \in Seq(Marks)
      /\ walk.windows \in SUBSET (Nat \X Nat)
  BY DEF Scans
<1>3. walk.done = TRUE \/ walk.done = FALSE
  BY DEF Scans
<1>4. PICK newest : newest = FailureNow(walk, seq)
  OBVIOUS
<1>5. newest \in Nat
  BY <1>1, <1>2, <1>4 DEF FailureNow
<1>6. /\ found \in Scans
      /\ found.hi = walk.hi /\ found.marks = walk.marks /\ found.windows = walk.windows
      /\ found.cited = walk.cited \cup ({seq} \cap query.cited)
      /\ found.lastFailure = newest
      /\ found.delta = walk.delta /\ found.deltaChars = walk.deltaChars /\ found.oversized = walk.oversized
      /\ found.done = walk.done
  <2>1. found = [walk EXCEPT !.cited = @ \cup ({seq} \cap query.cited), !.lastFailure = newest]
    BY <1>4 DEF FailureNow
  <2> HIDE DEF found
  <2>2. found \in Scans
    BY <1>1, <1>2, <1>5, <2>1 DEF Scans
  <2> QED
    BY <2>1, <2>2 DEF Scans
<1>7. to = IF walk.done THEN found
           ELSE IF seq <= query.parent THEN [found EXCEPT !.done = TRUE]
           ELSE IF chars <= query.room
           THEN [found EXCEPT !.delta = Append(@, seq), !.deltaChars = @ + chars + 1,
                              !.done = walk.deltaChars + chars + 1 > query.room]
           ELSE IF seq \notin query.cited /\ seq # found.lastFailure
           THEN [found EXCEPT !.oversized = @ \cup {seq}]
           ELSE found
  BY <1>0 DEF Candidate
<1>8. {s \in {seq} : s \notin query.cited /\ s # FailureNow(walk, s)} = IF seq \notin query.cited /\ seq # newest
                                                                        THEN {seq} ELSE {}
  BY <1>4
<1> HIDE DEF found, to
<1>9. CASE walk.done = TRUE
  <2>1. to = found
    BY <1>7, <1>9
  <2> QED
    BY <1>4, <1>6, <1>9, <2>1 DEF Met, to
<1>10. CASE walk.done = FALSE /\ seq <= query.parent
  <2>1. to = [found EXCEPT !.done = TRUE]
    BY <1>7, <1>10
  <2>2. to \in Scans /\ to.done = TRUE
    BY <1>6, <2>1 DEF Scans
  <2>3. /\ to.hi = walk.hi /\ to.marks = walk.marks /\ to.windows = walk.windows
        /\ to.cited = walk.cited \cup ({seq} \cap query.cited) /\ to.lastFailure = newest
        /\ to.delta = walk.delta /\ to.deltaChars = walk.deltaChars /\ to.oversized = walk.oversized
    BY <1>6, <2>1 DEF Scans
  <2>4. ~(seq > query.parent)
    BY <1>1, <1>10
  <2> QED
    BY <1>4, <2>2, <2>3, <2>4 DEF Met, to
<1>11. CASE walk.done = FALSE /\ seq > query.parent /\ chars <= query.room
  <2>1. \E full \in BOOLEAN : full = (walk.deltaChars + chars + 1 > query.room)
    <3>1. PICK sum \in Nat : sum = walk.deltaChars + chars + 1
      BY <1>2
    <3>2. PICK room \in Nat : room = query.room
      BY <1>1
    <3>3. (sum > room) \in BOOLEAN
      OBVIOUS
    <3> QED
      BY <3>1, <3>2, <3>3, Zenon
  <2>1a. PICK full \in BOOLEAN : full = (walk.deltaChars + chars + 1 > query.room)
    BY <2>1, Zenon
  <2>2. ~(seq <= query.parent)
    BY <1>1, <1>11
  <2>3. to = [found EXCEPT !.delta = Append(@, seq), !.deltaChars = @ + chars + 1, !.done = full]
    BY <1>7, <1>11, <2>1a, <2>2, Zenon
  <2>4. Append(walk.delta, seq) \in Seq(Nat) /\ walk.deltaChars + chars + 1 \in Nat
    BY <1>1, <1>2
  <2>5. to \in Scans /\ to.done = full
    BY <1>6, <2>3, <2>4 DEF Scans
  <2>6. /\ to.hi = walk.hi /\ to.marks = walk.marks /\ to.windows = walk.windows
        /\ to.cited = walk.cited \cup ({seq} \cap query.cited) /\ to.lastFailure = newest
        /\ to.delta = Append(walk.delta, seq) /\ to.deltaChars = walk.deltaChars + chars + 1
        /\ to.oversized = walk.oversized
    BY <1>6, <2>3 DEF Scans
  <2>7. IF walk.deltaChars + chars + 1 > query.room THEN to.done = TRUE ELSE to.done = FALSE
    <3>1. CASE walk.deltaChars + chars + 1 > query.room
      <4>1. full = TRUE
        BY <2>1a, <3>1
      <4> QED
        BY <2>5, <3>1, <4>1
    <3>2. CASE ~(walk.deltaChars + chars + 1 > query.room)
      <4>1. full = FALSE
        BY <2>1a, <3>2
      <4> QED
        BY <2>5, <3>2, <4>1
    <3> QED
      BY <3>1, <3>2
  <2>8. walk.done # TRUE
    BY <1>11
  <2>9. to \in Scans
    BY <2>5
  <2>10. ~(chars > query.room)
    BY <1>0, <1>1, <1>11
  <2> QED
    BY <1>0, <1>4, <2>2, <2>6, <2>7, <2>8, <2>9, <2>10 DEF Met, to
<1>12. CASE walk.done = FALSE /\ seq > query.parent /\ chars > query.room
  <2>1. ~(seq <= query.parent) /\ ~(chars <= query.room)
    BY <1>0, <1>1, <1>12
  <2>2. PICK late : late = {s \in {seq} : s \notin query.cited /\ s # FailureNow(walk, s)}
    OBVIOUS
  <2>3. to = [found EXCEPT !.oversized = @ \cup late]
    <3>1. CASE seq \notin query.cited /\ seq # newest
      <4>1. late = {seq}
        BY <1>8, <2>2, <3>1
      <4> QED
        BY <1>6, <1>7, <1>12, <2>1, <3>1, <4>1
    <3>2. CASE ~(seq \notin query.cited /\ seq # newest)
      <4>1. late = {}
        BY <1>8, <2>2, <3>2
      <4>2. to = found
        BY <1>6, <1>7, <1>12, <2>1, <3>2
      <4> QED
        BY <1>6, <4>1, <4>2 DEF Scans
    <3> QED
      BY <3>1, <3>2
  <2>4. walk.oversized \cup late \in SUBSET Nat
    BY <1>1, <1>2, <2>2
  <2>5. to \in Scans /\ to.done = FALSE
    BY <1>6, <1>12, <2>3, <2>4 DEF Scans
  <2>6. /\ to.hi = walk.hi /\ to.marks = walk.marks /\ to.windows = walk.windows
        /\ to.cited = walk.cited \cup ({seq} \cap query.cited) /\ to.lastFailure = newest
        /\ to.delta = walk.delta /\ to.deltaChars = walk.deltaChars
        /\ to.oversized = walk.oversized \cup late
    BY <1>6, <2>3 DEF Scans
  <2>7. walk.done # TRUE
    BY <1>12
  <2> QED
    BY <1>0, <1>4, <2>1, <2>2, <2>5, <2>6, <2>7 DEF Met, to
<1>13. \/ walk.done = TRUE
       \/ walk.done = FALSE /\ seq <= query.parent
       \/ walk.done = FALSE /\ seq > query.parent /\ chars <= query.room
       \/ walk.done = FALSE /\ seq > query.parent /\ chars > query.room
  <2>1. (seq <= query.parent \/ seq > query.parent) /\ (chars <= query.room \/ chars > query.room)
    BY <1>0, <1>1
  <2> QED
    BY <1>3, <2>1
<1> QED
  BY <1>9, <1>10, <1>11, <1>12, <1>13

-----------------------------------------------------------------------------
(* What the walk finds *)

\* The history since the parent, what of it fits, and what is met before the room is used up.
SinceParent(query) == {seq \in History[query.cursor] : seq > query.parent}
Fitting(S, query) == {seq \in S : EventChars(ledger[seq]) <= query.room}
NewerFitting(query, seq) == {other \in SinceParent(query) : other > seq /\ EventChars(ledger[other]) <= query.room}
MetBy(query) == {seq \in SinceParent(query) : Width(NewerFitting(query, seq)) <= query.room}

\* The part of the history that lies after q.
Passed(query, q) == {seq \in History[query.cursor] : seq > q}

LEMMA PassedIs ==
  ASSUME Measured, NEW query, IsQuery(query)
  PROVE  /\ History[query.cursor] \in SUBSET (1..Len(ledger))
         /\ History[query.cursor] \in SUBSET (1..query.cursor)
         /\ query.cursor \in Nat /\ Len(ledger) \in Nat /\ query.cursor \in 0..Len(ledger)
<1>1. Len(ledger) \in Nat /\ query.cursor \in 0..Len(ledger) /\ query.cursor \in Nat /\ query.cursor <= Len(ledger)
  BY DEF Measured, IsRun, IsQuery
<1>2. IsHistory(ledger, History)
  BY HistoryIsHistory DEF Measured
<1>3. History[query.cursor] \in SUBSET (1..query.cursor)
  BY <1>1, <1>2, HistoryAt DEF Measured
<1>4. 1..query.cursor \subseteq 1..Len(ledger)
  BY <1>1
<1> QED
  BY <1>1, <1>3, <1>4

LEMMA MetUpTo ==
  ASSUME Measured, NEW query, IsQuery(query), NEW q \in Nat, NEW F, F = Passed(query, q),
         \A s \in F : s > query.parent /\ Width(Fitting({other \in F : other > s}, query)) <= query.room,
         SinceParent(query) \subseteq F \/ Width(Fitting(F, query)) > query.room
  PROVE  MetBy(query) = F
<1>1. F \in SUBSET (1..Len(ledger)) /\ SinceParent(query) \in SUBSET (1..Len(ledger)) /\ Len(ledger) \in Nat
      /\ query.parent \in Nat /\ query.room \in Nat
  BY PassedIs DEF Passed, SinceParent, IsQuery
<1>2. \A s \in F : s \in SinceParent(query) /\ s > q /\ s \in Nat
  <2> TAKE s \in F
  <2>1. s \in History[query.cursor] /\ s > q /\ s > query.parent
    BY DEF Passed
  <2>2. s \in Nat
    BY <1>1
  <2> QED
    BY <2>1, <2>2 DEF SinceParent
<1>3. \A s \in SinceParent(query) : s \in Nat /\ (s > q => s \in F)
  BY <1>1 DEF Passed, SinceParent
<1>4. \A s \in F : NewerFitting(query, s) = Fitting({other \in F : other > s}, query)
  <2> TAKE s \in F
  <2>1. \A other \in SinceParent(query) : other > s => other \in F
    BY <1>2, <1>3
  <2> QED
    BY <1>2, <2>1 DEF NewerFitting, Fitting
<1>5. \A s \in F : s \in MetBy(query)
  BY <1>2, <1>4 DEF MetBy
<1>6. ASSUME NEW s \in MetBy(query), s \notin F PROVE FALSE
  <2>1. s \in SinceParent(query) /\ Width(NewerFitting(query, s)) <= query.room
    BY <1>6 DEF MetBy
  <2>2. Width(Fitting(F, query)) > query.room
    BY <1>6, <2>1
  <2>3. s \in Nat /\ ~(s > q)
    BY <1>3, <1>6, <2>1
  <2>4. Fitting(F, query) \subseteq NewerFitting(query, s)
    BY <1>2, <2>3 DEF Fitting, NewerFitting
  <2>5. Fitting(F, query) \in SUBSET (1..Len(ledger)) /\ NewerFitting(query, s) \in SUBSET (1..Len(ledger))
    BY <1>1 DEF Fitting, NewerFitting
  <2>6. \A i \in 1..Len(ledger) : EventChars(ledger[i]) \in Nat
    BY DEF Measured
  <2>7. Width(Fitting(F, query)) <= Width(NewerFitting(query, s))
        /\ Width(Fitting(F, query)) \in Nat /\ Width(NewerFitting(query, s)) \in Nat
    BY <1>1, <2>4, <2>5, <2>6, Widths
  <2> QED
    BY <1>1, <2>1, <2>2, <2>7
<1> QED
  BY <1>5, <1>6

\* These are the newest events of the delta, and the number of those too large.
DeltaOf(walk, query, M) ==
  /\ ToSet(walk.delta) = Fitting(M, query)
  /\ \A i, j \in DOMAIN walk.delta : i < j => walk.delta[i] > walk.delta[j]
  /\ walk.oversized = (M \ Fitting(M, query)) \ (query.cited \cup {walk.lastFailure})

NewestFailure(failure, F) ==
  IF failure = 0 THEN \A s \in F : ~IsFailure(ledger[s])
  ELSE /\ failure \in F /\ IsFailure(ledger[failure])
       /\ \A s \in F : IsFailure(ledger[s]) => s <= failure

\* What the walk has found in the events F of the history.
Finds(walk, query, F) ==
  /\ walk.cited = query.cited \cap F
  /\ NewestFailure(walk.lastFailure, F)
  /\ walk.done = TRUE => MetBy(query) \subseteq F /\ DeltaOf(walk, query, MetBy(query))
  /\ walk.done = FALSE => /\ \A s \in F : s > query.parent
                          /\ walk.deltaChars = Width(Fitting(F, query)) /\ walk.deltaChars <= query.room
                          /\ DeltaOf(walk, query, F)

\* While there is room, all that was passed is met.
LEMMA RoomLeft ==
  ASSUME Measured, NEW query, IsQuery(query), NEW q \in Nat, NEW F, F = Passed(query, q),
         \A s \in F : s > query.parent, Width(Fitting(F, query)) <= query.room
  PROVE  \A S \in SUBSET F : Width(Fitting(S, query)) <= query.room
<1> TAKE S \in SUBSET F
<1>1. F \in SUBSET (1..Len(ledger)) /\ Len(ledger) \in Nat /\ query.room \in Nat
  BY PassedIs DEF Passed, IsQuery
<1>2. Fitting(S, query) \subseteq Fitting(F, query)
      /\ Fitting(S, query) \in SUBSET (1..Len(ledger)) /\ Fitting(F, query) \in SUBSET (1..Len(ledger))
  BY <1>1 DEF Fitting
<1>3. \A i \in 1..Len(ledger) : EventChars(ledger[i]) \in Nat
  BY DEF Measured
<1>4. Width(Fitting(S, query)) <= Width(Fitting(F, query))
      /\ Width(Fitting(S, query)) \in Nat /\ Width(Fitting(F, query)) \in Nat
  BY <1>1, <1>2, <1>3, Widths
<1> QED
  BY <1>1, <1>4

\* When all that comes before the parent has been passed, the delta is complete.
LEMMA ParentPassed ==
  ASSUME Measured, NEW query, IsQuery(query), NEW q \in Nat, q <= query.parent,
         NEW F, F = Passed(query, q), \A s \in F : s > query.parent, Width(Fitting(F, query)) <= query.room
  PROVE  MetBy(query) = F
<1>1. \A s \in F : Width(Fitting({other \in F : other > s}, query)) <= query.room
  <2> TAKE s \in F
  <2>1. {other \in F : other > s} \in SUBSET F
    OBVIOUS
  <2> QED
    BY <2>1, RoomLeft
<1>2. SinceParent(query) \subseteq F
  <2>1. \A s \in History[query.cursor] : s \in Nat
    BY PassedIs
  <2>2. query.parent \in Nat
    BY DEF IsQuery
  <2> QED
    BY <2>1, <2>2 DEF SinceParent, Passed
<1> QED
  BY <1>1, <1>2, MetUpTo

\* An event of the history is met.
LEMMA EventFound ==
  ASSUME Measured, NEW query, IsQuery(query), NEW q \in 1..query.cursor, q \in History[query.cursor],
         NEW walk \in Scans, Finds(walk, query, Passed(query, q)),
         NEW to, Met(walk, query, q, to)
  PROVE  Finds(to, query, Passed(query, q - 1))
<1>0. PICK F : F = Passed(query, q)
  OBVIOUS
<1>1. PICK G : G = Passed(query, q - 1)
  OBVIOUS
<1>2. /\ query.parent \in Nat /\ query.room \in Nat /\ query.cursor \in Nat /\ Len(ledger) \in Nat
      /\ q \in 1..Len(ledger) /\ q \in Nat /\ q - 1 \in Nat /\ q # 0 /\ q - 1 < q
  BY PassedIs DEF IsQuery
<1>3. F \in SUBSET (1..Len(ledger)) /\ G \in SUBSET (1..Len(ledger))
  BY <1>0, <1>1, PassedIs DEF Passed
<1>4. G = F \cup {q} /\ q \notin F /\ \A s \in F : s \in Nat /\ s > q
  <2>1. \A s \in History[query.cursor] : s \in Nat
    BY PassedIs
  <2>2. \A s \in History[query.cursor] : s > q - 1 <=> s > q \/ s = q
    BY <1>2, <2>1
  <2>3. ~(q > q)
    BY <1>2
  <2> QED
    BY <1>0, <1>1, <2>1, <2>2, <2>3 DEF Passed
<1>5. Finds(walk, query, F)
  BY <1>0
<1>6. PICK chars \in Nat : chars = EventChars(ledger[q])
  BY <1>2 DEF Measured
<1>7. to.cited = query.cited \cap G
  BY <1>4, <1>5 DEF Finds, Met
<1>8. NewestFailure(to.lastFailure, G)
  <2>1. to.lastFailure = IF walk.lastFailure = 0 /\ IsFailure(ledger[q]) THEN q ELSE walk.lastFailure
    BY DEF Met, FailureNow
  <2>2. NewestFailure(walk.lastFailure, F)
    BY <1>5 DEF Finds
  <2>3. CASE walk.lastFailure = 0
    <3>1. \A s \in F : ~IsFailure(ledger[s])
      BY <2>2, <2>3 DEF NewestFailure
    <3>2. CASE IsFailure(ledger[q])
      BY <1>2, <1>4, <2>1, <2>3, <3>1, <3>2 DEF NewestFailure
    <3>3. CASE ~IsFailure(ledger[q])
      BY <1>4, <2>1, <2>3, <3>1, <3>3 DEF NewestFailure
    <3> QED
      BY <3>2, <3>3
  <2>4. CASE walk.lastFailure # 0
    <3>1. /\ walk.lastFailure \in F /\ IsFailure(ledger[walk.lastFailure])
          /\ \A s \in F : IsFailure(ledger[s]) => s <= walk.lastFailure
      BY <2>2, <2>4 DEF NewestFailure
    <3>2. q <= walk.lastFailure
      BY <1>2, <1>4, <3>1
    <3> QED
      BY <1>4, <2>1, <2>4, <3>1, <3>2 DEF NewestFailure
  <2> QED
    BY <2>3, <2>4
<1>9. \A M \in SUBSET F : (M \ Fitting(M, query)) \ (query.cited \cup {to.lastFailure})
                            = (M \ Fitting(M, query)) \ (query.cited \cup {walk.lastFailure})
  <2> TAKE M \in SUBSET F
  <2>1. to.lastFailure = walk.lastFailure \/ (walk.lastFailure = 0 /\ to.lastFailure = q)
    BY DEF Met, FailureNow
  <2>2. q \notin M /\ 0 \notin M
    BY <1>3, <1>4
  <2> QED
    BY <2>1, <2>2
<1>10. CASE walk.done = TRUE
  <2>1. /\ to.delta = walk.delta /\ to.oversized = walk.oversized /\ to.done = TRUE
    BY <1>10 DEF Met
  <2>2. MetBy(query) \subseteq F /\ DeltaOf(walk, query, MetBy(query))
    BY <1>5, <1>10 DEF Finds
  <2>3. DeltaOf(to, query, MetBy(query)) /\ MetBy(query) \subseteq G
    BY <1>4, <1>9, <2>1, <2>2 DEF DeltaOf
  <2> QED
    BY <1>1, <1>7, <1>8, <2>1, <2>3 DEF Finds
<1>11. CASE walk.done = FALSE
  <2>1. /\ \A s \in F : s > query.parent
        /\ walk.deltaChars = Width(Fitting(F, query)) /\ walk.deltaChars <= query.room
        /\ DeltaOf(walk, query, F)
    BY <1>5, <1>11 DEF Finds
  <2>2. CASE q <= query.parent
    <3>1. /\ to.delta = walk.delta /\ to.oversized = walk.oversized /\ to.done = TRUE
      BY <2>2 DEF Met
    <3>2. MetBy(query) = F
      BY <1>0, <1>2, <2>1, <2>2, ParentPassed
    <3>3. DeltaOf(to, query, MetBy(query)) /\ MetBy(query) \subseteq G
      BY <1>4, <1>9, <2>1, <3>1, <3>2 DEF DeltaOf
    <3> QED
      BY <1>1, <1>7, <1>8, <3>1, <3>3 DEF Finds
  <2>3. CASE q > query.parent
    <3>1. \A s \in G : s > query.parent
      BY <1>4, <2>1, <2>3
    <3>2. \A s \in G : {other \in G : other > s} \in SUBSET F
      <4> TAKE s \in G
      <4>1. ~(q > s)
        BY <1>2, <1>4
      <4> QED
        BY <1>4, <4>1
    <3>3. \A s \in G : Width(Fitting({other \in G : other > s}, query)) <= query.room
      BY <1>0, <1>2, <2>1, <3>2, RoomLeft
    <3>4. \A i \in 1..Len(ledger) : EventChars(ledger[i]) \in Nat
      BY DEF Measured
    <3>5. DOMAIN walk.delta = 1..Len(walk.delta) /\ Len(walk.delta) \in Nat
      BY DEF Scans
    <3>6. CASE chars <= query.room
      <4>1. /\ to.delta = Append(walk.delta, q) /\ to.oversized = walk.oversized
            /\ to.deltaChars = walk.deltaChars + chars + 1
            /\ IF walk.deltaChars + chars + 1 > query.room THEN to.done = TRUE ELSE to.done = FALSE
        BY <1>6, <1>11, <2>3, <3>6 DEF Met
      <4>2. Fitting(G, query) = Fitting(F, query) \cup {q}
        BY <1>4, <1>6, <3>6 DEF Fitting
      <4>3. /\ Fitting(G, query) \in SUBSET (1..Len(ledger)) /\ q \in Fitting(G, query)
            /\ Fitting(G, query) \ {q} = Fitting(F, query)
        BY <1>3, <1>4, <4>2 DEF Fitting
      <4>4. to.deltaChars = Width(Fitting(G, query))
        <5>1. Width(Fitting(G, query)) = Width(Fitting(G, query) \ {q}) + EventChars(ledger[q]) + 1
          BY <1>2, <3>4, <4>3, Widths
        <5> QED
          BY <1>6, <2>1, <4>1, <4>3, <5>1
      <4>5. DeltaOf(to, query, G)
        <5>1. /\ \A i \in 1..Len(walk.delta) : to.delta[i] = walk.delta[i]
              /\ to.delta[Len(walk.delta) + 1] = q
              /\ DOMAIN to.delta = 1..(Len(walk.delta) + 1)
          BY <3>5, <4>1 DEF Scans
        <5>2. \A i \in 1..(Len(walk.delta) + 1) : i \in 1..Len(walk.delta) \/ i = Len(walk.delta) + 1
          BY <3>5
        <5>3. ToSet(walk.delta) = Fitting(F, query)
          BY <2>1 DEF DeltaOf
        <5>4. ToSet(to.delta) = ToSet(walk.delta) \cup {q}
          <6>1. PICK n \in Nat : n = Len(walk.delta)
            BY <3>5
          <6>2. PICK old, new : old = walk.delta /\ new = to.delta
            OBVIOUS
          <6>3. DOMAIN old = 1..n /\ DOMAIN new = (1..n) \cup {n + 1}
            BY <3>5, <5>1, <6>1, <6>2
          <6>4. \A i \in 1..n : new[i] = old[i]
            BY <5>1, <6>1, <6>2
          <6>5. new[n + 1] = q
            BY <5>1, <6>1, <6>2
          <6>6. ToSet(new) = ToSet(old) \cup {q}
            <7>1. PICK I, last : I = 1..n /\ last = n + 1
              OBVIOUS
            <7>2. ToSet(new) = {new[i] : i \in I \cup {last}} /\ ToSet(old) = {old[i] : i \in I}
              BY <6>3, <7>1, Zenon DEF ToSet
            <7>3. (\A i \in I : new[i] = old[i]) /\ new[last] = q
              BY <6>4, <6>5, <7>1
            <7>4. \A x : x \in ToSet(new) <=> x \in ToSet(old) \/ x = q
              BY <7>2, <7>3
            <7> QED
              BY <7>4
          <6> QED
            BY <6>2, <6>6
        <5>5. ToSet(to.delta) = Fitting(G, query)
          BY <4>2, <5>3, <5>4
        <5>6. \A i \in 1..Len(walk.delta) : walk.delta[i] > q
          BY <1>4, <3>5, <5>3 DEF ToSet, Fitting
        <5>7. \A i, j \in DOMAIN to.delta : i < j => to.delta[i] > to.delta[j]
          <6> SUFFICES ASSUME NEW i \in DOMAIN to.delta, NEW j \in DOMAIN to.delta, i < j
                       PROVE  to.delta[i] > to.delta[j]
            OBVIOUS
          <6>1. i \in 1..Len(walk.delta)
            BY <3>5, <5>1
          <6>2. CASE j \in 1..Len(walk.delta)
            BY <2>1, <3>5, <5>1, <6>1, <6>2 DEF DeltaOf
          <6>3. CASE j = Len(walk.delta) + 1
            BY <5>1, <5>6, <6>1, <6>3
          <6> QED
            BY <5>1, <5>2, <6>2, <6>3
        <5>8. G \ Fitting(G, query) = F \ Fitting(F, query)
          BY <1>4, <4>2
        <5>9. to.oversized = (G \ Fitting(G, query)) \ (query.cited \cup {to.lastFailure})
          BY <1>9, <2>1, <4>1, <5>8 DEF DeltaOf
        <5> QED
          BY <5>5, <5>7, <5>9 DEF DeltaOf
      <4>6. CASE walk.deltaChars + chars + 1 > query.room
        <5>1. to.done = TRUE
          BY <4>1, <4>6
        <5>2. Width(Fitting(G, query)) > query.room
          BY <4>1, <4>4, <4>6
        <5>3. MetBy(query) = G
          BY <1>1, <1>2, <3>1, <3>3, <5>2, MetUpTo
        <5> QED
          BY <1>1, <1>7, <1>8, <4>5, <5>1, <5>3 DEF Finds
      <4>7. CASE ~(walk.deltaChars + chars + 1 > query.room)
        <5>1. to.done = FALSE
          BY <4>1, <4>7
        <5>2. to.deltaChars <= query.room
          <6>1. walk.deltaChars \in Nat
            BY DEF Scans
          <6> QED
            BY <1>2, <4>1, <4>7, <6>1
        <5> QED
          BY <1>1, <1>7, <1>8, <3>1, <4>4, <4>5, <5>1, <5>2 DEF Finds
      <4> QED
        BY <4>6, <4>7
    <3>7. CASE chars > query.room
      <4>1. /\ to.delta = walk.delta /\ to.deltaChars = walk.deltaChars /\ to.done = FALSE
            /\ to.oversized = walk.oversized \cup {s \in {q} : s \notin query.cited /\ s # FailureNow(walk, s)}
        BY <1>6, <1>11, <2>3, <3>7 DEF Met
      <4>2. Fitting(G, query) = Fitting(F, query) /\ q \notin Fitting(G, query)
        <5>1. ~(chars <= query.room)
          BY <1>2, <1>6, <3>7
        <5> QED
          BY <1>4, <1>6, <5>1 DEF Fitting
      <4>3. to.lastFailure = FailureNow(walk, q)
        BY DEF Met
      <4>4. to.oversized = (G \ Fitting(G, query)) \ (query.cited \cup {to.lastFailure})
        <5>1. walk.oversized = (F \ Fitting(F, query)) \ (query.cited \cup {to.lastFailure})
          BY <1>9, <2>1 DEF DeltaOf
        <5>2. G \ Fitting(G, query) = (F \ Fitting(F, query)) \cup {q}
          BY <1>4, <4>2
        <5>3. {s \in {q} : s \notin query.cited /\ s # FailureNow(walk, s)} = {q} \ (query.cited \cup {to.lastFailure})
          BY <4>3
        <5> QED
          BY <4>1, <5>1, <5>2, <5>3
      <4>5. DeltaOf(to, query, G)
        BY <2>1, <4>1, <4>2, <4>4 DEF DeltaOf
      <4> QED
        BY <1>1, <1>7, <1>8, <2>1, <3>1, <4>1, <4>2, <4>5 DEF Finds
    <3> QED
      BY <1>2, <1>6, <3>6, <3>7
  <2> QED
    BY <1>2, <2>2, <2>3
<1> QED
  BY <1>10, <1>11 DEF Scans

-----------------------------------------------------------------------------
(* One event *)

\* A restore that the walk meets.
MarkAt(seq) == [seq |-> seq, target |-> ledger[seq].target]
MarkedBy(walk, query, seq) ==
  [walk EXCEPT !.marks = <<MarkAt(seq)>> \o walk.marks,
               !.windows = AbandonedWindows(<<MarkAt(seq)>> \o walk.marks, query.cursor, query.cursor)]

LEMMA MarkIs ==
  ASSUME Measured, NEW query, IsQuery(query), NEW seq \in 1..Len(ledger), NEW walk \in Scans
  PROVE  /\ MarkAt(seq) \in Marks
         /\ MarkedBy(walk, query, seq) \in Scans
         /\ MarkedBy(walk, query, seq).marks = <<MarkAt(seq)>> \o walk.marks
         /\ BackFrom(<<MarkAt(seq)>> \o walk.marks, query.cursor)
              = WalkBack(MarkAt(seq), BackFrom(walk.marks, query.cursor))
         /\ MarkedBy(walk, query, seq).windows = BackFrom(<<MarkAt(seq)>> \o walk.marks, query.cursor).windows
         /\ MarkedBy(walk, query, seq).hi = walk.hi /\ MarkedBy(walk, query, seq).cited = walk.cited
         /\ MarkedBy(walk, query, seq).lastFailure = walk.lastFailure
         /\ MarkedBy(walk, query, seq).delta = walk.delta
         /\ MarkedBy(walk, query, seq).deltaChars = walk.deltaChars
         /\ MarkedBy(walk, query, seq).oversized = walk.oversized
         /\ MarkedBy(walk, query, seq).done = walk.done
<1>1. query.cursor \in Nat
  BY PassedIs
<1>2. seq \in Nat /\ ledger[seq] \in Events
  BY DEF Measured, IsRun
<1>3. MarkAt(seq) \in Marks
  BY <1>2 DEF MarkAt, Marks, Events
<1>4. walk.marks \in Seq(Marks)
  BY DEF Scans
<1>5. PICK M : M = <<MarkAt(seq)>> \o walk.marks
  OBVIOUS
<1>6. M \in Seq(Marks) /\ BackFrom(M, query.cursor) = WalkBack(MarkAt(seq), BackFrom(walk.marks, query.cursor))
  BY <1>1, <1>3, <1>4, <1>5, BackSteps
<1>7. /\ AbandonedWindows(M, query.cursor, query.cursor) = BackFrom(M, query.cursor).windows
      /\ BackFrom(M, query.cursor) \in Walks
  BY <1>1, <1>6, BackSteps
<1>8. PICK W : W = AbandonedWindows(M, query.cursor, query.cursor)
  OBVIOUS
<1>9. W \in SUBSET (Nat \X Nat)
  BY <1>7, <1>8 DEF Walks
<1>10. MarkedBy(walk, query, seq) = [walk EXCEPT !.marks = M, !.windows = W]
  BY <1>5, <1>8 DEF MarkedBy
<1>11. [walk EXCEPT !.marks = M, !.windows = W] \in Scans
  BY <1>6, <1>9 DEF Scans
<1>12. PICK to : to = MarkedBy(walk, query, seq)
  OBVIOUS
<1>13. /\ to.marks = M /\ to.windows = W /\ to.hi = walk.hi /\ to.cited = walk.cited
       /\ to.lastFailure = walk.lastFailure /\ to.delta = walk.delta /\ to.deltaChars = walk.deltaChars
       /\ to.oversized = walk.oversized /\ to.done = walk.done
  BY <1>10, <1>12 DEF Scans
<1> QED
  BY <1>3, <1>5, <1>6, <1>7, <1>8, <1>10, <1>11, <1>12, <1>13, Zenon

\* At another event the walk keeps its marks.
LEMMA SameMarks ==
  ASSUME Measured, NEW query, IsQuery(query), NEW walk \in Scans
  PROVE  [walk EXCEPT !.marks = walk.marks,
                      !.windows = AbandonedWindows(walk.marks, query.cursor, query.cursor)] \in Scans
<1>1. query.cursor \in Nat
  BY PassedIs
<1>2. walk.marks \in Seq(Marks)
  BY DEF Scans
<1>3. PICK W : W = AbandonedWindows(walk.marks, query.cursor, query.cursor)
  OBVIOUS
<1>4. W \in SUBSET (Nat \X Nat)
  BY <1>1, <1>2, <1>3, BackSteps DEF Walks
<1>5. [walk EXCEPT !.marks = walk.marks, !.windows = W] \in Scans
  BY <1>2, <1>4 DEF Scans
<1> QED
  BY <1>3, <1>5

\* What a visit does.
LEMMA VisitCases ==
  ASSUME Measured, NEW query, IsQuery(query), NEW seq \in 1..Len(ledger), NEW walk \in Scans
  PROVE  /\ Visit(walk, query, seq) \in Scans
         /\ Abandoned(walk.windows, seq) => Visit(walk, query, seq) = walk
         /\ /\ ~Abandoned(walk.windows, seq) /\ ledger[seq].role = "restore"
            /\ Abandoned(MarkedBy(walk, query, seq).windows, seq)
            => Visit(walk, query, seq) = MarkedBy(walk, query, seq)
         /\ /\ ~Abandoned(walk.windows, seq) /\ ledger[seq].role # "restore"
            /\ walk.windows = BackFrom(walk.marks, query.cursor).windows
            => Visit(walk, query, seq) = Candidate(walk, query, seq)
<1> DEFINE same == [walk EXCEPT !.marks = walk.marks,
                                !.windows = AbandonedWindows(walk.marks, query.cursor, query.cursor)]
           marked == MarkedBy(walk, query, seq)
           Then(w) == IF Abandoned(w.windows, seq) THEN w ELSE Candidate(w, query, seq)
           to == Visit(walk, query, seq)
<1>1. marked \in Scans /\ same \in Scans
  BY MarkIs, SameMarks
<1>2. to = IF Abandoned(walk.windows, seq) THEN walk
           ELSE IF ledger[seq].role = "restore" THEN Then(marked) ELSE Then(same)
  <2>1. CASE Abandoned(walk.windows, seq)
    BY <2>1 DEF Visit
  <2>2. CASE ~Abandoned(walk.windows, seq) /\ ledger[seq].role = "restore"
    BY <2>2 DEF Visit, MarkedBy, MarkAt
  <2>3. CASE ~Abandoned(walk.windows, seq) /\ ledger[seq].role # "restore"
    BY <2>3 DEF Visit
  <2> QED
    BY <2>1, <2>2, <2>3
<1> HIDE DEF same, marked, to
<1>3. \A w \in Scans : Candidate(w, query, seq) \in Scans
  BY CandidateMeets DEF Met
<1>4. to \in Scans
  BY <1>1, <1>2, <1>3
<1>5. ASSUME walk.windows = BackFrom(walk.marks, query.cursor).windows PROVE same = walk
  <2>1. query.cursor \in Nat /\ walk.marks \in Seq(Marks)
    BY PassedIs DEF Scans
  <2>2. AbandonedWindows(walk.marks, query.cursor, query.cursor) = walk.windows
    BY <1>5, <2>1, BackSteps
  <2>3. same = [walk EXCEPT !.marks = walk.marks, !.windows = walk.windows]
    BY <2>2 DEF same
  <2> QED
    BY <2>3 DEF Scans
<1>6. /\ ~Abandoned(walk.windows, seq) /\ ledger[seq].role # "restore"
      /\ walk.windows = BackFrom(walk.marks, query.cursor).windows
      => to = Candidate(walk, query, seq)
  BY <1>2, <1>5
<1> QED
  BY <1>2, <1>4, <1>6 DEF to, marked

\* What a walk that has passed the events after q knows of the lineage before:
\* the history of its position, if that is not later.
OnLineage(walk, c, q, p) ==
  /\ p = BackFrom(walk.marks, c).position /\ p \in 0..c
  /\ walk.windows = BackFrom(walk.marks, c).windows
  /\ \A window \in walk.windows : p <= window[1]
  /\ p = c \/ \E window \in walk.windows : window[1] = p
  /\ \A s \in 1..q : Abandoned(walk.windows, s) <=> s > p
  /\ History[IF p <= q THEN p ELSE q] = {s \in History[c] : s <= q}

LEMMA VisitKeeps ==
  ASSUME Measured, NEW query, IsQuery(query), NEW q \in 1..query.cursor, NEW walk \in Scans, NEW p,
         OnLineage(walk, query.cursor, q, p), Finds(walk, query, Passed(query, q))
  PROVE  LET to == Visit(walk, query, q)
         IN  /\ to \in Scans /\ to.hi = walk.hi
             /\ \E r : OnLineage(to, query.cursor, q - 1, r)
             /\ Finds(to, query, Passed(query, q - 1))
<1> DEFINE c == query.cursor
           to == Visit(walk, query, q)
<1>1. c \in Nat /\ c \in 0..Len(ledger) /\ q \in 1..Len(ledger) /\ q \in Nat /\ q - 1 \in Nat
      /\ Len(ledger) \in Nat /\ 1..(q - 1) \subseteq 1..q /\ q \in 1..q
  BY PassedIs
<1>2. IsHistory(ledger, History) /\ IsRun(ledger) /\ Backward(ledger) /\ DOMAIN ledger = 1..Len(ledger)
  BY HistoryIsHistory DEF Measured, IsRun
<1>3. History[c] \in SUBSET (1..c) /\ \A s \in History[c] : s \in Nat
  BY PassedIs
<1>4. to \in Scans
  BY <1>1, VisitCases
<1>5. /\ p = BackFrom(walk.marks, c).position /\ p \in 0..c /\ p \in Nat
      /\ walk.windows = BackFrom(walk.marks, c).windows
      /\ \A window \in walk.windows : p <= window[1]
      /\ p = c \/ \E window \in walk.windows : window[1] = p
      /\ \A s \in 1..q : Abandoned(walk.windows, s) <=> s > p
      /\ History[IF p <= q THEN p ELSE q] = {s \in History[c] : s <= q}
  BY <1>1 DEF OnLineage
<1>6. \A s \in Nat : /\ s <= q <=> s <= q - 1 \/ s = q
                     /\ s > q - 1 <=> s > q \/ s = q
  BY <1>1
<1>7. ASSUME q \notin History[c]
      PROVE  /\ Passed(query, q - 1) = Passed(query, q)
             /\ {s \in History[c] : s <= q - 1} = {s \in History[c] : s <= q}
  BY <1>3, <1>6, <1>7 DEF Passed
<1>8. CASE Abandoned(walk.windows, q)
  <2>1. to = walk /\ q > p /\ p <= q /\ p <= q - 1
    <3>1. to = walk
      BY <1>1, <1>8, VisitCases
    <3>2. q > p
      BY <1>1, <1>5, <1>8
    <3> QED
      BY <1>1, <1>5, <3>1, <3>2
  <2>2. History[p] = {s \in History[c] : s <= q}
    BY <1>5, <2>1
  <2>3. History[p] \in SUBSET (1..p)
    <3>1. p \in 0..Len(ledger)
      BY <1>1, <1>5
    <3> QED
      BY <1>2, <3>1, HistoryAt
  <2>4. q \notin History[c]
    <3>1. q \notin History[p]
      BY <1>1, <1>5, <2>1, <2>3
    <3> QED
      BY <1>1, <2>2, <3>1
  <2>5. OnLineage(to, c, q - 1, p)
    <3>1. History[IF p <= q - 1 THEN p ELSE q - 1] = {s \in History[c] : s <= q - 1}
      BY <1>7, <2>1, <2>2, <2>4
    <3>2. \A s \in 1..(q - 1) : Abandoned(walk.windows, s) <=> s > p
      BY <1>1, <1>5
    <3> HIDE DEF c
    <3> QED
      BY <1>5, <2>1, <3>1, <3>2 DEF OnLineage
  <2>6. Finds(to, query, Passed(query, q - 1))
    BY <1>7, <2>1, <2>4
  <2> QED
    BY <1>4, <2>1, <2>5, <2>6
<1>9. CASE ~Abandoned(walk.windows, q)
  <2>1. q <= p
    BY <1>1, <1>5, <1>9
  <2>2. History[q] = {s \in History[c] : s <= q}
    <3>1. CASE p <= q
      <4>1. p = q
        BY <1>1, <1>5, <2>1, <3>1
      <4> QED
        BY <1>5, <4>1
    <3>2. CASE ~(p <= q)
      BY <1>5, <3>2
    <3> QED
      BY <3>1, <3>2
  <2>3. CASE ledger[q].role = "restore"
    <3> DEFINE marked == MarkedBy(walk, query, q)
               back == BackFrom(walk.marks, c)
    <3>1. PICK t : t = ledger[q].target
      OBVIOUS
    <3>2. t \in 0..(q - 1) /\ History[q] = History[t] /\ t \in Nat
      BY <1>1, <1>2, <2>3, <3>1, HistoryAt
    <3>3. MarkAt(q).seq = q /\ MarkAt(q).target = t
      BY <3>1 DEF MarkAt
    <3>4. BackFrom(<<MarkAt(q)>> \o walk.marks, c) = [position |-> t, windows |-> walk.windows \cup {<<t, q>>}]
      <4>1. BackFrom(<<MarkAt(q)>> \o walk.marks, c) = WalkBack(MarkAt(q), back)
        BY <1>1, MarkIs
      <4>2. ~(q > back.position) /\ ~(t >= q)
        BY <1>1, <1>5, <2>1, <3>2
      <4> HIDE DEF back, c
      <4>3. WalkBack(MarkAt(q), back) = [position |-> t, windows |-> back.windows \cup {<<t, q>>}]
        BY <3>3, <4>2 DEF WalkBack
      <4>4. back.windows = walk.windows
        BY <1>5 DEF back
      <4> QED
        BY <4>1, <4>3, <4>4
    <3>5. /\ marked.marks = <<MarkAt(q)>> \o walk.marks
          /\ marked.windows = walk.windows \cup {<<t, q>>}
          /\ marked.hi = walk.hi /\ marked.cited = walk.cited /\ marked.lastFailure = walk.lastFailure
          /\ marked.delta = walk.delta /\ marked.deltaChars = walk.deltaChars
          /\ marked.oversized = walk.oversized /\ marked.done = walk.done
      <4>1. marked.windows = BackFrom(<<MarkAt(q)>> \o walk.marks, c).windows
        BY <1>1, MarkIs, Zenon
      <4>2. marked.windows = walk.windows \cup {<<t, q>>}
        <5> HIDE DEF marked, c
        <5> QED
          BY <3>4, <4>1
      <4>3. /\ marked.marks = <<MarkAt(q)>> \o walk.marks
            /\ marked.hi = walk.hi /\ marked.cited = walk.cited /\ marked.lastFailure = walk.lastFailure
            /\ marked.delta = walk.delta /\ marked.deltaChars = walk.deltaChars
            /\ marked.oversized = walk.oversized /\ marked.done = walk.done
        BY <1>1, MarkIs
      <4> QED
        BY <4>2, <4>3
    <3>6. \A s : Abandoned(marked.windows, s) <=> Abandoned(walk.windows, s) \/ (t < s /\ s <= q)
      <4>1. <<t, q>>[1] = t /\ <<t, q>>[2] = q
        OBVIOUS
      <4> HIDE DEF marked
      <4> QED
        BY <3>5, <4>1 DEF Abandoned
    <3>7. Abandoned(marked.windows, q)
      BY <1>1, <3>2, <3>6
    <3>8. to = marked
      BY <1>1, <1>9, <2>3, <3>7, VisitCases
    <3>9. q \notin History[c] /\ History[t] \in SUBSET (1..t)
      <4>1. t \in 0..Len(ledger)
        BY <1>1, <3>2
      <4>2. History[t] \in SUBSET (1..t)
        BY <1>2, <4>1, HistoryAt
      <4>3. q \notin 1..t
        BY <1>1, <3>2
      <4>4. q \notin History[q]
        BY <3>2, <4>2, <4>3
      <4> QED
        BY <1>1, <2>2, <4>2, <4>4
    <3> HIDE DEF marked, to
    <3>10. OnLineage(to, c, q - 1, t)
      <4>1. t = BackFrom(to.marks, c).position /\ to.windows = BackFrom(to.marks, c).windows
        <5> HIDE DEF c
        <5>1. BackFrom(to.marks, c) = [position |-> t, windows |-> walk.windows \cup {<<t, q>>}]
          BY <3>4, <3>5, <3>8
        <5>2. PICK after : after = BackFrom(to.marks, c)
          OBVIOUS
        <5>3. after.position = t /\ after.windows = walk.windows \cup {<<t, q>>}
          BY <5>1, <5>2
        <5>4. to.windows = walk.windows \cup {<<t, q>>}
          BY <3>5, <3>8
        <5> QED
          BY <5>2, <5>3, <5>4
      <4>2. t \in 0..c /\ t <= q - 1
        BY <1>1, <3>2
      <4>3. \A window \in to.windows : t <= window[1]
        <5> TAKE window \in to.windows
        <5>1. CASE window \in walk.windows
          <6>1. window[1] \in Nat /\ p <= window[1]
            BY <1>5, <5>1 DEF Scans
          <6> QED
            BY <1>1, <1>5, <2>1, <3>2, <6>1
        <5>2. CASE window = <<t, q>>
          BY <3>2, <5>2
        <5> QED
          BY <3>5, <3>8, <5>1, <5>2
      <4>4. \E window \in to.windows : window[1] = t
        <5>1. <<t, q>> \in to.windows /\ <<t, q>>[1] = t
          BY <3>5, <3>8
        <5> QED
          BY <5>1
      <4>5. \A s \in 1..(q - 1) : Abandoned(to.windows, s) <=> s > t
        <5> TAKE s \in 1..(q - 1)
        <5>1. s \in 1..q /\ s \in Nat /\ s <= q /\ ~(s > p)
          BY <1>1, <1>5, <2>1
        <5>2. ~Abandoned(walk.windows, s)
          BY <1>5, <5>1
        <5> QED
          BY <3>2, <3>6, <3>8, <5>1, <5>2
      <4>6. History[IF t <= q - 1 THEN t ELSE q - 1] = {s \in History[c] : s <= q - 1}
        BY <1>7, <2>2, <3>2, <3>9, <4>2
      <4> HIDE DEF c
      <4> QED
        BY <4>1, <4>2, <4>3, <4>4, <4>5, <4>6 DEF OnLineage
    <3>11. Finds(to, query, Passed(query, q - 1))
      <4>1. Passed(query, q - 1) = Passed(query, q)
        BY <1>7, <3>9
      <4>2. Finds(to, query, Passed(query, q))
        BY <3>5, <3>8 DEF Finds, DeltaOf
      <4> QED
        BY <4>1, <4>2
    <3>12. to.hi = walk.hi
      BY <3>5, <3>8
    <3> QED
      BY <1>4, <3>10, <3>11, <3>12 DEF to
  <2>4. CASE ledger[q].role # "restore"
    <3>1. to = Candidate(walk, query, q)
      BY <1>1, <1>5, <1>9, <2>4, VisitCases
    <3>2. Met(walk, query, q, to)
      BY <1>1, <3>1, CandidateMeets
    <3>3. History[q] = History[q - 1] \cup {q} /\ q - 1 \in 0..Len(ledger)
      BY <1>1, <1>2, <2>4, HistoryAt
    <3>4. q \in History[c] /\ History[q - 1] \in SUBSET (1..(q - 1))
      BY <1>2, <2>2, <3>3, HistoryAt
    <3>5. Finds(to, query, Passed(query, q - 1))
      BY <3>2, <3>4, EventFound
    <3> HIDE DEF to
    <3>6. to.hi = walk.hi /\ to.marks = walk.marks /\ to.windows = walk.windows
      BY <3>2 DEF Met
    <3>7. History[q - 1] = {s \in History[c] : s <= q - 1}
      <4>1. q \notin 1..(q - 1) /\ ~(q <= q - 1)
        BY <1>1
      <4>2. q \notin History[q - 1]
        BY <3>4, <4>1
      <4> QED
        BY <1>3, <1>6, <2>2, <3>3, <4>1, <4>2
    <3>8. OnLineage(to, c, q - 1, p)
      <4>1. ~(p <= q - 1)
        BY <1>1, <1>5, <2>1
      <4>2. History[IF p <= q - 1 THEN p ELSE q - 1] = {s \in History[c] : s <= q - 1}
        BY <3>7, <4>1
      <4>3. \A s \in 1..(q - 1) : Abandoned(walk.windows, s) <=> s > p
        BY <1>1, <1>5
      <4> HIDE DEF c
      <4> QED
        BY <1>5, <3>6, <4>2, <4>3 DEF OnLineage
    <3> QED
      BY <1>4, <3>5, <3>6, <3>8 DEF to
  <2> QED
    BY <2>3, <2>4
<1> QED
  BY <1>8, <1>9

-----------------------------------------------------------------------------
(* Pages *)

\* The events lo, lo + 1, ... of a page are visited from the last one.
VisitAll(walk, query, seqs) == FoldRight(LAMBDA seq, w : Visit(w, query, seq), seqs, walk)
VisitedBy(h, walk, query, lo, n) ==
  /\ h[n + 1] = walk
  /\ \A k \in 1..n : h[k] = Visit(h[k + 1], query, (lo + k) - 1)
  /\ VisitAll(walk, query, [i \in 1..n |-> (lo + i) - 1]) = h[1]

LEMMA PageSteps ==
  ASSUME Measured, NEW query, IsQuery(query), NEW walk \in Scans, NEW lo \in Nat \ {0}, NEW n \in Nat,
         (lo + n) - 1 <= Len(ledger)
  PROVE  \E h : VisitedBy(h, walk, query, lo, n)
<1> DEFINE D == 1..n
           S == Scans
           seqs == [i \in D |-> (lo + i) - 1]
           step == [k \in D |-> [w \in S |-> Visit(w, query, seqs[k])]]
           IsIter(g) == g = [s \in SUBSET D |->
                               IF s = {} THEN walk ELSE Visit(g[s \ {Min(s)}], query, seqs[Min(s)])]
<1>1. DOMAIN seqs = D /\ Len(ledger) \in Nat /\ \A i \in D : seqs[i] \in 1..Len(ledger)
  BY DEF Measured, IsRun
<1>2. VisitAll(walk, query, seqs) = (CHOOSE g : IsIter(g))[DOMAIN seqs]
  BY <1>1, Zenon DEF VisitAll, FoldRight, MapThenFoldSet
<1>3. \A s \in SUBSET D : s # {} => Min(s) \in s
  <2> TAKE s \in SUBSET D
  <2> HAVE s # {}
  <2>1. s \in SUBSET Nat
    OBVIOUS
  <2> QED
    BY <2>1, LeastOf
<1>4. step \in [D -> [S -> S]]
  <2> HIDE DEF seqs, D
  <2>1. \A k \in D : \A w \in S : Visit(w, query, seqs[k]) \in S
    BY <1>1, VisitCases
  <2> QED
    BY <2>1
<1>5. \E g : IsIter(g)
  <2> HIDE DEF step
  <2>2. PICK g \in [SUBSET D -> S] : FoldsDown(g, D, walk, step)
    BY <1>1, <1>4, FoldDown
  <2> HIDE DEF D, S, seqs
  <2>3. \A s \in SUBSET D : g[s] = IF s = {} THEN walk ELSE Visit(g[s \ {Min(s)}], query, seqs[Min(s)])
    <3> TAKE s \in SUBSET D
    <3>1. s = {} => g[s] = walk
      BY <2>2 DEF FoldsDown
    <3>2. ASSUME s # {} PROVE g[s] = Visit(g[s \ {Min(s)}], query, seqs[Min(s)])
      <4>1. g[s] = step[Min(s)][g[s \ {Min(s)}]]
        BY <2>2, <3>2 DEF FoldsDown
      <4>2. Min(s) \in D /\ g[s \ {Min(s)}] \in S
        BY <1>3, <2>2, <3>2
      <4> QED
        BY <4>1, <4>2 DEF step
    <3> QED
      BY <3>1, <3>2
  <2>5. g = [s \in SUBSET D |-> g[s]]
    BY <2>2
  <2>6. IsIter(g)
    BY <2>3, <2>5, Zenon
  <2> QED
    BY <2>6
<1> DEFINE G == CHOOSE g : IsIter(g)
           h == [k \in 1..(n + 1) |-> G[k..n]]
<1>6. IsIter(G)
  BY <1>5
<1>7. \A k \in 1..(n + 1) : k..n \in SUBSET D
  OBVIOUS
<1>8. h[n + 1] = walk
  <2>1. (n + 1)..n = {} /\ n + 1 \in 1..(n + 1)
    OBVIOUS
  <2> HIDE DEF G
  <2> QED
    BY <1>6, <1>7, <2>1
<1>9. \A k \in 1..n : h[k] = Visit(h[k + 1], query, (lo + k) - 1)
  <2> TAKE k \in 1..n
  <2>1. k..n \in SUBSET Nat /\ k \in k..n /\ k \in Nat /\ \A i \in k..n : k <= i
    OBVIOUS
  <2>2. Min(k..n) = k
    <3>1. Min(k..n) \in k..n /\ Min(k..n) <= k
      BY <2>1, LeastOf
    <3> QED
      BY <2>1, <3>1
  <2>3. (k..n) \ {k} = (k + 1)..n /\ k + 1 \in 1..(n + 1) /\ k \in 1..(n + 1)
    BY <2>1
  <2> HIDE DEF G
  <2>5. k..n \in SUBSET D /\ k..n # {} /\ seqs[k] = (lo + k) - 1
    BY <1>7, <2>1, <2>3
  <2> HIDE DEF D, seqs
  <2>6. G[k..n] = IF k..n = {} THEN walk ELSE Visit(G[(k..n) \ {Min(k..n)}], query, seqs[Min(k..n)])
    BY <1>6, <2>5, Zenon
  <2>4. G[k..n] = Visit(G[(k + 1)..n], query, (lo + k) - 1)
    BY <2>2, <2>3, <2>5, <2>6
  <2> QED
    BY <2>3, <2>4
<1>11. VisitAll(walk, query, seqs) = h[1]
  <2>1. 1 \in 1..(n + 1)
    OBVIOUS
  <2> QED
    BY <1>1, <1>2, <2>1
<1> HIDE DEF h
<1> QED
  BY <1>8, <1>9, <1>11 DEF VisitedBy

\* What is known between two pages.
Knows(walk, query, q) ==
  /\ walk \in Scans
  /\ \E p : OnLineage(walk, query.cursor, q, p)
  /\ Finds(walk, query, Passed(query, q))

\* A page that is read from its last event to lo.
LEMMA PageRead ==
  ASSUME Measured, NEW query, IsQuery(query), NEW walk, walk \in Scans,
         NEW lo \in Nat \ {0}, NEW n \in Nat, (lo + n) - 1 <= query.cursor
  PROVE  LET read == VisitAll(walk, query, [i \in 1..n |-> (lo + i) - 1])
         IN  read \in Scans /\ (Knows(walk, query, (lo + n) - 1) => Knows(read, query, lo - 1))
<1> DEFINE top == (lo + n) - 1
           read == VisitAll(walk, query, [i \in 1..n |-> (lo + i) - 1])
<1>1. query.cursor \in Nat /\ Len(ledger) \in Nat /\ query.cursor <= Len(ledger) /\ top <= Len(ledger)
  BY PassedIs
<1>2. PICK h : VisitedBy(h, walk, query, lo, n) /\ read = h[1]
  <2>1. \E h : VisitedBy(h, walk, query, lo, n)
    BY <1>1, PageSteps
  <2> QED
    BY <2>1 DEF VisitedBy
<1> HIDE DEF read
<1> DEFINE good == {m \in 0..n : /\ h[(n + 1) - m] \in Scans
                                 /\ Knows(walk, query, top) => Knows(h[(n + 1) - m], query, top - m)}
<1>3. 0 \in good
  <2>1. (n + 1) - 0 = n + 1 /\ 0 \in 0..n /\ top - 0 = top
    OBVIOUS
  <2> HIDE DEF top
  <2> QED
    BY <1>2, <2>1 DEF VisitedBy
<1>4. ASSUME NEW m \in 0..(n - 1), m \in good PROVE m + 1 \in good
  <2>1. PICK k : k = (n + 1) - (m + 1)
    OBVIOUS
  <2>2. PICK q : q = top - m
    OBVIOUS
  <2>3. /\ k \in 1..n /\ k + 1 = (n + 1) - m /\ m + 1 \in 0..n
        /\ q = (lo + k) - 1 /\ q \in 1..query.cursor /\ q \in 1..Len(ledger) /\ top - (m + 1) = q - 1
    BY <1>1, <2>1, <2>2
  <2> HIDE DEF top
  <2>4. PICK w : w = h[k + 1]
    OBVIOUS
  <2>5. w \in Scans /\ (Knows(walk, query, top) => Knows(w, query, q))
    BY <1>4, <2>2, <2>3, <2>4
  <2>6. h[k] = Visit(w, query, q)
    BY <1>2, <2>3, <2>4 DEF VisitedBy
  <2>7. h[k] \in Scans
    BY <2>3, <2>5, <2>6, VisitCases
  <2>8. ASSUME Knows(walk, query, top) PROVE Knows(h[k], query, q - 1)
    <3>1. PICK p : OnLineage(w, query.cursor, q, p) /\ Finds(w, query, Passed(query, q))
      BY <2>5, <2>8 DEF Knows
    <3>2. (\E r : OnLineage(Visit(w, query, q), query.cursor, q - 1, r))
          /\ Finds(Visit(w, query, q), query, Passed(query, q - 1))
      BY <2>3, <2>5, <3>1, VisitKeeps
    <3> QED
      BY <2>6, <2>7, <3>2 DEF Knows
  <2> QED
    BY <2>1, <2>3, <2>7, <2>8
<1>5. n \in good
  <2> HIDE DEF good
  <2>1. \A m \in 0..n : m \in good
    BY <1>3, <1>4, UpTo
  <2> QED
    BY <2>1
<1>6. (n + 1) - n = 1 /\ top - n = lo - 1
  OBVIOUS
<1> HIDE DEF top
<1>7. read \in Scans /\ (Knows(walk, query, top) => Knows(read, query, lo - 1))
  BY <1>2, <1>5, <1>6
<1> QED
  BY <1>7 DEF top, read

\* Where a page begins, and where the next one ends.
FirstOf(walk) == Max({1, walk.hi - PageSize + 1})
ReadOf(walk, query) == VisitAll(walk, query, [i \in 1..(walk.hi - FirstOf(walk) + 1) |-> FirstOf(walk) + i - 1])
NextOf(walk, query) ==
  Min({FirstOf(walk) - 1, query.cursor} \cup {window[1] : window \in ReadOf(walk, query).windows})

LEMMA PageIs ==
  ASSUME NEW walk, NEW query
  PROVE  Page(walk, query) = [ReadOf(walk, query) EXCEPT !.hi = NextOf(walk, query),
                                                         !.done = @ \/ NextOf(walk, query) <= query.parent]
BY Zenon DEF Page, NextOf, ReadOf, FirstOf, VisitAll

\* A walk whose next page ends within the run.
Within(walk, query) == walk \in Scans /\ walk.hi <= query.cursor

LEMMA PageKeeps ==
  ASSUME Measured, NEW query, IsQuery(query), NEW walk, Within(walk, query), walk.hi >= 1
  PROVE  /\ Within(Page(walk, query), query)
         /\ Page(walk, query).hi < walk.hi
         /\ Page(walk, query).hi <= query.parent => Page(walk, query).done = TRUE
         /\ Knows(walk, query, walk.hi) => Knows(Page(walk, query), query, Page(walk, query).hi)
<1>1. /\ query.cursor \in Nat /\ query.cursor >= 1 /\ query.parent \in Nat /\ PageSize \in Nat \ {0}
      /\ walk \in Scans /\ walk.hi \in Nat /\ walk.hi <= query.cursor /\ walk.hi >= 1
  BY PassedIs, ResumeContextAssumption DEF IsQuery, Within, Scans
<1>2. PICK hi \in Nat : hi = walk.hi
  BY <1>1
<1>3. PICK lo \in Nat \ {0} : lo = FirstOf(walk) /\ lo <= hi
  <2>1. Max({1, hi - PageSize + 1}) = IF hi - PageSize + 1 <= 1 THEN 1 ELSE hi - PageSize + 1
    <3>1. CASE hi - PageSize + 1 <= 1
      <4>1. 1 \in {1, hi - PageSize + 1} /\ \A y \in {1, hi - PageSize + 1} : y <= 1
        BY <1>1, <3>1
      <4>2. \A x \in {1, hi - PageSize + 1} : (\A y \in {1, hi - PageSize + 1} : y <= x) => x = 1
        BY <1>1, <3>1
      <4> QED
        BY <3>1, <4>1, <4>2 DEF Max
    <3>2. CASE ~(hi - PageSize + 1 <= 1)
      <4> DEFINE first == hi - PageSize + 1
      <4>1. first \in {1, first} /\ \A y \in {1, first} : y <= first
        BY <1>1, <3>2
      <4>2. \A x \in {1, first} : (\A y \in {1, first} : y <= x) => x = first
        BY <1>1, <3>2
      <4> QED
        BY <3>2, <4>1, <4>2 DEF Max
    <3> QED
      BY <3>1, <3>2
  <2> QED
    BY <1>1, <1>2, <2>1 DEF FirstOf
<1>4. PICK n \in Nat : n = hi - lo + 1
  BY <1>2, <1>3
<1>5. (lo + n) - 1 = hi /\ hi <= query.cursor
  BY <1>1, <1>2, <1>3, <1>4
<1>6. PICK read : read = ReadOf(walk, query)
  OBVIOUS
<1>7. read \in Scans /\ (Knows(walk, query, hi) => Knows(read, query, lo - 1))
  <2>1. read = VisitAll(walk, query, [i \in 1..n |-> (lo + i) - 1])
    <3>1. read = VisitAll(walk, query, [i \in 1..n |-> lo + i - 1])
      BY <1>2, <1>3, <1>4, <1>6 DEF ReadOf
    <3> QED
      BY <3>1
  <2> QED
    BY <1>1, <1>5, <2>1, PageRead
<1>8. PICK next : next = NextOf(walk, query)
  OBVIOUS
<1> DEFINE ends == {lo - 1, query.cursor} \cup {window[1] : window \in read.windows}
<1>9. next \in ends /\ next \in Nat /\ \A i \in ends : next <= i
  <2>1. ends \in SUBSET Nat /\ ends # {}
    <3>1. \A window \in read.windows : window[1] \in Nat
      BY <1>7 DEF Scans
    <3> QED
      BY <1>1, <3>1
  <2>2. next = Min(ends)
    BY <1>3, <1>6, <1>8 DEF NextOf
  <2> HIDE DEF ends
  <2> QED
    BY <2>1, <2>2, LeastOf
<1>10. next <= lo - 1 /\ next < hi /\ next <= query.cursor
  BY <1>1, <1>3, <1>9
<1>11. PICK end \in BOOLEAN : end = (read.done \/ next <= query.parent)
  <2>1. (next <= query.parent) \in BOOLEAN
    BY <1>1, <1>9
  <2>2. read.done \in BOOLEAN
    BY <1>7 DEF Scans
  <2>3. (read.done \/ next <= query.parent) \in BOOLEAN
    BY <2>1, <2>2, Zenon
  <2> QED
    BY <2>3, Zenon
<1>12. PICK to : to = Page(walk, query)
  OBVIOUS
<1>13. to = [read EXCEPT !.hi = next, !.done = end]
  BY <1>6, <1>8, <1>11, <1>12, PageIs, Zenon
<1>14. /\ to \in Scans /\ to.hi = next /\ to.done = end
       /\ to.cited = read.cited /\ to.lastFailure = read.lastFailure /\ to.delta = read.delta
       /\ to.deltaChars = read.deltaChars /\ to.oversized = read.oversized
       /\ to.marks = read.marks /\ to.windows = read.windows
  BY <1>7, <1>9, <1>13 DEF Scans
<1>15. next <= query.parent => end = TRUE
  BY <1>11, Zenon
<1>16. read.done = TRUE => end = TRUE
  BY <1>11, Zenon
<1>17. end = FALSE => read.done = FALSE
  BY <1>7, <1>16 DEF Scans
<1>18. end = TRUE /\ read.done = FALSE => next <= query.parent
  BY <1>11, Zenon
<1>19. ASSUME Knows(walk, query, hi) PROVE Knows(to, query, next)
  <2>1. PICK p : OnLineage(read, query.cursor, lo - 1, p)
    BY <1>7, <1>19 DEF Knows
  <2>2. Finds(read, query, Passed(query, lo - 1))
    BY <1>7, <1>19 DEF Knows
  <2>3. /\ p = BackFrom(read.marks, query.cursor).position /\ p \in 0..query.cursor /\ p \in Nat
        /\ read.windows = BackFrom(read.marks, query.cursor).windows
        /\ \A window \in read.windows : p <= window[1]
        /\ p = query.cursor \/ \E window \in read.windows : window[1] = p
        /\ \A s \in 1..(lo - 1) : Abandoned(read.windows, s) <=> s > p
        /\ History[IF p <= lo - 1 THEN p ELSE lo - 1] = {s \in History[query.cursor] : s <= lo - 1}
    BY <1>1, <2>1 DEF OnLineage
  <2>4. next = IF p <= lo - 1 THEN p ELSE lo - 1
    <3>1. p \in ends
      BY <2>3
    <3>2. \A i \in ends : i = lo - 1 \/ p <= i
      BY <1>1, <2>3
    <3>3. next <= p
      BY <1>9, <3>1
    <3>4. next = lo - 1 \/ p <= next
      BY <1>9, <3>2
    <3> HIDE DEF ends
    <3> QED
      BY <1>3, <1>9, <1>10, <2>3, <3>3, <3>4
  <2>5. History[query.cursor] \in SUBSET (1..query.cursor) /\ \A s \in History[query.cursor] : s \in Nat
    BY PassedIs
  <2>6. History[next] \in SUBSET (1..next)
    <3>1. IsHistory(ledger, History) /\ IsRun(ledger) /\ Backward(ledger) /\ next \in 0..Len(ledger)
      BY <1>1, <1>9, <1>10, HistoryIsHistory, PassedIs DEF Measured, IsQuery
    <3> QED
      BY <3>1, HistoryAt
  <2>7. \A s \in History[query.cursor] : s <= lo - 1 <=> s <= next
    <3> TAKE s \in History[query.cursor]
    <3>1. s <= lo - 1 => s \in History[next]
      BY <2>3, <2>4
    <3>2. s \in History[next] => s <= next
      BY <2>6
    <3> QED
      BY <1>3, <1>9, <1>10, <2>5, <3>1, <3>2
  <2>8. Passed(query, next) = Passed(query, lo - 1)
    <3>1. \A s \in History[query.cursor] : s > lo - 1 <=> s > next
      BY <1>3, <1>9, <2>5, <2>7
    <3> QED
      BY <3>1 DEF Passed
  <2>9. OnLineage(to, query.cursor, next, p)
    <3>1. next <= p
      BY <1>3, <2>3, <2>4
    <3>2. History[IF p <= next THEN p ELSE next] = {s \in History[query.cursor] : s <= next}
      <4>1. (IF p <= next THEN p ELSE next) = next
        BY <1>9, <2>3, <3>1
      <4>2. History[next] = {s \in History[query.cursor] : s <= lo - 1}
        BY <2>3, <2>4
      <4> QED
        BY <2>7, <4>1, <4>2
    <3>3. \A s \in 1..next : Abandoned(read.windows, s) <=> s > p
      <4>1. 1..next \subseteq 1..(lo - 1)
        BY <1>3, <1>9, <1>10
      <4> QED
        BY <2>3, <4>1
    <3> QED
      BY <1>14, <2>3, <3>2, <3>3 DEF OnLineage
  <2>10. Finds(to, query, Passed(query, next))
    <3>1. Finds(read, query, Passed(query, next))
      BY <2>2, <2>8
    <3>2. CASE read.done = TRUE
      BY <1>14, <1>16, <3>1, <3>2 DEF Finds, DeltaOf
    <3>3. CASE read.done = FALSE /\ end = FALSE
      BY <1>14, <3>1, <3>3 DEF Finds, DeltaOf
    <3>4. CASE read.done = FALSE /\ end = TRUE
      <4>1. next <= query.parent
        BY <1>18, <3>4
      <4>2. PICK F : F = Passed(query, next)
        OBVIOUS
      <4>3. /\ \A s \in F : s > query.parent
            /\ read.deltaChars = Width(Fitting(F, query)) /\ read.deltaChars <= query.room
            /\ DeltaOf(read, query, F)
            /\ read.cited = query.cited \cap F /\ NewestFailure(read.lastFailure, F)
        BY <3>1, <3>4, <4>2 DEF Finds
      <4>4. MetBy(query) = F
        BY <1>9, <4>1, <4>2, <4>3, ParentPassed
      <4>5. Finds(to, query, F)
        BY <1>14, <3>4, <4>3, <4>4 DEF Finds, DeltaOf
      <4> QED
        BY <4>2, <4>5
    <3> QED
      BY <1>7, <3>2, <3>3, <3>4 DEF Scans
  <2> QED
    BY <1>14, <2>9, <2>10 DEF Knows
<1> QED
  BY <1>2, <1>10, <1>12, <1>14, <1>15, <1>19 DEF Within

-----------------------------------------------------------------------------
(* The whole walk *)

\* Where the walk begins.
Start(query) ==
  [hi |-> query.cursor, cited |-> {}, lastFailure |-> 0, delta |-> <<>>, deltaChars |-> 0,
   oversized |-> {}, done |-> query.parent >= query.cursor, marks |-> <<>>, windows |-> {}]

LEMMA StartKnows ==
  ASSUME Measured, NEW query, IsQuery(query)
  PROVE  /\ Within(Start(query), query) /\ Start(query).hi = query.cursor
         /\ Knows(Start(query), query, query.cursor)
         /\ query.cursor <= query.parent => Start(query).done = TRUE
<1> DEFINE c == query.cursor
           H == History[c]
<1>1. c \in Nat /\ query.parent \in Nat /\ query.room \in Nat /\ H \in SUBSET (1..c) /\ Len(ledger) \in Nat
  BY PassedIs DEF IsQuery
<1>2. PICK done \in BOOLEAN : done = (query.parent >= c)
  <2>1. PICK parent, cursor \in Nat : parent = query.parent /\ cursor = c
    BY <1>1
  <2>2. (parent >= cursor) \in BOOLEAN
    BY <1>1, <2>1
  <2> QED
    BY <2>1, <2>2, Zenon
<1>3. PICK walk : walk = Start(query)
  OBVIOUS
<1>4. walk = [hi |-> c, cited |-> {}, lastFailure |-> 0, delta |-> <<>>, deltaChars |-> 0,
              oversized |-> {}, done |-> done, marks |-> <<>>, windows |-> {}]
  BY <1>2, <1>3, Zenon DEF Start
<1>5. <<>> \in Seq(Nat) /\ <<>> \in Seq(Marks) /\ DOMAIN <<>> = {}
  OBVIOUS
<1>6. /\ walk \in Scans /\ walk.hi = c /\ walk.cited = {} /\ walk.lastFailure = 0 /\ walk.delta = <<>>
      /\ walk.deltaChars = 0 /\ walk.oversized = {} /\ walk.done = done /\ walk.marks = <<>> /\ walk.windows = {}
  BY <1>1, <1>4, <1>5 DEF Scans
<1>7. OnLineage(walk, c, c, c)
  <2>1. BackFrom(<<>>, c) = [position |-> c, windows |-> {}]
    BY <1>1, <1>5, BackSteps
  <2>2. PICK back : back = BackFrom(walk.marks, c)
    OBVIOUS
  <2>3. back.position = c /\ back.windows = {}
    BY <1>6, <2>1, <2>2
  <2>4. c \in 0..c /\ c <= c /\ \A s \in 1..c : ~(s > c) /\ s <= c
    BY <1>1
  <2>5. \A s : ~Abandoned(walk.windows, s)
    BY <1>6 DEF Abandoned
  <2>6. History[IF c <= c THEN c ELSE c] = {s \in H : s <= c}
    BY <1>1, <2>4
  <2> HIDE DEF c
  <2> QED
    BY <1>6, <2>2, <2>3, <2>4, <2>5, <2>6 DEF OnLineage
<1>8. Finds(walk, query, {})
  <2>1. Fitting({}, query) = {}
    BY DEF Fitting
  <2>2. ToSet(walk.delta) = {} /\ DOMAIN walk.delta = {}
    BY <1>5, <1>6 DEF ToSet
  <2>3. DeltaOf(walk, query, {})
    BY <1>6, <2>1, <2>2 DEF DeltaOf
  <2>4. NewestFailure(walk.lastFailure, {})
    BY <1>6 DEF NewestFailure
  <2>5. ASSUME walk.done = TRUE PROVE MetBy(query) = {}
    <3>1. query.parent >= c
      BY <1>2, <1>6, <2>5, Zenon
    <3>2. SinceParent(query) = {}
      BY <1>1, <3>1 DEF SinceParent
    <3> QED
      BY <3>2 DEF MetBy
  <2>6. Width({}) = 0
    BY <1>1, Widths DEF Measured
  <2> QED
    <3>1. walk.cited = query.cited \cap {} /\ walk.deltaChars = Width(Fitting({}, query))
          /\ walk.deltaChars <= query.room
      <4>1. query.cited \cap {} = {}
        OBVIOUS
      <4>2. walk.deltaChars = 0 /\ Width(Fitting({}, query)) = 0 /\ 0 <= query.room
        <5>1. Width(Fitting({}, query)) = 0
          BY <2>1, <2>6, Zenon
        <5>2. 0 <= query.room
          BY <1>1
        <5>3. walk.deltaChars = 0
          BY <1>6
        <5> QED
          BY <5>1, <5>2, <5>3
      <4> QED
        BY <1>6, <4>1, <4>2
    <3>2. walk.done = TRUE => MetBy(query) \subseteq {} /\ DeltaOf(walk, query, MetBy(query))
      BY <2>3, <2>5
    <3> QED
      BY <2>3, <2>4, <3>1, <3>2 DEF Finds
<1>9. Passed(query, c) = {}
  BY <1>1 DEF Passed
<1>10. Knows(walk, query, c)
  BY <1>6, <1>7, <1>8, <1>9 DEF Knows
<1>11. c <= query.parent => done = TRUE
  <2>1. c <= query.parent => query.parent >= c
    BY <1>1
  <2> QED
    BY <1>2, <2>1, Zenon
<1> QED
  BY <1>1, <1>3, <1>6, <1>10, <1>11 DEF Within

\* A page, unless the walk has ended.
PageOf(walk, query) == IF walk.hi < 1 \/ Complete(walk, query) THEN walk ELSE Page(walk, query)
ScannedBy(h, query) ==
  /\ h[0] = Start(query)
  /\ \A k \in 1..query.cursor : h[k] = PageOf(h[k - 1], query)
  /\ ScanRelevantHistory(query) = h[query.cursor]

LEMMA PageOfWithin ==
  ASSUME Measured, NEW query, IsQuery(query), NEW walk, Within(walk, query)
  PROVE  Within(PageOf(walk, query), query)
<1>1. walk.hi \in Nat
  BY DEF Within, Scans
<1>2. ~(walk.hi < 1) => walk.hi >= 1
  BY <1>1
<1> QED
  BY <1>2, PageKeeps DEF PageOf

LEMMA ScanSteps ==
  ASSUME Measured, NEW query, IsQuery(query)
  PROVE  \E h : ScannedBy(h, query)
<1> DEFINE c == query.cursor
           D == 1..c
           S == {w \in Scans : Within(w, query)}
           start == Start(query)
           pages == [page \in D |-> page]
           step == [k \in D |-> [w \in S |-> PageOf(w, query)]]
           IsIter(g) == g = [s \in SUBSET D |->
                               IF s = {} THEN start
                               ELSE IF g[s \ {Max(s)}].hi < 1 \/ Complete(g[s \ {Max(s)}], query)
                                    THEN g[s \ {Max(s)}] ELSE Page(g[s \ {Max(s)}], query)]
<1>1. c \in Nat /\ DOMAIN pages = D
  BY PassedIs
<1>2. ScanRelevantHistory(query) = (CHOOSE g : IsIter(g))[DOMAIN pages]
  BY <1>1, Zenon DEF ScanRelevantHistory, Start, FoldLeft, MapThenFoldSet
<1>3. \A s \in SUBSET D : s # {} => Max(s) \in s
  <2> TAKE s \in SUBSET D
  <2> HAVE s # {}
  <2>1. s \in SUBSET (0..c)
    BY <1>1
  <2> QED
    BY <1>1, <2>1, GreatestOf
<1>4. step \in [D -> [S -> S]]
  <2>1. \A w \in S : PageOf(w, query) \in S
    BY PageOfWithin DEF Within
  <2> QED
    BY <2>1
<1>5. \E g : IsIter(g)
  <2>1. start \in S
    BY StartKnows DEF Within
  <2> HIDE DEF step, S, start
  <2>2. PICK g \in [SUBSET D -> S] : FoldsUp(g, D, start, step)
    BY <1>1, <1>4, <2>1, FoldUp
  <2> HIDE DEF D
  <2>3. \A s \in SUBSET D :
          g[s] = IF s = {} THEN start
                 ELSE IF g[s \ {Max(s)}].hi < 1 \/ Complete(g[s \ {Max(s)}], query)
                      THEN g[s \ {Max(s)}] ELSE Page(g[s \ {Max(s)}], query)
    <3> TAKE s \in SUBSET D
    <3>1. s = {} => g[s] = start
      BY <2>2 DEF FoldsUp
    <3>2. ASSUME s # {} PROVE g[s] = PageOf(g[s \ {Max(s)}], query)
      <4>1. g[s] = step[Max(s)][g[s \ {Max(s)}]]
        BY <2>2, <3>2 DEF FoldsUp
      <4>2. Max(s) \in D /\ g[s \ {Max(s)}] \in S
        BY <1>3, <2>2, <3>2
      <4> QED
        BY <4>1, <4>2 DEF step
    <3> QED
      BY <3>1, <3>2 DEF PageOf
  <2>5. g = [s \in SUBSET D |-> g[s]]
    BY <2>2
  <2>6. IsIter(g)
    BY <2>3, <2>5, Zenon
  <2> QED
    BY <2>6
<1> DEFINE G == CHOOSE g : IsIter(g)
           h == [k \in 0..c |-> G[1..k]]
<1>6. IsIter(G)
  BY <1>5
<1>7. \A k \in 0..c : 1..k \in SUBSET D
  BY <1>1
<1>8. h[0] = start
  <2>1. 1..0 = {} /\ 0 \in 0..c
    BY <1>1
  <2> HIDE DEF G, start
  <2> QED
    BY <1>6, <1>7, <2>1
<1>9. \A k \in 1..c : h[k] = PageOf(h[k - 1], query)
  <2> TAKE k \in 1..c
  <2>1. 1..k \in SUBSET (0..k) /\ k \in 1..k /\ k \in Nat /\ \A i \in 1..k : i <= k
    BY <1>1
  <2>2. Max(1..k) = k
    <3>1. Max(1..k) \in 1..k /\ k <= Max(1..k)
      BY <2>1, GreatestOf
    <3> QED
      BY <2>1, <3>1
  <2>3. (1..k) \ {k} = 1..(k - 1) /\ k - 1 \in 0..c /\ k \in 0..c
    BY <1>1, <2>1
  <2> HIDE DEF G, start
  <2>5. 1..k \in SUBSET D /\ 1..k # {}
    BY <1>1, <1>7, <2>1, <2>3
  <2> HIDE DEF D
  <2>6. G[1..k] = IF 1..k = {} THEN start
                  ELSE IF G[(1..k) \ {Max(1..k)}].hi < 1 \/ Complete(G[(1..k) \ {Max(1..k)}], query)
                       THEN G[(1..k) \ {Max(1..k)}] ELSE Page(G[(1..k) \ {Max(1..k)}], query)
    BY <1>6, <2>5, Zenon
  <2>4. G[1..k] = PageOf(G[1..(k - 1)], query)
    BY <2>2, <2>3, <2>5, <2>6 DEF PageOf
  <2> QED
    BY <2>3, <2>4
<1>11. ScanRelevantHistory(query) = h[c]
  <2>1. c \in 0..c
    BY <1>1
  <2> QED
    BY <1>1, <1>2, <2>1
<1> HIDE DEF h
<1> QED
  BY <1>8, <1>9, <1>11 DEF ScannedBy

\* The walk finds what the history holds.
LEMMA ScanFinds ==
  ASSUME Measured, NEW query, IsQuery(query), NEW walk, walk = ScanRelevantHistory(query)
  PROVE  /\ walk \in Scans
         /\ walk.cited = query.cited \cap History[query.cursor]
         /\ NewestFailure(walk.lastFailure, History[query.cursor])
         /\ DeltaOf(walk, query, MetBy(query))
<1> DEFINE c == query.cursor
           H == History[c]
           Fine(w) == /\ Within(w, query) /\ Knows(w, query, w.hi)
                      /\ w.hi <= query.parent => w.done = TRUE
<1>1. c \in Nat /\ query.parent \in Nat /\ H \in SUBSET (1..c)
  BY PassedIs DEF IsQuery
<1>2. PICK h : ScannedBy(h, query)
  BY ScanSteps
<1> DEFINE good == {k \in 0..c : /\ Fine(h[k])
                                 /\ h[k].hi <= c - k \/ h[k].hi < 1 \/ Complete(h[k], query)}
<1>3. 0 \in good
  <2>1. h[0] = Start(query) /\ 0 \in 0..c /\ c - 0 = c
    BY <1>1, <1>2 DEF ScannedBy
  <2>2. Fine(h[0]) /\ h[0].hi = c
    BY <2>1, StartKnows
  <2> QED
    BY <1>1, <2>1, <2>2
<1>4. ASSUME NEW k \in 0..(c - 1), k \in good PROVE k + 1 \in good
  <2>1. PICK w : w = h[k]
    OBVIOUS
  <2>2. k + 1 \in 1..c /\ k + 1 \in 0..c /\ (k + 1) - 1 = k
    BY <1>1
  <2>3. h[k + 1] = PageOf(w, query)
    BY <1>2, <2>1, <2>2 DEF ScannedBy
  <2>4. Fine(w) /\ (w.hi <= c - k \/ w.hi < 1 \/ Complete(w, query))
    BY <1>4, <2>1
  <2>5. CASE w.hi < 1 \/ Complete(w, query)
    <3>1. h[k + 1] = w
      BY <2>3, <2>5 DEF PageOf
    <3> QED
      BY <2>2, <2>4, <2>5, <3>1
  <2>6. CASE ~(w.hi < 1) /\ ~Complete(w, query)
    <3>1. h[k + 1] = Page(w, query)
      BY <2>3, <2>6 DEF PageOf
    <3>2. w.hi \in Nat /\ w.hi >= 1 /\ w.hi <= c - k
      BY <2>4, <2>6 DEF Within, Scans
    <3>3. PICK v : v = Page(w, query)
      OBVIOUS
    <3>4. Fine(v) /\ v.hi < w.hi
      BY <2>4, <3>2, <3>3, PageKeeps
    <3>5. v.hi \in Nat
      BY <3>4 DEF Within, Scans
    <3>6. v.hi <= c - (k + 1)
      BY <1>1, <3>2, <3>4, <3>5
    <3> QED
      BY <2>2, <3>1, <3>3, <3>4, <3>6
  <2> QED
    BY <2>5, <2>6
<1>5. c \in good
  <2> HIDE DEF good, c
  <2>1. \A k \in 0..c : k \in good
    BY <1>1, <1>3, <1>4, UpTo
  <2> QED
    BY <1>1, <2>1
<1>6. walk = h[c]
  BY <1>2 DEF ScannedBy
<1>7. Fine(walk) /\ (walk.hi <= c - c \/ walk.hi < 1 \/ Complete(walk, query))
  BY <1>5, <1>6
<1>8. walk \in Scans /\ walk.hi \in Nat /\ Finds(walk, query, Passed(query, walk.hi))
  BY <1>7 DEF Within, Knows, Scans
<1>9. CASE walk.hi < 1 \/ walk.hi <= c - c
  <2>1. walk.hi = 0
    BY <1>1, <1>8, <1>9
  <2>2. walk.done = TRUE
    BY <1>1, <1>7, <2>1
  <2>3. Passed(query, 0) = H
    BY <1>1 DEF Passed
  <2> QED
    BY <1>8, <2>1, <2>2, <2>3 DEF Finds
<1>10. CASE Complete(walk, query)
  <2>1. walk.done = TRUE
    BY <1>8, <1>10, Zenon DEF Complete, Scans
  <2>2. walk.lastFailure # 0 /\ walk.cited = query.cited
    BY <1>10 DEF Complete
  <2>3. PICK q \in Nat : q = walk.hi
    BY <1>8
  <2>4. PICK F : F = Passed(query, q)
    OBVIOUS
  <2>5. /\ walk.cited = query.cited \cap F /\ NewestFailure(walk.lastFailure, F)
        /\ DeltaOf(walk, query, MetBy(query))
    BY <1>8, <2>1, <2>3, <2>4 DEF Finds
  <2>6. F \subseteq H /\ \A s \in H : s \in Nat /\ (s > q => s \in F)
    BY <1>1, <2>4 DEF Passed
  <2>7. walk.cited = query.cited \cap H
    BY <2>2, <2>5, <2>6
  <2>8. NewestFailure(walk.lastFailure, H)
    <3>1. /\ walk.lastFailure \in F /\ IsFailure(ledger[walk.lastFailure])
          /\ \A s \in F : IsFailure(ledger[s]) => s <= walk.lastFailure
      BY <2>2, <2>5 DEF NewestFailure
    <3>2. walk.lastFailure > q /\ walk.lastFailure \in Nat
      BY <2>4, <2>6, <3>1 DEF Passed
    <3>3. \A s \in H : IsFailure(ledger[s]) => s <= walk.lastFailure
      <4> TAKE s \in H
      <4>1. ~(s > q) => s <= walk.lastFailure
        BY <2>3, <2>6, <3>2
      <4> QED
        BY <2>6, <3>1, <4>1
    <3> QED
      BY <2>2, <2>6, <3>1, <3>3 DEF NewestFailure
  <2> QED
    BY <1>8, <2>5, <2>7, <2>8
<1> QED
  BY <1>7, <1>8, <1>9, <1>10

-----------------------------------------------------------------------------
(* The invariant of a run with claims *)

\* Every event is one that has a width.
ContextInv ==
  /\ HistInv
  /\ Len(ledger) <= MaxLedger
  /\ \A i \in DOMAIN ledger : ledger[i] \in Written

LEMMA ContextInvInit == ContextInit => ContextInv
<1> SUFFICES ASSUME ContextInit PROVE ContextInv
  OBVIOUS
<1>1. Init /\ ledger = <<>>
  BY DEF ContextInit, Init
<1>2. Len(ledger) = 0 /\ DOMAIN ledger = {} /\ MaxLedger \in Nat
  BY <1>1, RunHistoryAssumption
<1> QED
  BY <1>1, <1>2, HistInvInit DEF ContextInv

LEMMA ContextInvNext == ContextInv /\ [ContextNext]_contextVars => ContextInv'
<1> SUFFICES ASSUME ContextInv, [ContextNext]_contextVars PROVE ContextInv'
  OBVIOUS
<1>1. [Next]_vars
  <2>1. CASE ContextNext
    BY <2>1 DEF ContextNext, ClaimedCheckpoint, Next
  <2>2. CASE UNCHANGED contextVars
    BY <2>2 DEF contextVars, vars
  <2> QED
    BY <2>1, <2>2
<1>2. HistInv /\ HistInv' /\ IsRun(ledger) /\ Len(ledger) <= MaxLedger /\ \A i \in DOMAIN ledger : ledger[i] \in Written
  BY <1>1, HistInvNext DEF ContextInv, HistInv
<1>3. Len(ledger) \in Nat /\ DOMAIN ledger = 1..Len(ledger) /\ MaxLedger \in Nat
  BY <1>2, RunHistoryAssumption DEF IsRun
<1>4. ASSUME NEW e \in Written, ledger' = Append(ledger, e), HeadSeq < MaxLedger PROVE ContextInv'
  <2>1. /\ Len(ledger') = Len(ledger) + 1 /\ DOMAIN ledger' = 1..(Len(ledger) + 1)
        /\ ledger'[Len(ledger) + 1] = e /\ \A i \in 1..Len(ledger) : ledger'[i] = ledger[i]
    BY <1>2, <1>3, <1>4 DEF IsRun
  <2>2. Len(ledger) + 1 <= MaxLedger
    BY <1>3, <1>4 DEF HeadSeq
  <2>3. \A i \in 1..(Len(ledger) + 1) : i \in 1..Len(ledger) \/ i = Len(ledger) + 1
    BY <1>3
  <2>4. \A i \in DOMAIN ledger' : ledger'[i] \in Written
    BY <1>2, <1>3, <1>4, <2>1, <2>3
  <2> QED
    BY <1>2, <2>1, <2>2, <2>4 DEF ContextInv
<1>5. ASSUME NEW event \in alphabet, Record(event) PROVE ContextInv'
  <2>1. event \in Written
    BY <1>2 DEF HistInv, Written
  <2> QED
    BY <1>4, <1>5, <2>1 DEF Record
<1>6. ASSUME NEW c \in Checkpoints, Restore(c) PROVE ContextInv'
  <2>1. c \in 1..Len(ledger) /\ HeadSeq < MaxLedger /\ ledger' = Append(ledger, Marker("restore", c))
    BY <1>2, <1>6 DEF HistInv, HeadSeq, Restore
  <2>2. c \in 1..MaxLedger
    BY <1>2, <1>3, <2>1
  <2>3. Marker("restore", c) \in Written
    BY <2>2, Zenon DEF Written
  <2> QED
    BY <1>4, <2>1, <2>3
<1>7. CASE Checkpoint
  <2>1. Marker("checkpoint", 0) \in Written
    BY Zenon DEF Written
  <2> QED
    BY <1>4, <1>7, <2>1 DEF Checkpoint
<1>8. CASE UNCHANGED vars
  BY <1>2, <1>8 DEF ContextInv, vars
<1> QED
  BY <1>1, <1>5, <1>6, <1>7, <1>8 DEF Next

\* What ScanFindsHistory says of a checkpoint.
FoundFor(c, query, walk) ==
  LET failures == {seq \in History[c] : IsFailure(ledger[seq])}
      since == {seq \in History[c] : seq > query.parent}
      Fits(seq) == EventChars(ledger[seq]) <= query.room
      Newer(seq) == Width({other \in since : other > seq /\ Fits(other)})
      met == {seq \in since : Newer(seq) <= query.room}
  IN  /\ walk.cited = query.cited \cap History[c]
      /\ walk.lastFailure = (IF failures = {} THEN 0 ELSE Max(failures))
      /\ ToSet(walk.delta) = {seq \in met : Fits(seq)}
      /\ \A i, j \in DOMAIN walk.delta : i < j => walk.delta[i] > walk.delta[j]
      /\ walk.oversized = {seq \in met : ~Fits(seq)} \ (query.cited \cup {walk.lastFailure})

LEMMA CheckpointFound ==
  ASSUME ContextInv, NEW c \in Checkpoints, NEW limit \in Budgets,
         NEW query, query = QueryAt(c, CitedBy(SelectedFrom[c], DOMAIN SelectedFrom[c].claims), limit), NEW walk, walk = ScanRelevantHistory(query)
  PROVE  FoundFor(c, query, walk)
<1>2. query.cursor = c /\ query.parent = ParentOf(c) /\ query.room = limit
  BY DEF QueryAt
<1>3. /\ IsRun(ledger) /\ Backward(ledger) /\ Len(ledger) \in Nat /\ DOMAIN ledger = 1..Len(ledger)
      /\ c \in 1..Len(ledger) /\ limit \in Nat
  BY ResumeContextAssumption DEF ContextInv, HistInv, IsRun, HeadSeq
<1>4. Measured
  BY <1>3, ResumeContextAssumption DEF ContextInv, Measured
<1>5. ParentOf(c) \in Nat
  <2> DEFINE moves == {i \in 1..(c - 1) : ledger[i].role \in {"checkpoint", "restore"}}
  <2>1. ASSUME moves # {} PROVE Max(moves) \in Nat /\ ledger[Max(moves)].target \in Nat
    <3>1. moves \in SUBSET (0..(c - 1)) /\ c - 1 \in Nat
      BY <1>3
    <3> HIDE DEF moves
    <3>2. Max(moves) \in moves
      BY <2>1, <3>1, GreatestOf
    <3>3. Max(moves) \in 1..Len(ledger)
      BY <1>3, <3>2 DEF moves
    <3>4. \A i \in 1..Len(ledger) : ledger[i].target \in Nat
      <4>1. \A i \in 1..Len(ledger) : ledger[i] \in Events
        BY <1>3 DEF IsRun
      <4> QED
        BY <4>1 DEF Events
    <3> QED
      BY <3>3, <3>4
  <2>2. ParentOf(c) = IF moves = {} THEN 0
                      ELSE IF ledger[Max(moves)].role = "restore" THEN ledger[Max(moves)].target ELSE Max(moves)
    BY DEF ParentOf
  <2> HIDE DEF moves
  <2> QED
    BY <2>1, <2>2
<1>6. IsQuery(query)
  BY <1>2, <1>3, <1>5 DEF IsQuery
<1>8. /\ walk.cited = query.cited \cap History[c] /\ NewestFailure(walk.lastFailure, History[c])
      /\ DeltaOf(walk, query, MetBy(query))
  BY <1>2, <1>4, <1>6, ScanFinds
<1> DEFINE failures == {seq \in History[c] : IsFailure(ledger[seq])}
<1>9. walk.lastFailure = IF failures = {} THEN 0 ELSE Max(failures)
  <2>1. History[c] \in SUBSET (1..c) /\ c \in Nat
    BY <1>2, <1>4, <1>6, PassedIs
  <2>2. failures \in SUBSET (0..c) /\ \A s \in failures : s \in Nat /\ s # 0
    BY <2>1
  <2>3. CASE walk.lastFailure = 0
    BY <1>8, <2>3 DEF NewestFailure
  <2>4. CASE walk.lastFailure # 0
    <3>1. walk.lastFailure \in failures /\ \A s \in failures : s <= walk.lastFailure
      BY <1>8, <2>4 DEF NewestFailure
    <3> HIDE DEF failures
    <3>2. Max(failures) \in failures /\ walk.lastFailure <= Max(failures)
      BY <2>1, <2>2, <3>1, GreatestOf
    <3>3. Max(failures) = walk.lastFailure
      <4>1. PICK m : m = Max(failures)
        OBVIOUS
      <4>2. m <= walk.lastFailure /\ walk.lastFailure <= m /\ m \in Nat /\ walk.lastFailure \in Nat
        BY <2>2, <3>1, <3>2, <4>1
      <4> QED
        BY <4>1, <4>2
    <3> QED
      BY <3>1, <3>3
  <2> QED
    BY <2>3, <2>4
<1> DEFINE since == {seq \in History[c] : seq > query.parent}
           met == {seq \in since :
                     Width({other \in since : other > seq /\ EventChars(ledger[other]) <= query.room}) <= query.room}
<1>10. MetBy(query) = met
  BY <1>2 DEF MetBy, NewerFitting, SinceParent
<1> HIDE DEF met, failures
<1>11. /\ ToSet(walk.delta) = {seq \in met : EventChars(ledger[seq]) <= query.room}
       /\ \A i, j \in DOMAIN walk.delta : i < j => walk.delta[i] > walk.delta[j]
       /\ walk.oversized = {seq \in met : ~(EventChars(ledger[seq]) <= query.room)}
            \ (query.cited \cup {walk.lastFailure})
  <2>1. DeltaOf(walk, query, met)
    BY <1>8, <1>10
  <2>2. Fitting(met, query) = {seq \in met : EventChars(ledger[seq]) <= query.room}
    BY DEF Fitting
  <2>3. met \ Fitting(met, query) = {seq \in met : ~(EventChars(ledger[seq]) <= query.room)}
    BY <2>2
  <2> QED
    BY <2>1, <2>2, <2>3 DEF DeltaOf
<1> QED
  BY <1>8, <1>9, <1>11, Zenon DEF met, failures, FoundFor

LEMMA ScansAreHistory == ContextInv => ScanFindsHistory
<1> SUFFICES ASSUME ContextInv, NEW c \in Checkpoints, NEW limit \in Budgets
             PROVE  FoundFor(c, QueryAt(c, CitedBy(SelectedFrom[c], DOMAIN SelectedFrom[c].claims), limit),
                             ScanRelevantHistory(QueryAt(c, CitedBy(SelectedFrom[c], DOMAIN SelectedFrom[c].claims), limit)))
  BY Zenon DEF ScanFindsHistory, FoundFor
<1> QED
  BY CheckpointFound

\* The paged walk of the context builder, which learns of restores while it goes
\* back and jumps over what they abandoned, finds in every run what the history
\* of the checkpoint holds.
THEOREM ScanFindsAll == ContextSpec => []ScanFindsHistory
<1>1. ContextSpec => []ContextInv
  BY ContextInvInit, ContextInvNext, PTL DEF ContextSpec
<1> QED
  BY <1>1, ScansAreHistory, PTL

-----------------------------------------------------------------------------
(* Widths of numbers *)

\* A number without its last digit, and one with another nine.
Shorter(n) == n \div Radix
Longer(n) == Radix * n + Radix - 1

\* Without its last digit a number is less, and so is one that is not greater.
LEMMA LastDigit ==
  /\ Radix \in Nat /\ Radix > 1
  /\ \A n \in Nat : n >= Radix => Shorter(n) >= 1 /\ Shorter(n) < n
  /\ \A n \in Nat : Shorter(n) \in Nat
  /\ \A m, n \in Nat : m <= n => Shorter(m) <= Shorter(n)
  /\ \A n \in Nat : Longer(n) \in Nat /\ Longer(n) >= Radix - 1 /\ Shorter(Longer(n)) = n
  /\ \A n \in Nat : n >= 1 => Longer(n) >= Radix
<1>1. Radix \in Nat /\ Radix > 1
  BY ResumeContextAssumption
<1>2. \A n \in Nat : n >= Radix => Shorter(n) >= 1 /\ Shorter(n) < n
  BY <1>1 DEF Shorter
<1>3. \A n \in Nat : Shorter(n) \in Nat
  BY <1>1 DEF Shorter
<1>4. \A m, n \in Nat : m <= n => Shorter(m) <= Shorter(n)
  BY <1>1 DEF Shorter
<1>5. \A n \in Nat : Longer(n) \in Nat /\ Longer(n) >= Radix - 1 /\ Shorter(Longer(n)) = n
  BY <1>1 DEF Shorter, Longer
<1>6. \A n \in Nat : n >= 1 => Longer(n) >= Radix
  BY <1>1 DEF Longer
<1> QED
  BY <1>1, <1>2, <1>3, <1>4, <1>5, <1>6

\* A number is computed from what it is without its last digit.
ByDigits(g, b, step) == \A n \in Nat : g[n] = IF n < Radix THEN b ELSE step[g[Shorter(n)]]
ByDigitsTo(g, b, step, top) ==
  \A n \in 0..top : g[n] = IF n < Radix THEN b ELSE step[g[Shorter(n)]]

\* There is a function that is computed so.
LEMMA ByDigitsExists ==
  ASSUME NEW b \in Nat, NEW step \in [Nat -> Nat]
  PROVE  \E g \in [Nat -> Nat] : ByDigits(g, b, step)
<1> DEFINE good == {top \in Nat : \E g \in [0..top -> Nat] : ByDigitsTo(g, b, step, top)}
<1>1. Radix \in Nat /\ Radix > 1
  BY LastDigit
<1>2. 0 \in good
  <2> DEFINE g == [n \in 0..0 |-> b]
  <2>1. g \in [0..0 -> Nat] /\ ByDigitsTo(g, b, step, 0)
    BY <1>1 DEF ByDigitsTo
  <2> HIDE DEF g
  <2> QED
    BY <2>1
<1>3. ASSUME NEW top \in Nat, top \in good PROVE top + 1 \in good
  <2>1. PICK g \in [0..top -> Nat] : ByDigitsTo(g, b, step, top)
    BY <1>3
  <2> DEFINE last == IF top + 1 < Radix THEN b ELSE step[g[Shorter(top + 1)]]
             h == [n \in 0..(top + 1) |-> IF n = top + 1 THEN last ELSE g[n]]
  <2>2. top + 1 >= Radix => Shorter(top + 1) \in 0..top
    <3>1. PICK n \in Nat : n = top + 1
      OBVIOUS
    <3>2. n >= Radix => Shorter(n) \in Nat /\ Shorter(n) < n
      BY LastDigit
    <3> QED
      BY <3>1, <3>2
  <2>3. last \in Nat
    BY <1>1, <2>1, <2>2
  <2>4. h \in [0..(top + 1) -> Nat]
    <3> HIDE DEF last
    <3>1. \A n \in 0..(top + 1) : n = top + 1 \/ n \in 0..top
      OBVIOUS
    <3>2. \A n \in 0..(top + 1) : (IF n = top + 1 THEN last ELSE g[n]) \in Nat
      BY <2>1, <2>3, <3>1
    <3> QED
      BY <3>2
  <2>5. \A n \in 0..top : h[n] = g[n] /\ n \in 0..(top + 1)
    OBVIOUS
  <2>6. h[top + 1] = last
    OBVIOUS
  <2> HIDE DEF h, last
  <2>10. \A n, q \in Nat : q < n /\ n <= top + 1 => q \in 0..(n - 1) /\ q \in 0..top
    OBVIOUS
  <2>7. \A n \in 0..(top + 1) : n >= Radix => Shorter(n) \in 0..(n - 1) /\ Shorter(n) \in 0..top
    <3> TAKE n \in 0..(top + 1)
    <3> HAVE n >= Radix
    <3>1. n \in Nat /\ n <= top + 1
      OBVIOUS
    <3>2. Shorter(n) \in Nat /\ Shorter(n) < n
      BY <3>1, LastDigit
    <3>3. PICK q \in Nat : q = Shorter(n) /\ q < n
      BY <3>2
    <3>4. q \in 0..(n - 1) /\ q \in 0..top
      BY <2>10, <3>1, <3>3
    <3> QED
      BY <3>3, <3>4
  <2>8. \A n \in 0..(top + 1) : h[n] = IF n < Radix THEN b ELSE step[h[Shorter(n)]]
    <3> TAKE n \in 0..(top + 1)
    <3>1. n >= Radix => h[Shorter(n)] = g[Shorter(n)]
      BY <2>5, <2>7
    <3>2. CASE n = top + 1
      <4>1. h[n] = IF n < Radix THEN b ELSE step[g[Shorter(n)]]
        BY <2>6, <3>2 DEF last
      <4>2. n < Radix \/ n >= Radix
        BY <1>1
      <4> QED
        BY <3>1, <4>1, <4>2
    <3>3. CASE n # top + 1
      <4>1. n \in 0..top
        BY <3>3
      <4>2. h[n] = IF n < Radix THEN b ELSE step[g[Shorter(n)]]
        BY <2>1, <2>5, <4>1 DEF ByDigitsTo
      <4>3. n < Radix \/ n >= Radix
        BY <1>1
      <4> QED
        BY <3>1, <4>2, <4>3
    <3> QED
      BY <3>2, <3>3
  <2>9. ByDigitsTo(h, b, step, top + 1) /\ top + 1 \in Nat
    BY <2>8 DEF ByDigitsTo
  <2> QED
    BY <2>4, <2>9
<1>4. \A top \in Nat : top \in good
  <2> TAKE top \in Nat
  <2> HIDE DEF good
  <2>1. \A k \in 0..top : k \in good
    BY <1>2, <1>3, UpTo
  <2> QED
    BY <2>1
<1>5. ASSUME NEW top \in Nat, NEW other \in Nat, NEW g, NEW h,
             ByDigitsTo(g, b, step, top), ByDigitsTo(h, b, step, other)
      PROVE  \A n \in Nat : n <= top /\ n <= other => g[n] = h[n]
  <2> DEFINE bad == {n \in Nat : n <= top /\ n <= other /\ g[n] # h[n]}
  <2> SUFFICES ASSUME bad # {} PROVE FALSE
    OBVIOUS
  <2>1. PICK n \in bad : \A i \in bad : n <= i
    <3>1. bad \in SUBSET Nat
      OBVIOUS
    <3> HIDE DEF bad
    <3> QED
      BY <3>1, LeastOf
  <2>2. n \in 0..top /\ n \in 0..other /\ n \in Nat /\ g[n] # h[n]
    BY <2>1
  <2>3. n >= Radix => Shorter(n) \in Nat /\ Shorter(n) < n
    BY <1>1, <2>2, LastDigit
  <2>4. n >= Radix => g[Shorter(n)] = h[Shorter(n)]
    BY <1>1, <2>1, <2>2, <2>3
  <2> QED
    BY <1>1, <1>5, <2>2, <2>4 DEF ByDigitsTo
<1> DEFINE H(top) == CHOOSE g \in [0..top -> Nat] : ByDigitsTo(g, b, step, top)
           G == [n \in Nat |-> H(n)[n]]
<1>6. \A n \in Nat : H(n) \in [0..n -> Nat] /\ ByDigitsTo(H(n), b, step, n)
  BY <1>4
<1>7. \A n \in Nat : G[n] = H(n)[n]
  OBVIOUS
<1> HIDE DEF H
<1>8. G \in [Nat -> Nat]
  <2>1. \A n \in Nat : H(n)[n] \in Nat
    BY <1>6
  <2> QED
    BY <2>1
<1>9. ByDigits(G, b, step)
  <2> HIDE DEF G
  <2> SUFFICES ASSUME NEW n \in Nat PROVE G[n] = IF n < Radix THEN b ELSE step[G[Shorter(n)]]
    BY DEF ByDigits
  <2>1. n \in 0..n /\ H(n)[n] = IF n < Radix THEN b ELSE step[H(n)[Shorter(n)]]
    BY <1>6 DEF ByDigitsTo
  <2>2. ASSUME n >= Radix PROVE H(n)[Shorter(n)] = G[Shorter(n)]
    <3>1. PICK m : m = Shorter(n)
      OBVIOUS
    <3>2. m \in Nat /\ m <= n /\ m <= m
      BY <1>1, <2>2, <3>1, LastDigit
    <3>3. H(n)[m] = H(m)[m]
      BY <1>5, <1>6, <3>2
    <3> QED
      BY <1>7, <3>1, <3>2, <3>3
  <2> QED
    BY <1>1, <1>7, <2>1, <2>2
<1> QED
  BY <1>8, <1>9

\* Numbers have digits; one that is not greater has no more; and the greatest
\* with as many digits has no more.
LEMMA DigitsMeans ==
  /\ \A n \in Nat : Digits[n] \in Nat \ {0} /\ Nines[n] \in Nat
  /\ \A m, n \in Nat : m <= n => Digits[m] <= Digits[n]
  /\ \A n \in Nat : Digits[Nines[n]] = Digits[n]
<1> DEFINE more == [d \in Nat |-> 1 + d]
           nine == [d \in Nat |-> Longer(d)]
           IsDigits(g) == g = [n \in Nat |-> IF n < Radix THEN 1 ELSE 1 + g[Shorter(n)]]
           IsNines(g) == g = [n \in Nat |-> IF n < Radix THEN Radix - 1 ELSE Longer(g[Shorter(n)])]
<1>1. Radix \in Nat /\ Radix > 1
  BY LastDigit
<1>2. more \in [Nat -> Nat] /\ \A d \in Nat : more[d] = 1 + d
  OBVIOUS
<1>3. nine \in [Nat -> Nat] /\ \A d \in Nat : nine[d] = Longer(d)
  <2>1. \A d \in Nat : Longer(d) \in Nat
    BY LastDigit
  <2> QED
    BY <2>1
<1>4. \A n \in Nat : Shorter(n) \in Nat
  BY LastDigit
<1> HIDE DEF more, nine
<1>5. PICK g \in [Nat -> Nat] : ByDigits(g, 1, more)
  BY <1>2, ByDigitsExists
<1>6. IsDigits(g)
  <2>1. \A n \in Nat : g[n] = IF n < Radix THEN 1 ELSE 1 + g[Shorter(n)]
    BY <1>2, <1>4, <1>5 DEF ByDigits
  <2>2. g = [n \in Nat |-> g[n]]
    BY <1>5
  <2> QED
    BY <2>1, <2>2, Zenon
<1>7. IsDigits(Digits)
  <2>1. Digits = CHOOSE f : IsDigits(f)
    BY Zenon DEF Digits, Shorter
  <2> QED
    BY <1>6, <2>1
<1>8. PICK f \in [Nat -> Nat] : ByDigits(f, Radix - 1, nine)
  <2>1. Radix - 1 \in Nat
    BY <1>1
  <2> QED
    BY <1>3, <2>1, ByDigitsExists
<1>9. IsNines(f)
  <2>1. \A n \in Nat : f[n] = IF n < Radix THEN Radix - 1 ELSE Longer(f[Shorter(n)])
    BY <1>3, <1>4, <1>8 DEF ByDigits
  <2>2. f = [n \in Nat |-> f[n]]
    BY <1>8
  <2> QED
    BY <2>1, <2>2, Zenon
<1>10. IsNines(Nines)
  <2>1. Nines = CHOOSE h : IsNines(h)
    BY Zenon DEF Nines, Shorter, Longer
  <2> QED
    BY <1>9, <2>1
<1>11. \A n \in Nat : Digits[n] = IF n < Radix THEN 1 ELSE 1 + Digits[Shorter(n)]
  BY <1>7, Zenon
<1>12. \A n \in Nat : Nines[n] = IF n < Radix THEN Radix - 1 ELSE Longer(Nines[Shorter(n)])
  BY <1>10, Zenon
<1> HIDE DEF IsDigits, IsNines
<1> DEFINE Fine(n) == /\ Digits[n] \in Nat \ {0} /\ Nines[n] \in Nat \ {0}
                      /\ \A m \in Nat : m <= n => Digits[m] <= Digits[n]
                      /\ Digits[Nines[n]] = Digits[n]
           bad == {n \in Nat : ~Fine(n)}
<1>13. bad = {}
  <2> SUFFICES ASSUME bad # {} PROVE FALSE
    OBVIOUS
  <2>1. PICK n \in bad : \A i \in bad : n <= i
    <3>1. bad \in SUBSET Nat
      OBVIOUS
    <3> HIDE DEF bad
    <3> QED
      BY <3>1, LeastOf
  <2>2. n \in Nat /\ ~Fine(n) /\ \A i \in Nat : i < n => Fine(i)
    BY <2>1
  <2>3. \A m \in Nat : m < Radix => Digits[m] = 1 /\ Nines[m] = Radix - 1
    BY <1>11, <1>12
  <2>4. CASE n < Radix
    <3>1. Digits[n] = 1 /\ Nines[n] = Radix - 1 /\ Nines[n] \in Nat \ {0} /\ Nines[n] < Radix
      BY <1>1, <2>2, <2>3, <2>4
    <3>2. Digits[Nines[n]] = 1
      BY <2>3, <3>1
    <3>3. \A m \in Nat : m <= n => Digits[m] <= Digits[n]
      BY <1>1, <2>2, <2>3, <2>4
    <3> QED
      BY <2>2, <3>1, <3>2, <3>3
  <2>5. CASE n >= Radix
    <3>1. PICK q \in Nat : q = Shorter(n) /\ q < n
      BY <1>1, <2>2, <2>5, LastDigit
    <3>2. /\ Digits[q] \in Nat \ {0} /\ Nines[q] \in Nat \ {0} /\ Digits[Nines[q]] = Digits[q]
          /\ \A m \in Nat : m <= q => Digits[m] <= Digits[q]
      BY <2>2, <3>1
    <3>3. Digits[n] = 1 + Digits[q] /\ Nines[n] = Longer(Nines[q])
      BY <1>1, <1>11, <1>12, <2>2, <2>5, <3>1
    <3>4. PICK z \in Nat \ {0} : z = Nines[q]
      BY <3>2
    <3>5. Longer(z) \in Nat \ {0} /\ Longer(z) >= Radix
      <4>1. z \in Nat /\ z >= 1
        OBVIOUS
      <4>2. Longer(z) \in Nat /\ Longer(z) >= Radix
        BY <4>1, LastDigit
      <4> QED
        BY <1>1, <4>2
    <3>6. Digits[Longer(z)] = 1 + Digits[z]
      <4>1. Shorter(Longer(z)) = z
        BY LastDigit
      <4>2. PICK y \in Nat : y = Longer(z) /\ y >= Radix /\ Shorter(y) = z
        BY <3>5, <4>1
      <4>3. Digits[y] = 1 + Digits[z]
        BY <1>1, <1>11, <4>2
      <4> QED
        BY <4>2, <4>3
    <3>7. Digits[Nines[n]] = Digits[n] /\ Nines[n] \in Nat \ {0}
      BY <3>2, <3>3, <3>4, <3>5, <3>6
    <3>8. \A m \in Nat : m <= n => Digits[m] <= Digits[n]
      <4> TAKE m \in Nat
      <4> HAVE m <= n
      <4>1. CASE m < Radix
        BY <2>3, <3>2, <3>3, <4>1
      <4>2. CASE m >= Radix
        <5>1. Shorter(m) \in Nat /\ Shorter(m) <= q
          BY <2>2, <3>1, LastDigit
        <5>2. Digits[m] = 1 + Digits[Shorter(m)] /\ Digits[Shorter(m)] <= Digits[q]
          BY <1>1, <1>11, <3>2, <4>2, <5>1
        <5>3. Digits[Shorter(m)] \in Nat
          <6>1. Shorter(m) < n
            BY <2>2, <3>1, <5>1
          <6> QED
            BY <2>2, <5>1, <6>1
        <5> QED
          BY <3>2, <3>3, <5>2, <5>3
      <4> QED
        BY <1>1, <4>1, <4>2
    <3> QED
      BY <2>2, <3>2, <3>3, <3>7, <3>8
  <2> QED
    BY <1>1, <2>2, <2>4, <2>5
<1> QED
  BY <1>13

-----------------------------------------------------------------------------
(* Sums over sets *)

\* The sum over T is this one.
IsSum(g, T, w, v) ==
  g \in [SUBSET T -> Nat] /\ SumsBy(g, T, w) /\ SumFunctionOnSet(v, T) = g[T]

\* A sum takes the elements of its set in any order.
LEMMA SumIs ==
  ASSUME NEW T, IsFiniteSet(T), NEW w \in [T -> Nat], NEW v, \A x \in T : v[x] = w[x]
  PROVE  \E g : IsSum(g, T, w, v)
<1> DEFINE IsIter(g) == g = [s \in SUBSET T |->
                               IF s = {} THEN 0
                               ELSE v[CHOOSE x \in s : TRUE] + g[s \ {CHOOSE x \in s : TRUE}]]
           pick == [s \in SUBSET T |-> CHOOSE x \in s : TRUE]
           step == [x \in T |-> [n \in Nat |-> w[x] + n]]
<1>1. SumFunctionOnSet(v, T) = (CHOOSE g : IsIter(g))[T]
  BY Zenon DEF SumFunctionOnSet, FoldFunctionOnSet, MapThenFoldSet
<1>2. \A s \in SUBSET T : s # {} => pick[s] \in s /\ pick[s] \in T
  OBVIOUS
<1>3. \A s \in SUBSET T : pick[s] = CHOOSE x \in s : TRUE
  OBVIOUS
<1>4. step \in [T -> [Nat -> Nat]] /\ \A x \in T : \A n \in Nat : step[x][n] = w[x] + n
  OBVIOUS
<1> HIDE DEF pick, step
<1>5. PICK f \in [SUBSET T -> Nat] : FoldsBy(f, T, pick, 0, step)
  BY <1>2, <1>4, FoldExists
<1>6. ASSUME NEW g, IsIter(g) PROVE PicksBy(g, T, w)
  <2>1. \A s \in SUBSET T : g[s] = IF s = {} THEN 0
                                   ELSE v[CHOOSE x \in s : TRUE] + g[s \ {CHOOSE x \in s : TRUE}]
    BY <1>6, Zenon
  <2>2. \A s \in SUBSET T : s # {} => v[CHOOSE x \in s : TRUE] = w[CHOOSE x \in s : TRUE]
    BY <1>2, <1>3
  <2> QED
    BY <2>1, <2>2 DEF PicksBy
<1>7. IsIter(f)
  <2>1. \A s \in SUBSET T : f[s] = IF s = {} THEN 0
                                   ELSE v[CHOOSE x \in s : TRUE] + f[s \ {CHOOSE x \in s : TRUE}]
    <3> TAKE s \in SUBSET T
    <3>1. f[s] = IF s = {} THEN 0 ELSE step[pick[s]][f[s \ {pick[s]}]]
      BY <1>5 DEF FoldsBy
    <3>2. s # {} => pick[s] \in T /\ f[s \ {pick[s]}] \in Nat
      BY <1>2
    <3>3. s # {} => f[s] = v[pick[s]] + f[s \ {pick[s]}]
      BY <1>4, <3>1, <3>2
    <3> QED
      BY <1>3, <3>1, <3>3
  <2>2. f = [s \in SUBSET T |-> f[s]]
    BY <1>5
  <2> QED
    BY <2>1, <2>2, Zenon
<1>8. PICK G : G = CHOOSE g : IsIter(g)
  OBVIOUS
<1>9. IsIter(G)
  <2>1. \E g : IsIter(g)
    BY <1>7
  <2> HIDE DEF IsIter
  <2> QED
    BY <1>8, <2>1
<1>10. SumsBy(G, T, w) /\ \A s \in SUBSET T : G[s] \in Nat
  BY <1>6, <1>9, PicksAny
<1>11. G \in [SUBSET T -> Nat]
  <2>1. G = [s \in SUBSET T |-> G[s]]
    <3>1. DOMAIN G = SUBSET T
      BY <1>9
    <3>2. G = [s \in SUBSET T |-> IF s = {} THEN 0
                                  ELSE v[CHOOSE x \in s : TRUE] + G[s \ {CHOOSE x \in s : TRUE}]]
      BY <1>9
    <3>3. \A s \in SUBSET T : G[s] = IF s = {} THEN 0
                                     ELSE v[CHOOSE x \in s : TRUE] + G[s \ {CHOOSE x \in s : TRUE}]
      BY <3>2, Zenon
    <3> QED
      BY <3>2, <3>3
  <2> QED
    BY <1>10, <2>1
<1>12. SumFunctionOnSet(v, T) = G[T]
  BY <1>1, <1>8
<1> HIDE DEF IsIter
<1> QED
  BY <1>10, <1>11, <1>12 DEF IsSum

\* What two functions that agree on R have as their sum over it.
LEMMA OneSum ==
  ASSUME NEW T, IsFiniteSet(T), NEW R \in SUBSET T, NEW u, NEW z, \A x \in R : z[x] = u[x],
         NEW f, SumsBy(f, T, u), NEW g, SumsBy(g, R, z)
  PROVE  f[R] = g[R]
<1> DEFINE N == Cardinality(R)
           good == {n \in Nat : \A s \in SUBSET R : Cardinality(s) <= n => f[s] = g[s]}
<1>1. /\ N \in Nat
      /\ \A s \in SUBSET R : /\ Cardinality(s) \in 0..N
                             /\ s = {} <=> Cardinality(s) = 0
                             /\ \A x \in s : s \ {x} \in SUBSET R /\ Cardinality(s \ {x}) = Cardinality(s) - 1
  <2>1. IsFiniteSet(R)
    BY FS_Subset
  <2> QED
    BY <2>1, Parts, Zenon
<1>2. 0 \in good
  <2>1. \A s \in SUBSET R : Cardinality(s) <= 0 => s = {}
    BY <1>1
  <2>2. f[{}] = 0 /\ g[{}] = 0
    BY DEF SumsBy
  <2> QED
    BY <2>1, <2>2
<1>3. ASSUME NEW n \in 0..(N - 1), n \in good PROVE n + 1 \in good
  <2>1. n + 1 \in Nat
    OBVIOUS
  <2> SUFFICES ASSUME NEW s \in SUBSET R, Cardinality(s) <= n + 1 PROVE f[s] = g[s]
    BY <2>1
  <2>2. CASE s = {}
    BY <2>2 DEF SumsBy
  <2>3. CASE s # {}
    <3> HIDE DEF N
    <3>1. PICK x \in s : TRUE
      BY <2>3
    <3>2. s \ {x} \in SUBSET R /\ Cardinality(s \ {x}) <= n /\ s \in SUBSET T /\ x \in R
      BY <1>1
    <3>3. f[s \ {x}] = g[s \ {x}]
      BY <1>3, <3>2
    <3>4. f[s] = u[x] + f[s \ {x}] /\ g[s] = z[x] + g[s \ {x}]
      BY <3>2 DEF SumsBy
    <3> QED
      BY <3>2, <3>3, <3>4
  <2> QED
    BY <2>2, <2>3
<1>4. N \in good
  <2> HIDE DEF good, N
  <2>1. \A n \in 0..N : n \in good
    BY <1>1, <1>2, <1>3, UpTo
  <2> QED
    BY <1>1, <2>1
<1> QED
  BY <1>1, <1>4

\* Two functions that agree on a set have one sum over it.
LEMMA SameSums ==
  ASSUME NEW T, IsFiniteSet(T), NEW w, NEW v, \A x \in T : w[x] \in Nat /\ v[x] = w[x]
  PROVE  SumFunctionOnSet(v, T) = SumFunctionOnSet(w, T) /\ SumFunctionOnSet(w, T) \in Nat
<1> DEFINE u == [x \in T |-> w[x]]
<1>1. u \in [T -> Nat] /\ (\A x \in T : w[x] = u[x]) /\ (\A x \in T : v[x] = u[x])
  OBVIOUS
<1> HIDE DEF u
<1>2. PICK f : IsSum(f, T, u, v)
  BY <1>1, SumIs
<1>3. PICK g : IsSum(g, T, u, w)
  BY <1>1, SumIs
<1>4. T \in SUBSET T /\ SumsBy(f, T, u) /\ SumsBy(g, T, u)
  BY <1>2, <1>3 DEF IsSum
<1>5. f[T] = g[T]
  BY <1>4, OneSum
<1>6. g[T] \in Nat
  BY <1>3, <1>4 DEF IsSum
<1> QED
  BY <1>2, <1>3, <1>5, <1>6 DEF IsSum

\* The sum over no element, and over one more.
LEMMA Sums ==
  ASSUME NEW T, IsFiniteSet(T), NEW w, \A x \in T : w[x] \in Nat
  PROVE  /\ SumFunctionOnSet(w, {}) = 0
         /\ SumFunctionOnSet(w, T) \in Nat
         /\ \A x \in T : /\ SumFunctionOnSet(w, T) = w[x] + SumFunctionOnSet(w, T \ {x})
                         /\ SumFunctionOnSet(w, T \ {x}) \in Nat
<1> DEFINE u == [x \in T |-> w[x]]
<1>1. u \in [T -> Nat] /\ \A x \in T : w[x] = u[x]
  OBVIOUS
<1> HIDE DEF u
<1>2. PICK f : IsSum(f, T, u, w)
  BY <1>1, SumIs
<1>3. SumFunctionOnSet(w, {}) = 0
  <2> DEFINE none == [x \in {} |-> 0]
  <2>1. IsFiniteSet({}) /\ none \in [{} -> Nat] /\ \A x \in {} : w[x] = none[x]
    BY FS_EmptySet
  <2> HIDE DEF none
  <2>2. PICK empty : empty = {}
    OBVIOUS
  <2>3. PICK g : IsSum(g, empty, none, w)
    BY <2>1, <2>2, SumIs
  <2> QED
    BY <2>2, <2>3 DEF SumsBy, IsSum
<1>4. ASSUME NEW x \in T
      PROVE  SumFunctionOnSet(w, T) = w[x] + SumFunctionOnSet(w, T \ {x}) /\ SumFunctionOnSet(w, T \ {x}) \in Nat
  <2>1. PICK R : R = T \ {x}
    OBVIOUS
  <2> DEFINE z == [y \in R |-> u[y]]
  <2>2. R \in SUBSET T /\ IsFiniteSet(R) /\ R \in SUBSET R
    BY <2>1, FS_Subset
  <2>3. z \in [R -> Nat] /\ (\A y \in R : w[y] = z[y]) /\ (\A y \in R : z[y] = u[y])
    BY <1>1, <2>2
  <2> HIDE DEF z
  <2>4. PICK g : IsSum(g, R, z, w)
    BY <2>2, <2>3, SumIs
  <2>5. SumsBy(f, T, u) /\ SumsBy(g, R, z)
    BY <1>2, <2>4 DEF IsSum
  <2>6. f[R] = g[R]
    BY <2>2, <2>3, <2>5, OneSum
  <2>7. f[T] = u[x] + f[R] /\ f[R] \in Nat
    BY <1>2, <2>1, <2>2 DEF SumsBy, IsSum
  <2>8. SumFunctionOnSet(w, T) = w[x] + SumFunctionOnSet(w, R) /\ SumFunctionOnSet(w, R) \in Nat
    BY <1>1, <1>2, <2>4, <2>6, <2>7 DEF IsSum
  <2> QED
    BY <2>1, <2>8
<1>5. SumFunctionOnSet(w, T) \in Nat
  BY <1>2 DEF IsSum
<1> QED
  BY <1>3, <1>4, <1>5

\* One term that changes.
LEMMA SumChanges ==
  ASSUME NEW T, IsFiniteSet(T), NEW f \in T, NEW w, NEW v,
         \A x \in T : w[x] \in Nat /\ v[x] \in Nat, \A x \in T : x # f => v[x] = w[x]
  PROVE  /\ SumFunctionOnSet(v, T) = (SumFunctionOnSet(w, T) + v[f]) - w[f]
         /\ SumFunctionOnSet(v, T) \in Nat /\ SumFunctionOnSet(w, T) \in Nat
<1>1. PICK R : R = T \ {f}
  OBVIOUS
<1>2. IsFiniteSet(R) /\ \A x \in R : w[x] \in Nat /\ v[x] = w[x]
  BY <1>1, FS_Subset
<1>3. SumFunctionOnSet(v, R) = SumFunctionOnSet(w, R) /\ SumFunctionOnSet(w, R) \in Nat
  BY <1>2, SameSums
<1>4. SumFunctionOnSet(v, T) = v[f] + SumFunctionOnSet(v, T \ {f}) /\ SumFunctionOnSet(v, T) \in Nat
  BY Sums
<1>5. SumFunctionOnSet(w, T) = w[f] + SumFunctionOnSet(w, T \ {f}) /\ SumFunctionOnSet(w, T) \in Nat
  BY Sums
<1>6. w[f] \in Nat /\ v[f] \in Nat
  OBVIOUS
<1> QED
  BY <1>1, <1>3, <1>4, <1>5, <1>6

\* One element more.
LEMMA SumAdds ==
  ASSUME NEW T, IsFiniteSet(T), NEW x, x \notin T, NEW w, \A y \in T \cup {x} : w[y] \in Nat
  PROVE  /\ SumFunctionOnSet(w, T \cup {x}) = SumFunctionOnSet(w, T) + w[x]
         /\ SumFunctionOnSet(w, T) \in Nat
<1>1. PICK S : S = T \cup {x}
  OBVIOUS
<1>2. IsFiniteSet(S) /\ x \in S /\ S \ {x} = T /\ w[x] \in Nat /\ \A y \in S : w[y] \in Nat
  BY <1>1, FS_AddElement
<1>3. SumFunctionOnSet(w, S) = w[x] + SumFunctionOnSet(w, S \ {x}) /\ SumFunctionOnSet(w, S \ {x}) \in Nat
  BY <1>2, Sums
<1>4. SumFunctionOnSet(w, S) = w[x] + SumFunctionOnSet(w, T) /\ SumFunctionOnSet(w, T) \in Nat
  BY <1>2, <1>3
<1> QED
  BY <1>1, <1>2, <1>4

-----------------------------------------------------------------------------
(* Widths of sections *)

\* A section of a set, of which some is shown.
SectionOf(w, of, shown) == SectionChars(SumFunctionOnSet(w, of \cap shown), Cardinality(of \ shown))

\* A line that says how many were left out has a width.
LEMMA OmittedType == \A count \in Nat : OmittedLineChars(count) \in Nat
<1>1. OmittedChars \in Nat
  BY ResumeContextAssumption
<1>2. \A count \in Nat : Digits[count] \in Nat
  BY DigitsMeans
<1> QED
  BY <1>1, <1>2 DEF OmittedLineChars, LineChars

\* One line more that is shown, and one fewer left out.
LEMMA SectionTakes ==
  ASSUME NEW kept \in Nat, NEW w \in Nat, w > 0, NEW left \in Nat, left >= 1
  PROVE  /\ SectionChars(kept, left) \in Nat /\ OneFewer(left) \in Int
         /\ SectionChars(kept + w, left - 1) = SectionChars(kept, left) + w + OneFewer(left)
<1>1. left - 1 \in Nat
  OBVIOUS
<1>2. PICK before \in Nat : before = OmittedLineChars(left)
  BY OmittedType
<1>3. PICK after \in Nat : after = OmittedLineChars(left - 1)
  BY <1>1, OmittedType
<1>4. SectionChars(kept, left) = kept + before
  BY <1>2 DEF SectionChars
<1>5. SectionChars(kept + w, left - 1) = kept + w + after
  BY <1>3 DEF SectionChars
<1>6. OneFewer(left) = after - before
  BY <1>2, <1>3 DEF OneFewer
<1> QED
  BY <1>4, <1>5, <1>6

\* A section has a width.
LEMMA SectionType ==
  ASSUME NEW D, IsFiniteSet(D), NEW of \in SUBSET D, NEW shown \in SUBSET D,
         NEW w, \A y \in D : w[y] \in Nat
  PROVE  SectionOf(w, of, shown) \in Nat /\ Cardinality(of \ shown) \in Nat
<1>1. IsFiniteSet(of \cap shown) /\ of \cap shown \in SUBSET D /\ of \ shown \in SUBSET D
  BY FS_Subset
<1>2. PICK kept \in Nat : kept = SumFunctionOnSet(w, of \cap shown)
  <2>1. PICK S : S = of \cap shown
    OBVIOUS
  <2>2. IsFiniteSet(S) /\ \A y \in S : w[y] \in Nat
    BY <1>1, <2>1
  <2>3. SumFunctionOnSet(w, S) \in Nat
    BY <2>2, Sums
  <2> QED
    BY <2>1, <2>3
<1>3. PICK left \in Nat : left = Cardinality(of \ shown)
  <2>1. IsFiniteSet(of \ shown)
    BY <1>1, FS_Subset
  <2> QED
    BY <2>1, FS_CardinalityType
<1>4. OmittedLineChars(left) \in Nat
  BY OmittedType
<1>5. NoneChars \in Nat
  BY ResumeContextAssumption
<1>6. SectionChars(kept, left) \in Nat
  BY <1>4, <1>5 DEF SectionChars, LineChars
<1> QED
  BY <1>2, <1>3, <1>6 DEF SectionOf

MoreShown(w, of, shown, x) ==
  /\ x \in of => SectionOf(w, of, shown \cup {x}) = SectionOf(w, of, shown) + w[x] + OneFewer(Cardinality(of \ shown))
  /\ x \in of => OneFewer(Cardinality(of \ shown)) \in Int
  /\ x \notin of => SectionOf(w, of, shown \cup {x}) = SectionOf(w, of, shown)

\* A section when one more is shown: it is in this section, or in another one.
LEMMA OneMoreShown ==
  ASSUME NEW D, IsFiniteSet(D), NEW of \in SUBSET D, NEW shown \in SUBSET D, NEW x \in D \ shown,
         NEW w, \A y \in D : w[y] \in Nat, w[x] > 0
  PROVE  MoreShown(w, of, shown, x)
<1>1. CASE x \notin of
  <2>1. of \cap (shown \cup {x}) = of \cap shown /\ of \ (shown \cup {x}) = of \ shown
    BY <1>1
  <2> QED
    BY <1>1, <2>1 DEF SectionOf, MoreShown
<1>3. \A kept, wide, left \in Nat : wide > 0 /\ left >= 1 =>
        /\ SectionChars(kept + wide, left - 1) = SectionChars(kept, left) + wide + OneFewer(left)
        /\ OneFewer(left) \in Int
  BY SectionTakes
<1>2. CASE x \in of
  <2>1. PICK T : T = of \cap shown
    OBVIOUS
  <2>2. IsFiniteSet(T) /\ x \notin T /\ of \cap (shown \cup {x}) = T \cup {x} /\ \A y \in T \cup {x} : w[y] \in Nat
    <3>1. IsFiniteSet(T)
      BY <2>1, FS_Subset
    <3> QED
      BY <1>2, <2>1, <3>1
  <2>3. SumFunctionOnSet(w, T \cup {x}) = SumFunctionOnSet(w, T) + w[x] /\ SumFunctionOnSet(w, T) \in Nat
    BY <2>2, SumAdds
  <2>4. PICK U : U = of \ shown
    OBVIOUS
  <2>5. IsFiniteSet(U) /\ x \in U /\ of \ (shown \cup {x}) = U \ {x}
    <3>1. IsFiniteSet(U)
      BY <2>4, FS_Subset
    <3> QED
      BY <1>2, <2>4, <3>1
  <2>6. Cardinality(U \ {x}) = Cardinality(U) - 1 /\ Cardinality(U) \in Nat /\ Cardinality(U) >= 1
    <3>1. Cardinality(U \ {x}) = Cardinality(U) - 1 /\ Cardinality(U) \in Nat
      BY <2>5, FS_RemoveElement, FS_CardinalityType
    <3>2. Cardinality(U \ {x}) \in Nat
      BY <2>5, FS_RemoveElement, FS_CardinalityType
    <3> QED
      BY <3>1, <3>2
  <2>7. PICK kept \in Nat : kept = SumFunctionOnSet(w, T)
    BY <2>3
  <2>8. PICK left \in Nat : left = Cardinality(U) /\ left >= 1
    BY <2>6
  <2>9. PICK wide \in Nat : wide = w[x] /\ wide > 0
    OBVIOUS
  <2>10. /\ SectionChars(kept + wide, left - 1) = SectionChars(kept, left) + wide + OneFewer(left)
         /\ OneFewer(left) \in Int
    BY <1>3, <2>7, <2>8, <2>9
  <2>11. SectionOf(w, of, shown \cup {x}) = SectionChars(kept + wide, left - 1)
    BY <2>2, <2>3, <2>5, <2>6, <2>7, <2>8, <2>9 DEF SectionOf
  <2>12. SectionOf(w, of, shown) = SectionChars(kept, left)
    BY <2>1, <2>4, <2>7, <2>8 DEF SectionOf
  <2> QED
    BY <1>2, <2>4, <2>8, <2>9, <2>10, <2>11, <2>12 DEF MoreShown
<1> QED
  BY <1>1, <1>2

-----------------------------------------------------------------------------
(* Widths of a context *)

\* What a context is made from, and what is shown of it.
IsAll(all) ==
  /\ all.claims \in Seq(Claims)
  /\ all.intents \in SUBSET Told /\ IsFiniteSet(all.intents)
IsShown(all, shown) ==
  shown.claims \in SUBSET (DOMAIN all.claims) /\ shown.intents \in SUBSET all.intents

\* The lines of the claims, of the intents, and the entries of the state.
ClaimLines(all) == [i \in DOMAIN all.claims |-> LineChars(all.claims[i].chars)]
IntentLines(all) == [i \in all.intents |-> LineChars(IntentLineChars(i))]
IntentEntries(all) == [i \in all.intents |-> IntentEntryChars(i)]

OfField(all, field) == {i \in DOMAIN all.claims : all.claims[i].field = field}
OfStatus(all, status) == {intent \in all.intents : RenderedStatus(intent) = status}

\* Each claim and each intent has the width of its line.
LEMMA AllIs ==
  ASSUME NEW all, IsAll(all)
  PROVE  /\ IsFiniteSet(DOMAIN all.claims) /\ IsFiniteSet(all.intents)
         /\ \A i \in DOMAIN all.claims : /\ ClaimLines(all)[i] = LineChars(all.claims[i].chars)
                                         /\ ClaimLines(all)[i] \in Nat /\ ClaimLines(all)[i] > 0
                                         /\ all.claims[i].field \in Fields
         /\ \A i \in all.intents : /\ IntentLines(all)[i] = LineChars(IntentLineChars(i))
                                   /\ IntentLines(all)[i] \in Nat /\ IntentLines(all)[i] > 0
                                   /\ IntentEntries(all)[i] = IntentEntryChars(i)
                                   /\ IntentEntries(all)[i] \in Nat
                                   /\ RenderedStatus(i) \in Statuses
<1>1. DOMAIN all.claims = 1..Len(all.claims) /\ Len(all.claims) \in Nat
      /\ \A i \in DOMAIN all.claims : all.claims[i] \in Claims
  BY DEF IsAll
<1>2. IsFiniteSet(DOMAIN all.claims)
  BY <1>1, FS_Interval
<1>3. \A i \in DOMAIN all.claims : all.claims[i].chars \in Nat /\ all.claims[i].field \in Fields
  BY <1>1 DEF Claims
<1>4. \A i \in all.intents : IntentLineChars(i) \in Nat /\ IntentEntryChars(i) \in Nat
  BY ResumeContextAssumption DEF IsAll
<1>5. \A i \in all.intents : RenderedStatus(i) \in Statuses
  BY DEF RenderedStatus, Statuses
<1> QED
  BY <1>2, <1>3, <1>4, <1>5 DEF IsAll, ClaimLines, IntentLines, IntentEntries, LineChars

\* The sections of the claims and of the intents are such sections.
LEMMA SectionsAre ==
  ASSUME NEW all, IsAll(all), NEW shown, IsShown(all, shown)
  PROVE  /\ \A field : /\ ClaimSection(all, shown, field) = SectionOf(ClaimLines(all), OfField(all, field), shown.claims)
                       /\ ClaimSection(all, shown, field) \in Nat
         /\ \A status : /\ IntentSection(all, shown, status) = SectionOf(IntentLines(all), OfStatus(all, status), shown.intents)
                        /\ IntentSection(all, shown, status) \in Nat
<1>1. \A field : OfField(all, field) \in SUBSET (DOMAIN all.claims)
  BY DEF OfField
<1>2. \A status : OfStatus(all, status) \in SUBSET all.intents
  BY DEF OfStatus
<1>3. \A field : ClaimSection(all, shown, field) = SectionOf(ClaimLines(all), OfField(all, field), shown.claims)
  BY Zenon DEF ClaimSection, SectionOf, ClaimLines, OfField
<1>4. \A status : IntentSection(all, shown, status) = SectionOf(IntentLines(all), OfStatus(all, status), shown.intents)
  BY Zenon DEF IntentSection, SectionOf, IntentLines, OfStatus
<1>5. PICK D : D = DOMAIN all.claims
  OBVIOUS
<1>6. PICK E : E = all.intents
  OBVIOUS
<1>7. PICK v : v = ClaimLines(all)
  OBVIOUS
<1>8. PICK w : w = IntentLines(all)
  OBVIOUS
<1>9. IsFiniteSet(D) /\ IsFiniteSet(E) /\ (\A i \in D : v[i] \in Nat) /\ (\A i \in E : w[i] \in Nat)
  BY <1>5, <1>6, <1>7, <1>8, AllIs
<1>10. PICK sc \in SUBSET D : sc = shown.claims
  BY <1>5 DEF IsShown
<1>11. PICK si \in SUBSET E : si = shown.intents
  BY <1>6 DEF IsShown
<1>12. \A field : SectionOf(v, OfField(all, field), sc) \in Nat
  BY <1>1, <1>5, <1>9, SectionType
<1>13. \A status : SectionOf(w, OfStatus(all, status), si) \in Nat
  BY <1>2, <1>6, <1>9, SectionType
<1> QED
  BY <1>3, <1>4, <1>7, <1>8, <1>10, <1>11, <1>12, <1>13

ClaimSections(all, shown) == [field \in Fields |-> ClaimSection(all, shown, field)]
IntentSections(all, shown) == [status \in Statuses |-> IntentSection(all, shown, status)]

\* The preamble is the counts and the sections, and as wide as those.
LEMMA PreambleIs ==
  ASSUME NEW all, IsAll(all), NEW shown, IsShown(all, shown)
  PROVE  /\ IsFiniteSet(Fields) /\ IsFiniteSet(Statuses)
         /\ \A counts : PreambleChars(all, shown, counts) =
                          FixedChars + DroppedLineChars(counts)
                            + SumFunctionOnSet(ClaimSections(all, shown), Fields)
                            + SumFunctionOnSet(IntentSections(all, shown), Statuses)
         /\ \A field \in Fields : ClaimSections(all, shown)[field] \in Nat
         /\ \A status \in Statuses : IntentSections(all, shown)[status] \in Nat
         /\ SumFunctionOnSet(ClaimSections(all, shown), Fields) \in Nat
         /\ SumFunctionOnSet(IntentSections(all, shown), Statuses) \in Nat
<1>1. IsFiniteSet(Fields) /\ IsFiniteSet(Statuses)
  <2>1. IsFiniteSet({"in_progress"} \cup {"pending"} \cup {"completed"})
    BY FS_Singleton, FS_Union
  <2>2. Statuses = {"in_progress"} \cup {"pending"} \cup {"completed"}
    BY DEF Statuses
  <2> QED
    BY <2>1, <2>2, ResumeContextAssumption
<1>2. /\ \A field \in Fields : ClaimSections(all, shown)[field] \in Nat
      /\ \A status \in Statuses : IntentSections(all, shown)[status] \in Nat
  BY SectionsAre DEF ClaimSections, IntentSections
<1>3. DOMAIN ClaimSections(all, shown) = Fields /\ DOMAIN IntentSections(all, shown) = Statuses
  BY DEF ClaimSections, IntentSections
<1>4. \A counts : PreambleChars(all, shown, counts) =
                          FixedChars + DroppedLineChars(counts)
                            + SumFunction(ClaimSections(all, shown)) + SumFunction(IntentSections(all, shown))
  BY Zenon DEF PreambleChars, ClaimSections, IntentSections
<1>5. \A f : SumFunction(f) = SumFunctionOnSet(f, DOMAIN f)
  BY Zenon DEF SumFunction
<1>6. PICK v : v = ClaimSections(all, shown)
  OBVIOUS
<1>7. PICK w : w = IntentSections(all, shown)
  OBVIOUS
<1>8. SumFunctionOnSet(v, Fields) \in Nat /\ SumFunctionOnSet(w, Statuses) \in Nat
  BY <1>1, <1>2, <1>6, <1>7, Sums
<1> QED
  BY <1>1, <1>2, <1>3, <1>4, <1>5, <1>6, <1>7, <1>8

\* One claim more.
LEMMA PreambleTakesClaim ==
  ASSUME NEW all, IsAll(all), NEW shown, IsShown(all, shown), NEW x \in DOMAIN all.claims, x \notin shown.claims,
         NEW next, next.claims = shown.claims \cup {x}, next.intents = shown.intents, NEW counts,
         DroppedLineChars(counts) \in Nat, NEW left, left = LeftOutOf(all, all.claims[x].field, shown)
  PROVE  /\ PreambleChars(all, next, counts) =
              PreambleChars(all, shown, counts) + LineChars(all.claims[x].chars) + OneFewer(left)
         /\ PreambleChars(all, shown, counts) \in Nat /\ OneFewer(left) \in Int /\ IsShown(all, next)
         /\ LineChars(all.claims[x].chars) \in Nat
<1> DEFINE f == all.claims[x].field
           v == ClaimSections(all, shown)
           w == ClaimSections(all, next)
<1>1. IsShown(all, next)
  BY DEF IsShown
<1>2. left = Cardinality(OfField(all, f) \ shown.claims)
  <2>1. {i \in DOMAIN all.claims \ shown.claims : all.claims[i].field = f} = OfField(all, f) \ shown.claims
    BY DEF OfField
  <2> QED
    BY <2>1 DEF LeftOutOf
<1>3. PICK line \in Nat : line = LineChars(all.claims[x].chars) /\ line = ClaimLines(all)[x] /\ line > 0
  BY AllIs
<1>4. f \in Fields
  BY AllIs
<1>5. \A field : /\ field = f => SectionOf(ClaimLines(all), OfField(all, field), next.claims) =
                                    SectionOf(ClaimLines(all), OfField(all, field), shown.claims) + line + OneFewer(left)
                 /\ field # f => SectionOf(ClaimLines(all), OfField(all, field), next.claims) =
                                    SectionOf(ClaimLines(all), OfField(all, field), shown.claims)
                 /\ OneFewer(left) \in Int
  <2>1. PICK D : D = DOMAIN all.claims
    OBVIOUS
  <2>2. PICK lines : lines = ClaimLines(all)
    OBVIOUS
  <2>3. PICK sc \in SUBSET D : sc = shown.claims
    BY <2>1 DEF IsShown
  <2>4. IsFiniteSet(D) /\ (\A i \in D : lines[i] \in Nat) /\ lines[x] > 0 /\ x \in D \ sc /\ lines[x] = line
    BY <1>3, <2>1, <2>2, <2>3, AllIs
  <2>5. \A field : OfField(all, field) \in SUBSET D /\ (x \in OfField(all, field) <=> field = f)
    BY <2>1 DEF OfField
  <2>6. \A of \in SUBSET D : MoreShown(lines, of, sc, x)
    BY <2>4, OneMoreShown
  <2>7. OneFewer(left) \in Int
    BY <1>2, <2>3, <2>5, <2>6 DEF MoreShown
  <2> HIDE DEF f
  <2> QED
    BY <1>2, <2>2, <2>3, <2>4, <2>5, <2>6, <2>7 DEF MoreShown
<1>6. /\ \A field \in Fields : field # f => w[field] = v[field]
      /\ w[f] = v[f] + line + OneFewer(left)
      /\ \A field \in Fields : v[field] \in Nat /\ w[field] \in Nat
  <2>1. \A field \in Fields : v[field] = ClaimSection(all, shown, field) /\ w[field] = ClaimSection(all, next, field)
    BY DEF ClaimSections
  <2>2. \A field : /\ ClaimSection(all, shown, field) = SectionOf(ClaimLines(all), OfField(all, field), shown.claims)
                   /\ ClaimSection(all, next, field) = SectionOf(ClaimLines(all), OfField(all, field), next.claims)
                   /\ ClaimSection(all, shown, field) \in Nat /\ ClaimSection(all, next, field) \in Nat
    BY <1>1, SectionsAre
  <2> HIDE DEF f, v, w
  <2> QED
    BY <1>4, <1>5, <2>1, <2>2
<1>7. IntentSections(all, next) = IntentSections(all, shown)
  BY DEF IntentSections, IntentSection
<1>8. SumFunctionOnSet(w, Fields) = (SumFunctionOnSet(v, Fields) + w[f]) - v[f]
  <2> HIDE DEF f, v, w
  <2>1. IsFiniteSet(Fields)
    BY ResumeContextAssumption
  <2> QED
    BY <1>4, <1>6, <2>1, SumChanges
<1>9. FixedChars \in Nat
  BY ResumeContextAssumption
<1>10. /\ PreambleChars(all, shown, counts) = FixedChars + DroppedLineChars(counts)
            + SumFunctionOnSet(v, Fields) + SumFunctionOnSet(IntentSections(all, shown), Statuses)
       /\ PreambleChars(all, next, counts) = FixedChars + DroppedLineChars(counts)
            + SumFunctionOnSet(w, Fields) + SumFunctionOnSet(IntentSections(all, shown), Statuses)
       /\ SumFunctionOnSet(v, Fields) \in Nat
       /\ SumFunctionOnSet(IntentSections(all, shown), Statuses) \in Nat
  BY <1>1, <1>7, PreambleIs
<1>11. OneFewer(left) \in Int
  BY <1>5
<1>12. PICK others \in Nat : others = SumFunctionOnSet(IntentSections(all, shown), Statuses)
  BY <1>10
<1>13. PICK sum \in Nat : sum = SumFunctionOnSet(v, Fields)
  BY <1>10
<1>14. v[f] \in Nat
  BY <1>4, <1>6
<1>15. SumFunctionOnSet(w, Fields) = sum + line + OneFewer(left)
  <2> HIDE DEF f, v, w
  <2> QED
    BY <1>6, <1>8, <1>11, <1>13, <1>14
<1> HIDE DEF v, w
<1> QED
  BY <1>1, <1>3, <1>9, <1>10, <1>11, <1>12, <1>13, <1>15

\* The intents of a group, of which what is not shown may be left out.
LEMMA LeftOutIs ==
  ASSUME NEW all, NEW shown, Mandatory(all).intents \subseteq shown.intents,
         NEW group \in {"pending", "completed"}
  PROVE  /\ LeftOutIn(all, group, shown) = Cardinality(OfStatus(all, group) \ shown.intents)
         /\ \A x \in all.intents : IntentGroup(x) = group => RenderedStatus(x) = group
<1>1. Mandatory(all).intents = {intent \in all.intents : IntentGroup(intent) = "never_dropped"}
  BY DEF Mandatory
<1>2. \A x \in all.intents : IntentGroup(x) = "never_dropped" \/ IntentGroup(x) = RenderedStatus(x)
  BY DEF IntentGroup
<1>3. {intent \in all.intents \ shown.intents : IntentGroup(intent) = group} = OfStatus(all, group) \ shown.intents
  BY <1>1, <1>2 DEF OfStatus
<1>4. \A x \in all.intents : IntentGroup(x) = group => RenderedStatus(x) = group
  BY <1>2
<1> QED
  BY <1>3, <1>4 DEF LeftOutIn

\* One intent more in the preamble.
LEMMA PreambleTakesIntent ==
  ASSUME NEW all, IsAll(all), NEW shown, IsShown(all, shown), NEW x \in all.intents, x \notin shown.intents,
         NEW next, next.claims = shown.claims, next.intents = shown.intents \cup {x}, NEW counts,
         DroppedLineChars(counts) \in Nat, NEW group \in Statuses, RenderedStatus(x) = group,
         NEW left, left = Cardinality(OfStatus(all, group) \ shown.intents)
  PROVE  /\ PreambleChars(all, next, counts) =
              PreambleChars(all, shown, counts) + LineChars(IntentLineChars(x)) + OneFewer(left)
         /\ PreambleChars(all, shown, counts) \in Nat /\ OneFewer(left) \in Int /\ IsShown(all, next)
         /\ LineChars(IntentLineChars(x)) \in Nat
<1> DEFINE v == IntentSections(all, shown)
           w == IntentSections(all, next)
<1>1. IsShown(all, next)
  BY DEF IsShown
<1>3. PICK line \in Nat : line = LineChars(IntentLineChars(x)) /\ line = IntentLines(all)[x] /\ line > 0
  BY AllIs
<1>5. \A status : /\ status = group => SectionOf(IntentLines(all), OfStatus(all, status), next.intents) =
                                    SectionOf(IntentLines(all), OfStatus(all, status), shown.intents) + line + OneFewer(left)
                  /\ status # group => SectionOf(IntentLines(all), OfStatus(all, status), next.intents) =
                                    SectionOf(IntentLines(all), OfStatus(all, status), shown.intents)
                  /\ OneFewer(left) \in Int
  <2>1. PICK D : D = all.intents
    OBVIOUS
  <2>2. PICK lines : lines = IntentLines(all)
    OBVIOUS
  <2>3. PICK si \in SUBSET D : si = shown.intents
    BY <2>1 DEF IsShown
  <2>4. IsFiniteSet(D) /\ (\A i \in D : lines[i] \in Nat) /\ lines[x] > 0 /\ x \in D \ si /\ lines[x] = line
    BY <1>3, <2>1, <2>2, <2>3, AllIs
  <2>5. \A status : OfStatus(all, status) \in SUBSET D /\ (x \in OfStatus(all, status) <=> status = group)
    BY <2>1 DEF OfStatus
  <2>6. \A of \in SUBSET D : MoreShown(lines, of, si, x)
    BY <2>4, OneMoreShown
  <2>7. OneFewer(left) \in Int
    BY <2>3, <2>5, <2>6 DEF MoreShown
  <2> QED
    BY <2>2, <2>3, <2>4, <2>5, <2>6, <2>7 DEF MoreShown
<1>6. /\ \A status \in Statuses : status # group => w[status] = v[status]
      /\ w[group] = v[group] + line + OneFewer(left)
      /\ \A status \in Statuses : v[status] \in Nat /\ w[status] \in Nat
  <2>1. \A status \in Statuses : v[status] = IntentSection(all, shown, status) /\ w[status] = IntentSection(all, next, status)
    BY DEF IntentSections
  <2>2. \A status : /\ IntentSection(all, shown, status) = SectionOf(IntentLines(all), OfStatus(all, status), shown.intents)
                    /\ IntentSection(all, next, status) = SectionOf(IntentLines(all), OfStatus(all, status), next.intents)
                    /\ IntentSection(all, shown, status) \in Nat /\ IntentSection(all, next, status) \in Nat
    BY <1>1, SectionsAre
  <2> HIDE DEF v, w
  <2>3. \A status \in Statuses : v[status] \in Nat /\ w[status] \in Nat
    BY <2>1, <2>2
  <2>4. \A status \in Statuses : status # group => w[status] = v[status]
    BY <1>5, <2>1, <2>2
  <2>5. w[group] = v[group] + line + OneFewer(left)
    <3>1. w[group] = IntentSection(all, next, group) /\ v[group] = IntentSection(all, shown, group)
      BY <2>1
    <3>2. IntentSection(all, next, group) = SectionOf(IntentLines(all), OfStatus(all, group), next.intents)
      BY <2>2
    <3>3. IntentSection(all, shown, group) = SectionOf(IntentLines(all), OfStatus(all, group), shown.intents)
      BY <2>2
    <3> QED
      BY <1>5, <3>1, <3>2, <3>3
  <2> QED
    BY <2>3, <2>4, <2>5
<1>7. ClaimSections(all, next) = ClaimSections(all, shown)
  BY DEF ClaimSections, ClaimSection
<1>8. SumFunctionOnSet(w, Statuses) = (SumFunctionOnSet(v, Statuses) + w[group]) - v[group]
  <2> HIDE DEF v, w
  <2>1. IsFiniteSet(Statuses)
    BY PreambleIs
  <2> QED
    BY <1>6, <2>1, SumChanges
<1>9. FixedChars \in Nat
  BY ResumeContextAssumption
<1>10. /\ PreambleChars(all, shown, counts) = FixedChars + DroppedLineChars(counts)
            + SumFunctionOnSet(ClaimSections(all, shown), Fields) + SumFunctionOnSet(v, Statuses)
       /\ PreambleChars(all, next, counts) = FixedChars + DroppedLineChars(counts)
            + SumFunctionOnSet(ClaimSections(all, shown), Fields) + SumFunctionOnSet(w, Statuses)
       /\ SumFunctionOnSet(v, Statuses) \in Nat
       /\ SumFunctionOnSet(ClaimSections(all, shown), Fields) \in Nat
  BY <1>1, <1>7, PreambleIs
<1>11. OneFewer(left) \in Int
  BY <1>5
<1>12. PICK others \in Nat : others = SumFunctionOnSet(ClaimSections(all, shown), Fields)
  BY <1>10
<1>13. PICK sum \in Nat : sum = SumFunctionOnSet(v, Statuses)
  BY <1>10
<1>14. v[group] \in Nat
  BY <1>6
<1>15. SumFunctionOnSet(w, Statuses) = sum + line + OneFewer(left)
  <2> HIDE DEF v, w
  <2> QED
    BY <1>6, <1>8, <1>11, <1>13, <1>14
<1> HIDE DEF v, w
<1> QED
  BY <1>1, <1>3, <1>9, <1>10, <1>11, <1>12, <1>13, <1>15

\* One intent more in the state.
LEMMA StateTakes ==
  ASSUME NEW all, IsAll(all), NEW shown, IsShown(all, shown), NEW x \in all.intents, x \notin shown.intents,
         NEW next, next.intents = shown.intents \cup {x}
  PROVE  /\ StateChars(all, next) = StateChars(all, shown) + IntentEntryChars(x) + (IF shown.intents = {} THEN 0 ELSE 1)
         /\ IntentEntryChars(x) \in Nat
<1>1. PICK T : T = shown.intents
  OBVIOUS
<1>2. PICK w : w = IntentEntries(all)
  OBVIOUS
<1>3. IsFiniteSet(T) /\ T \subseteq all.intents /\ x \notin T
  BY <1>1, FS_Subset DEF IsAll, IsShown
<1>4. \A y \in T \cup {x} : w[y] \in Nat
  BY <1>2, <1>3, AllIs
<1>5. SumFunctionOnSet(w, T \cup {x}) = SumFunctionOnSet(w, T) + w[x] /\ SumFunctionOnSet(w, T) \in Nat
  BY <1>3, <1>4, SumAdds
<1>6. w[x] = IntentEntryChars(x) /\ w[x] \in Nat
  BY <1>2, AllIs
<1>7. PICK n \in Nat : n = Cardinality(T) /\ Cardinality(T \cup {x}) = n + 1 /\ (n = 0 <=> T = {})
  BY <1>3, FS_AddElement, FS_CardinalityType, FS_EmptySet
<1>8. Separators(n + 1) = Separators(n) + (IF n = 0 THEN 0 ELSE 1) /\ Separators(n) \in Nat
  BY DEF Separators
<1>9. \A s : StateChars(all, s) = SumFunctionOnSet(w, s.intents) + Separators(Cardinality(s.intents))
  BY <1>2, Zenon DEF StateChars, IntentEntries
<1>10. PICK sum \in Nat : sum = SumFunctionOnSet(w, T)
  BY <1>5
<1>11. StateChars(all, next) = sum + w[x] + Separators(n + 1) /\ StateChars(all, shown) = sum + Separators(n)
  BY <1>1, <1>5, <1>7, <1>9, <1>10
<1>12. PICK entry \in Nat : entry = IntentEntryChars(x) /\ entry = w[x]
  BY <1>6
<1>13. PICK sep \in Nat : sep = Separators(n)
  BY <1>8
<1>14. CASE T = {}
  BY <1>1, <1>7, <1>8, <1>11, <1>12, <1>13, <1>14
<1>15. CASE T # {}
  BY <1>1, <1>7, <1>8, <1>11, <1>12, <1>13, <1>15
<1> QED
  BY <1>14, <1>15

\* The state has a width.
LEMMA StateType ==
  ASSUME NEW all, IsAll(all), NEW shown, IsShown(all, shown)
  PROVE  StateChars(all, shown) \in Nat
<1>1. PICK T : T = shown.intents
  OBVIOUS
<1>2. PICK w : w = IntentEntries(all)
  OBVIOUS
<1>3. IsFiniteSet(T) /\ T \subseteq all.intents
  BY <1>1, FS_Subset DEF IsAll, IsShown
<1>4. \A y \in T : w[y] \in Nat
  BY <1>2, <1>3, AllIs
<1>5. SumFunctionOnSet(w, T) \in Nat
  BY <1>3, <1>4, Sums
<1>6. Cardinality(T) \in Nat /\ \A n \in Nat : Separators(n) \in Nat
  BY <1>3, FS_CardinalityType DEF Separators
<1>7. StateChars(all, shown) = SumFunctionOnSet(w, T) + Separators(Cardinality(T))
  BY <1>1, <1>2, Zenon DEF StateChars, IntentEntries
<1> QED
  BY <1>5, <1>6, <1>7

\* A context without events.
LEMMA NoEvents == EventsChars(<<>>) = 0
<1>1. PICK f : f = [i \in DOMAIN <<>> |-> EventChars(ledger[<<>>[i]])]
  OBVIOUS
<1>2. DOMAIN f = {} /\ IsFiniteSet({}) /\ \A i \in {} : f[i] \in Nat
  BY <1>1, FS_EmptySet
<1>3. PICK empty : empty = {}
  OBVIOUS
<1>4. SumFunctionOnSet(f, {}) = 0
  BY <1>2, <1>3, Sums
<1>5. SumFunction(f) = 0
  BY <1>2, <1>4 DEF SumFunction
<1>6. Separators(Len(<<>>)) = 0
  BY DEF Separators
<1> QED
  BY <1>1, <1>5, <1>6 DEF EventsChars

-----------------------------------------------------------------------------
(* Tier 1 *)

\* The line of the counts has a width.
LEMMA DroppedType ==
  /\ \A counts : /\ counts.cited \in Nat /\ counts.lastFailure \in Nat /\ counts.delta \in Nat
                 => DroppedLineChars(counts) \in Nat
  /\ \A c \in Nat : DroppedLineChars(Reserved(c)) \in Nat
<1>1. ASSUME NEW counts, counts.cited \in Nat, counts.lastFailure \in Nat, counts.delta \in Nat
      PROVE  DroppedLineChars(counts) \in Nat
  <2>1. Digits[counts.cited] \in Nat /\ Digits[counts.lastFailure] \in Nat /\ Digits[counts.delta] \in Nat
    BY <1>1, DigitsMeans
  <2> QED
    BY <2>1 DEF DroppedLineChars, LineChars
<1>2. \A c \in Nat : Reserved(c).cited \in Nat /\ Reserved(c).lastFailure \in Nat /\ Reserved(c).delta \in Nat
  BY DigitsMeans DEF Reserved
<1> QED
  BY <1>1, <1>2

Tiers(all) == [claims : SUBSET (DOMAIN all.claims), intents : SUBSET all.intents, added : Int, listed : Nat]

\* What is selected: what is shown in any case, and what fits, as it is counted.
BaseChars(all, shown, c) == ContextChars(all, shown, Reserved(c), <<>>)
Selects(all, room, c, tier) ==
  /\ tier \in Tiers(all)
  /\ Mandatory(all).claims \subseteq tier.claims /\ Mandatory(all).intents \subseteq tier.intents
  /\ tier.added = 0 \/ tier.added <= room
  /\ BaseChars(all, tier, c) = BaseChars(all, Mandatory(all), c) + tier.added

\* Before its events, a context is its preamble and its state.
LEMMA BaseIs ==
  ASSUME NEW all, IsAll(all), NEW shown, IsShown(all, shown), NEW c \in Nat
  PROVE  /\ BaseChars(all, shown, c) = PreambleChars(all, shown, Reserved(c)) + StateChars(all, shown)
         /\ PreambleChars(all, shown, Reserved(c)) \in Nat /\ StateChars(all, shown) \in Nat
         /\ BaseChars(all, shown, c) \in Nat
<1>1. PICK p \in Nat : p = PreambleChars(all, shown, Reserved(c))
  <2>1. DroppedLineChars(Reserved(c)) \in Nat /\ FixedChars \in Nat
    BY DroppedType, ResumeContextAssumption
  <2>2. /\ PreambleChars(all, shown, Reserved(c)) =
                          FixedChars + DroppedLineChars(Reserved(c))
                            + SumFunctionOnSet(ClaimSections(all, shown), Fields)
                            + SumFunctionOnSet(IntentSections(all, shown), Statuses)
         /\ SumFunctionOnSet(ClaimSections(all, shown), Fields) \in Nat
         /\ SumFunctionOnSet(IntentSections(all, shown), Statuses) \in Nat
    BY PreambleIs
  <2> QED
    BY <2>1, <2>2
<1>2. PICK s \in Nat : s = StateChars(all, shown)
  BY StateType
<1>3. EventsChars(<<>>) = 0
  BY NoEvents
<1> QED
  BY <1>1, <1>2, <1>3 DEF BaseChars, ContextChars

\* What is shown in any case is a selection that added nothing.
LEMMA MandatorySelects ==
  ASSUME NEW all, IsAll(all), NEW room \in Int, NEW c \in Nat
  PROVE  Selects(all, room, c, Mandatory(all)) /\ IsShown(all, Mandatory(all))
<1>1. Mandatory(all) \in Tiers(all) /\ IsShown(all, Mandatory(all)) /\ Mandatory(all).added = 0
  BY DEF Mandatory, Tiers, IsShown
<1>2. BaseChars(all, Mandatory(all), c) \in Nat
  BY <1>1, BaseIs
<1> QED
  BY <1>1, <1>2 DEF Selects

\* A claim that is taken adds what it is counted with.
LEMMA TakeClaimKeeps ==
  ASSUME NEW all, IsAll(all), NEW room \in Int, NEW c \in Nat, NEW tier, Selects(all, room, c, tier),
         NEW i \in DOMAIN all.claims
  PROVE  /\ Selects(all, room, c, TakeClaim(all, room, tier, i))
         /\ TakeClaim(all, room, tier, i).intents = tier.intents
<1> DEFINE left == LeftOutOf(all, all.claims[i].field, tier)
           delta == LineChars(all.claims[i].chars) + OneFewer(left)
           next == [tier EXCEPT !.claims = @ \cup {i}, !.added = @ + delta]
<1>1. TakeClaim(all, room, tier, i) = IF i \in tier.claims \/ tier.added + delta > room THEN tier ELSE next
  BY Zenon DEF TakeClaim
<1>2. CASE i \in tier.claims \/ tier.added + delta > room
  <2> HIDE DEF delta, next
  <2> QED
    BY <1>1, <1>2
<1>3. CASE ~(i \in tier.claims \/ tier.added + delta > room)
  <2>1. tier \in Tiers(all) /\ tier.added \in Int /\ IsShown(all, tier) /\ i \notin tier.claims
    BY <1>3 DEF Selects, Tiers, IsShown
  <2> DEFINE next1 == [tier EXCEPT !.claims = @ \cup {i}, !.added = @ + delta]
  <2>2. /\ next.claims = tier.claims \cup {i} /\ next.intents = tier.intents
        /\ next.added = tier.added + delta /\ next.listed = tier.listed
    <3> HIDE DEF delta
    <3> QED
      BY <2>1 DEF Tiers
  <2>3. PICK line \in Nat : line = LineChars(all.claims[i].chars)
    BY AllIs
  <2>4. DroppedLineChars(Reserved(c)) \in Nat
    BY DroppedType
  <2>5. PICK n : n = next
    OBVIOUS
  <2>6. PICK l : l = left
    OBVIOUS
  <2>7. PICK counts : counts = Reserved(c)
    OBVIOUS
  <2>8. /\ PreambleChars(all, n, counts) =
              PreambleChars(all, tier, counts) + LineChars(all.claims[i].chars) + OneFewer(l)
         /\ PreambleChars(all, tier, counts) \in Nat /\ OneFewer(l) \in Int /\ IsShown(all, n)
    <3>1. n.claims = tier.claims \cup {i} /\ n.intents = tier.intents /\ DroppedLineChars(counts) \in Nat
      BY <2>2, <2>4, <2>5, <2>7
    <3>2. l = LeftOutOf(all, all.claims[i].field, tier)
      BY <2>6
    <3> HIDE DEF next, left, delta
    <3> QED
      BY <2>1, <3>1, <3>2, PreambleTakesClaim
  <2>9. PICK fewer \in Int : fewer = OneFewer(left) /\ delta = line + fewer
    BY <2>3, <2>6, <2>8
  <2>10. n \in Tiers(all)
    <3>1. PICK d \in Int : d = delta
      BY <2>9
    <3>2. PICK D : D = DOMAIN all.claims
      OBVIOUS
    <3>3. PICK I : I = all.intents
      OBVIOUS
    <3> HIDE DEF delta
    <3>4. n = [tier EXCEPT !.claims = @ \cup {i}, !.added = @ + d]
      BY <2>5, <3>1
    <3>5. tier \in [claims : SUBSET D, intents : SUBSET I, added : Int, listed : Nat] /\ i \in D
      BY <2>1, <3>2, <3>3 DEF Tiers
    <3>6. tier.claims \cup {i} \in SUBSET D /\ tier.added + d \in Int
      BY <3>5
    <3>7. n \in [claims : SUBSET D, intents : SUBSET I, added : Int, listed : Nat]
      BY <3>4, <3>5, <3>6
    <3> QED
      BY <3>2, <3>3, <3>7 DEF Tiers
  <2>11. StateChars(all, n) = StateChars(all, tier)
    BY <2>2, <2>5 DEF StateChars
  <2>12. /\ BaseChars(all, tier, c) = PreambleChars(all, tier, counts) + StateChars(all, tier)
         /\ BaseChars(all, n, c) = PreambleChars(all, n, counts) + StateChars(all, n)
         /\ StateChars(all, tier) \in Nat
    BY <2>1, <2>7, <2>8, BaseIs
  <2>13. PICK m \in Nat : m = BaseChars(all, Mandatory(all), c)
    BY MandatorySelects, BaseIs
  <2>14. BaseChars(all, tier, c) = m + tier.added
    BY <2>13 DEF Selects
  <2>15. PICK state \in Nat : state = StateChars(all, tier)
    BY <2>12
  <2>16. PICK pre \in Nat : pre = PreambleChars(all, tier, counts)
    BY <2>8
  <2>17. BaseChars(all, n, c) = m + n.added /\ n.added <= room
    <3>1. n.added = tier.added + line + fewer
      <4> HIDE DEF delta, next
      <4> QED
        BY <2>1, <2>2, <2>5, <2>9
    <3>2. n.added <= room
      <4>1. ~(tier.added + delta > room)
        BY <1>3
      <4> HIDE DEF delta, next
      <4> QED
        BY <2>1, <2>9, <3>1, <4>1
    <3>3. PreambleChars(all, n, counts) = pre + line + fewer
      BY <2>3, <2>6, <2>8, <2>9, <2>16
    <3>4. pre + state = m + tier.added
      BY <2>12, <2>14, <2>15, <2>16
    <3>5. BaseChars(all, n, c) = pre + line + fewer + state
      BY <2>11, <2>12, <2>15, <3>3
    <3> HIDE DEF delta, next, left
    <3> QED
      BY <2>1, <3>1, <3>2, <3>4, <3>5
  <2>18. Selects(all, room, c, n)
    <3> HIDE DEF delta, next, left
    <3>1. Mandatory(all).claims \subseteq n.claims /\ Mandatory(all).intents \subseteq n.intents
      BY <2>2, <2>5 DEF Selects
    <3> QED
      BY <2>10, <2>13, <2>17, <3>1 DEF Selects
  <2>19. TakeClaim(all, room, tier, i) = n
    <3> HIDE DEF delta, next
    <3> QED
      BY <1>1, <1>3, <2>5
  <2>20. n.intents = tier.intents
    BY <2>2, <2>5
  <2> HIDE DEF delta, next
  <2> QED
    BY <2>18, <2>19, <2>20
<1> QED
  BY <1>2, <1>3

-----------------------------------------------------------------------------
(* Lists of the elements of a set *)

\* A property of the empty set that goes from each set without the element picked to the set.
LEMMA SetUp ==
  ASSUME NEW D, IsFiniteSet(D), NEW pick, \A s \in SUBSET D : s # {} => pick[s] \in s,
         NEW good, {} \in good, \A s \in SUBSET D : s # {} /\ s \ {pick[s]} \in good => s \in good
  PROVE  \A s \in SUBSET D : s \in good
<1> DEFINE N == Cardinality(D)
           fine == {n \in Nat : \A s \in SUBSET D : Cardinality(s) <= n => s \in good}
<1>1. /\ N \in Nat
      /\ \A s \in SUBSET D : /\ Cardinality(s) \in 0..N
                             /\ s = {} <=> Cardinality(s) = 0
                             /\ \A x \in s : s \ {x} \in SUBSET D /\ Cardinality(s \ {x}) = Cardinality(s) - 1
  BY Parts, Zenon
<1>2. 0 \in fine
  <2>1. \A s \in SUBSET D : Cardinality(s) <= 0 => s = {}
    BY <1>1
  <2> QED
    BY <2>1
<1>3. ASSUME NEW n \in 0..(N - 1), n \in fine PROVE n + 1 \in fine
  <2>1. n + 1 \in Nat
    OBVIOUS
  <2> SUFFICES ASSUME NEW s \in SUBSET D, Cardinality(s) <= n + 1, s # {} PROVE s \in good
    BY <2>1
  <2> HIDE DEF N
  <2>2. s \ {pick[s]} \in SUBSET D /\ Cardinality(s \ {pick[s]}) <= n
    BY <1>1
  <2> QED
    BY <1>3, <2>2
<1>4. N \in fine
  <2> HIDE DEF fine, N
  <2>1. \A n \in 0..N : n \in fine
    BY <1>1, <1>2, <1>3, UpTo
  <2> QED
    BY <1>1, <2>1
<1> QED
  BY <1>1, <1>4

\* A sequence of the elements of a set, each once.
Lists(q, s) ==
  /\ q \in Seq(s) /\ Len(q) = Cardinality(s)
  /\ \A i, j \in 1..Len(q) : q[i] = q[j] => i = j
  /\ \A x \in s : \E i \in 1..Len(q) : q[i] = x

\* A list goes on with another element.
LEMMA ListsMore ==
  ASSUME NEW s, IsFiniteSet(s), NEW x \in s, NEW q, Lists(q, s \ {x})
  PROVE  Lists(Append(q, x), s)
<1>1. PICK r : r = s \ {x}
  OBVIOUS
<1>2. /\ q \in Seq(r) /\ Len(q) \in Nat /\ Len(q) = Cardinality(r)
      /\ (\A i, j \in 1..Len(q) : q[i] = q[j] => i = j) /\ \A y \in r : \E i \in 1..Len(q) : q[i] = y
  <2>1. Lists(q, r)
    BY <1>1
  <2>2. /\ q \in Seq(r) /\ Len(q) = Cardinality(r)
        /\ (\A i, j \in 1..Len(q) : q[i] = q[j] => i = j) /\ \A y \in r : \E i \in 1..Len(q) : q[i] = y
    BY <2>1, Zenon DEF Lists
  <2>3. Len(q) \in Nat
    BY <2>2
  <2> QED
    BY <2>2, <2>3
<1>3. \A i \in 1..Len(q) : q[i] \in r
  BY <1>2
<1>4. r \subseteq s /\ x \notin r
  BY <1>1
<1>5. PICK n \in Nat : n = Len(q)
  BY <1>2
<1>6. q \in Seq(s)
  BY <1>2, <1>4
<1>7. PICK p : p = Append(q, x)
  OBVIOUS
<1>8. p \in Seq(s) /\ Len(p) = n + 1 /\ p[n + 1] = x /\ \A i \in 1..n : p[i] = q[i]
  BY <1>5, <1>6, <1>7
<1>9. Cardinality(s) = n + 1
  <2>1. Cardinality(s \ {x}) = Cardinality(s) - 1 /\ Cardinality(s) \in Nat
    BY FS_RemoveElement, FS_CardinalityType
  <2>2. Cardinality(s \ {x}) = n
    BY <1>1, <1>2, <1>5
  <2> QED
    BY <2>1, <2>2
<1>10. \A i \in 1..(n + 1) : i \in 1..n \/ i = n + 1
  BY <1>5
<1>11. \A i, j \in 1..(n + 1) : p[i] = p[j] => i = j
  BY <1>2, <1>3, <1>4, <1>5, <1>8, <1>10
<1>12. \A y \in s : \E i \in 1..(n + 1) : p[i] = y
  <2> TAKE y \in s
  <2>1. CASE y = x
    BY <1>5, <1>8, <2>1
  <2>2. CASE y # x
    <3>1. PICK i \in 1..n : q[i] = y
      BY <1>1, <1>2, <1>5, <2>2
    <3> QED
      BY <1>5, <1>8, <3>1
  <2> QED
    BY <2>1, <2>2
<1> QED
  BY <1>7, <1>8, <1>9, <1>11, <1>12 DEF Lists

\* The empty list.
LEMMA ListsNone == Lists(<<>>, {})
<1>1. Cardinality({}) = 0 /\ <<>> \in Seq({}) /\ Len(<<>>) = 0
  BY FS_EmptySet
<1> QED
  BY <1>1 DEF Lists

\* A list that is made by taking elements from a set one by one.
LEMMA ListExists ==
  ASSUME NEW T, IsFiniteSet(T), NEW pick, \A s \in SUBSET T : s # {} => pick[s] \in s
  PROVE  \E g \in [SUBSET T -> Seq(T)] :
           \A s \in SUBSET T : g[s] = IF s = {} THEN <<>> ELSE Append(g[s \ {pick[s]}], pick[s])
<1> DEFINE step == [x \in T |-> [q \in Seq(T) |-> Append(q, x)]]
<1>1. step \in [T -> [Seq(T) -> Seq(T)]]
  OBVIOUS
<1>2. \A x \in T : \A q \in Seq(T) : step[x][q] = Append(q, x)
  OBVIOUS
<1>3. <<>> \in Seq(T)
  OBVIOUS
<1> HIDE DEF step
<1>4. PICK g \in [SUBSET T -> Seq(T)] : FoldsBy(g, T, pick, <<>>, step)
  BY <1>1, <1>3, FoldExists
<1>5. \A s \in SUBSET T : g[s] = IF s = {} THEN <<>> ELSE Append(g[s \ {pick[s]}], pick[s])
  <2> TAKE s \in SUBSET T
  <2>1. g[s] = IF s = {} THEN <<>> ELSE step[pick[s]][g[s \ {pick[s]}]]
    BY <1>4 DEF FoldsBy
  <2>2. s # {} => pick[s] \in T /\ g[s \ {pick[s]}] \in Seq(T)
    OBVIOUS
  <2> QED
    BY <1>2, <2>1, <2>2
<1> QED
  BY <1>5

\* Such a list has each element once.
LEMMA ListOf ==
  ASSUME NEW T, IsFiniteSet(T), NEW pick, \A s \in SUBSET T : s # {} => pick[s] \in s, NEW g,
         \A s \in SUBSET T : g[s] = IF s = {} THEN <<>> ELSE Append(g[s \ {pick[s]}], pick[s])
  PROVE  Lists(g[T], T)
<1> DEFINE good == {s \in SUBSET T : Lists(g[s], s)}
<1>1. {} \in good
  BY ListsNone
<1>2. ASSUME NEW s \in SUBSET T, s # {}, s \ {pick[s]} \in good PROVE s \in good
  <2>1. PICK x \in s : x = pick[s]
    BY <1>2
  <2>2. IsFiniteSet(s) /\ Lists(g[s \ {x}], s \ {x})
    BY <1>2, <2>1, FS_Subset
  <2>3. Lists(Append(g[s \ {x}], x), s)
    BY <2>2, ListsMore
  <2> QED
    BY <1>2, <2>1, <2>3
<1>3. T \in SUBSET T
  OBVIOUS
<1>4. T \in good
  <2> HIDE DEF good
  <2>1. \A s \in SUBSET T : s # {} /\ s \ {pick[s]} \in good => s \in good
    BY <1>2
  <2>2. \A s \in SUBSET T : s \in good
    BY <1>1, <2>1, SetUp
  <2> QED
    BY <1>3, <2>2
<1> QED
  BY <1>4

\* A set of seqs in order, each once.
LEMMA AscendingLists ==
  ASSUME NEW n \in Nat, NEW S \in SUBSET (0..n)
  PROVE  Lists(Ascending(S), S)
<1> DEFINE IsIter(g) == g = [s \in SUBSET S |-> IF s = {} THEN <<>> ELSE Append(g[s \ {Max(s)}], Max(s))]
<1>1. Ascending(S) = (CHOOSE g : IsIter(g))[S]
  BY Zenon DEF Ascending, MapThenFoldSet
<1>2. PICK pick : pick = [s \in SUBSET S |-> Max(s)]
  OBVIOUS
<1>3. \A s \in SUBSET S : pick[s] = Max(s)
  BY <1>2
<1>4. \A s \in SUBSET S : s # {} => pick[s] \in s
  <2> TAKE s \in SUBSET S
  <2> HAVE s # {}
  <2>1. s \in SUBSET (0..n)
    OBVIOUS
  <2> QED
    BY <1>3, <2>1, GreatestOf
<1>5. IsFiniteSet(S)
  <2>1. 0 \in Int /\ n \in Int
    OBVIOUS
  <2> QED
    BY <2>1, FS_Interval, FS_Subset
<1>6. PICK f \in [SUBSET S -> Seq(S)] :
        \A s \in SUBSET S : f[s] = IF s = {} THEN <<>> ELSE Append(f[s \ {pick[s]}], pick[s])
  BY <1>4, <1>5, ListExists
<1>7. IsIter(f)
  <2>1. f = [s \in SUBSET S |-> f[s]]
    BY <1>6
  <2>2. \A s \in SUBSET S : f[s] = IF s = {} THEN <<>> ELSE Append(f[s \ {Max(s)}], Max(s))
    BY <1>3, <1>6
  <2> QED
    BY <2>1, <2>2, Zenon
<1>8. PICK G : G = CHOOSE g : IsIter(g)
  OBVIOUS
<1>9. IsIter(G)
  <2>1. \E g : IsIter(g)
    BY <1>7
  <2> HIDE DEF IsIter
  <2> QED
    BY <1>8, <2>1
<1>10. \A s \in SUBSET S : G[s] = IF s = {} THEN <<>> ELSE Append(G[s \ {pick[s]}], pick[s])
  <2>1. \A s \in SUBSET S : G[s] = IF s = {} THEN <<>> ELSE Append(G[s \ {Max(s)}], Max(s))
    BY <1>9, Zenon
  <2> QED
    BY <1>3, <2>1
<1>11. Lists(G[S], S)
  BY <1>4, <1>5, <1>10, ListOf
<1> QED
  BY <1>1, <1>8, <1>11

\* The intents of a group, each once.
LEMMA NewestFirstLists ==
  ASSUME NEW all, IsAll(all), NEW group, NEW S, S = {intent \in all.intents : IntentGroup(intent) = group}
  PROVE  Lists(NewestFirst(all, group), S)
<1>0. PICK T \in SUBSET all.intents : T = S
  OBVIOUS
<1> DEFINE Oldest(s) == CHOOSE i \in s : \A other \in s : i.requested_seq <= other.requested_seq
           IsIter(g) == g = [s \in SUBSET T |-> IF s = {} THEN <<>> ELSE Append(g[s \ {Oldest(s)}], Oldest(s))]
<1>1. NewestFirst(all, group) = (CHOOSE g : IsIter(g))[T]
  BY <1>0, Zenon DEF NewestFirst, MapThenFoldSet
<1>2. PICK pick : pick = [s \in SUBSET T |-> Oldest(s)]
  OBVIOUS
<1>3. \A s \in SUBSET T : pick[s] = Oldest(s)
  BY <1>2
<1>4. \A s \in SUBSET T : s # {} => pick[s] \in s
  <2> TAKE s \in SUBSET T
  <2> HAVE s # {}
  <2> DEFINE seqs == {i.requested_seq : i \in s}
  <2>1. \A i \in s : i.requested_seq \in Nat
    <3>1. MaxLedger \in Nat /\ \A i \in Told : i.requested_seq \in 0..MaxLedger
      BY RunHistoryAssumption DEF Told
    <3> QED
      BY <3>1 DEF IsAll
  <2>2. seqs \in SUBSET Nat /\ seqs # {}
    BY <2>1
  <2>3. PICK m : m \in seqs /\ \A i \in seqs : m <= i
    <3> HIDE DEF seqs
    <3> QED
      BY <2>2, LeastOf
  <2>4. \E i \in s : \A other \in s : i.requested_seq <= other.requested_seq
    BY <2>3
  <2> QED
    BY <1>3, <2>4
<1>5. IsFiniteSet(T)
  BY FS_Subset DEF IsAll
<1> HIDE DEF Oldest
<1>6. PICK f \in [SUBSET T -> Seq(T)] :
        \A s \in SUBSET T : f[s] = IF s = {} THEN <<>> ELSE Append(f[s \ {pick[s]}], pick[s])
  BY <1>4, <1>5, ListExists
<1>7. IsIter(f)
  <2>1. f = [s \in SUBSET T |-> f[s]]
    BY <1>6
  <2>2. \A s \in SUBSET T : f[s] = IF s = {} THEN <<>> ELSE Append(f[s \ {Oldest(s)}], Oldest(s))
    BY <1>3, <1>6
  <2> QED
    BY <2>1, <2>2, Zenon
<1>8. PICK G : G = CHOOSE g : IsIter(g)
  OBVIOUS
<1>9. IsIter(G)
  <2>1. \E g : IsIter(g)
    BY <1>7
  <2> HIDE DEF IsIter
  <2> QED
    BY <1>8, <2>1
<1>10. \A s \in SUBSET T : G[s] = IF s = {} THEN <<>> ELSE Append(G[s \ {pick[s]}], pick[s])
  <2>1. \A s \in SUBSET T : G[s] = IF s = {} THEN <<>> ELSE Append(G[s \ {Oldest(s)}], Oldest(s))
    BY <1>9, Zenon
  <2> QED
    BY <1>3, <2>1
<1>11. Lists(G[T], T)
  BY <1>4, <1>5, <1>10, ListOf
<1> QED
  BY <1>0, <1>1, <1>8, <1>11

-----------------------------------------------------------------------------
(* Tier 1, one by one *)

\* So does an intent that is taken.
LEMMA TakeIntentKeeps ==
  ASSUME NEW all, IsAll(all), NEW room \in Int, NEW c \in Nat, NEW tier, Selects(all, room, c, tier), NEW cap,
         NEW group \in {"pending", "completed"}, NEW x \in all.intents, x \notin tier.intents, IntentGroup(x) = group
  PROVE  /\ Selects(all, room, c, TakeIntent(all, room, group, cap, tier, x))
         /\ TakeIntent(all, room, group, cap, tier, x).intents \in {tier.intents, tier.intents \cup {x}}
<1> DEFINE left == LeftOutIn(all, group, tier)
           comma == IF tier.intents = {} THEN 0 ELSE 1
           delta == LineChars(IntentLineChars(x)) + OneFewer(left) + IntentEntryChars(x) + comma
           next == [tier EXCEPT !.intents = @ \cup {x}, !.added = @ + delta, !.listed = @ + 1]
           out == TakeIntent(all, room, group, cap, tier, x)
<1>1. out = IF tier.listed = cap \/ tier.added + delta > room THEN tier ELSE next
  BY Zenon DEF TakeIntent
<1>2. CASE tier.listed = cap \/ tier.added + delta > room
  <2>1. out = tier
    <3> HIDE DEF delta, next, out
    <3> QED
      BY <1>1, <1>2
  <2> HIDE DEF out
  <2> QED
    BY <2>1 DEF out
<1>3. CASE ~(tier.listed = cap \/ tier.added + delta > room)
  <2>1. tier \in Tiers(all) /\ tier.added \in Int /\ IsShown(all, tier) /\ tier.listed \in Nat
    BY DEF Selects, Tiers, IsShown
  <2>2. /\ next.intents = tier.intents \cup {x} /\ next.claims = tier.claims
        /\ next.added = tier.added + delta
    <3> HIDE DEF delta
    <3> QED
      BY <2>1 DEF Tiers
  <2>3. PICK line \in Nat : line = LineChars(IntentLineChars(x))
    BY AllIs
  <2>4. DroppedLineChars(Reserved(c)) \in Nat
    BY DroppedType
  <2>5. PICK n : n = next
    OBVIOUS
  <2>6. PICK l : l = left
    OBVIOUS
  <2>7. PICK counts : counts = Reserved(c)
    OBVIOUS
  <2>8. /\ PreambleChars(all, n, counts) =
              PreambleChars(all, tier, counts) + LineChars(IntentLineChars(x)) + OneFewer(l)
         /\ PreambleChars(all, tier, counts) \in Nat /\ OneFewer(l) \in Int /\ IsShown(all, n)
    <3>1. n.intents = tier.intents \cup {x} /\ n.claims = tier.claims /\ DroppedLineChars(counts) \in Nat
      BY <2>2, <2>4, <2>5, <2>7
    <3>2. /\ l = Cardinality(OfStatus(all, group) \ tier.intents)
          /\ RenderedStatus(x) = group
      <4>1. Mandatory(all).intents \subseteq tier.intents
        BY DEF Selects
      <4> QED
        BY <2>6, <4>1, LeftOutIs
    <3>3. group \in Statuses
      BY DEF Statuses
    <3> HIDE DEF next, left, delta
    <3> QED
      BY <2>1, <3>1, <3>2, <3>3, PreambleTakesIntent
  <2>9. PICK entry \in Nat : entry = IntentEntryChars(x)
    BY <2>1, <2>2, StateTakes
  <2>10. PICK sep \in Nat : sep = comma
    OBVIOUS
  <2>11. PICK fewer \in Int : fewer = OneFewer(left) /\ delta = line + fewer + entry + sep
    BY <2>3, <2>6, <2>8, <2>9, <2>10
  <2>12. n \in Tiers(all)
    <3>1. PICK d \in Int : d = delta
      <4> HIDE DEF delta
      <4> QED
        BY <2>11
    <3>2. PICK D : D = DOMAIN all.claims
      OBVIOUS
    <3>3. PICK I : I = all.intents
      OBVIOUS
    <3> HIDE DEF delta
    <3>4. n = [tier EXCEPT !.intents = @ \cup {x}, !.added = @ + d, !.listed = @ + 1]
      BY <2>5, <3>1
    <3>5. tier \in [claims : SUBSET D, intents : SUBSET I, added : Int, listed : Nat] /\ x \in I
      BY <2>1, <3>2, <3>3 DEF Tiers
    <3>6. tier.intents \cup {x} \in SUBSET I /\ tier.added + d \in Int /\ tier.listed + 1 \in Nat
      BY <3>5
    <3>7. n \in [claims : SUBSET D, intents : SUBSET I, added : Int, listed : Nat]
      BY <3>4, <3>5, <3>6
    <3> QED
      BY <3>2, <3>3, <3>7 DEF Tiers
  <2>13. StateChars(all, n) = StateChars(all, tier) + entry + sep
    <3>1. n.intents = tier.intents \cup {x}
      BY <2>2, <2>5
    <3>2. StateChars(all, n) = StateChars(all, tier) + IntentEntryChars(x) + (IF tier.intents = {} THEN 0 ELSE 1)
      BY <2>1, <3>1, StateTakes
    <3> HIDE DEF next, delta
    <3> QED
      BY <2>9, <2>10, <3>2
  <2>14. /\ BaseChars(all, tier, c) = PreambleChars(all, tier, counts) + StateChars(all, tier)
         /\ BaseChars(all, n, c) = PreambleChars(all, n, counts) + StateChars(all, n)
         /\ StateChars(all, tier) \in Nat
    BY <2>1, <2>7, <2>8, BaseIs
  <2>15. PICK m \in Nat : m = BaseChars(all, Mandatory(all), c)
    BY MandatorySelects, BaseIs
  <2>16. BaseChars(all, tier, c) = m + tier.added
    BY <2>15 DEF Selects
  <2>17. PICK state \in Nat : state = StateChars(all, tier)
    BY <2>14
  <2>18. PICK pre \in Nat : pre = PreambleChars(all, tier, counts)
    BY <2>8
  <2>19. BaseChars(all, n, c) = m + n.added /\ n.added <= room
    <3>1. n.added = tier.added + line + fewer + entry + sep
      <4> HIDE DEF delta, next
      <4> QED
        BY <2>1, <2>2, <2>5, <2>11
    <3>2. n.added <= room
      <4>1. ~(tier.added + delta > room)
        BY <1>3
      <4> HIDE DEF delta, next
      <4> QED
        BY <2>1, <2>11, <3>1, <4>1
    <3>3. PreambleChars(all, n, counts) = pre + line + fewer
      BY <2>3, <2>6, <2>8, <2>11, <2>18
    <3>4. pre + state = m + tier.added
      BY <2>14, <2>16, <2>17, <2>18
    <3>5. BaseChars(all, n, c) = pre + line + fewer + state + entry + sep
      BY <2>13, <2>14, <2>17, <3>3
    <3> HIDE DEF delta, next, left, comma, out
    <3> QED
      BY <2>1, <3>1, <3>2, <3>4, <3>5
  <2>20. Selects(all, room, c, n)
    <3> HIDE DEF delta, next, left, out
    <3>1. Mandatory(all).claims \subseteq n.claims /\ Mandatory(all).intents \subseteq n.intents
      BY <2>2, <2>5 DEF Selects
    <3> QED
      BY <2>12, <2>15, <2>19, <3>1 DEF Selects
  <2>21. out = n /\ n.intents = tier.intents \cup {x}
    <3> HIDE DEF delta, next, out
    <3> QED
      BY <1>1, <1>3, <2>2, <2>5
  <2> HIDE DEF delta, next, out
  <2> QED
    BY <2>20, <2>21 DEF out
<1> QED
  BY <1>2, <1>3

\* The prefixes of 1..n.
LEMMA UpToEach ==
  ASSUME NEW n \in Nat
  PROVE  /\ 1..0 = {}
         /\ \A k \in 1..n : /\ 1..k \in SUBSET (1..n) /\ 1..k # {}
                            /\ Max(1..k) = k /\ (1..k) \ {k} = 1..(k - 1) /\ k - 1 \in 0..n /\ k \in 0..n
         /\ \A s \in SUBSET (1..n) : s # {} => Max(s) \in s
<1>1. \A k \in 1..n : Max(1..k) = k
  <2> TAKE k \in 1..n
  <2>1. 1..k \in SUBSET (0..k) /\ k \in 1..k /\ k \in Nat /\ \A i \in 1..k : i <= k
    OBVIOUS
  <2>2. Max(1..k) \in 1..k /\ k <= Max(1..k)
    BY <2>1, GreatestOf
  <2> QED
    BY <2>1, <2>2
<1>2. \A s \in SUBSET (1..n) : s # {} => Max(s) \in s
  <2> TAKE s \in SUBSET (1..n)
  <2> HAVE s # {}
  <2>1. s \in SUBSET (0..n)
    OBVIOUS
  <2> QED
    BY <2>1, GreatestOf
<1>3. \A k \in 1..n : 1..k \in SUBSET (1..n) /\ 1..k # {} /\ (1..k) \ {k} = 1..(k - 1) /\ k - 1 \in 0..n /\ k \in 0..n
  OBVIOUS
<1>4. 1..0 = {}
  OBVIOUS
<1> QED
  BY <1>1, <1>2, <1>3, <1>4

\* The claims are taken one by one.
LEMMA ClaimsTaken ==
  ASSUME NEW all, IsAll(all), NEW room \in Int, NEW c \in Nat, NEW start, Selects(all, room, c, start)
  PROVE  /\ Selects(all, room, c, TakeClaims(all, room, start))
         /\ TakeClaims(all, room, start).intents = start.intents
<1> DEFINE n == Len(all.claims)
           D == 1..n
           seq == [i \in DOMAIN all.claims |-> i]
           S == {t \in Tiers(all) : Selects(all, room, c, t) /\ t.intents = start.intents}
           step == [k \in D |-> [t \in S |-> TakeClaim(all, room, t, k)]]
           IsIter(g) == g = [s \in SUBSET D |->
                               IF s = {} THEN start ELSE TakeClaim(all, room, g[s \ {Max(s)}], seq[Max(s)])]
<1>1. n \in Nat /\ DOMAIN all.claims = D /\ DOMAIN seq = D /\ \A k \in D : seq[k] = k
  BY DEF IsAll
<1>2. TakeClaims(all, room, start) = (CHOOSE g : IsIter(g))[D]
  <2>1. TakeClaims(all, room, start) = (CHOOSE g : g = [s \in SUBSET (DOMAIN seq) |->
            IF s = {} THEN start ELSE TakeClaim(all, room, g[s \ {Max(s)}], seq[Max(s)])])[DOMAIN seq]
    BY Zenon DEF TakeClaims, FoldLeft, MapThenFoldSet
  <2> HIDE DEF seq, D
  <2> QED
    BY <1>1, <2>1
<1>3. \A s \in SUBSET D : s # {} => Max(s) \in s
  BY <1>1, UpToEach
<1>4. \A t \in S : \A k \in D : TakeClaim(all, room, t, k) \in S
  <2> TAKE t \in S
  <2> TAKE k \in D
  <2>1. Selects(all, room, c, t) /\ t.intents = start.intents /\ k \in DOMAIN all.claims
    BY <1>1
  <2>2. Selects(all, room, c, TakeClaim(all, room, t, k)) /\ TakeClaim(all, room, t, k).intents = t.intents
    BY <2>1, TakeClaimKeeps
  <2>3. TakeClaim(all, room, t, k) \in Tiers(all)
    BY <2>2 DEF Selects
  <2> QED
    BY <2>1, <2>2, <2>3
<1>5. start \in S
  BY DEF Selects
<1>6. step \in [D -> [S -> S]] /\ \A k \in D : \A t \in S : step[k][t] = TakeClaim(all, room, t, k)
  <2> HIDE DEF S, D
  <2> QED
    BY <1>4
<1> HIDE DEF S, step, seq
<1>7. PICK f \in [SUBSET D -> S] : FoldsUp(f, D, start, step)
  BY <1>1, <1>5, <1>6, FoldUp
<1> HIDE DEF D
<1>8. IsIter(f)
  <2>1. f = [s \in SUBSET D |-> f[s]]
    BY <1>7
  <2>2. \A s \in SUBSET D : f[s] = IF s = {} THEN start ELSE TakeClaim(all, room, f[s \ {Max(s)}], seq[Max(s)])
    <3> TAKE s \in SUBSET D
    <3>1. f[s] = IF s = {} THEN start ELSE step[Max(s)][f[s \ {Max(s)}]]
      BY <1>7 DEF FoldsUp
    <3>2. s # {} => Max(s) \in D /\ f[s \ {Max(s)}] \in S
      BY <1>3, <1>7
    <3> QED
      BY <1>1, <1>6, <3>1, <3>2
  <2> QED
    BY <2>1, <2>2, Zenon
<1>9. PICK G : G = CHOOSE g : IsIter(g)
  OBVIOUS
<1>10. IsIter(G)
  <2>1. \E g : IsIter(g)
    BY <1>8
  <2> HIDE DEF IsIter
  <2> QED
    BY <1>9, <2>1
<1>11. \A s \in SUBSET D : G[s] = IF s = {} THEN start ELSE TakeClaim(all, room, G[s \ {Max(s)}], seq[Max(s)])
  BY <1>10, Zenon
<1> DEFINE good == {k \in 0..n : G[1..k] \in S}
<1>12. 0 \in good
  <2>1. 1..0 = {} /\ {} \in SUBSET D /\ 0 \in 0..n
    BY <1>1, UpToEach
  <2> HIDE DEF n
  <2>2. G[{}] = start
    BY <1>11, <2>1
  <2> QED
    BY <1>5, <2>1, <2>2
<1>13. ASSUME NEW k \in 0..(n - 1), k \in good PROVE k + 1 \in good
  <2>1. k + 1 \in 1..n /\ k + 1 \in 0..n /\ (k + 1) - 1 = k
    BY <1>1
  <2>2. PICK j \in 1..n : j = k + 1 /\ j - 1 = k
    BY <2>1
  <2>3. 1..j \in SUBSET D /\ 1..j # {} /\ Max(1..j) = j /\ (1..j) \ {j} = 1..k /\ j \in D
    <3>1. 1..j \in SUBSET (1..n) /\ 1..j # {} /\ Max(1..j) = j /\ (1..j) \ {j} = 1..(j - 1)
      BY <1>1, UpToEach
    <3> QED
      BY <2>2, <3>1 DEF D
  <2>4. G[1..j] = TakeClaim(all, room, G[1..k], j)
    BY <1>1, <1>11, <2>3
  <2> HIDE DEF n
  <2>5. G[1..j] \in S
    BY <1>4, <1>13, <2>3, <2>4
  <2> QED
    BY <2>1, <2>2, <2>5
<1>14. n \in good
  <2> HIDE DEF good, n
  <2>1. \A k \in 0..n : k \in good
    BY <1>1, <1>12, <1>13, UpTo
  <2> QED
    BY <1>1, <2>1
<1>15. TakeClaims(all, room, start) \in S
  BY <1>2, <1>9, <1>14 DEF D
<1> QED
  BY <1>15 DEF S

\* The intents of a group are taken one by one.
LEMMA GroupTaken ==
  ASSUME NEW all, IsAll(all), NEW room \in Int, NEW c \in Nat, NEW start, Selects(all, room, c, start),
         NEW cap, NEW group \in {"pending", "completed"},
         \A x \in start.intents : IntentGroup(x) # group
  PROVE  /\ Selects(all, room, c, TakeGroup(all, room, group, cap, start))
         /\ \A x \in TakeGroup(all, room, group, cap, start).intents :
              x \in start.intents \/ IntentGroup(x) = group
<1> DEFINE Group == {intent \in all.intents : IntentGroup(intent) = group}
           seq == NewestFirst(all, group)
           n == Len(seq)
           D == 1..n
           first == [start EXCEPT !.listed = 0]
           OfGroup(t) == \A x \in t.intents : x \in start.intents \/ IntentGroup(x) = group
           S == {t \in Tiers(all) : Selects(all, room, c, t) /\ OfGroup(t)}
           Take(t, x) == TakeIntent(all, room, group, cap, t, x)
           step == [k \in D |-> [t \in S |-> IF seq[k] \in t.intents THEN t ELSE Take(t, seq[k])]]
           IsIter(g) == g = [s \in SUBSET D |->
                               IF s = {} THEN first ELSE Take(g[s \ {Max(s)}], seq[Max(s)])]
<1>1. /\ n \in Nat /\ DOMAIN seq = D
      /\ \A k \in D : seq[k] \in all.intents /\ IntentGroup(seq[k]) = group
      /\ \A i, j \in D : seq[i] = seq[j] => i = j
  <2>1. PICK T : T = Group
    OBVIOUS
  <2>2. PICK q : q = seq
    OBVIOUS
  <2>3. Lists(q, T)
    BY <2>1, <2>2, NewestFirstLists
  <2>4. q \in Seq(T) /\ \A i, j \in 1..Len(q) : q[i] = q[j] => i = j
    BY <2>3, Zenon DEF Lists
  <2>5. Len(q) \in Nat /\ DOMAIN q = 1..Len(q) /\ \A k \in 1..Len(q) : q[k] \in T
    BY <2>4
  <2> HIDE DEF seq
  <2> QED
    BY <2>1, <2>2, <2>4, <2>5
<1> HIDE DEF seq
<1>2. TakeGroup(all, room, group, cap, start) = (CHOOSE g : IsIter(g))[D]
  <2>1. TakeGroup(all, room, group, cap, start) = (CHOOSE g : g = [s \in SUBSET (DOMAIN seq) |->
            IF s = {} THEN first ELSE Take(g[s \ {Max(s)}], seq[Max(s)])])[DOMAIN seq]
    BY Zenon DEF TakeGroup, FoldLeft, MapThenFoldSet, seq
  <2> HIDE DEF D, Take, first
  <2> QED
    BY <1>1, <2>1
<1>3. \A s \in SUBSET D : s # {} => Max(s) \in s
  BY <1>1, UpToEach
<1>4. \A t \in S : \A k \in D : seq[k] \notin t.intents =>
        Take(t, seq[k]) \in S /\ Take(t, seq[k]).intents \in {t.intents, t.intents \cup {seq[k]}}
  <2> TAKE t \in S
  <2> TAKE k \in D
  <2> HAVE seq[k] \notin t.intents
  <2>1. PICK x \in all.intents : x = seq[k] /\ x \notin t.intents /\ IntentGroup(x) = group
    BY <1>1
  <2>2. Selects(all, room, c, t) /\ OfGroup(t)
    OBVIOUS
  <2>3. PICK out : out = Take(t, x)
    OBVIOUS
  <2>4. Selects(all, room, c, out) /\ out.intents \in {t.intents, t.intents \cup {x}}
    BY <2>1, <2>2, <2>3, TakeIntentKeeps
  <2>5. out \in Tiers(all)
    BY <2>4 DEF Selects
  <2>6. OfGroup(out)
    BY <2>1, <2>2, <2>4
  <2> HIDE DEF Take, OfGroup
  <2> QED
    BY <2>1, <2>3, <2>4, <2>5, <2>6
<1>5. first \in S /\ first.intents = start.intents
  <2>1. start \in Tiers(all)
    BY DEF Selects
  <2>2. /\ first \in Tiers(all) /\ first.intents = start.intents /\ first.claims = start.claims
        /\ first.added = start.added
    BY <2>1 DEF Tiers
  <2>3. BaseChars(all, first, c) = BaseChars(all, start, c)
    <3> HIDE DEF first
    <3> QED
      BY <2>2 DEF BaseChars, ContextChars, PreambleChars, ClaimSection, IntentSection, StateChars
  <2> HIDE DEF first
  <2>4. Selects(all, room, c, first)
    BY <2>2, <2>3 DEF Selects
  <2> QED
    BY <2>2, <2>4
<1>6. /\ step \in [D -> [S -> S]]
      /\ \A k \in D : \A t \in S : step[k][t] = IF seq[k] \in t.intents THEN t ELSE Take(t, seq[k])
  <2> HIDE DEF S, D, Take
  <2> QED
    BY <1>4
<1> HIDE DEF S, step, first, Take
<1>7. PICK f \in [SUBSET D -> S] : FoldsUp(f, D, first, step)
  BY <1>1, <1>5, <1>6, FoldUp
<1>20. IsFiniteSet(D)
  BY <1>1, FS_Interval
<1> HIDE DEF D
<1>8. \A s \in SUBSET D : \A j \in D \ s : seq[j] \notin f[s].intents
  <2> DEFINE good == {s \in SUBSET D : \A j \in D \ s : seq[j] \notin f[s].intents}
  <2>1. PICK pick : pick = [s \in SUBSET D |-> Max(s)]
    OBVIOUS
  <2>2. \A s \in SUBSET D : pick[s] = Max(s) /\ (s # {} => pick[s] \in s)
    BY <1>3, <2>1
  <2>3. {} \in good
    <3>1. f[{}] = first
      BY <1>7 DEF FoldsUp
    <3> QED
      BY <1>1, <1>5, <3>1
  <2>4. \A s \in SUBSET D : s # {} /\ s \ {pick[s]} \in good => s \in good
    <3> TAKE s \in SUBSET D
    <3> HAVE s # {} /\ s \ {pick[s]} \in good
    <3>1. PICK m \in D : m = Max(s) /\ m \in s /\ s \ {m} \in good
      BY <2>2
    <3>2. f[s] = step[m][f[s \ {m}]] /\ f[s \ {m}] \in S
      BY <1>7, <3>1 DEF FoldsUp
    <3>3. seq[m] \notin f[s \ {m}].intents
      BY <3>1
    <3>6. PICK t \in S : t = f[s \ {m}]
      BY <3>2
    <3>7. f[s] = Take(t, seq[m])
      BY <1>6, <3>2, <3>3, <3>6
    <3>4. f[s].intents \in {f[s \ {m}].intents, f[s \ {m}].intents \cup {seq[m]}}
      BY <1>4, <3>3, <3>6, <3>7
    <3>5. \A j \in D \ s : seq[j] \notin f[s \ {m}].intents /\ seq[j] # seq[m]
      BY <1>1, <3>1
    <3> QED
      BY <3>4, <3>5
  <2> HIDE DEF good
  <2>5. \A s \in SUBSET D : s \in good
    <3>1. \A s \in SUBSET D : s # {} => pick[s] \in s
      BY <2>2
    <3> QED
      BY <1>20, <2>3, <2>4, <3>1, SetUp
  <2> QED
    BY <2>5 DEF good
<1>9. IsIter(f)
  <2>1. f = [s \in SUBSET D |-> f[s]]
    BY <1>7
  <2>2. \A s \in SUBSET D : f[s] = IF s = {} THEN first ELSE Take(f[s \ {Max(s)}], seq[Max(s)])
    <3> TAKE s \in SUBSET D
    <3>1. f[s] = IF s = {} THEN first ELSE step[Max(s)][f[s \ {Max(s)}]]
      BY <1>7 DEF FoldsUp
    <3>2. s # {} => Max(s) \in D /\ f[s \ {Max(s)}] \in S /\ seq[Max(s)] \notin f[s \ {Max(s)}].intents
      BY <1>3, <1>7, <1>8
    <3> QED
      BY <1>6, <3>1, <3>2
  <2> QED
    BY <2>1, <2>2, Zenon
<1>10. PICK G : G = CHOOSE g : IsIter(g)
  OBVIOUS
<1>11. IsIter(G)
  <2>1. \E g : IsIter(g)
    BY <1>9
  <2> HIDE DEF IsIter
  <2> QED
    BY <1>10, <2>1
<1>12. \A s \in SUBSET D : G[s] = IF s = {} THEN first ELSE Take(G[s \ {Max(s)}], seq[Max(s)])
  BY <1>11, Zenon
<1> DEFINE good == {k \in 0..n : G[1..k] \in S /\ \A j \in D : j > k => seq[j] \notin G[1..k].intents}
<1>13. 0 \in good
  <2>1. 1..0 = {} /\ {} \in SUBSET D /\ 0 \in 0..n
    BY <1>1, UpToEach
  <2> HIDE DEF n
  <2>2. G[{}] = first
    BY <1>12, <2>1
  <2>3. \A j \in D : seq[j] \notin first.intents
    BY <1>1, <1>5
  <2> QED
    BY <1>5, <2>1, <2>2, <2>3
<1>14. ASSUME NEW k \in 0..(n - 1), k \in good PROVE k + 1 \in good
  <2>1. k + 1 \in 1..n /\ k + 1 \in 0..n /\ (k + 1) - 1 = k
    BY <1>1
  <2>2. PICK j \in 1..n : j = k + 1 /\ j - 1 = k /\ j > k /\ \A i \in 1..n : i > j => i > k
    BY <1>1, <2>1
  <2>3. 1..j \in SUBSET D /\ 1..j # {} /\ Max(1..j) = j /\ (1..j) \ {j} = 1..k /\ j \in D
    <3>1. 1..j \in SUBSET (1..n) /\ 1..j # {} /\ Max(1..j) = j /\ (1..j) \ {j} = 1..(j - 1)
      BY <1>1, UpToEach
    <3> QED
      BY <2>2, <3>1 DEF D
  <2>4. G[1..j] = Take(G[1..k], seq[j])
    BY <1>12, <2>3
  <2>5. \A i \in D : i > j => i > k /\ i # j
    BY <1>1, <2>2 DEF D
  <2> HIDE DEF n
  <2>6. G[1..k] \in S /\ seq[j] \notin G[1..k].intents
    BY <1>14, <2>2, <2>3
  <2>7. G[1..j] \in S /\ G[1..j].intents \in {G[1..k].intents, G[1..k].intents \cup {seq[j]}}
    BY <1>4, <2>3, <2>4, <2>6
  <2>8. \A i \in D : i > j => seq[i] \notin G[1..j].intents
    BY <1>1, <1>14, <2>3, <2>5, <2>7
  <2> QED
    BY <2>1, <2>2, <2>7, <2>8
<1>15. n \in good
  <2> HIDE DEF good, n
  <2>1. \A k \in 0..n : k \in good
    BY <1>1, <1>13, <1>14, UpTo
  <2> QED
    BY <1>1, <2>1
<1>16. TakeGroup(all, room, group, cap, start) \in S
  BY <1>2, <1>10, <1>15 DEF D
<1> QED
  BY <1>16 DEF S

\* Tier 1 shows what is shown in any case, and counts what it adds.
LEMMA Tier1Selects ==
  ASSUME NEW all, IsAll(all), NEW room \in Int, NEW c \in Nat
  PROVE  Selects(all, room, c, SelectTier1(all, room))
<1>1. PICK m : m = Mandatory(all)
  OBVIOUS
<1>2. Selects(all, room, c, m) /\ \A x \in m.intents : IntentGroup(x) = "never_dropped"
  BY <1>1, MandatorySelects DEF Mandatory
<1>3. PICK t : t = TakeClaims(all, room, m)
  OBVIOUS
<1>4. Selects(all, room, c, t) /\ t.intents = m.intents
  BY <1>2, <1>3, ClaimsTaken
<1>5. PICK u : u = TakeGroup(all, room, "pending", PendingCap, t)
  OBVIOUS
<1>6. Selects(all, room, c, u) /\ \A x \in u.intents : x \in t.intents \/ IntentGroup(x) = "pending"
  BY <1>2, <1>4, <1>5, GroupTaken
<1>7. \A x \in u.intents : IntentGroup(x) # "completed"
  BY <1>2, <1>4, <1>6
<1>8. Selects(all, room, c, TakeGroup(all, room, "completed", CompletedCap, u))
  BY <1>6, <1>7, GroupTaken
<1> QED
  BY <1>1, <1>3, <1>5, <1>8 DEF SelectTier1

-----------------------------------------------------------------------------
(* A context that is being assembled *)

\* The width of each event of a list.
EventWidths(q) == [i \in DOMAIN q |-> EventChars(ledger[q[i]])]

\* One event more in a list, and a comma unless it is the first.
LEMMA EventsAppend ==
  ASSUME Measured, NEW q \in Seq(DOMAIN ledger), NEW x \in DOMAIN ledger
  PROVE  /\ EventsChars(Append(q, x)) = EventsChars(q) + EventChars(ledger[x]) + (IF q = <<>> THEN 0 ELSE 1)
         /\ EventsChars(q) \in Nat /\ EventChars(ledger[x]) \in Nat
<1>1. PICK n \in Nat : n = Len(q) /\ DOMAIN q = 1..n
  OBVIOUS
<1>2. PICK D : D = DOMAIN ledger
  OBVIOUS
<1>3. \A i \in D : EventChars(ledger[i]) \in Nat
  BY <1>2 DEF Measured, IsRun
<1>4. PICK p : p = Append(q, x)
  OBVIOUS
<1>5. /\ Len(p) = n + 1 /\ DOMAIN p = 1..(n + 1) /\ p[n + 1] = x
      /\ \A i \in 1..n : p[i] = q[i] /\ q[i] \in D
  BY <1>1, <1>2, <1>4
<1>6. PICK v : v = EventWidths(q)
  OBVIOUS
<1>7. PICK w : w = EventWidths(p)
  OBVIOUS
<1>8. DOMAIN v = 1..n /\ \A i \in 1..n : v[i] = EventChars(ledger[q[i]])
  BY <1>1, <1>6 DEF EventWidths
<1>9. DOMAIN w = 1..(n + 1) /\ \A i \in 1..(n + 1) : w[i] = EventChars(ledger[p[i]])
  BY <1>5, <1>7 DEF EventWidths
<1>10. 1..(n + 1) = (1..n) \cup {n + 1} /\ n + 1 \notin 1..n
  BY <1>1
<1>11. IsFiniteSet(1..n)
  BY <1>1, FS_Interval
<1>12. \A i \in 1..n : w[i] \in Nat /\ v[i] = w[i]
  BY <1>3, <1>5, <1>8, <1>9, <1>10
<1>13. w[n + 1] = EventChars(ledger[x]) /\ w[n + 1] \in Nat
  BY <1>2, <1>3, <1>5, <1>9, <1>10
<1>14. PICK T : T = 1..n
  OBVIOUS
<1>15. /\ SumFunctionOnSet(w, T \cup {n + 1}) = SumFunctionOnSet(w, T) + w[n + 1]
       /\ SumFunctionOnSet(w, T) \in Nat
  <2>1. IsFiniteSet(T) /\ n + 1 \notin T /\ \A y \in T \cup {n + 1} : w[y] \in Nat
    BY <1>10, <1>11, <1>12, <1>13, <1>14
  <2> QED
    BY <2>1, SumAdds
<1>16. SumFunctionOnSet(v, T) = SumFunctionOnSet(w, T)
  <2>1. IsFiniteSet(T) /\ \A y \in T : w[y] \in Nat /\ v[y] = w[y]
    BY <1>11, <1>12, <1>14
  <2> QED
    BY <2>1, SameSums
<1>17. \A f : SumFunction(f) = SumFunctionOnSet(f, DOMAIN f)
  BY Zenon DEF SumFunction
<1>18. /\ EventsChars(q) = SumFunction(v) + Separators(Len(q))
       /\ EventsChars(p) = SumFunction(w) + Separators(Len(p))
  BY <1>6, <1>7, Zenon DEF EventsChars, EventWidths
<1>19. SumFunction(v) = SumFunctionOnSet(w, T) /\ SumFunction(w) = SumFunctionOnSet(w, T) + w[n + 1]
  BY <1>8, <1>9, <1>10, <1>14, <1>15, <1>16, <1>17
<1>20. PICK s \in Nat : s = SumFunctionOnSet(w, T)
  BY <1>15
<1>21. PICK chars \in Nat : chars = EventChars(ledger[x])
  BY <1>13
<1>22. /\ Separators(n) \in Nat /\ Separators(n + 1) = Separators(n) + (IF n = 0 THEN 0 ELSE 1)
  BY <1>1 DEF Separators
<1>23. q = <<>> <=> n = 0
  BY <1>1
<1>24. EventsChars(q) = s + Separators(n) /\ EventsChars(p) = s + chars + Separators(n + 1)
  BY <1>1, <1>5, <1>13, <1>18, <1>19, <1>20, <1>21
<1>25. PICK sep \in Nat : sep = Separators(n)
  BY <1>22
<1>26. PICK comma \in Nat : comma = IF q = <<>> THEN 0 ELSE 1
  OBVIOUS
<1>27. Separators(n + 1) = sep + comma
  BY <1>22, <1>23, <1>25, <1>26
<1>28. EventsChars(q) = s + sep /\ EventsChars(p) = s + chars + sep + comma
  BY <1>24, <1>25, <1>27
<1>29. EventsChars(p) = EventsChars(q) + chars + comma
  BY <1>28
<1> QED
  BY <1>4, <1>21, <1>26, <1>28, <1>29

Causes == {"cited", "lastFailure", "delta"}
Assemblies ==
  [events : Seq(DOMAIN ledger), chars : Nat, considered : SUBSET (DOMAIN ledger), dropped : [Causes -> Nat]]

\* A context that is being assembled: its measure is right and within the limit, and
\* what it shows was considered.
Assembled(limit, base, ctx) ==
  /\ ctx \in Assemblies
  /\ ctx.chars = base + EventsChars(ctx.events) /\ ctx.chars <= limit
  /\ Lists(ctx.events, ToSet(ctx.events)) /\ ToSet(ctx.events) \subseteq ctx.considered

\* What the candidates X of a cause have made of a context.
LeftOutBy(start, X, ctx) == (X \ start.considered) \ ToSet(ctx.events)
Follows(limit, base, start, of, X, ctx) ==
  /\ Assembled(limit, base, ctx)
  /\ ctx.considered = start.considered \cup X
  /\ ToSet(start.events) \subseteq ToSet(ctx.events)
  /\ ToSet(ctx.events) \subseteq ToSet(start.events) \cup (X \ start.considered)
  /\ ctx.dropped[of] = start.dropped[of] + Cardinality(LeftOutBy(start, X, ctx))
  /\ \A other \in Causes : other # of => ctx.dropped[other] = start.dropped[other]

\* The elements of a list that goes on.
LEMMA ListOfAppend ==
  ASSUME NEW D, NEW q \in Seq(D), NEW x \in D
  PROVE  ToSet(Append(q, x)) = ToSet(q) \cup {x} /\ ToSet(q) \in SUBSET D /\ IsFiniteSet(ToSet(q))
<1>1. PICK n \in Nat : n = Len(q) /\ DOMAIN q = 1..n
  OBVIOUS
<1>2. PICK p : p = Append(q, x)
  OBVIOUS
<1>3. DOMAIN p = 1..(n + 1) /\ p[n + 1] = x /\ \A i \in 1..n : p[i] = q[i]
  BY <1>1, <1>2
<1>4. \A i \in 1..(n + 1) : i \in 1..n \/ i = n + 1
  BY <1>1
<1>5. 1..n \subseteq 1..(n + 1) /\ n + 1 \in 1..(n + 1)
  BY <1>1
<1>6. ToSet(p) = ToSet(q) \cup {x}
  BY <1>1, <1>3, <1>4, <1>5 DEF ToSet
<1>7. ToSet(q) \in SUBSET D
  BY <1>1 DEF ToSet
<1>8. IsFiniteSet(ToSet(q))
  <2>1. IsFiniteSet(1..n)
    BY <1>1, FS_Interval
  <2>2. PICK f : f = [i \in 1..n |-> q[i]]
    OBVIOUS
  <2>3. PICK R : R = ToSet(q)
    OBVIOUS
  <2>4. f \in Surjection(1..n, R)
    BY <1>1, <2>2, <2>3 DEF ToSet, Surjection
  <2> QED
    BY <2>1, <2>3, <2>4, FS_Surjection
<1> QED
  BY <1>2, <1>6, <1>7, <1>8

\* A candidate is shown, or it is counted, or an earlier cause has considered it.
LEMMA ConsiderKeeps ==
  ASSUME Measured, NEW limit \in Nat, NEW base \in Nat, NEW start \in Assemblies, NEW of \in Causes,
         NEW X \in SUBSET (DOMAIN ledger), NEW x \in DOMAIN ledger, x \notin X,
         NEW ctx, Follows(limit, base, start, of, X, ctx)
  PROVE  Follows(limit, base, start, of, X \cup {x}, Consider(limit, of, ctx, x))
<1>1. PICK D : D = DOMAIN ledger
  OBVIOUS
<1>2. PICK comma \in Nat : comma = IF ctx.events = <<>> THEN 0 ELSE 1
  OBVIOUS
<1>3. /\ ctx \in [events : Seq(D), chars : Nat, considered : SUBSET D, dropped : [Causes -> Nat]]
      /\ start \in [events : Seq(D), chars : Nat, considered : SUBSET D, dropped : [Causes -> Nat]]
      /\ x \in D /\ X \in SUBSET D
  BY <1>1 DEF Follows, Assembled, Assemblies
<1>4. ctx.events \in Seq(D) /\ ctx.chars \in Nat /\ ctx.considered \in SUBSET D /\ ctx.dropped \in [Causes -> Nat]
  BY <1>3
<1>5. /\ EventsChars(Append(ctx.events, x)) = EventsChars(ctx.events) + EventChars(ledger[x]) + comma
      /\ EventsChars(ctx.events) \in Nat /\ EventChars(ledger[x]) \in Nat
  BY <1>1, <1>2, <1>4, EventsAppend
<1>6. PICK wide \in Nat : wide = EventChars(ledger[x])
  BY <1>5
<1>7. PICK chars \in Nat : chars = ctx.chars + wide + comma
  BY <1>4
<1>80. PICK old \in [Causes -> Nat] : old = ctx.dropped
  BY <1>4
<1>81. PICK dropped \in [Causes -> Nat] : dropped = [old EXCEPT ![of] = old[of] + 1]
  <2>1. [old EXCEPT ![of] = old[of] + 1] \in [Causes -> Nat]
    OBVIOUS
  <2> QED
    BY <2>1
<1>8. dropped = [ctx.dropped EXCEPT ![of] = @ + 1]
  BY <1>80, <1>81
<1>9. PICK out : out = Consider(limit, of, ctx, x)
  OBVIOUS
<1>10. out = IF x \in ctx.considered THEN ctx
             ELSE IF chars > limit
             THEN [ctx EXCEPT !.considered = @ \cup {x}, !.dropped = dropped]
             ELSE [ctx EXCEPT !.considered = @ \cup {x}, !.events = Append(@, x), !.chars = chars]
  BY <1>2, <1>6, <1>7, <1>8, <1>9 DEF Consider
<1>11. PICK q \in Seq(D) : q = ctx.events
  BY <1>4
<1>12. PICK R \in SUBSET D : R = ToSet(q)
  BY <1>11, <1>3, ListOfAppend
<1>13. PICK S \in SUBSET D : S = start.considered
  BY <1>3
<1>14. PICK E \in SUBSET D : E = ToSet(start.events)
  <2>1. start.events \in Seq(D)
    BY <1>3
  <2> QED
    BY <2>1, <1>3, ListOfAppend
<1>15. PICK d \in [Causes -> Nat] : d = ctx.dropped
  BY <1>4
<1>16. PICK b \in [Causes -> Nat] : b = start.dropped
  BY <1>3
<1>17. /\ ctx.chars = base + EventsChars(q) /\ ctx.chars <= limit /\ Lists(q, R) /\ R \subseteq ctx.considered
       /\ ctx.considered = S \cup X /\ E \subseteq R /\ R \subseteq E \cup (X \ S)
       /\ d[of] = b[of] + Cardinality((X \ S) \ R)
       /\ \A other \in Causes : other # of => d[other] = b[other]
  BY <1>11, <1>12, <1>13, <1>14, <1>15, <1>16 DEF Follows, Assembled, LeftOutBy
<1>18. IsFiniteSet(D)
  <2>1. D = 1..Len(ledger) /\ Len(ledger) \in Nat
    BY <1>1 DEF Measured, IsRun
  <2> QED
    BY <2>1, FS_Interval
<1>19. PICK Y \in SUBSET D : Y = X \cup {x}
  BY <1>3
<1>20. CASE x \in ctx.considered
  <2>1. x \in S /\ out = ctx
    BY <1>3, <1>10, <1>17, <1>20
  <2>2. ctx.considered = S \cup Y /\ Y \ S = X \ S
    BY <1>17, <1>19, <2>1
  <2>3. Follows(limit, base, start, of, Y, ctx)
    <3>1. Assembled(limit, base, ctx)
      BY DEF Follows
    <3> QED
      BY <1>11, <1>12, <1>13, <1>14, <1>15, <1>16, <1>17, <2>2, <3>1 DEF Follows, LeftOutBy
  <2> QED
    BY <1>9, <1>19, <2>1, <2>3
<1>21. CASE x \notin ctx.considered /\ chars > limit
  <2>1. out = [ctx EXCEPT !.considered = @ \cup {x}, !.dropped = dropped]
    BY <1>10, <1>21
  <2>2. /\ out \in [events : Seq(D), chars : Nat, considered : SUBSET D, dropped : [Causes -> Nat]]
        /\ out.events = q /\ out.chars = ctx.chars /\ out.considered = ctx.considered \cup {x}
        /\ out.dropped = dropped
    BY <1>3, <1>11, <2>1
  <2>3. (Y \ S) \ R = ((X \ S) \ R) \cup {x} /\ x \notin (X \ S) \ R
    BY <1>17, <1>19, <1>21
  <2>4. Cardinality((Y \ S) \ R) = Cardinality((X \ S) \ R) + 1 /\ Cardinality((X \ S) \ R) \in Nat
    <3>1. PICK left \in SUBSET D : left = (X \ S) \ R
      BY <1>3
    <3>2. IsFiniteSet(left)
      BY <1>18, FS_Subset
    <3>3. Cardinality(left \cup {x}) = Cardinality(left) + 1 /\ Cardinality(left) \in Nat
      BY <2>3, <3>1, <3>2, FS_AddElement, FS_CardinalityType
    <3> QED
      BY <2>3, <3>1, <3>3
  <2>5. /\ dropped[of] = b[of] + Cardinality((Y \ S) \ R)
        /\ \A other \in Causes : other # of => dropped[other] = b[other]
    <3>1. PICK m \in Nat : m = Cardinality((X \ S) \ R)
      BY <2>4
    <3>2. dropped[of] = d[of] + 1 /\ d[of] \in Nat /\ b[of] \in Nat
      BY <1>8, <1>15
    <3>3. dropped[of] = b[of] + (m + 1)
      BY <1>17, <3>1, <3>2
    <3>4. \A other \in Causes : other # of => dropped[other] = d[other]
      BY <1>8, <1>15
    <3> QED
      BY <1>17, <2>4, <3>1, <3>3, <3>4
  <2>6. Assembled(limit, base, out)
    BY <1>1, <1>12, <1>17, <2>2 DEF Assembled, Assemblies
  <2>7. Follows(limit, base, start, of, Y, out)
    <3>1. out.considered = S \cup Y /\ R \subseteq E \cup (Y \ S)
      BY <1>17, <1>19, <2>2
    <3> QED
      BY <1>12, <1>13, <1>14, <1>16, <1>17, <2>2, <2>5, <2>6, <3>1 DEF Follows, LeftOutBy
  <2> QED
    BY <1>9, <1>19, <2>7
<1>22. CASE x \notin ctx.considered /\ ~(chars > limit)
  <2>20. Append(q, x) \in Seq(D)
    <3>1. x \in D
      BY <1>1
    <3> QED
      BY <3>1
  <2>0. PICK p \in Seq(D) : p = Append(q, x)
    BY <2>20
  <2>1. out = [ctx EXCEPT !.considered = @ \cup {x}, !.events = p, !.chars = chars]
    BY <1>10, <1>11, <1>22, <2>0
  <2>2. /\ out \in [events : Seq(D), chars : Nat, considered : SUBSET D, dropped : [Causes -> Nat]]
        /\ out.events = p /\ out.chars = chars /\ out.considered = ctx.considered \cup {x}
        /\ out.dropped = d
    BY <1>3, <1>15, <2>1
  <2>3. PICK P \in SUBSET D : P = R \cup {x}
    BY <1>3
  <2>4. ToSet(p) = P
    BY <1>3, <1>12, <2>0, <2>3, ListOfAppend
  <2>5. Lists(p, P)
    <3>1. IsFiniteSet(P) /\ x \in P /\ P \ {x} = R
      BY <1>17, <1>18, <1>22, <2>3, FS_Subset
    <3>2. Lists(q, P \ {x})
      BY <1>17, <3>1
    <3> QED
      BY <2>0, <3>1, <3>2, ListsMore
  <2>6. out.chars = base + EventsChars(p) /\ out.chars <= limit
    <3>1. PICK e \in Nat : e = EventsChars(q)
      BY <1>5, <1>11
    <3>2. EventsChars(p) = e + wide + comma
      BY <1>5, <1>6, <1>11, <2>0, <3>1
    <3>4. PICK had \in Nat : had = ctx.chars
      BY <1>4
    <3>5. had = base + e
      BY <1>17, <3>1, <3>4
    <3>6. chars = had + wide + comma
      BY <1>7, <3>4
    <3>7. chars = base + (e + wide + comma)
      BY <3>5, <3>6
    <3>3. chars = base + (e + wide + comma) /\ chars <= limit
      BY <1>22, <3>7
    <3> QED
      BY <2>2, <3>2, <3>3
  <2>7. (Y \ S) \ P = (X \ S) \ R
    BY <1>17, <1>19, <1>22, <2>3
  <2>8. P \subseteq out.considered
    BY <1>17, <2>2, <2>3
  <2>9. Assembled(limit, base, out)
    BY <1>1, <2>2, <2>4, <2>5, <2>6, <2>8 DEF Assembled, Assemblies
  <2>10. Follows(limit, base, start, of, Y, out)
    <3>1. out.considered = S \cup Y /\ E \subseteq P /\ P \subseteq E \cup (Y \ S)
      BY <1>17, <1>19, <1>22, <2>2, <2>3
    <3> QED
      BY <1>13, <1>14, <1>16, <1>17, <2>2, <2>4, <2>7, <2>9, <3>1 DEF Follows, LeftOutBy
  <2> QED
    BY <1>9, <1>19, <2>10
<1> QED
  BY <1>20, <1>21, <1>22

\* A context that is being assembled follows itself.
LEMMA FollowsNone ==
  ASSUME NEW limit, NEW base, NEW start, Assembled(limit, base, start), NEW of \in Causes
  PROVE  Follows(limit, base, start, of, {}, start)
<1>1. LeftOutBy(start, {}, start) = {}
  BY DEF LeftOutBy
<1>2. PICK d \in [Causes -> Nat] : d = start.dropped
  BY DEF Assembled, Assemblies
<1>3. PICK none : none = LeftOutBy(start, {}, start)
  OBVIOUS
<1>4. Cardinality(none) = 0
  BY <1>1, <1>3, FS_EmptySet
<1>5. d[of] = d[of] + Cardinality(none)
  BY <1>4
<1>6. /\ start.considered = start.considered \cup {}
      /\ ToSet(start.events) \subseteq ToSet(start.events) \cup ({} \ start.considered)
  OBVIOUS
<1> QED
  BY <1>2, <1>3, <1>5, <1>6 DEF Follows

\* The candidates of a cause are considered one by one.
LEMMA AllConsidered ==
  ASSUME Measured, NEW limit \in Nat, NEW base \in Nat, NEW start, Assembled(limit, base, start), NEW of \in Causes,
         NEW X \in SUBSET (DOMAIN ledger), NEW q, Lists(q, X)
  PROVE  Follows(limit, base, start, of, X, ConsiderAll(limit, of, start, q))
<1> DEFINE n == Len(q)
           D == 1..n
           S == {ctx \in Assemblies : Assembled(limit, base, ctx)}
           Take(ctx, x) == Consider(limit, of, ctx, x)
           step == [k \in D |-> [ctx \in S |-> Take(ctx, q[k])]]
           IsIter(g) == g = [s \in SUBSET D |->
                               IF s = {} THEN start ELSE Take(g[s \ {Max(s)}], q[Max(s)])]
<1>1. /\ n \in Nat /\ DOMAIN q = D
      /\ \A k \in D : q[k] \in X
      /\ \A i, j \in D : q[i] = q[j] => i = j
      /\ \A x \in X : \E k \in D : q[k] = x
  <2>1. q \in Seq(X) /\ (\A i, j \in 1..Len(q) : q[i] = q[j] => i = j) /\ \A x \in X : \E i \in 1..Len(q) : q[i] = x
    BY Zenon DEF Lists
  <2>2. Len(q) \in Nat /\ DOMAIN q = 1..Len(q) /\ \A k \in 1..Len(q) : q[k] \in X
    BY <2>1
  <2> QED
    BY <2>1, <2>2
<1>2. ConsiderAll(limit, of, start, q) = (CHOOSE g : IsIter(g))[D]
  <2>1. ConsiderAll(limit, of, start, q) = (CHOOSE g : g = [s \in SUBSET (DOMAIN q) |->
            IF s = {} THEN start ELSE Take(g[s \ {Max(s)}], q[Max(s)])])[DOMAIN q]
    BY Zenon DEF ConsiderAll, FoldLeft, MapThenFoldSet
  <2> HIDE DEF D, Take
  <2> QED
    BY <1>1, <2>1
<1>3. \A s \in SUBSET D : s # {} => Max(s) \in s
  BY <1>1, UpToEach
<1>4. \A ctx \in S : \A k \in D : Take(ctx, q[k]) \in S
  <2> TAKE ctx \in S
  <2> TAKE k \in D
  <2>1. PICK x \in DOMAIN ledger : x = q[k]
    BY <1>1
  <2>2. Follows(limit, base, ctx, of, {}, ctx)
    BY FollowsNone
  <2>3. PICK none \in SUBSET (DOMAIN ledger) : none = {}
    OBVIOUS
  <2>4. Follows(limit, base, ctx, of, none \cup {x}, Consider(limit, of, ctx, x))
    <3>1. x \notin none /\ Follows(limit, base, ctx, of, none, ctx)
      BY <2>2, <2>3
    <3> QED
      BY <3>1, ConsiderKeeps
  <2>5. Assembled(limit, base, Consider(limit, of, ctx, x))
    BY <2>4 DEF Follows
  <2>6. Consider(limit, of, ctx, x) \in Assemblies
    BY <2>5 DEF Assembled
  <2> QED
    BY <2>1, <2>5, <2>6
<1>5. start \in S
  BY DEF Assembled
<1>6. step \in [D -> [S -> S]] /\ \A k \in D : \A ctx \in S : step[k][ctx] = Take(ctx, q[k])
  <2> HIDE DEF S, D, Take
  <2> QED
    BY <1>4
<1> HIDE DEF S, step, Take
<1>7. PICK f \in [SUBSET D -> S] : FoldsUp(f, D, start, step)
  BY <1>1, <1>5, <1>6, FoldUp
<1> HIDE DEF D
<1>8. IsIter(f)
  <2>1. f = [s \in SUBSET D |-> f[s]]
    BY <1>7
  <2>2. \A s \in SUBSET D : f[s] = IF s = {} THEN start ELSE Take(f[s \ {Max(s)}], q[Max(s)])
    <3> TAKE s \in SUBSET D
    <3>1. f[s] = IF s = {} THEN start ELSE step[Max(s)][f[s \ {Max(s)}]]
      BY <1>7 DEF FoldsUp
    <3>2. s # {} => Max(s) \in D /\ f[s \ {Max(s)}] \in S
      BY <1>3, <1>7
    <3> QED
      BY <1>6, <3>1, <3>2
  <2> QED
    BY <2>1, <2>2, Zenon
<1>9. PICK G : G = CHOOSE g : IsIter(g)
  OBVIOUS
<1>10. IsIter(G)
  <2>1. \E g : IsIter(g)
    BY <1>8
  <2> HIDE DEF IsIter
  <2> QED
    BY <1>9, <2>1
<1>11. \A s \in SUBSET D : G[s] = IF s = {} THEN start ELSE Take(G[s \ {Max(s)}], q[Max(s)])
  BY <1>10, Zenon
<1> DEFINE First(k) == {q[i] : i \in 1..k}
           good == {k \in 0..n : Follows(limit, base, start, of, First(k), G[1..k])}
<1>12. 0 \in good
  <2>1. 1..0 = {} /\ {} \in SUBSET D /\ 0 \in 0..n
    BY <1>1, UpToEach
  <2> HIDE DEF n
  <2>2. G[{}] = start
    BY <1>11, <2>1
  <2>3. First(0) = {}
    BY <2>1
  <2>4. Follows(limit, base, start, of, {}, start)
    BY FollowsNone
  <2> HIDE DEF First
  <2> QED
    BY <2>1, <2>2, <2>3, <2>4
<1>13. ASSUME NEW k \in 0..(n - 1), k \in good PROVE k + 1 \in good
  <2>1. k + 1 \in 1..n /\ k + 1 \in 0..n /\ (k + 1) - 1 = k
    BY <1>1
  <2>2. PICK j \in 1..n : j = k + 1 /\ j - 1 = k
    BY <2>1
  <2>3. 1..j \in SUBSET D /\ 1..j # {} /\ Max(1..j) = j /\ (1..j) \ {j} = 1..k /\ j \in D
    <3>1. 1..j \in SUBSET (1..n) /\ 1..j # {} /\ Max(1..j) = j /\ (1..j) \ {j} = 1..(j - 1)
      BY <1>1, UpToEach
    <3> QED
      BY <2>2, <3>1 DEF D
  <2>4. G[1..j] = Take(G[1..k], q[j])
    BY <1>11, <2>3
  <2>5. 1..j = (1..k) \cup {j} /\ j \notin 1..k /\ 1..k \subseteq D
    BY <2>3, <2>2
  <2> HIDE DEF n
  <2>6. First(j) = First(k) \cup {q[j]}
    BY <2>5
  <2>7. q[j] \notin First(k)
    BY <1>1, <2>3, <2>5
  <2>8. First(k) \in SUBSET (DOMAIN ledger) /\ q[j] \in DOMAIN ledger
    BY <1>1, <2>3, <2>5
  <2>9. Follows(limit, base, start, of, First(k), G[1..k])
    BY <1>13
  <2>10. PICK Y \in SUBSET (DOMAIN ledger) : Y = First(k)
    BY <2>8
  <2>11. PICK ctx : ctx = G[1..k]
    OBVIOUS
  <2>12. start \in Assemblies
    BY DEF Assembled
  <2>13. PICK x \in DOMAIN ledger : x = q[j]
    BY <2>8
  <2>14. Follows(limit, base, start, of, Y \cup {x}, Consider(limit, of, ctx, x))
    <3>1. x \notin Y /\ Follows(limit, base, start, of, Y, ctx)
      BY <2>7, <2>9, <2>10, <2>11, <2>13
    <3> QED
      BY <2>12, <3>1, ConsiderKeeps
  <2>15. Follows(limit, base, start, of, First(j), G[1..j])
    BY <2>4, <2>6, <2>10, <2>11, <2>13, <2>14 DEF Take
  <2> HIDE DEF First
  <2> QED
    BY <2>1, <2>2, <2>15
<1>14. n \in good
  <2> HIDE DEF good, n
  <2>1. \A k \in 0..n : k \in good
    BY <1>1, <1>12, <1>13, UpTo
  <2> QED
    BY <1>1, <2>1
<1>15. First(n) = X
  BY <1>1 DEF D
<1> HIDE DEF First
<1>16. Follows(limit, base, start, of, First(n), G[1..n])
  BY <1>14
<1> QED
  BY <1>2, <1>9, <1>15, <1>16 DEF D

\* The sizes of subsets of 1..c.
LEMMA PartsUpTo ==
  ASSUME NEW c \in Nat
  PROVE  /\ \A s \in SUBSET (1..c) : Cardinality(s) \in 0..c
         /\ \A s, u \in SUBSET (1..c) : s \cap u = {} => Cardinality(s) + Cardinality(u) <= c
<1>1. IsFiniteSet(1..c) /\ Cardinality(1..c) = c
  <2>1. IsFiniteSet(1..c) /\ Cardinality(1..c) = IF 1 > c THEN 0 ELSE c - 1 + 1
    BY FS_Interval
  <2> QED
    BY <2>1
<1>2. PICK T : T = 1..c
  OBVIOUS
<1>3. \A s \in SUBSET T : IsFiniteSet(s) /\ Cardinality(s) \in 0..c
  <2>1. IsFiniteSet(T) /\ Cardinality(T) = c
    BY <1>1, <1>2
  <2> TAKE s \in SUBSET T
  <2>2. IsFiniteSet(s) /\ Cardinality(s) <= c /\ Cardinality(s) \in Nat
    BY <2>1, FS_Subset, FS_CardinalityType
  <2> QED
    BY <2>2
<1>4. \A s, u \in SUBSET T : s \cap u = {} => Cardinality(s) + Cardinality(u) <= c
  <2> TAKE s, u \in SUBSET T
  <2> HAVE s \cap u = {}
  <2>1. IsFiniteSet(s) /\ IsFiniteSet(u)
    BY <1>3
  <2>2. Cardinality(s \cup u) = Cardinality(s) + Cardinality(u) - Cardinality(s \cap u)
    BY <2>1, FS_Union
  <2>3. PICK none : none = s \cap u
    OBVIOUS
  <2>4. Cardinality(none) = 0
    BY <2>3, FS_EmptySet
  <2>5. Cardinality(s) \in 0..c /\ Cardinality(u) \in 0..c
    BY <1>3
  <2>6. s \cup u \in SUBSET T
    OBVIOUS
  <2>7. Cardinality(s \cup u) \in 0..c
    BY <1>3, <2>6
  <2>8. Cardinality(s \cup u) = Cardinality(s) + Cardinality(u)
    BY <2>2, <2>3, <2>4, <2>5
  <2> QED
    BY <2>7, <2>8
<1> QED
  BY <1>2, <1>3, <1>4

\* What the walk found of the history up to c, with the delta each once.
IsFound(history, c, Delta) ==
  /\ history.cited \in SUBSET (1..c)
  /\ history.lastFailure \in 0..c
  /\ Delta \in SUBSET (1..c) /\ Lists(history.delta, Delta)
  /\ history.oversized \in SUBSET (1..c) /\ history.oversized \cap Delta = {}

\* Tier 3 shows what it found and fits, and counts the rest.
IsTier3(limit, base, history, c, Delta, tier3) ==
  /\ Assembled(limit, base, tier3)
  /\ ToSet(tier3.events) \subseteq history.cited \cup ({history.lastFailure} \ {0}) \cup Delta
  /\ tier3.dropped["cited"] = Cardinality(history.cited \ ToSet(tier3.events))
  /\ \A cause \in Causes : tier3.dropped[cause] \in 0..c

\* The three causes one after another: nothing that was left out is shown later.
LEMMA Tier3Selects ==
  ASSUME Measured, NEW limit \in Nat, NEW base \in Nat, base <= limit, NEW c \in 1..Len(ledger),
         NEW history, NEW Delta, IsFound(history, c, Delta)
  PROVE  IsTier3(limit, base, history, c, Delta, SelectTier3(limit, base, history))
<1> DEFINE D == DOMAIN ledger
           failures == IF history.lastFailure = 0 THEN <<>> ELSE <<history.lastFailure>>
<1>1. /\ D = 1..Len(ledger) /\ Len(ledger) \in Nat /\ c \in Nat /\ 1..c \subseteq D /\ IsFiniteSet(D)
  <2>1. D = 1..Len(ledger) /\ Len(ledger) \in Nat
    BY DEF Measured, IsRun
  <2> QED
    BY <2>1, FS_Interval
<1>2. PICK X \in SUBSET (1..c) : X = history.cited
  BY DEF IsFound
<1>3. PICK Y \in SUBSET (1..c) : Y = {history.lastFailure} \ {0}
  <2>1. PICK f \in 0..c : f = history.lastFailure
    BY DEF IsFound
  <2>2. {f} \ {0} \in SUBSET (1..c)
    BY <1>1
  <2> QED
    BY <2>1, <2>2
<1>4. PICK Z \in SUBSET (1..c) : Z = Delta
  BY DEF IsFound
<1>5. PICK V \in SUBSET (1..c) : V = history.oversized /\ V \cap Z = {}
  BY <1>4 DEF IsFound
<1>6. PICK large \in 0..c : large = Cardinality(V)
  BY <1>1, PartsUpTo
<1>7. PICK counts : counts = [cited |-> 0, lastFailure |-> 0, delta |-> large]
  OBVIOUS
<1>8. counts \in [Causes -> Nat] /\ counts["cited"] = 0 /\ counts["lastFailure"] = 0 /\ counts["delta"] = large
  BY <1>1, <1>7 DEF Causes
<1>9. PICK before : before = [events |-> <<>>, chars |-> base, considered |-> {}, dropped |-> counts]
  OBVIOUS
<1>10. Assembled(limit, base, before)
  <2>1. before \in Assemblies
    BY <1>8, <1>9 DEF Assemblies
  <2>2. ToSet(<<>>) = {}
    BY DEF ToSet
  <2>3. base = base + 0
    OBVIOUS
  <2>4. before.events = <<>> /\ before.chars = base /\ before.considered = {}
    BY <1>9
  <2>5. Lists(before.events, ToSet(before.events))
    BY <2>2, <2>4, ListsNone
  <2>6. EventsChars(before.events) = 0
    BY <2>4, NoEvents
  <2> QED
    BY <2>1, <2>2, <2>3, <2>4, <2>5, <2>6 DEF Assembled
<1>11. PICK cited : cited = ConsiderAll(limit, "cited", before, Ascending(X))
  OBVIOUS
<1>12. PICK failed : failed = ConsiderAll(limit, "lastFailure", cited, failures)
  OBVIOUS
<1>13. PICK tier3 : tier3 = ConsiderAll(limit, "delta", failed, history.delta)
  OBVIOUS
<1>14. SelectTier3(limit, base, history) = tier3
  BY <1>2, <1>5, <1>6, <1>7, <1>9, <1>11, <1>12, <1>13, Zenon DEF SelectTier3
<1>15. X \in SUBSET D /\ Y \in SUBSET D /\ Z \in SUBSET D
  BY <1>1
<1>16. Lists(Ascending(X), X)
  <2>1. X \in SUBSET (0..c)
    BY <1>1
  <2> QED
    BY <1>1, <2>1, AscendingLists
<1>17. Lists(failures, Y)
  <2>1. CASE history.lastFailure = 0
    <3>1. Y = {} /\ failures = <<>>
      BY <1>3, <2>1
    <3> QED
      BY <3>1, ListsNone
  <2>2. CASE history.lastFailure # 0
    <3>1. PICK f : f = history.lastFailure
      OBVIOUS
    <3>2. Y = {f} /\ failures = <<f>>
      BY <1>3, <2>2, <3>1
    <3>3. Cardinality({f}) = 1
      BY FS_Singleton
    <3>4. <<f>> \in Seq({f}) /\ Len(<<f>>) = 1 /\ <<f>>[1] = f
      OBVIOUS
    <3>5. Lists(<<f>>, {f})
      BY <3>3, <3>4 DEF Lists
    <3> QED
      BY <3>2, <3>5
  <2> QED
    BY <2>1, <2>2
<1> HIDE DEF failures, D
<1>18. Lists(history.delta, Z)
  BY <1>4 DEF IsFound
<1>19. "cited" \in Causes /\ "lastFailure" \in Causes /\ "delta" \in Causes
  BY DEF Causes
<1>20. Follows(limit, base, before, "cited", X, cited)
  BY <1>10, <1>11, <1>15, <1>16, <1>19, AllConsidered DEF D
<1>21. Follows(limit, base, cited, "lastFailure", Y, failed)
  <2>1. Assembled(limit, base, cited)
    BY <1>20 DEF Follows
  <2> QED
    BY <1>12, <1>15, <1>17, <1>19, <2>1, AllConsidered DEF D
<1>22. Follows(limit, base, failed, "delta", Z, tier3)
  <2>1. Assembled(limit, base, failed)
    BY <1>21 DEF Follows
  <2> QED
    BY <1>13, <1>15, <1>18, <1>19, <2>1, AllConsidered DEF D
<1>23. PICK E1 : E1 = ToSet(cited.events)
  OBVIOUS
<1>24. PICK E2 : E2 = ToSet(failed.events)
  OBVIOUS
<1>25. PICK E3 : E3 = ToSet(tier3.events)
  OBVIOUS
<1>26. ToSet(before.events) = {} /\ before.considered = {} /\ before.dropped = counts
  BY <1>9 DEF ToSet
<1>27. /\ cited.considered = X /\ E1 \subseteq X
       /\ cited.dropped["cited"] = Cardinality(X \ E1)
       /\ cited.dropped["lastFailure"] = 0 /\ cited.dropped["delta"] = large
  <2>1. /\ cited.considered = {} \cup X /\ E1 \subseteq {} \cup (X \ {})
        /\ cited.dropped["cited"] = 0 + Cardinality((X \ {}) \ E1)
        /\ cited.dropped["lastFailure"] = 0 /\ cited.dropped["delta"] = large
    BY <1>8, <1>19, <1>20, <1>23, <1>26 DEF Follows, LeftOutBy
  <2>2. PICK left \in SUBSET (1..c) : left = X \ E1
    OBVIOUS
  <2>3. Cardinality(left) \in 0..c
    BY <1>1, PartsUpTo
  <2>4. (X \ {}) \ E1 = left
    BY <2>2
  <2>5. 0 + Cardinality(left) = Cardinality(left)
    BY <2>3
  <2> QED
    BY <2>1, <2>2, <2>4, <2>5
<1>28. /\ failed.considered = X \cup Y /\ E1 \subseteq E2 /\ E2 \subseteq E1 \cup (Y \ X)
       /\ failed.dropped["cited"] = cited.dropped["cited"] /\ failed.dropped["delta"] = large
       /\ failed.dropped["lastFailure"] = 0 + Cardinality((Y \ X) \ E2)
  BY <1>19, <1>21, <1>23, <1>24, <1>27 DEF Follows, LeftOutBy
<1>29. /\ E2 \subseteq E3 /\ E3 \subseteq E2 \cup (Z \ (X \cup Y))
       /\ tier3.dropped["cited"] = cited.dropped["cited"]
       /\ tier3.dropped["lastFailure"] = 0 + Cardinality((Y \ X) \ E2)
       /\ tier3.dropped["delta"] = large + Cardinality((Z \ (X \cup Y)) \ E3)
  BY <1>19, <1>22, <1>24, <1>25, <1>28 DEF Follows, LeftOutBy
<1>30. X \ E1 = X \ E3 /\ E3 \subseteq X \cup Y \cup Z
  BY <1>27, <1>28, <1>29
<1>31. tier3.dropped["cited"] = Cardinality(X \ E3)
  BY <1>27, <1>29, <1>30
<1>32. tier3.dropped["cited"] \in 0..c /\ tier3.dropped["lastFailure"] \in 0..c
  <2>1. PICK left \in SUBSET (1..c) : left = X \ E3
    OBVIOUS
  <2>2. PICK other \in SUBSET (1..c) : other = (Y \ X) \ E2
    OBVIOUS
  <2>3. Cardinality(left) \in 0..c /\ Cardinality(other) \in 0..c
    BY <1>1, PartsUpTo
  <2> QED
    BY <1>29, <1>31, <2>1, <2>2, <2>3
<1>33. tier3.dropped["delta"] \in 0..c
  <2>1. PICK left \in SUBSET (1..c) : left = (Z \ (X \cup Y)) \ E3
    OBVIOUS
  <2>2. V \cap left = {}
    BY <1>5, <2>1
  <2>3. Cardinality(V) + Cardinality(left) <= c /\ Cardinality(left) \in 0..c
    BY <1>1, <2>2, PartsUpTo
  <2>4. large + Cardinality(left) \in 0..c
    BY <1>1, <1>6, <2>3
  <2> QED
    BY <1>29, <2>1, <2>4
<1>34. \A cause \in Causes : tier3.dropped[cause] \in 0..c
  BY <1>32, <1>33 DEF Causes
<1>35. Assembled(limit, base, tier3)
  BY <1>22 DEF Follows
<1> QED
  BY <1>2, <1>3, <1>4, <1>14, <1>25, <1>30, <1>31, <1>34, <1>35 DEF IsTier3

-----------------------------------------------------------------------------
(* Claims, and where they come from *)

\* The invariant of a run with claims: the checkpoints are those that the ledger marks and
\* that have claims, and a restore goes back to one of them.
ClaimsInv ==
  /\ ContextInv
  /\ origin \in Seq(Claims)
  /\ DOMAIN claimed = Checkpoints
  /\ \A c \in Checkpoints : claimed[c].claims \in Seq(Claims)
  /\ \A i \in DOMAIN ledger : /\ ledger[i].role = "checkpoint" => i \in Checkpoints
                              /\ ledger[i].role = "restore" => ledger[i].target \in Checkpoints

\* A run starts without checkpoints.
LEMMA ClaimsInvInit == ContextInit => ClaimsInv
<1> SUFFICES ASSUME ContextInit PROVE ClaimsInv
  OBVIOUS
<1>1. ledger = <<>> /\ recorded = <<>> /\ claimed = <<>> /\ origin \in Origins
  BY DEF ContextInit, Init
<1>2. origin \in Seq(Claims)
  BY <1>1, ResumeContextAssumption
<1>3. Checkpoints = {} /\ DOMAIN claimed = {} /\ DOMAIN ledger = {}
  BY <1>1 DEF Checkpoints
<1>4. ContextInv
  BY ContextInvInit
<1> QED
  BY <1>2, <1>3, <1>4 DEF ClaimsInv

\* A checkpoint has its claims; the others keep theirs.
LEMMA ClaimsInvNext == ClaimsInv /\ [ContextNext]_contextVars => ClaimsInv'
<1> SUFFICES ASSUME ClaimsInv, [ContextNext]_contextVars PROVE ClaimsInv'
  OBVIOUS
<1>1. ContextInv /\ ContextInv'
  BY ContextInvNext DEF ClaimsInv
<1>2. /\ HistInv /\ IsRun(ledger) /\ Len(ledger) \in Nat /\ DOMAIN ledger = 1..Len(ledger)
      /\ \A c \in Checkpoints : c \in 1..Len(ledger)
  BY <1>1 DEF ContextInv, HistInv, IsRun, HeadSeq
<1>3. /\ \A event \in alphabet : event \in Events /\ event.role \notin {"checkpoint", "restore"}
      /\ \A target \in Nat : \A role \in {"checkpoint", "restore"} :
           Marker(role, target) \in Events /\ Marker(role, target).role = role /\ Marker(role, target).target = target
  BY <1>2, EventsAndMarkers
<1>4. ASSUME NEW e \in Events, ledger' = Append(ledger, e), Checkpoints \subseteq Checkpoints',
             e.role = "checkpoint" => HeadSeq + 1 \in Checkpoints', e.role = "restore" => e.target \in Checkpoints
      PROVE  \A i \in DOMAIN ledger' : /\ ledger'[i].role = "checkpoint" => i \in Checkpoints'
                                       /\ ledger'[i].role = "restore" => ledger'[i].target \in Checkpoints'
  <2>1. /\ DOMAIN ledger' = 1..(Len(ledger) + 1)
        /\ ledger'[Len(ledger) + 1] = e /\ \A i \in 1..Len(ledger) : ledger'[i] = ledger[i]
    BY <1>2, <1>4 DEF IsRun
  <2>2. \A i \in 1..(Len(ledger) + 1) : i \in 1..Len(ledger) \/ i = HeadSeq + 1
    BY <1>2 DEF HeadSeq
  <2> QED
    BY <1>2, <1>4, <2>1, <2>2 DEF ClaimsInv, HeadSeq
<1>5. CASE ClaimedCheckpoint
  <2>0. PICK claims \in ClaimLists : \E cited \in [DOMAIN claims -> 0..HeadSeq] :
          claimed' = [c \in DOMAIN claimed \cup {HeadSeq + 1} |->
                        IF c = HeadSeq + 1 THEN [claims |-> claims, cited |-> cited] ELSE claimed[c]]
    BY <1>5 DEF ClaimedCheckpoint
  <2>1. PICK cited \in [DOMAIN claims -> 0..HeadSeq] :
          claimed' = [c \in DOMAIN claimed \cup {HeadSeq + 1} |->
                        IF c = HeadSeq + 1 THEN [claims |-> claims, cited |-> cited] ELSE claimed[c]]
    BY <2>0
  <2>2. /\ ledger' = Append(ledger, Marker("checkpoint", 0)) /\ origin' = origin
        /\ recorded' = Recording(PendingIntentAt(ledger, AbandonedWindows(Lineage(ledger), HeadSeq, HeadSeq)))
    BY <1>5 DEF ClaimedCheckpoint, Checkpoint
  <2>3. Checkpoints' = Checkpoints \cup {HeadSeq + 1}
    BY <2>2 DEF Checkpoints, Recording
  <2>4. DOMAIN claimed' = Checkpoints'
    BY <2>1, <2>3 DEF ClaimsInv
  <2>5. \A c \in Checkpoints' : claimed'[c].claims \in Seq(Claims)
    <3> TAKE c \in Checkpoints'
    <3>1. CASE c = HeadSeq + 1
      <4>1. claimed'[c] = [claims |-> claims, cited |-> cited]
        BY <2>1, <3>1
      <4>2. claims \in Seq(Claims)
        BY ResumeContextAssumption
      <4> QED
        BY <4>1, <4>2
    <3>2. CASE c # HeadSeq + 1
      <4>1. c \in Checkpoints /\ claimed'[c] = claimed[c]
        BY <2>1, <2>3, <3>2 DEF ClaimsInv
      <4> QED
        BY <4>1 DEF ClaimsInv
    <3> QED
      BY <3>1, <3>2
  <2>6. PICK e \in Events : e = Marker("checkpoint", 0) /\ e.role = "checkpoint"
    BY <1>3
  <2>7. \A i \in DOMAIN ledger' : /\ ledger'[i].role = "checkpoint" => i \in Checkpoints'
                                  /\ ledger'[i].role = "restore" => ledger'[i].target \in Checkpoints'
    <3>1. ledger' = Append(ledger, e) /\ Checkpoints \subseteq Checkpoints' /\ HeadSeq + 1 \in Checkpoints' /\ e.role # "restore"
      BY <2>2, <2>3, <2>6
    <3> QED
      BY <1>4, <3>1
  <2> QED
    BY <1>1, <2>2, <2>4, <2>5, <2>7 DEF ClaimsInv
<1>6. ASSUME NEW e \in Events, ledger' = Append(ledger, e), recorded' = recorded, UNCHANGED <<claimed, origin>>,
             e.role # "checkpoint", e.role = "restore" => e.target \in Checkpoints
      PROVE  ClaimsInv'
  <2>1. Checkpoints' = Checkpoints
    BY <1>6 DEF Checkpoints
  <2>2. \A i \in DOMAIN ledger' : /\ ledger'[i].role = "checkpoint" => i \in Checkpoints'
                                  /\ ledger'[i].role = "restore" => ledger'[i].target \in Checkpoints'
    BY <1>4, <1>6, <2>1
  <2> QED
    BY <1>1, <1>6, <2>1, <2>2 DEF ClaimsInv
<1>7. ASSUME NEW event \in alphabet, Record(event), UNCHANGED <<claimed, origin>> PROVE ClaimsInv'
  <2>1. event \in Events /\ event.role \notin {"checkpoint", "restore"}
    BY <1>3
  <2> QED
    BY <1>6, <1>7, <2>1 DEF Record
<1>8. ASSUME NEW c \in Checkpoints, Restore(c), UNCHANGED <<claimed, origin>> PROVE ClaimsInv'
  <2>1. c \in Nat
    BY <1>2
  <2>2. PICK e \in Events : e = Marker("restore", c) /\ e.role = "restore" /\ e.target = c
    BY <1>3, <2>1
  <2>3. ledger' = Append(ledger, e) /\ recorded' = recorded
    BY <1>8, <2>2 DEF Restore
  <2> QED
    BY <1>6, <1>8, <2>2, <2>3
<1>9. CASE UNCHANGED contextVars
  BY <1>1, <1>9 DEF ClaimsInv, contextVars, Checkpoints
<1> QED
  BY <1>5, <1>7, <1>8, <1>9 DEF ContextNext

\* The parent of a checkpoint is an earlier one, or none.
LEMMA ParentIs ==
  ASSUME ContextInv, NEW c \in 1..HeadSeq
  PROVE  /\ ParentOf(c) \in 0..(c - 1)
         /\ ClaimsInv /\ ParentOf(c) # 0 => ParentOf(c) \in Checkpoints
<1> DEFINE moves == {i \in 1..(c - 1) : ledger[i].role \in {"checkpoint", "restore"}}
<1>1. /\ IsRun(ledger) /\ Backward(ledger) /\ Len(ledger) \in Nat /\ DOMAIN ledger = 1..Len(ledger)
      /\ HeadSeq = Len(ledger) /\ c \in Nat /\ 1..(c - 1) \subseteq DOMAIN ledger
  BY DEF ContextInv, HistInv, IsRun, HeadSeq
<1>2. ParentOf(c) = IF moves = {} THEN 0
                    ELSE IF ledger[Max(moves)].role = "restore" THEN ledger[Max(moves)].target ELSE Max(moves)
  BY DEF ParentOf
<1>3. CASE moves = {}
  BY <1>1, <1>2, <1>3
<1>4. CASE moves # {}
  <2>1. moves \in SUBSET (0..(c - 1)) /\ c - 1 \in Nat
    BY <1>1
  <2> HIDE DEF moves
  <2>2. Max(moves) \in moves
    BY <1>4, <2>1, GreatestOf
  <2>3. PICK m \in 1..(c - 1) : m = Max(moves) /\ ledger[m].role \in {"checkpoint", "restore"} /\ m \in DOMAIN ledger
    BY <1>1, <2>2 DEF moves
  <2>4. CASE ledger[m].role = "restore"
    <3>1. ParentOf(c) = ledger[m].target /\ ledger[m].target \in 0..(m - 1)
      BY <1>1, <1>2, <1>4, <2>3, <2>4 DEF Backward
    <3>2. ClaimsInv => ledger[m].target \in Checkpoints
      BY <2>3, <2>4 DEF ClaimsInv
    <3>3. \A t \in 0..(m - 1) : t \in 0..(c - 1)
      BY <1>1
    <3> QED
      BY <3>1, <3>2, <3>3
  <2>5. CASE ledger[m].role # "restore"
    <3>1. ParentOf(c) = m /\ ledger[m].role = "checkpoint"
      BY <1>2, <1>4, <2>3, <2>5
    <3>2. ClaimsInv => m \in Checkpoints
      BY <2>3, <3>1 DEF ClaimsInv
    <3>3. m \in 0..(c - 1)
      BY <1>1
    <3> QED
      BY <3>1, <3>2, <3>3
  <2> QED
    BY <2>4, <2>5
<1> QED
  BY <1>3, <1>4

\* Where the claims of a checkpoint come from.
SelectionStep(f, c) ==
  IF c = 0 THEN [claims |-> origin, cited |-> [i \in DOMAIN origin |-> 0]]
  ELSE IF claimed[c].claims # <<>> THEN claimed[c]
  ELSE f[ParentOf(c)]

\* The claims are selected so: a parent is earlier, so there is such a function.
LEMMA SelectionIs ==
  ASSUME ContextInv
  PROVE  \A c \in 0..HeadSeq : SelectedFrom[c] = SelectionStep(SelectedFrom, c)
<1> DEFINE N == HeadSeq
           good == {n \in 0..N : \E f : /\ DOMAIN f = 0..n
                                        /\ \A p \in 0..n : f[p] = SelectionStep(f, p)}
           IsSelection(H) == H = [p \in 0..N |-> SelectionStep(H, p)]
<1>1. N \in Nat
  BY DEF ContextInv, HistInv, IsRun, HeadSeq
<1>0. \A p \in 1..N : ParentOf(p) \in 0..(p - 1)
  BY ParentIs
<1> HIDE DEF N
<1>2. 0 \in good
  <2> DEFINE f == [p \in 0..0 |-> [claims |-> origin, cited |-> [i \in DOMAIN origin |-> 0]]]
  <2>1. \A p \in 0..0 : f[p] = SelectionStep(f, p)
    BY DEF SelectionStep
  <2>2. DOMAIN f = 0..0 /\ 0 \in 0..N
    BY <1>1
  <2> HIDE DEF f
  <2> QED
    BY <2>1, <2>2
<1>3. ASSUME NEW n \in 0..(N - 1), n \in good PROVE n + 1 \in good
  <2>1. PICK f : DOMAIN f = 0..n /\ \A p \in 0..n : f[p] = SelectionStep(f, p)
    BY <1>3
  <2> DEFINE h == [p \in 0..(n + 1) |-> IF p = n + 1 THEN SelectionStep(f, p) ELSE f[p]]
  <2>2. \A p \in 0..n : h[p] = f[p] /\ p # n + 1 /\ p \in 0..(n + 1)
    OBVIOUS
  <2>3. h[n + 1] = SelectionStep(f, n + 1)
    OBVIOUS
  <2>4. \A p \in 0..(n + 1) : SelectionStep(h, p) = SelectionStep(f, p)
    <3> TAKE p \in 0..(n + 1)
    <3>1. ASSUME p # 0 PROVE ParentOf(p) \in 0..n
      <4>1. p \in 1..N
        BY <1>1, <3>1
      <4>2. PICK q \in 0..(p - 1) : q = ParentOf(p)
        BY <1>0, <4>1
      <4>3. q \in 0..n
        BY <4>1
      <4> QED
        BY <4>2, <4>3
    <3> HIDE DEF h
    <3> QED
      BY <2>2, <3>1 DEF SelectionStep
  <2>5. \A p \in 0..(n + 1) : p \in 0..n \/ p = n + 1
    OBVIOUS
  <2>6. DOMAIN h = 0..(n + 1) /\ n + 1 \in 0..N
    BY <1>1
  <2> HIDE DEF h
  <2>7. \A p \in 0..(n + 1) : h[p] = SelectionStep(h, p)
    BY <2>1, <2>2, <2>3, <2>4, <2>5
  <2> QED
    BY <2>6, <2>7
<1>4. N \in good
  <2> HIDE DEF good
  <2>1. \A n \in 0..N : n \in good
    BY <1>1, <1>2, <1>3, UpTo
  <2> QED
    BY <1>1, <2>1
<1>5. PICK f : DOMAIN f = 0..N /\ \A p \in 0..N : f[p] = SelectionStep(f, p)
  BY <1>4
<1> DEFINE H == [p \in 0..N |-> f[p]]
<1>6. \A p \in 0..N : SelectionStep(H, p) = SelectionStep(f, p)
  <2> TAKE p \in 0..N
  <2>1. ASSUME p # 0 PROVE ParentOf(p) \in 0..N
    <3>1. p \in 1..N
      BY <1>1, <2>1
    <3>2. PICK q \in 0..(p - 1) : q = ParentOf(p)
      BY <1>0, <3>1
    <3>3. q \in 0..N
      BY <1>1, <3>1
    <3> QED
      BY <3>2, <3>3
  <2>2. \A q \in 0..N : H[q] = f[q]
    OBVIOUS
  <2> HIDE DEF H
  <2> QED
    BY <2>1, <2>2 DEF SelectionStep
<1>7. IsSelection(H)
  <2>1. \A p \in 0..N : f[p] = SelectionStep(H, p)
    BY <1>5, <1>6
  <2>2. [p \in 0..N |-> f[p]] = [p \in 0..N |-> SelectionStep(H, p)]
    BY <2>1
  <2> QED
    BY <2>2
<1>8. SelectedFrom = CHOOSE g : IsSelection(g)
  BY Zenon DEF SelectedFrom, SelectionStep, N
<1>9. IsSelection(SelectedFrom)
  <2>1. \E g : IsSelection(g)
    BY <1>7
  <2> HIDE DEF IsSelection
  <2> QED
    BY <1>8, <2>1
<1> QED
  BY <1>9 DEF N

\* The claims of a checkpoint are claims.
LEMMA SelectedClaims ==
  ASSUME ClaimsInv, NEW c \in Checkpoints
  PROVE  SelectedFrom[c].claims \in Seq(Claims)
<1> DEFINE N == HeadSeq
           Fine(p) == p = 0 \/ p \in Checkpoints => SelectedFrom[p].claims \in Seq(Claims)
           good == {n \in 0..N : \A p \in 0..n : Fine(p)}
<1>1. ContextInv /\ N \in Nat /\ \A p \in Checkpoints : p \in 1..N
  BY DEF ClaimsInv, ContextInv, HistInv, IsRun, HeadSeq
<1>2. \A p \in 0..N : SelectedFrom[p] = SelectionStep(SelectedFrom, p)
  BY <1>1, SelectionIs
<1>3. 0 \in good
  <2>1. SelectedFrom[0] = [claims |-> origin, cited |-> [i \in DOMAIN origin |-> 0]]
    <3>1. 0 \in 0..N
      BY <1>1
    <3>2. SelectedFrom[0] = SelectionStep(SelectedFrom, 0)
      BY <1>2, <3>1
    <3>3. SelectionStep(SelectedFrom, 0) = [claims |-> origin, cited |-> [i \in DOMAIN origin |-> 0]]
      BY DEF SelectionStep
    <3> QED
      BY <3>2, <3>3
  <2>2. SelectedFrom[0].claims \in Seq(Claims)
    BY <2>1 DEF ClaimsInv
  <2>3. \A p \in 0..0 : p = 0
    OBVIOUS
  <2> QED
    BY <1>1, <2>2, <2>3
<1>4. ASSUME NEW n \in 0..(N - 1), n \in good PROVE n + 1 \in good
  <2>1. PICK m \in 1..N : m = n + 1 /\ m \in 0..N /\ m - 1 = n
    BY <1>1
  <2>2. ASSUME m \in Checkpoints PROVE SelectedFrom[m].claims \in Seq(Claims)
    <3>1. PICK q \in 0..n : q = ParentOf(m)
      BY <1>1, <2>1, ParentIs
    <3>2. q # 0 => q \in Checkpoints
      BY <1>1, <2>1, <3>1, ParentIs
    <3>3. SelectedFrom[q].claims \in Seq(Claims)
      BY <1>4, <3>1, <3>2
    <3>4. SelectedFrom[m] = IF claimed[m].claims # <<>> THEN claimed[m] ELSE SelectedFrom[q]
      BY <1>2, <2>1, <3>1 DEF SelectionStep
    <3>5. claimed[m].claims \in Seq(Claims)
      BY <2>2 DEF ClaimsInv
    <3> QED
      BY <3>3, <3>4, <3>5
  <2>3. \A p \in 0..m : p \in 0..n \/ p = m
    BY <2>1
  <2>4. \A p \in 0..m : Fine(p)
    BY <1>4, <2>1, <2>2, <2>3
  <2> HIDE DEF Fine, N
  <2> QED
    BY <2>1, <2>4
<1>5. N \in good
  <2> HIDE DEF good, N
  <2>1. \A n \in 0..N : n \in good
    BY <1>1, <1>3, <1>4, UpTo
  <2> QED
    BY <1>1, <2>1
<1>6. c \in 0..N
  BY <1>1
<1> QED
  BY <1>5, <1>6

-----------------------------------------------------------------------------
(* Intents that are told *)

\* An intent of the ledger is one that may be told.
LEMMA IntentTold ==
  ASSUME ContextInv, NEW r \in RequestsIn(ledger), NEW K \in SUBSET (DOMAIN ledger)
  PROVE  IntentIn(ledger, r, K) \in Told
<1>1. /\ DOMAIN ledger = 1..Len(ledger) /\ Len(ledger) \in Nat /\ MaxLedger \in Nat /\ Len(ledger) <= MaxLedger
      /\ r \in DOMAIN ledger /\ \A i \in DOMAIN ledger : ledger[i] \in Events
  BY RunHistoryAssumption DEF ContextInv, HistInv, IsRun, RequestsIn
<1>2. ledger[r].kind \in IntentKinds \cup {None} /\ IntentId(ledger[r]) \in Ids \cup {None}
  BY <1>1 DEF Events, IntentId
<1>3. r \in 0..MaxLedger /\ \A i \in DOMAIN ledger : i \in 0..MaxLedger
  BY <1>1
<1>4. StatusIn(ledger, r, K) \in Statuses
  BY DEF StatusIn, Statuses
<1>5. ResolvedIn(ledger, r, K) \in 0..MaxLedger
  <2>1. \A role : AnswersIn(ledger, r, role, K) \in SUBSET (1..Len(ledger))
    BY <1>1 DEF AnswersIn
  <2>2. \A s \in SUBSET (1..Len(ledger)) : s # {} => Min(s) \in s /\ Max(s) \in s
    <3> TAKE s \in SUBSET (1..Len(ledger))
    <3> HAVE s # {}
    <3>1. s \in SUBSET Nat /\ s \in SUBSET (0..Len(ledger))
      BY <1>1
    <3> QED
      BY <1>1, <3>1, LeastOf, GreatestOf
  <2>3. \A s \in SUBSET (1..Len(ledger)) : s # {} => Min(s) \in 0..MaxLedger /\ Max(s) \in 0..MaxLedger
    BY <1>1, <1>3, <2>2
  <2>4. 0 \in 0..MaxLedger
    BY <1>1
  <2> QED
    BY <2>1, <2>3, <2>4 DEF ResolvedIn
<1>6. IntentIn(ledger, r, K) =
        [kind |-> ledger[r].kind, intent_id |-> IntentId(ledger[r]), requested_seq |-> r,
         status |-> StatusIn(ledger, r, K), resolved_seq |-> ResolvedIn(ledger, r, K)]
  BY DEF IntentIn
<1>7. PICK k \in IntentKinds \cup {None} : k = ledger[r].kind
  BY <1>2
<1>8. PICK d \in Ids \cup {None} : d = IntentId(ledger[r])
  BY <1>2
<1>9. PICK s \in Statuses : s = StatusIn(ledger, r, K)
  BY <1>4
<1>10. PICK q \in 0..MaxLedger : q = ResolvedIn(ledger, r, K)
  BY <1>5
<1>11. [kind |-> k, intent_id |-> d, requested_seq |-> r, status |-> s, resolved_seq |-> q] \in Told
  BY <1>3, Zenon DEF Told
<1> QED
  BY <1>6, <1>7, <1>8, <1>9, <1>10, <1>11

\* They are finitely many.
LEMMA IntentsFinite ==
  ASSUME NEW L, IsRun(L), NEW R \in SUBSET RequestsIn(L), NEW K
  PROVE  IsFiniteSet({IntentIn(L, r, K) : r \in R})
<1>1. IsFiniteSet(R)
  <2>1. PICK n \in Nat : n = Len(L) /\ DOMAIN L = 1..n
    BY DEF IsRun
  <2>2. PICK D : D = 1..n
    OBVIOUS
  <2>3. IsFiniteSet(D)
    BY <2>2, FS_Interval
  <2>4. R \in SUBSET D
    BY <2>1, <2>2 DEF RequestsIn
  <2> QED
    BY <2>3, <2>4, FS_Subset
<1>2. PICK T : T = {IntentIn(L, r, K) : r \in R}
  OBVIOUS
<1>3. PICK f : f = [r \in R |-> IntentIn(L, r, K)]
  OBVIOUS
<1>4. f \in Surjection(R, T)
  <2>1. \A r \in R : f[r] \in T /\ f[r] = IntentIn(L, r, K)
    BY <1>2, <1>3
  <2>2. f \in [R -> T]
    BY <1>3, <2>1
  <2>3. \A t \in T : \E r \in R : f[r] = t
    BY <1>2, <2>1
  <2> QED
    BY <2>2, <2>3 DEF Surjection
<1> QED
  BY <1>1, <1>2, <1>4, FS_Surjection

\* What a resume reports: intents that may be told, and every request whose outcome is
\* not known and every side effect, in the group that is shown in any case.
Owed(r) == ledger[r].kind = "side_effect" \/ StatusOf(r, DOMAIN ledger) = "in_progress"

\* What a resume reports may be told, and what is owed is in the group that is never dropped.
LEMMA ReportsAre ==
  ASSUME ContextInv, NEW c \in Checkpoints
  PROVE  /\ ResumeReports(c) \in SUBSET Told /\ IsFiniteSet(ResumeReports(c))
         /\ \A r \in Requests : Owed(r) => \E i \in ResumeReports(c) :
                                  i.requested_seq = r /\ IntentGroup(i) = "never_dropped"
<1> DEFINE X == History[c]
           Plain == {q \in RequestsIn(ledger) :
                       ledger[q].kind # "tool" \/ (q \notin X /\ StatusIn(ledger, q, DOMAIN ledger) = "in_progress")}
           Tools == {q \in RequestsIn(ledger) : ledger[q].kind = "tool" /\ q \in X}
           K == Kept(ledger, X)
<1>1. /\ IsRun(ledger) /\ Backward(ledger) /\ c \in 0..Len(ledger) /\ Len(ledger) \in Nat /\ HeadSeq = Len(ledger)
  BY DEF ContextInv, HistInv, IsRun, HeadSeq
<1>2. ResumeReports(c) = OthersOn(ledger, X) \cup ToolsOn(ledger, X)
  BY <1>1, HistoryIsHistory, ReportsOn DEF ResumeReports
<1>3. /\ OthersOn(ledger, X) = {IntentIn(ledger, r, DOMAIN ledger) : r \in Plain}
      /\ ToolsOn(ledger, X) = {IntentIn(ledger, r, K) : r \in Tools}
  BY DEF OthersOn, ToolsOn
<1>4. K \in SUBSET (DOMAIN ledger) /\ DOMAIN ledger \in SUBSET (DOMAIN ledger)
  BY DEF Kept
<1>5. Plain \in SUBSET RequestsIn(ledger) /\ Tools \in SUBSET RequestsIn(ledger)
  OBVIOUS
<1>6. \A r \in Requests : /\ r \in RequestsIn(ledger)
                          /\ StatusOf(r, DOMAIN ledger) = StatusIn(ledger, r, DOMAIN ledger)
  BY DEF Requests, RequestsIn, StatusOf, StatusIn, AnswersTo, AnswersIn
<1>7. \A r \in RequestsIn(ledger) : \A role \in {"acknowledgement", "failure"} :
        AnswersIn(ledger, r, role, K) \subseteq AnswersIn(ledger, r, role, DOMAIN ledger)
  <2>1. PICK Q : Q = {q \in DOMAIN ledger : ledger[q].role = "request"}
    OBVIOUS
  <2>2. K \cap Q = Q /\ DOMAIN ledger \cap Q = Q
    BY <2>1 DEF Kept
  <2> HIDE DEF K
  <2> QED
    BY <1>4, <2>1, <2>2 DEF AnswersIn
<1> HIDE DEF K, X
<1>8. \A r \in Plain : IntentIn(ledger, r, DOMAIN ledger) \in Told
  BY <1>4, <1>5, IntentTold
<1>9. \A r \in Tools : IntentIn(ledger, r, K) \in Told
  BY <1>4, <1>5, IntentTold
<1>10. IsFiniteSet(OthersOn(ledger, X)) /\ IsFiniteSet(ToolsOn(ledger, X))
  <2>1. PICK P \in SUBSET RequestsIn(ledger) : P = Plain
    BY <1>5
  <2>2. PICK T \in SUBSET RequestsIn(ledger) : T = Tools
    BY <1>5
  <2>3. IsFiniteSet({IntentIn(ledger, r, DOMAIN ledger) : r \in P})
    BY <1>1, IntentsFinite
  <2>4. IsFiniteSet({IntentIn(ledger, r, K) : r \in T})
    BY <1>1, IntentsFinite
  <2> QED
    BY <1>3, <2>1, <2>2, <2>3, <2>4, Zenon
<1>11. ResumeReports(c) \in SUBSET Told /\ IsFiniteSet(ResumeReports(c))
  <2>1. OthersOn(ledger, X) \in SUBSET Told /\ ToolsOn(ledger, X) \in SUBSET Told
    BY <1>3, <1>8, <1>9
  <2>2. IsFiniteSet(OthersOn(ledger, X) \cup ToolsOn(ledger, X))
    BY <1>10, FS_Union
  <2> QED
    BY <1>2, <2>1, <2>2
<1>12. \A i : i.kind # "tool" \/ i.status = "in_progress" => IntentGroup(i) = "never_dropped"
  BY DEF IntentGroup, RenderedStatus
<1>13. ASSUME NEW r \in Requests, Owed(r)
       PROVE  \E i \in ResumeReports(c) : i.requested_seq = r /\ IntentGroup(i) = "never_dropped"
  <2>1. r \in RequestsIn(ledger)
    BY <1>6
  <2>2. CASE r \in Plain
    <3>1. PICK i : i = IntentIn(ledger, r, DOMAIN ledger)
      OBVIOUS
    <3>2. i \in ResumeReports(c)
      BY <1>2, <1>3, <2>2, <3>1
    <3>3. i.kind = ledger[r].kind /\ i.requested_seq = r /\ i.status = StatusIn(ledger, r, DOMAIN ledger)
      BY <3>1, IntentFields
    <3>4. i.kind # "tool" \/ i.status = "in_progress"
      BY <2>2, <3>3
    <3> QED
      BY <1>12, <3>2, <3>3, <3>4
  <2>3. CASE r \in Tools
    <3>1. PICK i : i = IntentIn(ledger, r, K)
      OBVIOUS
    <3>2. i \in ResumeReports(c)
      BY <1>2, <1>3, <2>3, <3>1
    <3>3. i.requested_seq = r /\ i.status = StatusIn(ledger, r, K)
      BY <3>1, IntentFields
    <3>4. StatusIn(ledger, r, DOMAIN ledger) = "in_progress"
      BY <1>6, <1>13, <2>3 DEF Owed
    <3>5. /\ AnswersIn(ledger, r, "acknowledgement", DOMAIN ledger) = {}
          /\ AnswersIn(ledger, r, "failure", DOMAIN ledger) = {}
      BY <3>4 DEF StatusIn
    <3>6. AnswersIn(ledger, r, "acknowledgement", K) = {} /\ AnswersIn(ledger, r, "failure", K) = {}
      BY <1>7, <2>1, <3>5
    <3>7. i.status = "in_progress"
      BY <3>3, <3>6 DEF StatusIn
    <3> QED
      BY <1>12, <3>2, <3>3, <3>7
  <2>4. r \in Plain \/ r \in Tools
    BY <1>6, <1>13, <2>1 DEF Owed
  <2> QED
    BY <2>2, <2>3, <2>4
<1> QED
  BY <1>11, <1>13

-----------------------------------------------------------------------------
(* The context *)

\* A list that goes down has each of its elements once.
LEMMA DescendingLists ==
  ASSUME NEW q \in Seq(Nat), \A i, j \in DOMAIN q : i < j => q[i] > q[j]
  PROVE  Lists(q, ToSet(q))
<1>1. PICK n \in Nat : n = Len(q) /\ DOMAIN q = 1..n
  OBVIOUS
<1>2. PICK T : T = ToSet(q)
  OBVIOUS
<1>3. \A i \in 1..n : q[i] \in T /\ q[i] \in Nat
  BY <1>1, <1>2 DEF ToSet
<1>4. \A t \in T : \E i \in 1..n : q[i] = t
  BY <1>1, <1>2 DEF ToSet
<1>5. \A i, j \in 1..n : q[i] = q[j] => i = j
  <2> SUFFICES ASSUME NEW i \in 1..n, NEW j \in 1..n, q[i] = q[j], i # j PROVE FALSE
    OBVIOUS
  <2>1. i < j \/ j < i
    OBVIOUS
  <2>2. q[i] > q[j] \/ q[j] > q[i]
    BY <1>1, <2>1
  <2> QED
    BY <1>3, <2>2
<1>6. Cardinality(T) = n
  <2>1. PICK D : D = 1..n
    OBVIOUS
  <2>2. IsFiniteSet(D) /\ Cardinality(D) = n
    <3>1. Cardinality(D) = IF 1 > n THEN 0 ELSE n - 1 + 1
      BY <2>1, FS_Interval
    <3>2. IsFiniteSet(D)
      BY <2>1, FS_Interval
    <3> QED
      BY <3>1, <3>2
  <2>3. PICK f : f = [i \in D |-> q[i]]
    OBVIOUS
  <2>4. f \in [D -> T] /\ \A i \in D : f[i] = q[i]
    BY <1>3, <2>1, <2>3
  <2>5. f \in Surjection(D, T)
    BY <1>4, <2>1, <2>4 DEF Surjection
  <2>8. \A i, j \in D : f[i] = f[j] => i = j
    BY <1>5, <2>1, <2>4
  <2>6. f \in Injection(D, T)
    BY <2>4, <2>8 DEF Injection, IsInjective
  <2>7. Cardinality(T) = Cardinality(D)
    BY <2>2, <2>5, <2>6, FS_Surjection
  <2> QED
    BY <2>2, <2>7
<1>7. q \in Seq(T)
  <2>1. \A i \in 1..Len(q) : q[i] \in T
    BY <1>1, <1>3
  <2> QED
    BY <2>1
<1> QED
  BY <1>1, <1>2, <1>4, <1>5, <1>6, <1>7 DEF Lists

\* What the walk found is of the history, and each once.
LEMMA FoundIsFound ==
  ASSUME Measured, NEW query, IsQuery(query), NEW c \in Nat, c = query.cursor,
         NEW walk, walk = ScanRelevantHistory(query)
  PROVE  /\ IsFound(walk, c, ToSet(walk.delta)) /\ ToSet(walk.delta) \subseteq History[c]
         /\ walk.cited = query.cited \cap History[c]
         /\ {walk.lastFailure} \ {0} \subseteq History[c]
<1>1. /\ walk \in Scans
      /\ walk.cited = query.cited \cap History[c]
      /\ NewestFailure(walk.lastFailure, History[c])
      /\ DeltaOf(walk, query, MetBy(query))
  BY ScanFinds
<1>2. History[c] \in SUBSET (1..c)
  BY PassedIs
<1>3. MetBy(query) \subseteq History[c] /\ Fitting(MetBy(query), query) \subseteq MetBy(query)
  BY DEF MetBy, SinceParent, Fitting
<1>4. PICK M \in SUBSET (1..c) : M = MetBy(query)
  BY <1>2, <1>3
<1>5. PICK F \in SUBSET M : F = Fitting(MetBy(query), query)
  BY <1>3, <1>4
<1>6. ToSet(walk.delta) = F /\ walk.oversized = (M \ F) \ (query.cited \cup {walk.lastFailure})
      /\ \A i, j \in DOMAIN walk.delta : i < j => walk.delta[i] > walk.delta[j]
  BY <1>1, <1>4, <1>5 DEF DeltaOf
<1>7. Lists(walk.delta, F)
  <2>1. walk.delta \in Seq(Nat)
    BY <1>1 DEF Scans
  <2>2. PICK q \in Seq(Nat) : q = walk.delta
    BY <2>1
  <2>3. \A i, j \in DOMAIN q : i < j => q[i] > q[j]
    BY <1>6, <2>2
  <2>4. Lists(q, ToSet(q))
    BY <2>3, DescendingLists
  <2> QED
    BY <1>6, <2>2, <2>4
<1>8. walk.oversized \in SUBSET (1..c) /\ walk.oversized \cap F = {}
  BY <1>6
<1>9. walk.lastFailure \in 0..c /\ {walk.lastFailure} \ {0} \subseteq History[c]
  <2>1. CASE walk.lastFailure = 0
    BY <2>1
  <2>2. CASE walk.lastFailure # 0
    <3>1. walk.lastFailure \in History[c]
      BY <1>1, <2>2 DEF NewestFailure
    <3>2. walk.lastFailure \in 1..c
      BY <1>2, <3>1
    <3>3. 1..c \subseteq 0..c
      OBVIOUS
    <3> QED
      BY <3>1, <3>2, <3>3
  <2> QED
    BY <2>1, <2>2
<1>10. walk.cited \in SUBSET (1..c)
  BY <1>1, <1>2
<1>11. IsFound(walk, c, F)
  <2>1. F \in SUBSET (1..c)
    OBVIOUS
  <2> QED
    BY <1>7, <1>8, <1>9, <1>10, <2>1 DEF IsFound
<1> QED
  BY <1>1, <1>3, <1>4, <1>5, <1>6, <1>9, <1>11

\* The counts are no wider than what was reserved for them.
LEMMA CountsFit ==
  ASSUME NEW all, IsAll(all), NEW shown, IsShown(all, shown), NEW c \in Nat, NEW counts,
         counts.cited \in 0..c, counts.lastFailure \in 0..c, counts.delta \in 0..c
  PROVE  /\ PreambleChars(all, shown, counts) <= PreambleChars(all, shown, Reserved(c))
         /\ PreambleChars(all, shown, counts) \in Nat
<1>1. PICK d \in Nat : d = Digits[c]
  BY DigitsMeans
<1>2. \A n \in 0..c : Digits[n] \in Nat /\ Digits[n] <= d
  <2>1. \A n \in 0..c : n \in Nat /\ n <= c
    OBVIOUS
  <2> QED
    BY <1>1, <2>1, DigitsMeans
<1>3. PICK i \in Nat : i = Digits[counts.cited] /\ i <= d
  BY <1>2
<1>4. PICK j \in Nat : j = Digits[counts.lastFailure] /\ j <= d
  BY <1>2
<1>5. PICK k \in Nat : k = Digits[counts.delta] /\ k <= d
  BY <1>2
<1>6. DroppedLineChars(counts) = LineChars(i + j + k)
  BY <1>3, <1>4, <1>5 DEF DroppedLineChars
<1>7. DroppedLineChars(Reserved(c)) = LineChars(d + d + d)
  <2>1. Digits[Nines[c]] = d
    BY <1>1, DigitsMeans
  <2>2. Reserved(c).cited = Nines[c] /\ Reserved(c).lastFailure = Nines[c] /\ Reserved(c).delta = Nines[c]
    BY DEF Reserved
  <2> QED
    BY <2>1, <2>2 DEF DroppedLineChars
<1>8. PICK m \in Nat : m = DroppedLineChars(counts)
  BY <1>6 DEF LineChars
<1>9. PICK n \in Nat : n = DroppedLineChars(Reserved(c))
  BY <1>7 DEF LineChars
<1>10. m <= n
  BY <1>3, <1>4, <1>5, <1>6, <1>7, <1>8, <1>9 DEF LineChars
<1>11. PICK fixed \in Nat : fixed = FixedChars
  BY ResumeContextAssumption
<1>12. PICK s \in Nat : s = SumFunctionOnSet(ClaimSections(all, shown), Fields)
  BY PreambleIs
<1>13. PICK t \in Nat : t = SumFunctionOnSet(IntentSections(all, shown), Statuses)
  BY PreambleIs
<1>14. \A x : PreambleChars(all, shown, x) = fixed + DroppedLineChars(x) + s + t
  BY <1>11, <1>12, <1>13, PreambleIs
<1>15. PreambleChars(all, shown, counts) = fixed + m + s + t
  BY <1>8, <1>14
<1>16. PreambleChars(all, shown, Reserved(c)) = fixed + n + s + t
  BY <1>9, <1>14
<1> QED
  BY <1>10, <1>15, <1>16

\* What ContextFits and NothingHidden say of a context.
FitsIn(context, limit) ==
  /\ context.base = context.selected
  /\ IF OutOfBudget(context, limit) THEN context.minimal > limit
     ELSE context.measured = context.assembled /\ context.measured <= limit
ShowsAllOf(context, history, cited) ==
  /\ {r \in Requests : Owed(r)} \subseteq {i.requested_seq : i \in context.shown.intents}
  /\ ToSet(context.events) \subseteq history
  /\ Cardinality(ToSet(context.events)) = Len(context.events)
  /\ Cardinality((cited \cap history) \ ToSet(context.events)) = context.dropped.cited

\* Every context that is built, with its three tiers.
LEMMA BuildKeeps ==
  ASSUME ClaimsInv, NEW c \in Checkpoints, NEW limit \in Budgets
  PROVE  /\ FitsIn(Build(c, limit), limit)
         /\ \/ OutOfBudget(Build(c, limit), limit)
            \/ ShowsAllOf(Build(c, limit), History[c], CitedBy(SelectedFrom[c], Build(c, limit).shown.claims))
<1>1. /\ ContextInv /\ IsRun(ledger) /\ Backward(ledger) /\ Len(ledger) \in Nat /\ DOMAIN ledger = 1..Len(ledger)
      /\ c \in 1..Len(ledger) /\ HeadSeq = Len(ledger) /\ c \in Nat
  BY DEF ClaimsInv, ContextInv, HistInv, IsRun, HeadSeq
<1>2. limit \in Nat
  BY ResumeContextAssumption
<1>3. Measured
  BY <1>1, ResumeContextAssumption DEF ContextInv, Measured
<1>4. PICK source : source = SelectedFrom[c]
  OBVIOUS
<1>5. PICK all : all = [claims |-> source.claims, intents |-> ResumeReports(c)]
  OBVIOUS
<1>6. IsAll(all)
  <2>1. source.claims \in Seq(Claims)
    BY <1>4, SelectedClaims
  <2>2. ResumeReports(c) \in SUBSET Told /\ IsFiniteSet(ResumeReports(c))
    BY <1>1, ReportsAre
  <2>3. all.claims = source.claims /\ all.intents = ResumeReports(c)
    BY <1>5
  <2> QED
    BY <2>1, <2>2, <2>3 DEF IsAll
<1>7. PICK minimal \in Nat : minimal = BaseChars(all, Mandatory(all), c)
  <2>1. IsShown(all, Mandatory(all))
    BY <1>1, <1>6, <1>2, MandatorySelects
  <2> QED
    BY <1>1, <1>6, <2>1, BaseIs
<1>8. PICK room \in Int : room = limit - minimal
  BY <1>2
<1>9. PICK tier1 : tier1 = SelectTier1(all, room)
  OBVIOUS
<1>10. Selects(all, room, c, tier1)
  BY <1>1, <1>6, <1>9, Tier1Selects
<1>11. tier1 \in Tiers(all) /\ IsShown(all, tier1)
  BY <1>10 DEF Selects, Tiers, IsShown
<1>12. PICK base \in Nat : base = BaseChars(all, tier1, c)
  BY <1>1, <1>6, <1>11, BaseIs
<1>13. PICK added \in Int : added = tier1.added
  BY <1>11 DEF Tiers
<1>14. base = minimal + added /\ (added = 0 \/ added <= room)
  BY <1>7, <1>10, <1>12, <1>13 DEF Selects
<1>15. PICK query : query = QueryAt(c, CitedBy(source, tier1.claims), limit - base)
  OBVIOUS
<1>16. PICK walk : walk = ScanRelevantHistory(query)
  OBVIOUS
<1>17. PICK tier3 : tier3 = SelectTier3(limit, base, walk)
  OBVIOUS
<1>18. PICK context : context = Context(c, all, minimal, tier1, base, tier3)
  OBVIOUS
<1>19. Build(c, limit) = context
  <2>1. minimal = ContextChars(all, Mandatory(all), Reserved(c), <<>>) /\ base = ContextChars(all, tier1, Reserved(c), <<>>)
    BY <1>7, <1>12 DEF BaseChars
  <2> QED
    BY <1>4, <1>5, <1>8, <1>9, <1>15, <1>16, <1>17, <1>18, <2>1, Zenon DEF Build
<1>20. /\ context.minimal = minimal /\ context.base = base /\ context.selected = minimal + tier1.added
       /\ context.shown = tier1 /\ context.events = tier3.events /\ context.dropped = tier3.dropped
       /\ context.assembled = tier3.chars - PreambleChars(all, tier1, Reserved(c))
                                + PreambleChars(all, tier1, tier3.dropped)
       /\ context.measured = ContextChars(all, tier1, tier3.dropped, tier3.events)
  BY <1>18 DEF Context
<1>21. context.base = context.selected
  BY <1>13, <1>14, <1>20
<1>22. OutOfBudget(context, limit) <=> base > limit
  BY <1>20 DEF OutOfBudget
<1>23. CASE base > limit
  <2>1. minimal > limit
    BY <1>2, <1>8, <1>14, <1>23
  <2> QED
    BY <1>19, <1>20, <1>21, <1>22, <1>23, <2>1 DEF FitsIn
<1>24. CASE ~(base > limit)
  <2>1. base <= limit /\ limit - base \in Nat
    BY <1>2, <1>24
  <2>2. IsQuery(query) /\ query.cursor = c /\ query.cited = CitedBy(source, tier1.claims)
    <3>1. ParentOf(c) \in 0..(c - 1)
      BY <1>1, ParentIs
    <3>2. ParentOf(c) \in Nat
      BY <3>1
    <3>3. /\ query.cursor = c /\ query.parent = ParentOf(c) /\ query.room = limit - base
          /\ query.cited = CitedBy(source, tier1.claims)
      BY <1>15 DEF QueryAt
    <3> QED
      BY <1>1, <2>1, <3>2, <3>3 DEF IsQuery
  <2>3. PICK Delta : Delta = ToSet(walk.delta)
    OBVIOUS
  <2>4. /\ IsFound(walk, c, Delta) /\ Delta \subseteq History[c]
        /\ walk.cited = query.cited \cap History[c]
        /\ {walk.lastFailure} \ {0} \subseteq History[c]
    BY <1>1, <1>3, <1>16, <2>2, <2>3, FoundIsFound
  <2>5. IsTier3(limit, base, walk, c, Delta, tier3)
    BY <1>1, <1>2, <1>3, <1>17, <2>1, <2>4, Tier3Selects
  <2>6. PICK E : E = ToSet(tier3.events)
    OBVIOUS
  <2>7. /\ Assembled(limit, base, tier3) /\ E \subseteq walk.cited \cup ({walk.lastFailure} \ {0}) \cup Delta
        /\ tier3.dropped["cited"] = Cardinality(walk.cited \ E)
        /\ tier3.dropped["cited"] \in 0..c /\ tier3.dropped["lastFailure"] \in 0..c /\ tier3.dropped["delta"] \in 0..c
    BY <2>5, <2>6 DEF IsTier3, Causes
  <2>8. tier3.dropped.cited \in 0..c /\ tier3.dropped.lastFailure \in 0..c /\ tier3.dropped.delta \in 0..c
    BY <2>7
  <2>9. PICK counts : counts = tier3.dropped
    OBVIOUS
  <2>10. /\ PreambleChars(all, tier1, counts) <= PreambleChars(all, tier1, Reserved(c))
         /\ PreambleChars(all, tier1, counts) \in Nat
    BY <1>1, <1>6, <1>11, <2>8, <2>9, CountsFit
  <2>11. PICK pre \in Nat : pre = PreambleChars(all, tier1, counts)
    BY <2>10
  <2>12. PICK reserved \in Nat : reserved = PreambleChars(all, tier1, Reserved(c))
    BY <1>1, <1>6, <1>11, BaseIs
  <2>13. PICK state \in Nat : state = StateChars(all, tier1)
    BY <1>1, <1>6, <1>11, BaseIs
  <2>14. base = reserved + state
    BY <1>1, <1>6, <1>11, <1>12, <2>12, <2>13, BaseIs
  <2>15. PICK chars \in Nat : chars = tier3.chars
    BY <2>7 DEF Assembled, Assemblies
  <2>16. PICK wide \in Nat : wide = EventsChars(tier3.events)
    <3>1. tier3.events \in Seq(DOMAIN ledger)
      BY <2>7 DEF Assembled, Assemblies
    <3>2. c \in DOMAIN ledger
      BY <1>1
    <3> QED
      BY <1>3, <3>1, <3>2, EventsAppend
  <2>17. chars = base + wide /\ chars <= limit
    BY <2>7, <2>15, <2>16 DEF Assembled
  <2>18. context.measured = pre + state + wide
    BY <1>20, <2>9, <2>11, <2>13, <2>16 DEF ContextChars
  <2>19. context.assembled = chars - reserved + pre
    BY <1>20, <2>9, <2>11, <2>12, <2>15
  <2>20. context.measured = context.assembled /\ context.measured <= limit
    <3>1. pre <= reserved
      BY <2>10, <2>11, <2>12
    <3> QED
      BY <1>2, <2>14, <2>17, <2>18, <2>19, <3>1
  <2>21. FitsIn(context, limit)
    BY <1>21, <1>22, <1>24, <2>20 DEF FitsIn
  <2>22. {r \in Requests : Owed(r)} \subseteq {i.requested_seq : i \in tier1.intents}
    <3> SUFFICES ASSUME NEW r \in Requests, Owed(r) PROVE \E i \in tier1.intents : i.requested_seq = r
      OBVIOUS
    <3>1. PICK i \in ResumeReports(c) : i.requested_seq = r /\ IntentGroup(i) = "never_dropped"
      BY <1>1, ReportsAre
    <3>2. i \in Mandatory(all).intents
      BY <1>5, <3>1 DEF Mandatory
    <3>3. i \in tier1.intents
      BY <1>10, <3>2 DEF Selects
    <3> QED
      BY <3>1, <3>3
  <2>23. E \subseteq History[c]
    BY <2>4, <2>7
  <2>24. Cardinality(E) = Len(tier3.events)
    BY <2>6, <2>7 DEF Assembled, Lists
  <2>25. Cardinality((CitedBy(source, tier1.claims) \cap History[c]) \ E) = counts.cited
    BY <2>2, <2>4, <2>7, <2>9
  <2>26. ShowsAllOf(context, History[c], CitedBy(source, context.shown.claims))
    BY <1>20, <2>6, <2>9, <2>22, <2>23, <2>24, <2>25 DEF ShowsAllOf
  <2> QED
    BY <1>4, <1>19, <2>21, <2>26
<1> QED
  BY <1>23, <1>24

\* Every context fits.
LEMMA EachFits == ClaimsInv => ContextFits
<1> SUFFICES ASSUME ClaimsInv, NEW c \in Checkpoints, NEW limit \in Budgets PROVE FitsIn(Build(c, limit), limit)
  BY Zenon DEF ContextFits, FitsIn
<1> QED
  BY BuildKeeps

\* Every context is honest.
LEMMA EachHonest == ClaimsInv => NothingHidden
<1> SUFFICES ASSUME ClaimsInv, NEW c \in Checkpoints, NEW limit \in Budgets
             PROVE  \/ OutOfBudget(Build(c, limit), limit)
                    \/ ShowsAllOf(Build(c, limit), History[c], CitedBy(SelectedFrom[c], Build(c, limit).shown.claims))
  BY Zenon DEF NothingHidden, ShowsAllOf, Owed
<1> QED
  BY BuildKeeps

\* The builder's accounting holds in every run, at every budget: the width that it
\* counts while it selects claims, intents and events is the width of the context
\* that it returns, which is within the budget; it gives up only if what is shown in
\* any case is too large.
THEOREM ContextsFit == ContextSpec => []ContextFits
<1>1. ContextSpec => []ClaimsInv
  BY ClaimsInvInit, ClaimsInvNext, PTL DEF ContextSpec
<1> QED
  BY <1>1, EachFits, PTL

\* However small the budget, a context that is returned shows every side effect and
\* every request whose outcome is unknown, no event that a restore abandoned and none
\* twice, and its count of cited events left out is exact.
THEOREM ContextsHonest == ContextSpec => []NothingHidden
<1>1. ContextSpec => []ClaimsInv
  BY ClaimsInvInit, ClaimsInvNext, PTL DEF ContextSpec
<1> QED
  BY <1>1, EachHonest, PTL
=============================================================================
