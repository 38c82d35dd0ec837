---------------------------- MODULE RunStoreProofs ----------------------------
(***************************************************************************)
(* For every number of backends and of calls: the ledger on disk is always  *)
(* an unbroken chain, and what was acknowledged or is visible is in it      *)
(* (StoreInv); readers see a whole prefix of it, with checkpoints that can  *)
(* be restored, a backend that keeps its writer agrees with the disk, and   *)
(* the store as a whole implements RunLog (ViewInv).                        *)
(***************************************************************************)
EXTENDS RunStore, SequenceTheorems, FiniteSetTheorems, WellFoundedInduction, TLAPS

Writing == {"append", "checkpoint"}

\* The steps at which a backend that writes has its writer.
WithWriter == {"ready", "blob", "ref", "append", "index"}

\* A mutation that writes has its own call number, and the steps of a write
\* belong to one.
InCall ==
  \A b \in Backends :
    /\ op[b].kind \in Writing => op[b].id \in Ids
    /\ pc[b] \in WithWriter \cup {"roll"} => op[b].kind \in Writing
    /\ pc[b] \in {"blob", "ref"} => op[b].checkpoint \in Checkpoints

\* No checkpoint number runs ahead of its ledger position.
Numbered ==
  /\ \A i \in DOMAIN events : events[i].checkpoint.n <= events[i].checkpoint.seq
  /\ \A b \in Backends :
       /\ op[b].checkpoint.n <= op[b].checkpoint.seq
       /\ op[b].loaded.next <= Len(op[b].loaded.events) + 1
       /\ writer[b].next <= writer[b].seq + 1

\* Whoever has a writer, is about to have one, or has loaded the run to rebuild
\* its rows, holds the lock.
Locked ==
  \A b \in Backends :
    /\ writer[b] # NoWriter => lock = b
    /\ pc[b] \in {"load", "roll"} => lock = b
    /\ pc[b] \in WithWriter => writer[b] # NoWriter
    /\ op[b].loaded # NotLoaded => lock = b /\ pc[b] \in {"roll", "rebuild"}
    /\ pc[b] = "roll" => op[b].loaded # NotLoaded

\* A cached writer, and a load, agree with the ledger on disk.
Synced ==
  \A b \in Backends :
    /\ writer[b] # NoWriter =>
         /\ ~torn
         /\ writer[b].seq = Len(events)
         /\ writer[b].hash = HeadHash(events, Len(events))
    /\ op[b].loaded # NotLoaded => ~torn /\ op[b].loaded.events = events

\* What is acknowledged, visible or about to become so is in the ledger.
Stored ==
  /\ AckedDurable
  /\ \A b \in Backends : pc[b] = "index" =>
       op[b].event \in Events /\ op[b].event \in Lines(events)

\* The inductive invariant.
StoreInv ==
  /\ TypeOK
  /\ InCall
  /\ Numbered
  /\ Locked
  /\ Synced
  /\ LedgerChain
  /\ Stored

-----------------------------------------------------------------------------
(* Facts about the operators.                                                *)

\* A set of numbers up to k has a maximum.
LEMMA MaxBounded ==
  ASSUME NEW k \in Nat, NEW S \in SUBSET (0..k), S # {}
  PROVE  Max(S) \in S /\ Max(S) \in 0..k /\ \A x \in S : x <= Max(S)
<1> DEFINE Above == {u \in Nat : \A x \in S : x <= u}
<1>1. k \in Above
  OBVIOUS
<1> DEFINE R == OpToRel(<, Nat)
<1>2. PICK u \in Above : \A v \in Above : ~(<<v, u>> \in R)
  <2>1. Above \subseteq Nat /\ Above # {}
    BY <1>1
  <2>2. IsWellFoundedOn(R, Nat)
    BY NatLessThanWellFounded
  <2> HIDE DEF Above, R
  <2> QED
    BY <2>1, <2>2, WFMin
<1>3. \A v \in Above : u <= v
  <2>1. \A v \in Above : ~(v < u)
    BY <1>2, Zenon DEF OpToRel
  <2> QED
    BY <2>1
<1>4. u \in S
  <2> SUFFICES ASSUME u \notin S PROVE FALSE
    OBVIOUS
  <2>1. \A x \in S : x <= u - 1
    OBVIOUS
  <2>2. u - 1 \in Nat
    <3>1. PICK x \in S : TRUE
      OBVIOUS
    <3>2. x \in Nat /\ x <= u - 1
      BY <2>1, <3>1
    <3> QED
      BY <3>2
  <2>3. u - 1 \in Above
    BY <2>1, <2>2
  <2> QED
    BY <1>3, <2>3
<1>5. \E m \in S : \A x \in S : m >= x
  BY <1>4
<1> QED
  BY <1>5 DEF Max

\* Lines of a log that is a sequence, before and after a line is appended.
LEMMA LinesOfAppend ==
  ASSUME NEW T, NEW log \in Seq(T), NEW e \in T
  PROVE  Lines(Append(log, e)) = Lines(log) \cup {e}
<1>1. DOMAIN Append(log, e) = 1..(Len(log) + 1) /\ DOMAIN log = 1..Len(log)
  OBVIOUS
<1>2. \A i \in 1..(Len(log) + 1) : Append(log, e)[i] = IF i = Len(log) + 1 THEN e ELSE log[i]
  OBVIOUS
<1> QED
  BY <1>1, <1>2 DEF Lines

\* An event that continues the head extends the chain.
LEMMA ChainExtends ==
  ASSUME NEW T, NEW log \in Seq(T), NEW e \in T, VerifyChain(log),
         e.seq = Len(log) + 1, e.prev = HeadHash(log, Len(log))
  PROVE  VerifyChain(Append(log, e))
<1>1. DOMAIN Append(log, e) = 1..(Len(log) + 1) /\ DOMAIN log = 1..Len(log)
  OBVIOUS
<1>2. \A i \in 1..(Len(log) + 1) : Append(log, e)[i] = IF i = Len(log) + 1 THEN e ELSE log[i]
  OBVIOUS
<1>3. \A i \in 0..Len(log) : HeadHash(Append(log, e), i) = HeadHash(log, i)
  BY <1>2 DEF HeadHash
<1> QED
  BY <1>1, <1>2, <1>3 DEF VerifyChain

\* What the loaders compute from a chain has its type, and the next number is at
\* most one more than the number of events.
LEMMA LoadType ==
  ASSUME TypeOK, Numbered, LedgerChain
  PROVE  /\ LoadDurableRun(events) \in Loads
         /\ NextNumber(events) \in 1..(Len(events) + 1)
<1>1. Recorded(events) \subseteq Checkpoints
  BY DEF TypeOK, Recorded, Lines, Events, Garbage, NoEvent
<1>2. \A c \in Recorded(events) : c.n \in 0..Len(events)
  <2> TAKE c \in Recorded(events)
  <2>1. PICK i \in DOMAIN events : c = events[i].checkpoint /\ c.seq = events[i].seq
    BY DEF Recorded, Lines
  <2>2. c.n <= c.seq /\ c.seq = i
    BY <2>1 DEF Numbered, LedgerChain, VerifyChain
  <2> QED
    BY <2>1, <2>2, <1>1 DEF TypeOK, Checkpoints
<1>3. Max({0} \cup {c.n : c \in Recorded(events)}) \in 0..Len(events)
  <2> DEFINE S == {0} \cup {c.n : c \in Recorded(events)}
  <2>1. Len(events) \in Nat /\ S \in SUBSET (0..Len(events)) /\ S # {}
    BY <1>2 DEF TypeOK
  <2> HIDE DEF S
  <2>2. Max(S) \in S
    BY <2>1, MaxBounded
  <2> QED
    BY <2>1, <2>2 DEF S
<1>4. NextNumber(events) \in 1..(Len(events) + 1)
  BY <1>3 DEF NextNumber, TypeOK
<1>5. Restorable(events) \in SUBSET Checkpoints
  BY <1>1 DEF Restorable
<1> QED
  BY <1>4, <1>5 DEF LoadDurableRun, Loads, TypeOK

\* The highest indexed seq is a number while only ledger lines are indexed.
LEMMA MaxEventSeqType ==
  ASSUME TypeOK, LedgerChain, AckedDurable
  PROVE  MaxEventSeq \in Nat
<1> DEFINE S == {0} \cup {e.seq : e \in index.events}
<1>1. \A e \in index.events : e.seq \in 0..Len(events)
  BY DEF AckedDurable, Lines, LedgerChain, VerifyChain, TypeOK
<1>2. Len(events) \in Nat /\ S \in SUBSET (0..Len(events)) /\ S # {}
  BY <1>1 DEF TypeOK
<1>3. MaxEventSeq = Max(S)
  BY DEF MaxEventSeq
<1> HIDE DEF S
<1>4. Max(S) \in 0..Len(events)
  BY <1>2, MaxBounded
<1> QED
  BY <1>2, <1>3, <1>4

\* The writer made of a load has its type.
LEMMA WriterOfType ==
  ASSUME NEW loaded \in Loads, loaded.next <= Len(loaded.events) + 1, RunStoreAssumption
  PROVE  /\ WriterOf(loaded) \in Writers
         /\ WriterOf(loaded).seq = Len(loaded.events)
         /\ WriterOf(loaded).hash = HeadHash(loaded.events, Len(loaded.events))
         /\ WriterOf(loaded).next <= WriterOf(loaded).seq + 1
<1>1. loaded.events \in Seq(Events \cup {Garbage}) /\ loaded.next \in Nat \ {0}
  BY DEF Loads
<1>2. \A e \in Events \cup {Garbage} : e.hash \in 0..MaxCalls
  BY DEF Events, Garbage, NoEvent, Ids, RunStoreAssumption
<1>3. Len(loaded.events) \in Nat
  BY <1>1
<1>4. HeadHash(loaded.events, Len(loaded.events)) \in 0..MaxCalls
  <2>1. CASE Len(loaded.events) = 0
    BY <2>1 DEF HeadHash, GenesisHash, RunStoreAssumption
  <2>2. CASE Len(loaded.events) # 0
    BY <1>1, <1>2, <1>3, <2>2 DEF HeadHash
  <2> QED
    BY <2>1, <2>2
<1> QED
  BY <1>1, <1>3, <1>4 DEF WriterOf, Writers

\* A backend about to append holds the lock, and seals the event that extends
\* the chain.
LEMMA SealedExtends ==
  ASSUME TypeOK, InCall, Locked, Synced, NEW b \in Backends, Appending(b)
  PROVE  /\ writer[b] \in Writers
         /\ op[b].id \in Ids
         /\ lock = b
         /\ ~torn
         /\ Sealed(b) \in Events
         /\ Sealed(b).seq = Len(events) + 1
         /\ Sealed(b).prev = HeadHash(events, Len(events))
         /\ Sealed(b).hash = op[b].id
         /\ Sealed(b).checkpoint = op[b].checkpoint
<1>1. pc[b] \in WithWriter
  BY DEF Appending, WithWriter
<1>2. op[b].id \in Ids /\ op[b].checkpoint \in Checkpoints \cup {NoCheckpoint}
  BY <1>1 DEF InCall, TypeOK, Ops
<1>3. writer[b] \in Writers /\ writer[b] # NoWriter
  BY <1>1 DEF Locked, TypeOK
<1>4. lock = b /\ ~torn /\ writer[b].seq = Len(events)
      /\ writer[b].hash = HeadHash(events, Len(events))
  BY <1>3 DEF Locked, Synced
<1>5. Sealed(b) \in Events
  BY <1>2, <1>3 DEF Sealed, Events, Writers
<1> QED
  BY <1>2, <1>3, <1>4, <1>5 DEF Sealed

\* What the line that is written changes.
LEMMA LineWritten ==
  ASSUME TypeOK, InCall, Locked, Synced, LedgerChain,
         NEW b \in Backends, Appending(b), WriteLine(Sealed(b))
  PROVE  /\ events' = Append(events, Sealed(b))
         /\ torn' = FALSE
         /\ VerifyChain(events')
         /\ Lines(events') = Lines(events) \cup {Sealed(b)}
         /\ Len(events') = Len(events) + 1
         /\ HeadHash(events', Len(events')) = op[b].id
         /\ \A i \in DOMAIN events' :
              events'[i] = IF i = Len(events) + 1 THEN Sealed(b) ELSE events[i]
         /\ DOMAIN events' = 1..(Len(events) + 1)
         /\ events' \in Seq(Events \cup {Garbage})
<1>1. ~torn /\ Sealed(b) \in Events /\ Sealed(b).seq = Len(events) + 1
      /\ Sealed(b).prev = HeadHash(events, Len(events)) /\ Sealed(b).hash = op[b].id
  BY SealedExtends
<1>2. events' = Append(events, Sealed(b)) /\ torn' = FALSE
  BY <1>1 DEF WriteLine
<1>3. events \in Seq(Events \cup {Garbage}) /\ Sealed(b) \in Events \cup {Garbage}
  BY <1>1 DEF TypeOK
<1>4. VerifyChain(Append(events, Sealed(b)))
  BY <1>1, <1>3, ChainExtends DEF LedgerChain
<1>5. Lines(Append(events, Sealed(b))) = Lines(events) \cup {Sealed(b)}
  BY <1>3, LinesOfAppend
<1> DEFINE T == Events \cup {Garbage}
           e == Sealed(b)
<1>6. events \in Seq(T) /\ e \in T
  BY <1>3
<1> HIDE DEF T, e
<1>7. /\ Len(Append(events, e)) = Len(events) + 1
      /\ Len(events) \in Nat
      /\ DOMAIN Append(events, e) = 1..(Len(events) + 1)
      /\ Append(events, e) \in Seq(T)
      /\ \A i \in 1..(Len(events) + 1) :
           Append(events, e)[i] = IF i = Len(events) + 1 THEN e ELSE events[i]
  BY <1>6
<1>8. HeadHash(Append(events, e), Len(events) + 1) = e.hash
  BY <1>7 DEF HeadHash
<1> QED
  BY <1>1, <1>2, <1>4, <1>5, <1>7, <1>8 DEF T, e

\* What AppendLine changes in the backends.
LEMMA LineAppended ==
  ASSUME TypeOK, InCall, Locked, Synced, NEW b \in Backends, AppendLine(b)
  PROVE  /\ writer'[b] \in Writers
         /\ writer'[b].seq = writer[b].seq + 1
         /\ writer'[b].hash = op[b].id
         /\ writer'[b].next \in {writer[b].next, writer[b].next + 1}
         /\ op'[b].event = Sealed(b)
         /\ op'[b].loaded = op[b].loaded
         /\ op'[b].checkpoint = op[b].checkpoint
         /\ pc'[b] = "index"
         /\ \A c \in Backends \ {b} :
              writer'[c] = writer[c] /\ op'[c] = op[c] /\ pc'[c] = pc[c]
<1>1. writer[b] \in Writers /\ op[b].id \in 0..MaxCalls
  BY SealedExtends DEF AppendLine, TypeOK, Ops
<1>2. /\ writer'[b].seq = writer[b].seq + 1
      /\ writer'[b].hash = op[b].id
      /\ writer'[b].next = IF op[b].kind = "checkpoint" THEN writer[b].next + 1
                           ELSE writer[b].next
      /\ writer'[b] = [seq |-> writer[b].seq + 1, hash |-> op[b].id,
                       next |-> IF op[b].kind = "checkpoint" THEN writer[b].next + 1
                                ELSE writer[b].next]
  BY <1>1 DEF AppendLine, TypeOK, Writers
<1>3. writer'[b] \in Writers
  BY <1>1, <1>2 DEF Writers
<1>4. op' = [op EXCEPT ![b] = [op[b] EXCEPT !.event = Sealed(b)]]
  BY DEF AppendLine, Begin
<1>5. /\ op'[b].event = Sealed(b)
      /\ op'[b].loaded = op[b].loaded
      /\ op'[b].checkpoint = op[b].checkpoint
      /\ \A c \in Backends \ {b} : op'[c] = op[c]
  BY <1>4 DEF TypeOK, Ops
<1> QED
  BY <1>1, <1>2, <1>3, <1>5 DEF AppendLine, TypeOK, Goto

\* What loading the run changes.
LEMMA RunLoaded ==
  ASSUME TypeOK, Locked, NEW b \in Backends, LoadWriter(b) \/ LoadReindex(b)
  PROVE  /\ lock = b
         /\ op'[b].loaded = LoadDurableRun(events)
         /\ op'[b].event = op[b].event
         /\ op'[b].checkpoint = op[b].checkpoint
         /\ \A c \in Backends \ {b} : op'[c] = op[c]
         /\ UNCHANGED <<events, writer, lock>>
         /\ ~torn'
<1>1. lock = b /\ UNCHANGED <<events, writer, lock>> /\ ~torn'
  BY DEF LoadWriter, LoadReindex, Load, Locked
<1>2. \/ op' = [op EXCEPT ![b] = [op[b] EXCEPT !.loaded = LoadDurableRun(events),
                                              !.indexed = MaxEventSeq]]
      \/ op' = [op EXCEPT ![b] = [op[b] EXCEPT !.loaded = LoadDurableRun(events)]]
  BY Zenon DEF LoadWriter, LoadReindex, Begin
<1> QED
  BY <1>1, <1>2 DEF TypeOK, Ops

\* An idle backend has the locals of no mutation.
LEMMA NoOpType ==
  ASSUME RunStoreAssumption
  PROVE  NoOp \in Ops
BY DEF NoOp, Ops, Kinds, NoParent, RunStoreAssumption

\* The lines of a log are elements of its sequence.
LEMMA LinesType ==
  ASSUME NEW T, NEW log \in Seq(T)
  PROVE  Lines(log) \subseteq T
BY DEF Lines

\* The assignments to the locals of a mutation keep their type.
LEMMA OpsUpdates ==
  ASSUME NEW o \in Ops
  PROVE  /\ \A l \in Loads \cup {NotLoaded}, k \in Nat :
              /\ [o EXCEPT !.loaded = l] \in Ops
              /\ [o EXCEPT !.loaded = l, !.indexed = k] \in Ops
         /\ \A e \in Events : [o EXCEPT !.event = e] \in Ops
         /\ \A c \in Checkpoints : [o EXCEPT !.checkpoint = c] \in Ops
         /\ \A kind \in Kinds, id \in 0..MaxCalls, parent \in Nat :
              [o EXCEPT !.kind = kind, !.id = id, !.parent = parent] \in Ops
<1>1. o = [kind |-> o.kind, id |-> o.id, parent |-> o.parent,
           checkpoint |-> o.checkpoint, event |-> o.event,
           loaded |-> o.loaded, indexed |-> o.indexed]
  BY DEF Ops
<1>2. /\ o.kind \in Kinds
      /\ o.id \in 0..MaxCalls
      /\ o.parent \in Nat
      /\ o.checkpoint \in Checkpoints \cup {NoCheckpoint}
      /\ o.event \in Events \cup {NoEvent}
      /\ o.loaded \in Loads \cup {NotLoaded}
      /\ o.indexed \in Nat
  BY DEF Ops
<1> QED
  BY <1>1, <1>2 DEF Ops
-----------------------------------------------------------------------------
(* The invariant is preserved.                                               *)

\* Writes keep their call numbers.
LEMMA InCallStep ==
  ASSUME TypeOK, InCall, Locked, [Next]_vars
  PROVE  InCall'
<1> USE RunStoreAssumption DEF TypeOK, InCall, Writing, WithWriter, Ids, NoOp, Ops
<1>1. CASE Next
  <2>1. PICK b \in Backends : Progress(b) \/ Environment(b)
    BY <1>1 DEF Next
  <2>2. CASE CreateRun(b)
    BY <2>2 DEF CreateRun, Goto, Begin, durable, history
  <2>3. CASE WriteRunFile(b)
    BY <2>3 DEF WriteRunFile, Goto, durable, history
  <2>4. CASE InsertRun(b)
    BY <2>4 DEF InsertRun, Done, Goto, Begin, durable, history
  <2>5. CASE InsertRunConflict(b)
    BY <2>5 DEF InsertRunConflict, Done, Goto, Begin, durable, history
  <2>6. CASE Call(b, "append", NoParent)
    BY <2>6 DEF Call, Goto, Begin, durable, history
  <2>7. CASE \E parent \in 0..MaxCalls : Call(b, "checkpoint", parent)
    BY <2>7 DEF Call, Goto, Begin, durable, history
  <2>8. CASE AcquireLock(b)
    BY <2>8 DEF AcquireLock, Goto, durable, history
  <2>9. CASE RunLocked(b)
    BY <2>9 DEF RunLocked, Done, Goto, Begin, durable, history
  <2>10. CASE LoadWriter(b)
    BY <2>10 DEF LoadWriter, Load, Goto, Begin, durable, history
  <2>11. CASE RollForward(b)
    BY <2>11 DEF RollForward, Goto, Begin, durable, history
  <2>12. CASE AppendLine(b)
    BY <2>12 DEF AppendLine, Appending, WriteLine, Goto, Begin, durable, history
  <2>13. CASE IndexRows(b)
    BY <2>13 DEF IndexRows, Done, Goto, Begin, durable, history
  <2>14. CASE CommitTree(b)
    <3>1. writer[b] \in Writers
      BY <2>14 DEF CommitTree, Locked, TypeOK
    <3> DEFINE c == [n |-> writer[b].next, parent |-> op[b].parent,
                     commit |-> op[b].id, seq |-> writer[b].seq + 1]
    <3>2. c \in Checkpoints
      BY <3>1, <2>14 DEF CommitTree, Checkpoints, Writers
    <3>3. op' = [op EXCEPT ![b] = [@ EXCEPT !.checkpoint = c]]
      BY <2>14 DEF CommitTree, Begin
    <3> HIDE DEF c
    <3> QED
      BY <3>2, <3>3, <2>14 DEF CommitTree, Goto
  <2>15. CASE RejectCheckpoint(b)
    BY <2>15 DEF RejectCheckpoint, DropWriter, Done, Goto, Begin, durable, history
  <2>16. CASE PutState(b)
    BY <2>16 DEF PutState, Goto, durable, history
  <2>17. CASE UpdateRef(b)
    BY <2>17 DEF UpdateRef, Goto, durable, history
  <2>18. CASE AppendFails(b)
    BY <2>18 DEF AppendFails, Appending, WriteLine, DropWriter, Done, Goto, Begin, durable, history
  <2>19. CASE Drop(b)
    BY <2>19 DEF Drop, DropWriter, Done, Goto, Begin, durable, history
  <2>20. CASE CreateRunFails(b)
    BY <2>20 DEF CreateRunFails, Done, Goto, Begin, durable, history
  <2>21. CASE Reindex(b)
    BY <2>21 DEF Reindex, Goto, Begin, durable, history
  <2>22. CASE LoadReindex(b)
    BY <2>22 DEF LoadReindex, Load, Goto, Begin, durable, history
  <2>23. CASE Rebuild(b)
    BY <2>23 DEF Rebuild, ReleaseTaken, Done, Goto, Begin, durable, history
  <2>24. CASE ReindexFails(b)
    BY <2>24 DEF ReindexFails, ReleaseTaken, Done, Goto, Begin, durable, history
  <2> QED
    BY <2>1, <2>2, <2>3, <2>4, <2>5, <2>6, <2>7, <2>8, <2>9, <2>10, <2>11, <2>12, <2>13, <2>14, <2>15, <2>16, <2>17, <2>18, <2>19, <2>20, <2>21, <2>22, <2>23, <2>24 DEF Progress, Environment
<1>2. CASE UNCHANGED vars
  BY <1>2 DEF vars, durable, history
<1> QED
  BY <1>1, <1>2

\* The lock stays with whoever uses it.
LEMMA LockedStep ==
  ASSUME TypeOK, InCall, Locked, Numbered, Synced, LedgerChain, [Next]_vars
  PROVE  Locked'
<1> USE RunStoreAssumption DEF TypeOK, InCall, Locked, WithWriter, Writing, NoOp, NotLoaded, NoWriter
<1>1. CASE Next
  <2>1. PICK b \in Backends : Progress(b) \/ Environment(b)
    BY <1>1 DEF Next
  <2>2. CASE CreateRun(b)
    BY <2>2 DEF CreateRun, Goto, Begin, durable, history
  <2>3. CASE WriteRunFile(b)
    BY <2>3 DEF WriteRunFile, Goto, durable, history
  <2>4. CASE InsertRun(b)
    BY <2>4 DEF InsertRun, Done, Goto, Begin, durable, history
  <2>5. CASE InsertRunConflict(b)
    BY <2>5 DEF InsertRunConflict, Done, Goto, Begin, durable, history
  <2>6. CASE Call(b, "append", NoParent)
    BY <2>6 DEF Call, Goto, Begin, durable, history
  <2>7. CASE \E parent \in 0..MaxCalls : Call(b, "checkpoint", parent)
    BY <2>7 DEF Call, Goto, Begin, durable, history
  <2>8. CASE AcquireLock(b)
    BY <2>8 DEF AcquireLock, Goto, durable, history
  <2>9. CASE RunLocked(b)
    BY <2>9 DEF RunLocked, Done, Goto, Begin, durable, history
  <2>10. CASE LoadWriter(b)
    <3>1. LoadDurableRun(events) # NotLoaded
      BY LoadType DEF LoadDurableRun
    <3> HIDE DEF NotLoaded
    <3> QED
      BY <3>1, <2>10 DEF LoadWriter, Load, Goto, Begin, durable, history
  <2>11. CASE RollForward(b)
    <3>1. WriterOf(op[b].loaded) # NoWriter
      BY <2>11 DEF RollForward, WriterOf, Loads, Ops
    <3> HIDE DEF NotLoaded, NoWriter
    <3> QED
      BY <3>1, <2>11 DEF RollForward, Goto, Begin, durable, history
  <2>12. CASE AppendLine(b)
    <3> USE DEF Appending
    <3>1. /\ pc'[b] = "index" /\ op'[b].loaded = op[b].loaded
          /\ \A c \in Backends \ {b} :
               writer'[c] = writer[c] /\ op'[c] = op[c] /\ pc'[c] = pc[c]
      BY <2>12, LineAppended
    <3>2. writer'[b] # NoWriter
      BY <2>12, LineAppended DEF Writers
    <3>3. lock' = lock /\ lock = b
      BY <2>12, SealedExtends DEF AppendLine
    <3>4. op[b].loaded = NotLoaded
      BY <2>12 DEF AppendLine
    <3> HIDE DEF NotLoaded, NoWriter
    <3> QED
      BY <3>1, <3>2, <3>3, <3>4
  <2>13. CASE IndexRows(b)
    BY <2>13 DEF IndexRows, Done, Goto, Begin, durable, history
  <2>14. CASE CommitTree(b)
    BY <2>14 DEF CommitTree, Goto, Begin, durable, history
  <2>15. CASE RejectCheckpoint(b)
    BY <2>15 DEF RejectCheckpoint, DropWriter, Done, Goto, Begin, durable, history
  <2>16. CASE PutState(b)
    BY <2>16 DEF PutState, Goto, durable, history
  <2>17. CASE UpdateRef(b)
    BY <2>17 DEF UpdateRef, Goto, durable, history
  <2>18. CASE AppendFails(b)
    BY <2>18 DEF AppendFails, Appending, WriteLine, DropWriter, Done, Goto, Begin, durable, history
  <2>19. CASE Drop(b)
    BY <2>19 DEF Drop, DropWriter, Done, Goto, Begin, durable, history
  <2>20. CASE CreateRunFails(b)
    BY <2>20 DEF CreateRunFails, Done, Goto, Begin, durable, history
  <2>21. CASE Reindex(b)
    BY <2>21 DEF Reindex, Goto, Begin, durable, history
  <2>22. CASE LoadReindex(b)
    <3>1. LoadDurableRun(events) # NotLoaded
      BY LoadType DEF LoadDurableRun
    <3> HIDE DEF NotLoaded
    <3> QED
      BY <3>1, <2>22 DEF LoadReindex, Load, Goto, Begin, durable, history
  <2>23. CASE Rebuild(b)
    BY <2>23 DEF Rebuild, ReleaseTaken, Done, Goto, Begin, durable, history
  <2>24. CASE ReindexFails(b)
    BY <2>24 DEF ReindexFails, ReleaseTaken, Done, Goto, Begin, durable, history
  <2> QED
    BY <2>1, <2>2, <2>3, <2>4, <2>5, <2>6, <2>7, <2>8, <2>9, <2>10, <2>11, <2>12, <2>13, <2>14, <2>15, <2>16, <2>17, <2>18, <2>19, <2>20, <2>21, <2>22, <2>23, <2>24 DEF Progress, Environment
<1>2. CASE UNCHANGED vars
  BY <1>2 DEF vars, durable, history
<1> QED
  BY <1>1, <1>2

\* Checkpoint numbers stay behind ledger positions.
LEMMA NumberedStep ==
  ASSUME TypeOK, InCall, Locked, Numbered, Synced, LedgerChain, [Next]_vars
  PROVE  Numbered'
<1> USE RunStoreAssumption DEF TypeOK, InCall, Locked, Numbered, WithWriter, Writing, NoOp, NotLoaded, NoWriter, NoEvent, NoCheckpoint
<1>1. CASE Next
  <2>1. PICK b \in Backends : Progress(b) \/ Environment(b)
    BY <1>1 DEF Next
  <2>2. CASE CreateRun(b)
    BY <2>2 DEF CreateRun, Goto, Begin, durable, history
  <2>3. CASE WriteRunFile(b)
    BY <2>3 DEF WriteRunFile, Goto, durable, history
  <2>4. CASE InsertRun(b)
    BY <2>4 DEF InsertRun, Done, Goto, Begin, durable, history
  <2>5. CASE InsertRunConflict(b)
    BY <2>5 DEF InsertRunConflict, Done, Goto, Begin, durable, history
  <2>6. CASE Call(b, "append", NoParent)
    BY <2>6 DEF Call, Goto, Begin, durable, history
  <2>7. CASE \E parent \in 0..MaxCalls : Call(b, "checkpoint", parent)
    BY <2>7 DEF Call, Goto, Begin, durable, history
  <2>8. CASE AcquireLock(b)
    BY <2>8 DEF AcquireLock, Goto, durable, history
  <2>9. CASE RunLocked(b)
    BY <2>9 DEF RunLocked, Done, Goto, Begin, durable, history
  <2>10. CASE LoadWriter(b)
    <3>1. /\ LoadDurableRun(events).next <= Len(events) + 1
          /\ LoadDurableRun(events).events = events
      BY LoadType DEF LoadDurableRun
    <3>2. /\ op'[b].loaded = LoadDurableRun(events)
          /\ op'[b].checkpoint = op[b].checkpoint
          /\ \A c \in Backends \ {b} : op'[c] = op[c]
          /\ UNCHANGED <<events, writer>>
      BY <2>10, RunLoaded
    <3> QED
      BY <3>1, <3>2
  <2>11. CASE RollForward(b)
    <3>1. op[b].loaded \in Loads
      BY <2>11 DEF RollForward, Ops
    <3>2. WriterOf(op[b].loaded).next <= WriterOf(op[b].loaded).seq + 1
      BY <3>1, WriterOfType
    <3> HIDE DEF NotLoaded
    <3>3. /\ writer'[b] = WriterOf(op[b].loaded)
          /\ op'[b].loaded = NotLoaded
          /\ op'[b].checkpoint = op[b].checkpoint
          /\ \A c \in Backends \ {b} : op'[c] = op[c] /\ writer'[c] = writer[c]
          /\ UNCHANGED events
      BY <2>11 DEF RollForward, Goto, Begin, durable, history, Ops
    <3> QED
      BY <3>2, <3>3 DEF NotLoaded
  <2>12. CASE AppendLine(b)
    <3>1. /\ writer'[b].seq = writer[b].seq + 1
          /\ writer'[b].next \in {writer[b].next, writer[b].next + 1}
          /\ op'[b].loaded = op[b].loaded /\ op'[b].checkpoint = op[b].checkpoint
          /\ \A c \in Backends \ {b} : writer'[c] = writer[c] /\ op'[c] = op[c]
      BY <2>12, LineAppended
    <3>2. /\ \A i \in DOMAIN events' :
               events'[i] = IF i = Len(events) + 1 THEN Sealed(b) ELSE events[i]
          /\ DOMAIN events' = 1..(Len(events) + 1)
      BY <2>12, LineWritten DEF AppendLine
    <3>3. /\ writer[b] \in Writers
          /\ Sealed(b).checkpoint = op[b].checkpoint
      BY <2>12, SealedExtends DEF AppendLine
    <3>4. \A i \in DOMAIN events' : events'[i].checkpoint.n <= events'[i].checkpoint.seq
      BY <3>2, <3>3
    <3>5. writer'[b].next <= writer'[b].seq + 1
      BY <3>1, <3>3 DEF Writers
    <3> QED
      BY <3>1, <3>4, <3>5
  <2>13. CASE IndexRows(b)
    BY <2>13 DEF IndexRows, Done, Goto, Begin, durable, history
  <2>14. CASE CommitTree(b)
    BY <2>14 DEF CommitTree, Goto, Begin, durable, history
  <2>15. CASE RejectCheckpoint(b)
    BY <2>15 DEF RejectCheckpoint, DropWriter, Done, Goto, Begin, durable, history
  <2>16. CASE PutState(b)
    BY <2>16 DEF PutState, Goto, durable, history
  <2>17. CASE UpdateRef(b)
    BY <2>17 DEF UpdateRef, Goto, durable, history
  <2>18. CASE AppendFails(b)
    <3>1. \A i \in DOMAIN events' : events'[i].checkpoint.n <= events'[i].checkpoint.seq
      <4>1. CASE UNCHANGED events
        BY <4>1
      <4>2. CASE WriteLine(Sealed(b))
        <5>1. Appending(b)
          BY <2>18 DEF AppendFails
        <5>2. /\ \A i \in DOMAIN events' :
                   events'[i] = IF i = Len(events) + 1 THEN Sealed(b) ELSE events[i]
              /\ DOMAIN events' = 1..(Len(events) + 1)
          BY <4>2, <5>1, LineWritten
        <5>3. Sealed(b).checkpoint = op[b].checkpoint
          BY <5>1, SealedExtends
        <5> QED
          BY <5>2, <5>3
      <4> QED
        BY <2>18, <4>1, <4>2 DEF AppendFails
    <3> HIDE DEF NoOp, NoWriter
    <3>2. /\ op'[b] = NoOp /\ writer'[b] = NoWriter
          /\ \A c \in Backends \ {b} : writer'[c] = writer[c] /\ op'[c] = op[c]
      BY <2>18 DEF AppendFails, DropWriter, Done, Begin
    <3> QED
      BY <3>1, <3>2 DEF NoOp, NoWriter
  <2>19. CASE Drop(b)
    BY <2>19 DEF Drop, DropWriter, Done, Goto, Begin, durable, history
  <2>20. CASE CreateRunFails(b)
    BY <2>20 DEF CreateRunFails, Done, Goto, Begin, durable, history
  <2>21. CASE Reindex(b)
    BY <2>21 DEF Reindex, Goto, Begin, durable, history
  <2>22. CASE LoadReindex(b)
    <3>1. /\ LoadDurableRun(events).next <= Len(events) + 1
          /\ LoadDurableRun(events).events = events
      BY LoadType DEF LoadDurableRun
    <3>2. /\ op'[b].loaded = LoadDurableRun(events)
          /\ op'[b].checkpoint = op[b].checkpoint
          /\ \A c \in Backends \ {b} : op'[c] = op[c]
          /\ UNCHANGED <<events, writer>>
      BY <2>22, RunLoaded
    <3> QED
      BY <3>1, <3>2
  <2>23. CASE Rebuild(b)
    <3>1. CASE op[b].loaded # NotLoaded /\ writer[b] # NoWriter
      <4>1. op[b].loaded \in Loads
        BY <3>1 DEF Ops
      <4>2. WriterOf(op[b].loaded).next <= WriterOf(op[b].loaded).seq + 1
        BY <4>1, WriterOfType
      <4> HIDE DEF NotLoaded, NoOp, NoWriter
      <4>3. /\ writer'[b] = WriterOf(op[b].loaded)
            /\ op'[b] = NoOp
            /\ \A c \in Backends \ {b} : op'[c] = op[c] /\ writer'[c] = writer[c]
            /\ UNCHANGED events
        BY <2>23, <3>1 DEF Rebuild, ReleaseTaken, Done, Goto, Begin, durable, history
      <4> QED
        BY <4>2, <4>3 DEF NotLoaded, NoOp
    <3>2. CASE ~(op[b].loaded # NotLoaded /\ writer[b] # NoWriter)
      <4> HIDE DEF NotLoaded, NoOp, NoWriter
      <4>1. /\ op'[b] = NoOp
            /\ \A c \in Backends \ {b} : op'[c] = op[c]
            /\ UNCHANGED <<events, writer>>
        BY <2>23, <3>2 DEF Rebuild, ReleaseTaken, Done, Goto, Begin, durable, history
      <4> QED
        BY <4>1 DEF NotLoaded, NoOp
    <3> QED
      BY <3>1, <3>2
  <2>24. CASE ReindexFails(b)
    BY <2>24 DEF ReindexFails, ReleaseTaken, Done, Goto, Begin, durable, history
  <2> QED
    BY <2>1, <2>2, <2>3, <2>4, <2>5, <2>6, <2>7, <2>8, <2>9, <2>10, <2>11, <2>12, <2>13, <2>14, <2>15, <2>16, <2>17, <2>18, <2>19, <2>20, <2>21, <2>22, <2>23, <2>24 DEF Progress, Environment
<1>2. CASE UNCHANGED vars
  BY <1>2 DEF vars, durable, history
<1> QED
  BY <1>1, <1>2

\* What a backend keeps of the ledger stays true.
LEMMA SyncedStep ==
  ASSUME TypeOK, InCall, Locked, Numbered, Synced, LedgerChain, [Next]_vars
  PROVE  Synced'
<1> USE RunStoreAssumption DEF TypeOK, InCall, Locked, Synced, WithWriter, Writing, NoOp
<1>1. CASE Next
  <2>1. PICK b \in Backends : Progress(b) \/ Environment(b)
    BY <1>1 DEF Next
  <2>2. CASE CreateRun(b)
    BY <2>2 DEF CreateRun, Goto, Begin, durable, history
  <2>3. CASE WriteRunFile(b)
    BY <2>3 DEF WriteRunFile, Goto, durable, history
  <2>4. CASE InsertRun(b)
    BY <2>4 DEF InsertRun, Done, Goto, Begin, durable, history
  <2>5. CASE InsertRunConflict(b)
    BY <2>5 DEF InsertRunConflict, Done, Goto, Begin, durable, history
  <2>6. CASE Call(b, "append", NoParent)
    BY <2>6 DEF Call, Goto, Begin, durable, history
  <2>7. CASE \E parent \in 0..MaxCalls : Call(b, "checkpoint", parent)
    BY <2>7 DEF Call, Goto, Begin, durable, history
  <2>8. CASE AcquireLock(b)
    BY <2>8 DEF AcquireLock, Goto, durable, history
  <2>9. CASE RunLocked(b)
    BY <2>9 DEF RunLocked, Done, Goto, Begin, durable, history
  <2>10. CASE LoadWriter(b)
    <3>1. LoadDurableRun(events).events = events
      BY DEF LoadDurableRun
    <3> HIDE DEF NoWriter
    <3>2. lock = b
      BY <2>10, RunLoaded
    <3>3. /\ op'[b].loaded = LoadDurableRun(events)
          /\ \A c \in Backends \ {b} : op'[c] = op[c]
          /\ UNCHANGED <<events, writer, lock>>
          /\ ~torn'
      BY <2>10, RunLoaded
    <3> QED
      BY <3>1, <3>2, <3>3
  <2>11. CASE RollForward(b)
    <3>1. /\ op[b].loaded # NotLoaded
          /\ op[b].loaded \in Loads
          /\ op[b].loaded.next <= Len(op[b].loaded.events) + 1
      BY <2>11 DEF RollForward, Ops, Numbered
    <3>2. /\ ~torn
          /\ WriterOf(op[b].loaded).seq = Len(events)
          /\ WriterOf(op[b].loaded).hash = HeadHash(events, Len(events))
      BY <3>1, WriterOfType
    <3> HIDE DEF NotLoaded
    <3>3. /\ writer'[b] = WriterOf(op[b].loaded)
          /\ op'[b].loaded = NotLoaded
          /\ \A c \in Backends \ {b} : op'[c] = op[c] /\ writer'[c] = writer[c]
          /\ UNCHANGED <<events, torn>>
      BY <2>11 DEF RollForward, Goto, Begin, durable, history, Ops
    <3> QED
      BY <3>2, <3>3
  <2>12. CASE AppendLine(b)
    <3>1. /\ writer'[b].seq = writer[b].seq + 1
          /\ writer'[b].hash = op[b].id
          /\ op'[b].loaded = op[b].loaded
          /\ \A c \in Backends \ {b} : writer'[c] = writer[c] /\ op'[c] = op[c]
      BY <2>12, LineAppended
    <3>2. /\ ~torn'
          /\ Len(events') = Len(events) + 1
          /\ HeadHash(events', Len(events')) = op[b].id
      BY <2>12, LineWritten DEF AppendLine
    <3>3. lock = b /\ writer[b] # NoWriter /\ op[b].loaded = NotLoaded
      BY <2>12, SealedExtends DEF AppendLine, Appending
    <3> HIDE DEF NotLoaded, NoWriter
    <3> QED
      BY <3>1, <3>2, <3>3
  <2>13. CASE IndexRows(b)
    BY <2>13 DEF IndexRows, Done, Goto, Begin, durable, history
  <2>14. CASE CommitTree(b)
    BY <2>14 DEF CommitTree, Goto, Begin, durable, history
  <2>15. CASE RejectCheckpoint(b)
    BY <2>15 DEF RejectCheckpoint, DropWriter, Done, Goto, Begin, durable, history
  <2>16. CASE PutState(b)
    BY <2>16 DEF PutState, Goto, durable, history
  <2>17. CASE UpdateRef(b)
    BY <2>17 DEF UpdateRef, Goto, durable, history
  <2>18. CASE AppendFails(b)
    <3>1. lock = b
      BY <2>18, SealedExtends DEF AppendFails
    <3> HIDE DEF NoOp, NoWriter, NotLoaded
    <3>2. /\ op'[b] = NoOp /\ writer'[b] = NoWriter
          /\ \A c \in Backends \ {b} : writer'[c] = writer[c] /\ op'[c] = op[c]
      BY <2>18 DEF AppendFails, DropWriter, Done, Begin
    <3>3. NoOp.loaded = NotLoaded
      BY DEF NoOp
    <3> QED
      BY <3>1, <3>2, <3>3
  <2>19. CASE Drop(b)
    BY <2>19 DEF Drop, DropWriter, Done, Goto, Begin, durable, history
  <2>20. CASE CreateRunFails(b)
    BY <2>20 DEF CreateRunFails, Done, Goto, Begin, durable, history
  <2>21. CASE Reindex(b)
    BY <2>21 DEF Reindex, Goto, Begin, durable, history
  <2>22. CASE LoadReindex(b)
    <3>1. LoadDurableRun(events).events = events
      BY DEF LoadDurableRun
    <3> HIDE DEF NoWriter
    <3>2. lock = b
      BY <2>22, RunLoaded
    <3>3. /\ op'[b].loaded = LoadDurableRun(events)
          /\ \A c \in Backends \ {b} : op'[c] = op[c]
          /\ UNCHANGED <<events, writer, lock>>
          /\ ~torn'
      BY <2>22, RunLoaded
    <3> QED
      BY <3>1, <3>2, <3>3
  <2>23. CASE Rebuild(b)
    <3>1. CASE op[b].loaded # NotLoaded /\ writer[b] # NoWriter
      <4>1. op[b].loaded \in Loads /\ op[b].loaded.next <= Len(op[b].loaded.events) + 1
        BY <3>1 DEF Ops, Numbered
      <4>2. /\ WriterOf(op[b].loaded).seq = Len(events)
            /\ WriterOf(op[b].loaded).hash = HeadHash(events, Len(events))
        BY <3>1, <4>1, WriterOfType
      <4> HIDE DEF NotLoaded, NoOp, NoWriter
      <4>3. /\ writer'[b] = WriterOf(op[b].loaded)
            /\ op'[b] = NoOp
            /\ \A c \in Backends \ {b} : op'[c] = op[c] /\ writer'[c] = writer[c]
            /\ UNCHANGED <<events, torn>>
        BY <2>23, <3>1 DEF Rebuild, ReleaseTaken, Done, Goto, Begin, durable, history
      <4>4. NoOp.loaded = NotLoaded
        BY DEF NoOp
      <4> QED
        BY <3>1, <4>2, <4>3, <4>4
    <3>2. CASE ~(op[b].loaded # NotLoaded /\ writer[b] # NoWriter)
      <4> HIDE DEF NotLoaded, NoOp, NoWriter
      <4>1. /\ op'[b] = NoOp
            /\ \A c \in Backends \ {b} : op'[c] = op[c]
            /\ UNCHANGED <<events, torn, writer>>
        BY <2>23, <3>2 DEF Rebuild, ReleaseTaken, Done, Goto, Begin, durable, history
      <4>2. NoOp.loaded = NotLoaded
        BY DEF NoOp
      <4> QED
        BY <4>1, <4>2
    <3> QED
      BY <3>1, <3>2
  <2>24. CASE ReindexFails(b)
    BY <2>24 DEF ReindexFails, ReleaseTaken, Done, Goto, Begin, durable, history
  <2> QED
    BY <2>1, <2>2, <2>3, <2>4, <2>5, <2>6, <2>7, <2>8, <2>9, <2>10, <2>11, <2>12, <2>13, <2>14, <2>15, <2>16, <2>17, <2>18, <2>19, <2>20, <2>21, <2>22, <2>23, <2>24 DEF Progress, Environment
<1>2. CASE UNCHANGED vars
  BY <1>2 DEF vars, durable, history
<1> QED
  BY <1>1, <1>2

\* The chain is extended at its head, by the holder of the lock.
LEMMA ChainStep ==
  ASSUME TypeOK, InCall, Locked, Synced, LedgerChain, [Next]_vars
  PROVE  LedgerChain'
<1> USE RunStoreAssumption DEF TypeOK, InCall, Locked, Synced, LedgerChain, WithWriter, Writing
<1>1. CASE Next
  <2>1. PICK b \in Backends : Progress(b) \/ Environment(b)
    BY <1>1 DEF Next
  <2>2. CASE CreateRun(b)
    BY <2>2 DEF CreateRun, Goto, Begin, durable, history
  <2>3. CASE WriteRunFile(b)
    BY <2>3 DEF WriteRunFile, Goto, durable, history
  <2>4. CASE InsertRun(b)
    BY <2>4 DEF InsertRun, Done, Goto, Begin, durable, history
  <2>5. CASE InsertRunConflict(b)
    BY <2>5 DEF InsertRunConflict, Done, Goto, Begin, durable, history
  <2>6. CASE Call(b, "append", NoParent)
    BY <2>6 DEF Call, Goto, Begin, durable, history
  <2>7. CASE \E parent \in 0..MaxCalls : Call(b, "checkpoint", parent)
    BY <2>7 DEF Call, Goto, Begin, durable, history
  <2>8. CASE AcquireLock(b)
    BY <2>8 DEF AcquireLock, Goto, durable, history
  <2>9. CASE RunLocked(b)
    BY <2>9 DEF RunLocked, Done, Goto, Begin, durable, history
  <2>10. CASE LoadWriter(b)
    BY <2>10 DEF LoadWriter, Load, Goto, Begin, durable, history
  <2>11. CASE RollForward(b)
    BY <2>11 DEF RollForward, Goto, Begin, durable, history
  <2>12. CASE AppendLine(b)
    BY <2>12, LineWritten DEF AppendLine
  <2>13. CASE IndexRows(b)
    BY <2>13 DEF IndexRows, Done, Goto, Begin, durable, history
  <2>14. CASE CommitTree(b)
    BY <2>14 DEF CommitTree, Goto, Begin, durable, history
  <2>15. CASE RejectCheckpoint(b)
    BY <2>15 DEF RejectCheckpoint, DropWriter, Done, Goto, Begin, durable, history
  <2>16. CASE PutState(b)
    BY <2>16 DEF PutState, Goto, durable, history
  <2>17. CASE UpdateRef(b)
    BY <2>17 DEF UpdateRef, Goto, durable, history
  <2>18. CASE AppendFails(b)
    BY <2>18, LineWritten DEF AppendFails
  <2>19. CASE Drop(b)
    BY <2>19 DEF Drop, DropWriter, Done, Goto, Begin, durable, history
  <2>20. CASE CreateRunFails(b)
    BY <2>20 DEF CreateRunFails, Done, Goto, Begin, durable, history
  <2>21. CASE Reindex(b)
    BY <2>21 DEF Reindex, Goto, Begin, durable, history
  <2>22. CASE LoadReindex(b)
    BY <2>22 DEF LoadReindex, Load, Goto, Begin, durable, history
  <2>23. CASE Rebuild(b)
    BY <2>23 DEF Rebuild, ReleaseTaken, Done, Goto, Begin, durable, history
  <2>24. CASE ReindexFails(b)
    BY <2>24 DEF ReindexFails, ReleaseTaken, Done, Goto, Begin, durable, history
  <2> QED
    BY <2>1, <2>2, <2>3, <2>4, <2>5, <2>6, <2>7, <2>8, <2>9, <2>10, <2>11, <2>12, <2>13, <2>14, <2>15, <2>16, <2>17, <2>18, <2>19, <2>20, <2>21, <2>22, <2>23, <2>24 DEF Progress, Environment
<1>2. CASE UNCHANGED vars
  BY <1>2 DEF vars, durable, history
<1> QED
  BY <1>1, <1>2

\* Lines stay, and only lines are shown.
LEMMA StoredStep ==
  ASSUME TypeOK, InCall, Locked, Synced, LedgerChain, Stored, [Next]_vars
  PROVE  Stored'
<1> USE RunStoreAssumption DEF TypeOK, InCall, Locked, Synced, Stored, AckedDurable, WithWriter, Writing
<1>1. CASE Next
  <2>1. PICK b \in Backends : Progress(b) \/ Environment(b)
    BY <1>1 DEF Next
  <2>2. CASE CreateRun(b)
    BY <2>2 DEF CreateRun, Goto, Begin, durable, history
  <2>3. CASE WriteRunFile(b)
    BY <2>3 DEF WriteRunFile, Goto, durable, history
  <2>4. CASE InsertRun(b)
    BY <2>4 DEF InsertRun, Done, Goto, Begin, durable, history
  <2>5. CASE InsertRunConflict(b)
    BY <2>5 DEF InsertRunConflict, Done, Goto, Begin, durable, history
  <2>6. CASE Call(b, "append", NoParent)
    BY <2>6 DEF Call, Goto, Begin, durable, history
  <2>7. CASE \E parent \in 0..MaxCalls : Call(b, "checkpoint", parent)
    BY <2>7 DEF Call, Goto, Begin, durable, history
  <2>8. CASE AcquireLock(b)
    BY <2>8 DEF AcquireLock, Goto, durable, history
  <2>9. CASE RunLocked(b)
    BY <2>9 DEF RunLocked, Done, Goto, Begin, durable, history
  <2>10. CASE LoadWriter(b)
    BY <2>10 DEF LoadWriter, Load, Goto, Begin, durable, history
  <2>11. CASE RollForward(b)
    <3>1. op[b].loaded.events = events
      BY <2>11 DEF RollForward
    <3> DEFINE es == {e \in Lines(op[b].loaded.events) : e.seq > op[b].indexed}
    <3>2. es \subseteq Lines(events)
      BY <3>1
    <3>3. index'.events = index.events \cup es
      BY <2>11 DEF RollForward, InsertRows
    <3> HIDE DEF es
    <3> QED
      BY <3>2, <3>3, <2>11 DEF RollForward, Goto, Begin, durable, history
  <2>12. CASE AppendLine(b)
    <3>1. Lines(events') = Lines(events) \cup {Sealed(b)}
      BY <2>12, LineWritten DEF AppendLine
    <3>2. Sealed(b) \in Events
      BY <2>12, SealedExtends DEF AppendLine
    <3>3. /\ op'[b].event = Sealed(b)
          /\ \A c \in Backends \ {b} : op'[c] = op[c] /\ pc'[c] = pc[c]
      BY <2>12, LineAppended
    <3> QED
      BY <3>1, <3>2, <3>3, <2>12 DEF AppendLine, history
  <2>13. CASE IndexRows(b)
    <3>1. index'.events = index.events \cup {op[b].event}
      BY <2>13 DEF IndexRows, InsertRows
    <3> QED
      BY <3>1, <2>13 DEF IndexRows, Done, Goto, Begin, durable
  <2>14. CASE CommitTree(b)
    BY <2>14 DEF CommitTree, Goto, Begin, durable, history
  <2>15. CASE RejectCheckpoint(b)
    BY <2>15 DEF RejectCheckpoint, DropWriter, Done, Goto, Begin, durable, history
  <2>16. CASE PutState(b)
    BY <2>16 DEF PutState, Goto, durable, history
  <2>17. CASE UpdateRef(b)
    BY <2>17 DEF UpdateRef, Goto, durable, history
  <2>18. CASE AppendFails(b)
    <3>1. Lines(events) \subseteq Lines(events')
      <4>1. CASE UNCHANGED events
        BY <4>1
      <4>2. CASE WriteLine(Sealed(b))
        BY <2>18, <4>2, LineWritten DEF AppendFails
      <4> QED
        BY <2>18, <4>1, <4>2 DEF AppendFails
    <3>2. /\ pc'[b] = "idle"
          /\ \A c \in Backends \ {b} : op'[c] = op[c] /\ pc'[c] = pc[c]
      BY <2>18 DEF AppendFails, DropWriter, Done, Goto, Begin
    <3> QED
      BY <3>1, <3>2, <2>18 DEF AppendFails, history
  <2>19. CASE Drop(b)
    BY <2>19 DEF Drop, DropWriter, Done, Goto, Begin, durable, history
  <2>20. CASE CreateRunFails(b)
    BY <2>20 DEF CreateRunFails, Done, Goto, Begin, durable, history
  <2>21. CASE Reindex(b)
    BY <2>21 DEF Reindex, Goto, Begin, durable, history
  <2>22. CASE LoadReindex(b)
    BY <2>22 DEF LoadReindex, Load, Goto, Begin, durable, history
  <2>23. CASE Rebuild(b)
    <3>1. index'.events \subseteq Lines(events)
      <4>1. CASE op[b].loaded # NotLoaded
        BY <4>1, <2>23 DEF Rebuild
      <4>2. CASE op[b].loaded = NotLoaded
        BY <4>2, <2>23 DEF Rebuild, EmptyIndex
      <4> QED
        BY <4>1, <4>2
    <3>2. /\ pc'[b] = "idle"
          /\ \A c \in Backends \ {b} : op'[c] = op[c] /\ pc'[c] = pc[c]
      BY <2>23 DEF Rebuild, Done, Goto, Begin
    <3> QED
      BY <3>1, <3>2, <2>23 DEF Rebuild, durable
  <2>24. CASE ReindexFails(b)
    BY <2>24 DEF ReindexFails, ReleaseTaken, Done, Goto, Begin, durable, history
  <2> QED
    BY <2>1, <2>2, <2>3, <2>4, <2>5, <2>6, <2>7, <2>8, <2>9, <2>10, <2>11, <2>12, <2>13, <2>14, <2>15, <2>16, <2>17, <2>18, <2>19, <2>20, <2>21, <2>22, <2>23, <2>24 DEF Progress, Environment
<1>2. CASE UNCHANGED vars
  BY <1>2 DEF vars, durable, history
<1> QED
  BY <1>1, <1>2

\* Every step keeps the types.
LEMMA TypeStep ==
  ASSUME TypeOK, InCall, Numbered, Locked, Synced, LedgerChain, Stored, [Next]_vars
  PROVE  TypeOK'
<1> USE RunStoreAssumption DEF TypeOK, Locations
<1>1. CASE Next
  <2>1. PICK b \in Backends : Progress(b) \/ Environment(b)
    BY <1>1 DEF Next
  <2>2. CASE CreateRun(b)
    <3>1. [NoOp EXCEPT !.kind = "createRun"] \in Ops
      BY NoOpType DEF Ops, Kinds
    <3> QED
      BY <3>1, <2>2 DEF CreateRun, Goto, Begin, durable, history
  <2>3. CASE WriteRunFile(b)
    BY <2>3, NoOpType DEF WriteRunFile, Goto, durable, history
  <2>4. CASE InsertRun(b)
    BY <2>4, NoOpType DEF InsertRun, Done, Goto, Begin, durable, history
  <2>5. CASE InsertRunConflict(b)
    BY <2>5, NoOpType DEF InsertRunConflict, Done, Goto, Begin, durable, history
  <2>6. CASE Call(b, "append", NoParent)
    <3>1. calls + 1 \in 0..MaxCalls
      BY <2>6 DEF Call
    <3>2. [NoOp EXCEPT !.kind = "append", !.id = calls + 1, !.parent = NoParent] \in Ops
      BY <3>1, NoOpType, OpsUpdates DEF Kinds, NoParent
    <3>3. op' \in [Backends -> Ops]
      BY <3>2, <2>6 DEF Call, Begin
    <3>4. pc' \in [Backends -> Locations]
      BY <2>6 DEF Call, Goto
    <3> QED
      BY <3>1, <3>3, <3>4, <2>6 DEF Call, durable
  <2>7. CASE \E parent \in 0..MaxCalls : Call(b, "checkpoint", parent)
    <3>1. PICK parent \in 0..MaxCalls : Call(b, "checkpoint", parent)
      BY <2>7
    <3>2. calls + 1 \in 0..MaxCalls /\ parent \in Nat
      BY <3>1 DEF Call
    <3>3. [NoOp EXCEPT !.kind = "checkpoint", !.id = calls + 1, !.parent = parent] \in Ops
      <4>1. "checkpoint" \in Kinds
        BY DEF Kinds
      <4> QED
        BY <3>2, <4>1, NoOpType, OpsUpdates
    <3>4. op' \in [Backends -> Ops]
      BY <3>1, <3>3 DEF Call, Begin
    <3>5. pc' \in [Backends -> Locations]
      BY <3>1 DEF Call, Goto
    <3> QED
      BY <3>1, <3>2, <3>4, <3>5 DEF Call, durable
  <2>8. CASE AcquireLock(b)
    BY <2>8, NoOpType DEF AcquireLock, Goto, durable, history
  <2>9. CASE RunLocked(b)
    BY <2>9, NoOpType DEF RunLocked, Done, Goto, Begin, durable, history
  <2>10. CASE LoadWriter(b)
    <3>1. LoadDurableRun(events) \in Loads /\ MaxEventSeq \in Nat
      BY LoadType, MaxEventSeqType DEF Stored
    <3>2. [op[b] EXCEPT !.loaded = LoadDurableRun(events), !.indexed = MaxEventSeq] \in Ops
      BY <3>1, OpsUpdates
    <3>3. op' \in [Backends -> Ops]
      BY <3>2, <2>10 DEF LoadWriter, Begin
    <3> QED
      BY <3>3, <2>10 DEF LoadWriter, Load, Goto, history
  <2>11. CASE RollForward(b)
    <3>1. op[b].loaded \in Loads /\ op[b].loaded.next <= Len(op[b].loaded.events) + 1
      BY <2>11 DEF RollForward, Locked, Numbered, Ops
    <3>2. writer' \in [Backends -> Writers \cup {NoWriter}]
      BY <3>1, WriterOfType, <2>11 DEF RollForward
    <3>3. Lines(op[b].loaded.events) \subseteq Events \cup {Garbage}
      BY <3>1, LinesType DEF Loads
    <3>4. index' \in [run : BOOLEAN, events : SUBSET (Events \cup {Garbage}),
                     checkpoints : SUBSET Checkpoints]
      BY <3>1, <3>3, <2>11 DEF RollForward, InsertRows, Loads
    <3>5. [op[b] EXCEPT !.loaded = NotLoaded, !.indexed = 0] \in Ops
      BY OpsUpdates
    <3>6. op' \in [Backends -> Ops]
      BY <3>5, <2>11 DEF RollForward, Begin
    <3> QED
      BY <3>2, <3>4, <3>6, <2>11 DEF RollForward, Goto, durable, history
  <2>12. CASE AppendLine(b)
    <3>1. /\ events' \in Seq(Events \cup {Garbage})
          /\ torn' \in BOOLEAN
      BY <2>12, LineWritten DEF AppendLine
    <3>2. writer'[b] \in Writers
      BY <2>12, LineAppended
    <3>3. writer' \in [Backends -> Writers \cup {NoWriter}]
      BY <3>2, <2>12 DEF AppendLine
    <3>4. Sealed(b) \in Events
      BY <2>12, SealedExtends DEF AppendLine
    <3>5. [op[b] EXCEPT !.event = Sealed(b)] \in Ops
      BY <3>4, OpsUpdates
    <3>6. op' \in [Backends -> Ops]
      BY <3>5, <2>12 DEF AppendLine, Begin
    <3> QED
      BY <3>1, <3>3, <3>6, <2>12 DEF AppendLine, Goto, history
  <2>13. CASE IndexRows(b)
    <3>1. op[b].event \in Events
      BY <2>13 DEF IndexRows, Stored
    <3>2. {op[b].checkpoint} \ {NoCheckpoint} \subseteq Checkpoints
      BY DEF Ops
    <3>3. index' \in [run : BOOLEAN, events : SUBSET (Events \cup {Garbage}),
                     checkpoints : SUBSET Checkpoints]
      BY <3>1, <3>2, <2>13 DEF IndexRows, InsertRows
    <3>4. acked' \in SUBSET Events
      BY <3>1, <2>13 DEF IndexRows
    <3> QED
      BY <3>3, <3>4, <2>13, NoOpType DEF IndexRows, Done, Goto, Begin, durable
  <2>14. CASE CommitTree(b)
    <3>1. writer[b] \in Writers /\ op[b].id \in Ids
      BY <2>14 DEF CommitTree, Locked, InCall, WithWriter
    <3> DEFINE c == [n |-> writer[b].next, parent |-> op[b].parent,
                     commit |-> op[b].id, seq |-> writer[b].seq + 1]
    <3>2. c \in Checkpoints
      BY <3>1 DEF Checkpoints, Writers, Ops
    <3>3. op' = [op EXCEPT ![b] = [op[b] EXCEPT !.checkpoint = c]]
      BY <2>14 DEF CommitTree, Begin
    <3> HIDE DEF c
    <3>4. op' \in [Backends -> Ops]
      BY <3>2, <3>3, OpsUpdates
    <3> QED
      BY <3>4, <2>14 DEF CommitTree, Goto, durable, history
  <2>15. CASE RejectCheckpoint(b)
    BY <2>15, NoOpType DEF RejectCheckpoint, DropWriter, Done, Goto, Begin, durable, history
  <2>16. CASE PutState(b)
    <3>1. op[b].checkpoint \in Checkpoints
      BY <2>16 DEF PutState, InCall
    <3>2. blobs' \in SUBSET States
      BY <3>1, <2>16 DEF PutState, State, States, Checkpoints
    <3> QED
      BY <3>2, <2>16 DEF PutState, Goto, history
  <2>17. CASE UpdateRef(b)
    <3>1. op[b].checkpoint \in Checkpoints
      BY <2>17 DEF UpdateRef, InCall
    <3>2. refs' \in SUBSET Refs
      BY <3>1, <2>17 DEF UpdateRef, Ref, Refs, Checkpoints
    <3> QED
      BY <3>2, <2>17 DEF UpdateRef, Goto, history
  <2>18. CASE AppendFails(b)
    <3>1. /\ events' \in Seq(Events \cup {Garbage})
          /\ torn' \in BOOLEAN
      <4>1. CASE torn' = TRUE /\ UNCHANGED events
        BY <4>1
      <4>2. CASE WriteLine(Sealed(b))
        BY <2>18, <4>2, LineWritten DEF AppendFails
      <4> QED
        BY <2>18, <4>1, <4>2 DEF AppendFails
    <3> QED
      BY <3>1, <2>18, NoOpType DEF AppendFails, DropWriter, Done, Goto, Begin, history
  <2>19. CASE Drop(b)
    BY <2>19, NoOpType DEF Drop, DropWriter, Done, Goto, Begin, durable, history
  <2>20. CASE CreateRunFails(b)
    BY <2>20, NoOpType DEF CreateRunFails, Done, Goto, Begin, durable, history
  <2>21. CASE Reindex(b)
    <3>1. [NoOp EXCEPT !.kind = "reindex"] \in Ops
      BY NoOpType DEF Ops, Kinds
    <3>2. op' \in [Backends -> Ops]
      BY <3>1, <2>21 DEF Reindex, Begin
    <3>3. pc' \in [Backends -> Locations]
      BY <2>21 DEF Reindex, Goto
    <3> QED
      BY <3>2, <3>3, <2>21 DEF Reindex, durable, history
  <2>22. CASE LoadReindex(b)
    <3>1. LoadDurableRun(events) \in Loads
      BY LoadType
    <3>2. [op[b] EXCEPT !.loaded = LoadDurableRun(events)] \in Ops
      BY <3>1, OpsUpdates
    <3>3. op' \in [Backends -> Ops]
      BY <3>2, <2>22 DEF LoadReindex, Begin
    <3> QED
      BY <3>3, <2>22 DEF LoadReindex, Load, Goto, history
  <2>23. CASE Rebuild(b)
    <3>1. CASE op[b].loaded # NotLoaded
      <4>1. op[b].loaded \in Loads /\ op[b].loaded.next <= Len(op[b].loaded.events) + 1
        BY <3>1 DEF Numbered, Ops
      <4>2. WriterOf(op[b].loaded) \in Writers
        BY <4>1, WriterOfType
      <4>3. Lines(op[b].loaded.events) \subseteq Events \cup {Garbage}
        BY <4>1, LinesType DEF Loads
      <4>4. index' \in [run : BOOLEAN, events : SUBSET (Events \cup {Garbage}),
                       checkpoints : SUBSET Checkpoints]
        BY <3>1, <4>1, <4>3, <2>23 DEF Rebuild, Loads
      <4>5. writer' \in [Backends -> Writers \cup {NoWriter}]
        BY <4>2, <2>23 DEF Rebuild
      <4> QED
        BY <4>4, <4>5, <2>23, NoOpType DEF Rebuild, ReleaseTaken, Done, Goto, Begin, durable
    <3>2. CASE op[b].loaded = NotLoaded
      <4>1. index' = EmptyIndex /\ writer' = writer
        BY <3>2, <2>23 DEF Rebuild
      <4> QED
        BY <4>1, <2>23, NoOpType DEF Rebuild, EmptyIndex, ReleaseTaken, Done, Goto, Begin, durable
    <3> QED
      BY <3>1, <3>2
  <2>24. CASE ReindexFails(b)
    BY <2>24, NoOpType DEF ReindexFails, ReleaseTaken, Done, Goto, Begin, durable, history
  <2> QED
    BY <2>1, <2>2, <2>3, <2>4, <2>5, <2>6, <2>7, <2>8, <2>9, <2>10, <2>11, <2>12, <2>13, <2>14, <2>15, <2>16, <2>17, <2>18, <2>19, <2>20, <2>21, <2>22, <2>23, <2>24 DEF Progress, Environment
<1>2. CASE UNCHANGED vars
  BY <1>2 DEF vars, durable, history
<1> QED
  BY <1>1, <1>2

-----------------------------------------------------------------------------
(* The theorems.                                                             *)

\* The invariant holds at first.
LEMMA StoreInvInit == Init => StoreInv
<1> SUFFICES ASSUME Init PROVE StoreInv
  OBVIOUS
<1> USE RunStoreAssumption DEF Init
<1>1. events = <<>> /\ DOMAIN events = {} /\ Lines(events) = {}
  BY DEF Lines
<1>2. TypeOK
  <2>1. op \in [Backends -> Ops] /\ writer \in [Backends -> Writers \cup {NoWriter}]
    BY NoOpType
  <2>2. index \in [run : BOOLEAN, events : SUBSET (Events \cup {Garbage}),
                  checkpoints : SUBSET Checkpoints]
    BY DEF EmptyIndex
  <2>3. pc \in [Backends -> Locations]
    BY DEF Locations
  <2>4. events \in Seq(Events \cup {Garbage})
    BY <1>1
  <2>5. calls \in 0..MaxCalls
    OBVIOUS
  <2> QED
    BY <2>1, <2>2, <2>3, <2>4, <2>5 DEF TypeOK
<1>3. InCall
  BY DEF InCall, NoOp, Writing, WithWriter
<1>4. Numbered
  BY <1>1 DEF Numbered, NoOp, NoCheckpoint, NotLoaded, NoWriter
<1>5. Locked /\ Synced
  BY DEF Locked, Synced, NoOp, WithWriter
<1>6. LedgerChain
  BY <1>1 DEF LedgerChain, VerifyChain
<1>7. Stored
  BY <1>1 DEF Stored, AckedDurable, EmptyIndex
<1> QED
  BY <1>2, <1>3, <1>4, <1>5, <1>6, <1>7 DEF StoreInv

\* Every step keeps the invariant.
LEMMA StoreInvStep == StoreInv /\ [Next]_vars => StoreInv'
<1> SUFFICES ASSUME StoreInv, [Next]_vars PROVE StoreInv'
  OBVIOUS
<1>1. TypeOK /\ InCall /\ Numbered /\ Locked /\ Synced /\ LedgerChain /\ Stored
  BY DEF StoreInv
<1>2. TypeOK'
  BY <1>1, TypeStep
<1>3. InCall' /\ Numbered' /\ Locked'
  BY <1>1, InCallStep, NumberedStep, LockedStep
<1>4. Synced' /\ LedgerChain' /\ Stored'
  BY <1>1, SyncedStep, ChainStep, StoredStep
<1> QED
  BY <1>2, <1>3, <1>4 DEF StoreInv

\* The inductive invariant holds of every reachable state.
THEOREM StoreInvariant == Spec => []StoreInv
BY StoreInvInit, StoreInvStep, PTL DEF Spec

\* The types of the store's state, for any number of backends and calls.
THEOREM StoreTypes == Spec => []TypeOK
<1>1. StoreInv => TypeOK
  BY DEF StoreInv
<1> QED
  BY <1>1, StoreInvariant, PTL

\* The ledger is an unbroken chain at every moment: what verifyChain accepts
\* whenever a backend takes the lock, whatever failed or died before.
THEOREM LedgerIntact == Spec => []LedgerChain
<1>1. StoreInv => LedgerChain
  BY DEF StoreInv
<1> QED
  BY <1>1, StoreInvariant, PTL

\* Every event that was acknowledged, or that readers see, is in the ledger, in
\* every state after it as well.
THEOREM AckedStay == Spec => []AckedDurable
<1>1. StoreInv => AckedDurable
  BY DEF StoreInv, Stored
<1> QED
  BY <1>1, StoreInvariant, PTL

-----------------------------------------------------------------------------
(* The inductive invariant, beyond StoreInv.                                 *)

\* There is nothing in the index, nor a write, before the run is announced.
Announced ==
  /\ index.events # {} \/ index.checkpoints # {} => announced
  /\ \A b \in Backends : op[b].kind \in Writing \/ writer[b] # NoWriter => announced

\* The parent of a checkpoint is recorded, and older.
ParentRecorded(c) ==
  c.parent # NoParent => \E d \in Recorded(events) : d.n = c.parent /\ d.seq < c.seq

\* What the ledger records can be restored, has its number for itself and an
\* older parent.
Registered ==
  /\ Recorded(events) \subseteq Restorable(events)
  /\ \A c, d \in Recorded(events) : c.n = d.n => c = d
  /\ \A c \in Recorded(events) : ParentRecorded(c)

\* A checkpoint that is not recorded yet takes the writer's next number and
\* position, and leaves its state and its ref behind before its line.
Drafts ==
  \A b \in Backends :
    LET c == op[b].checkpoint IN
    /\ pc[b] \notin {"blob", "ref", "append", "index"} => c = NoCheckpoint
    /\ pc[b] \in {"blob", "ref", "append"} =>
         /\ op[b].kind = "checkpoint"
         /\ c.n = writer[b].next /\ c.seq = writer[b].seq + 1
         /\ ParentRecorded(c)
    /\ pc[b] \in {"ref", "append"} => State(c) \in blobs
    /\ pc[b] = "append" => Ref(c) \in refs
    /\ pc[b] = "index" =>
         /\ Len(events) # 0
         /\ op[b].event = events[Len(events)]
         /\ op[b].event.checkpoint = c
         /\ c # NoCheckpoint => c.seq = Len(events)

\* A cached writer counts on from the recorded numbers, and what was loaded is
\* still what is on disk.
Fresh ==
  \A b \in Backends :
    /\ writer[b] # NoWriter => writer[b].next = NextNumber(events)
    /\ op[b].loaded # NotLoaded => op[b].loaded = LoadDurableRun(events)

\* The index holds the first k events and their checkpoints.
Shows(k) ==
  /\ index.events = {events[i] : i \in 1..k}
  /\ index.checkpoints = {c \in Recorded(events) : c.seq <= k}

\* How far the index goes when b has the writer.
Position(b) == IF pc[b] = "index" THEN Len(events) - 1 ELSE Len(events)

\* The index shows a prefix of the ledger, to a backend that is to roll it
\* forward one that it has measured, and to one that has its writer all of it.
Shown ==
  /\ index.checkpoints \subseteq Recorded(events)
  /\ ~overlooked =>
       /\ \E k \in 0..Len(events) : Shows(k)
       /\ \A b \in Backends :
            /\ pc[b] = "roll" => op[b].indexed \in 0..Len(events) /\ Shows(op[b].indexed)
            /\ writer[b] # NoWriter => index.run /\ Shows(Position(b))

ViewInv == StoreInv /\ Announced /\ Registered /\ Drafts /\ Fresh /\ Shown

-----------------------------------------------------------------------------
(* The steps of a backend.                                                   *)

\* A step of b changes no other backend.
Apart(b) ==
  \A c \in Backends \ {b} : pc'[c] = pc[c] /\ op'[c] = op[c] /\ writer'[c] = writer[c]

\* A step that only begins or ends a mutation, or is of createRun.
Aside(b) ==
  /\ UNCHANGED <<events, refs, blobs, acked, overlooked>>
  /\ index'.events = index.events /\ index'.checkpoints = index.checkpoints
  /\ index.run => index'.run
  /\ announced => announced'
  /\ writer'[b] = NoWriter \/ (writer'[b] = writer[b] /\ pc[b] # "index")
  /\ pc'[b] \notin {"roll", "blob", "ref", "append", "index"}
  /\ op'[b].checkpoint = NoCheckpoint
  /\ op'[b].loaded \in {NotLoaded, op[b].loaded}
  /\ op'[b].kind \in Writing => announced'

\* The ledger line is written whole, by an append that fails.
LineOfFailedAppend(b) ==
  /\ Appending(b)
  /\ WriteLine(Sealed(b))
  /\ DropWriter(b)
  /\ UNCHANGED <<runDir, refs, blobs, index, history>>

\* The steps that the lemmas below take one by one.
LEMMA StepCases ==
  ASSUME TypeOK, InCall, Announced, Drafts, NEW b \in Backends, Progress(b) \/ Environment(b)
  PROVE  \/ Aside(b)
         \/ LoadWriter(b) \/ LoadReindex(b) \/ RollForward(b) \/ Rebuild(b)
         \/ CommitTree(b) \/ PutState(b) \/ UpdateRef(b)
         \/ AppendLine(b) \/ IndexRows(b) \/ LineOfFailedAppend(b)
<1> USE DEF TypeOK, NoOp, Aside
<1>1. CASE CreateRun(b)
  BY <1>1 DEF CreateRun, Goto, Begin, history, Writing
<1>2. CASE WriteRunFile(b)
  BY <1>2 DEF WriteRunFile, Goto, history, Drafts, Announced
<1>3. CASE InsertRun(b) \/ InsertRunConflict(b)
  BY <1>3 DEF InsertRun, InsertRunConflict, Done, Goto, Begin, durable, history, Writing
<1>4. CASE \E kind \in Writing, parent \in Nat : Call(b, kind, parent)
  BY <1>4 DEF Call, Goto, Begin, durable
<1>5. CASE AcquireLock(b)
  BY <1>5 DEF AcquireLock, Goto, durable, history, Drafts, Announced
<1>6. CASE RunLocked(b)
  BY <1>6 DEF RunLocked, Done, Goto, Begin, durable, history, Writing
<1>7. CASE RejectCheckpoint(b) \/ Drop(b)
  BY <1>7 DEF RejectCheckpoint, Drop, DropWriter, Done, Goto, Begin, durable, history, Writing
<1>8. CASE AppendFails(b)
  <2>1. CASE UNCHANGED events
    BY <1>8, <2>1 DEF AppendFails, DropWriter, Done, Goto, Begin, history, Writing
  <2>2. CASE WriteLine(Sealed(b))
    BY <1>8, <2>2 DEF AppendFails, LineOfFailedAppend
  <2> QED
    BY <1>8, <2>1, <2>2 DEF AppendFails
<1>9. CASE CreateRunFails(b)
  BY <1>9 DEF CreateRunFails, Done, Goto, Begin, durable, history, Writing, InCall, WithWriter
<1>10. CASE Reindex(b)
  BY <1>10 DEF Reindex, Goto, Begin, durable, history, Writing
<1>11. CASE ReindexFails(b)
  BY <1>11 DEF ReindexFails, Done, Goto, Begin, durable, history, Writing, InCall, WithWriter
<1>12. (Call(b, "append", NoParent) \/ \E parent \in 0..MaxCalls : Call(b, "checkpoint", parent))
       => \E kind \in Writing, parent \in Nat : Call(b, kind, parent)
  BY DEF Writing, NoParent
<1> QED
  BY <1>1, <1>2, <1>3, <1>4, <1>5, <1>6, <1>7, <1>8, <1>9, <1>10, <1>11, <1>12
     DEF Progress, Environment

\* The steps of b are its own.
LEMMA StepApart ==
  ASSUME TypeOK, NEW b \in Backends, Progress(b) \/ Environment(b)
  PROVE  Apart(b)
<1> USE DEF TypeOK, Apart
<1>1. CASE Environment(b)
  BY <1>1 DEF Environment, CreateRun, Call, Reindex, AppendFails, Drop, CreateRunFails, ReindexFails,
              DropWriter, Done, Goto, Begin
<1>2. CASE LoadWriter(b) \/ LoadReindex(b)
  BY <1>2 DEF LoadWriter, LoadReindex, Load, Goto, Begin
<1>3. CASE RollForward(b) \/ Rebuild(b)
  BY <1>3 DEF RollForward, Rebuild, Done, Goto, Begin
<1>4. CASE AppendLine(b) \/ IndexRows(b) \/ CommitTree(b) \/ PutState(b) \/ UpdateRef(b)
  BY <1>4 DEF AppendLine, IndexRows, CommitTree, PutState, UpdateRef, Done, Goto, Begin
<1>5. CASE \/ WriteRunFile(b) \/ InsertRun(b) \/ InsertRunConflict(b)
           \/ AcquireLock(b) \/ RunLocked(b) \/ RejectCheckpoint(b)
  BY <1>5 DEF WriteRunFile, InsertRun, InsertRunConflict, AcquireLock, RunLocked, RejectCheckpoint,
              DropWriter, Done, Goto, Begin
<1> QED
  BY <1>1, <1>2, <1>3, <1>4, <1>5 DEF Progress

\* Whoever holds the lock is alone with the ledger.
LEMMA Alone ==
  ASSUME Locked, NEW b \in Backends, lock = b
  PROVE  \A c \in Backends \ {b} :
           /\ writer[c] = NoWriter
           /\ op[c].loaded = NotLoaded
           /\ pc[c] \notin WithWriter \cup {"roll"}
BY DEF Locked, WithWriter

-----------------------------------------------------------------------------
(* Facts about what the ledger records.                                      *)

\* The recorded checkpoints are numbered below the next number.
LEMMA NumbersBelow ==
  ASSUME TypeOK, Numbered, LedgerChain
  PROVE  /\ Recorded(events) \subseteq Checkpoints
         /\ NextNumber(events) \in Nat \ {0}
         /\ \A c \in Recorded(events) : c.n < NextNumber(events) /\ c.seq \in 1..Len(events)
<1>1. Recorded(events) \subseteq Checkpoints
  BY DEF TypeOK, Recorded, Lines, Events, Garbage, NoEvent
<1>2. \A c \in Recorded(events) : c.n \in 0..Len(events) /\ c.seq \in 1..Len(events)
  <2> TAKE c \in Recorded(events)
  <2>1. PICK i \in DOMAIN events : c = events[i].checkpoint /\ c.seq = events[i].seq
    BY DEF Recorded, Lines
  <2>2. c.n <= c.seq /\ c.seq = i
    BY <2>1 DEF Numbered, LedgerChain, VerifyChain
  <2> QED
    BY <2>1, <2>2, <1>1 DEF TypeOK, Checkpoints
<1> DEFINE S == {0} \cup {c.n : c \in Recorded(events)}
<1>3. Len(events) \in Nat /\ S \in SUBSET (0..Len(events)) /\ S # {}
  BY <1>2 DEF TypeOK
<1>4. NextNumber(events) = 1 + Max(S)
  BY DEF NextNumber
<1>5. \A c \in Recorded(events) : c.n \in S
  OBVIOUS
<1> HIDE DEF S
<1>6. Max(S) \in Nat /\ \A x \in S : x <= Max(S)
  BY <1>3, MaxBounded
<1>7. \A c \in Recorded(events) : c.n <= Max(S) /\ c.n \in Nat
  BY <1>1, <1>5, <1>6 DEF Checkpoints
<1> QED
  BY <1>1, <1>2, <1>4, <1>6, <1>7

\* The numbers of two ledgers with the same checkpoints go on alike, and a
\* checkpoint with the next number moves it on by one.
LEMMA NumberTaken ==
  ASSUME TypeOK, Numbered, LedgerChain, NEW log, NEW c \in Checkpoints,
         Recorded(log) = Recorded(events) \cup {c}, c.n = NextNumber(events)
  PROVE  NextNumber(log) = NextNumber(events) + 1
<1> DEFINE S == {0} \cup {d.n : d \in Recorded(log)}
           k == NextNumber(events)
<1>1. k \in Nat \ {0} /\ \A d \in Recorded(events) : d.n \in Nat /\ d.n < k
  BY NumbersBelow DEF Checkpoints
<1>2. S \in SUBSET (0..k) /\ S # {} /\ k \in S
  BY <1>1
<1>3. NextNumber(log) = 1 + Max(S)
  BY DEF NextNumber
<1> HIDE DEF S, k
<1>4. Max(S) \in S /\ Max(S) \in 0..k /\ k <= Max(S)
  BY <1>1, <1>2, MaxBounded
<1> QED
  BY <1>1, <1>3, <1>4 DEF k

\* A line that is written records the draft of its backend, if it has one.
LEMMA DraftRecorded ==
  ASSUME StoreInv, Drafts, NEW b \in Backends, Appending(b), WriteLine(Sealed(b))
  PROVE  Recorded(events') = Recorded(events) \cup ({op[b].checkpoint} \ {NoCheckpoint})
<1>1. /\ Lines(events') = Lines(events) \cup {Sealed(b)}
      /\ Sealed(b).checkpoint = op[b].checkpoint
      /\ Sealed(b).seq = writer[b].seq + 1
  BY LineWritten, SealedExtends DEF StoreInv, Sealed
<1>2. op[b].checkpoint # NoCheckpoint => op[b].checkpoint.seq = writer[b].seq + 1
  BY DEF Drafts, Appending
<1> QED
  BY <1>1, <1>2 DEF Recorded

\* The next number after a line is the one that the writer keeps.
LEMMA NumberKept ==
  ASSUME StoreInv, Drafts, Fresh, NEW b \in Backends, Appending(b), WriteLine(Sealed(b))
  PROVE  NextNumber(events') = IF op[b].kind = "checkpoint" THEN writer[b].next + 1 ELSE writer[b].next
<1>1. writer[b] # NoWriter /\ writer[b].next = NextNumber(events)
  BY DEF Appending, WithWriter, StoreInv, Locked, Fresh
<1>2. CASE op[b].kind = "checkpoint"
  <2>1. pc[b] = "append"
    BY <1>2 DEF Appending
  <2>2. op[b].checkpoint.n = writer[b].next
    BY <2>1 DEF Drafts
  <2>3. op[b].checkpoint \in Checkpoints
    <3>1. writer[b] \in Writers /\ op[b].checkpoint \in Checkpoints \cup {NoCheckpoint}
      BY <1>1 DEF StoreInv, TypeOK, Ops
    <3> QED
      BY <2>2, <3>1 DEF Writers, NoCheckpoint
  <2>4. op[b].checkpoint # NoCheckpoint
    BY <2>3 DEF Checkpoints, NoCheckpoint
  <2>5. Recorded(events') = Recorded(events) \cup {op[b].checkpoint}
    BY <2>4, DraftRecorded
  <2> QED
    BY <1>1, <1>2, <2>2, <2>3, <2>5, NumberTaken DEF StoreInv
<1>3. CASE op[b].kind # "checkpoint"
  <2>1. op[b].checkpoint = NoCheckpoint
    BY <1>3 DEF Drafts, Appending
  <2>2. Recorded(events') = Recorded(events)
    BY <2>1, DraftRecorded
  <2> QED
    BY <1>1, <1>3, <2>2 DEF NextNumber
<1> QED
  BY <1>2, <1>3

-----------------------------------------------------------------------------
(* Each part of the invariant is preserved.                                  *)

\* The run stays announced.
LEMMA AnnouncedStep ==
  ASSUME ViewInv, NEW b \in Backends, Progress(b) \/ Environment(b)
  PROVE  Announced'
<1>1. Apart(b)
  BY StepApart DEF ViewInv, StoreInv
<1>2. ASSUME announced' PROVE Announced'
  BY <1>2 DEF Announced
<1>3. CASE RollForward(b)
  <2>1. announced'
    BY <1>3 DEF RollForward, ViewInv, StoreInv, InCall, Announced, history
  <2> QED
    BY <1>2, <2>1
<1>4. CASE AppendLine(b) \/ LineOfFailedAppend(b)
  <2>1. announced'
    BY <1>4 DEF AppendLine, LineOfFailedAppend, Appending, ViewInv, StoreInv, Locked, WithWriter,
                Announced, history
  <2> QED
    BY <1>2, <2>1
<1>5. CASE IndexRows(b)
  <2>1. announced'
    BY <1>5 DEF IndexRows, ViewInv, StoreInv, InCall, WithWriter, Announced
  <2> QED
    BY <1>2, <2>1
<1> USE DEF ViewInv, StoreInv, TypeOK, Announced
<1>6. CASE Aside(b)
  BY <1>1, <1>6 DEF Apart, Aside
<1>7. CASE LoadWriter(b) \/ LoadReindex(b)
  <2>1. op'[b].kind = op[b].kind
    <3>1. CASE LoadWriter(b)
      <4>1. op' = [op EXCEPT ![b] = [op[b] EXCEPT !.loaded = LoadDurableRun(events), !.indexed = MaxEventSeq]]
        BY <3>1, Zenon DEF LoadWriter, Begin
      <4> HIDE DEF ViewInv, StoreInv, Announced
      <4> QED
        BY <4>1 DEF Ops
    <3>2. CASE LoadReindex(b)
      <4>1. op' = [op EXCEPT ![b] = [op[b] EXCEPT !.loaded = LoadDurableRun(events)]]
        BY <3>2, Zenon DEF LoadReindex, Begin
      <4> HIDE DEF ViewInv, StoreInv, Announced
      <4> QED
        BY <4>1 DEF Ops
    <3> QED
      BY <1>7, <3>1, <3>2
  <2>2. UNCHANGED <<index, announced, writer>>
    BY <1>7 DEF LoadWriter, LoadReindex, Load, history
  <2> QED
    BY <1>1, <2>1, <2>2 DEF Apart
<1>8. CASE Rebuild(b)
  BY <1>1, <1>8 DEF Apart, Rebuild, EmptyIndex, Done, Goto, Begin, NoOp, Writing
<1>9. CASE CommitTree(b) \/ PutState(b) \/ UpdateRef(b)
  BY <1>1, <1>9 DEF Apart, CommitTree, PutState, UpdateRef, Begin, history, Ops
<1> QED
  BY <1>3, <1>4, <1>5, <1>6, <1>7, <1>8, <1>9, StepCases

\* What is recorded stays restorable, and a new record is.
LEMMA RegisteredStep ==
  ASSUME ViewInv, NEW b \in Backends, Progress(b) \/ Environment(b)
  PROVE  Registered'
<1> USE DEF ViewInv, Registered
<1>1. CASE UNCHANGED events /\ refs \subseteq refs' /\ blobs \subseteq blobs'
  BY <1>1 DEF Recorded, Restorable, ParentRecorded
<1>2. CASE UpdateRef(b)
  <2> DEFINE c == op[b].checkpoint
  <2>1. writer[b] # NoWriter /\ c.n = writer[b].next
    BY <1>2 DEF UpdateRef, Drafts, StoreInv, Locked, WithWriter
  <2>2. c.n = NextNumber(events)
    BY <2>1 DEF Fresh
  <2>3. \A d \in Recorded(events) : d.n # c.n
    BY <2>2, NumbersBelow DEF StoreInv, Checkpoints
  <2>4. \A d \in Recorded(events) : Ref(d) \in refs'
    BY <1>2, <2>3 DEF UpdateRef, Restorable, Ref
  <2>5. UNCHANGED <<events, blobs>>
    BY <1>2 DEF UpdateRef
  <2> QED
    BY <2>4, <2>5 DEF Recorded, Restorable, ParentRecorded
<1>3. CASE AppendLine(b) \/ LineOfFailedAppend(b)
  <2> DEFINE c == op[b].checkpoint
  <2>1. Appending(b) /\ WriteLine(Sealed(b)) /\ UNCHANGED <<refs, blobs>>
    BY <1>3 DEF AppendLine, LineOfFailedAppend
  <2>2. Recorded(events') = Recorded(events) \cup ({c} \ {NoCheckpoint})
    BY <2>1, DraftRecorded
  <2>3. c # NoCheckpoint => /\ ParentRecorded(c)
                            /\ Ref(c) \in refs /\ State(c) \in blobs
                            /\ \A d \in Recorded(events) : d.n # c.n
    <3> HAVE c # NoCheckpoint
    <3>1. pc[b] = "append"
      BY <2>1 DEF Drafts, Appending
    <3>2. writer[b] # NoWriter /\ c.n = writer[b].next
      BY <3>1 DEF Drafts, StoreInv, Locked, WithWriter
    <3>3. \A d \in Recorded(events) : d.n # c.n
      BY <3>2, NumbersBelow DEF Fresh, StoreInv, Checkpoints
    <3> QED
      BY <3>1, <3>3 DEF Drafts
  <2>4. \A d \in Recorded(events') : ParentRecorded(d)'
    BY <2>2, <2>3 DEF ParentRecorded
  <2>5. \A d \in Recorded(events') : Ref(d) \in refs' /\ State(d) \in blobs'
    BY <2>1, <2>2, <2>3 DEF Restorable
  <2> QED
    BY <2>2, <2>3, <2>4, <2>5 DEF Restorable
<1>4. \/ UNCHANGED events /\ refs \subseteq refs' /\ blobs \subseteq blobs'
      \/ UpdateRef(b) \/ AppendLine(b) \/ LineOfFailedAppend(b)
  BY StepCases DEF StoreInv, Aside, LoadWriter, LoadReindex, Load, RollForward, Rebuild, CommitTree,
                   PutState, IndexRows, durable
<1> QED
  BY <1>1, <1>2, <1>3, <1>4

\* A draft is completed by its own backend only.
LEMMA DraftsStep ==
  ASSUME ViewInv, NEW b \in Backends, Progress(b) \/ Environment(b)
  PROVE  Drafts'
<1> USE DEF ViewInv, StoreInv, TypeOK
<1> DEFINE Draft(c) ==
      LET d == op[c].checkpoint IN
      /\ pc[c] \notin {"blob", "ref", "append", "index"} => d = NoCheckpoint
      /\ pc[c] \in {"blob", "ref", "append"} =>
           /\ op[c].kind = "checkpoint"
           /\ d.n = writer[c].next /\ d.seq = writer[c].seq + 1
           /\ ParentRecorded(d)
      /\ pc[c] \in {"ref", "append"} => State(d) \in blobs
      /\ pc[c] = "append" => Ref(d) \in refs
      /\ pc[c] = "index" =>
           /\ Len(events) # 0
           /\ op[c].event = events[Len(events)]
           /\ op[c].event.checkpoint = d
           /\ d # NoCheckpoint => d.seq = Len(events)
<1>1. Apart(b)
  BY StepApart
<1>2. \A c \in Backends : Draft(c)
  BY DEF Drafts
<1>3. \A c \in Backends \ {b} : Draft(c)'
  <2> TAKE c \in Backends \ {b}
  <2>1. CASE UNCHANGED <<events, refs>> /\ blobs \subseteq blobs'
    BY <1>1, <1>2, <2>1 DEF Apart, ParentRecorded
  <2>2. CASE lock = b
    <3>1. pc'[c] \notin {"blob", "ref", "append", "index"} /\ op'[c] = op[c] /\ pc'[c] = pc[c]
      BY <1>1, <2>2, Alone DEF Apart, WithWriter
    <3> QED
      BY <1>2, <3>1
  <2>3. (UNCHANGED <<events, refs>> /\ blobs \subseteq blobs') \/ lock = b
    BY StepCases DEF Aside, LoadWriter, LoadReindex, Load, RollForward, Rebuild, CommitTree, PutState,
                     IndexRows, UpdateRef, AppendLine, LineOfFailedAppend, Appending, Locked, WithWriter,
                     durable
  <2> QED
    BY <2>1, <2>2, <2>3
<1>4. Draft(b)'
  <2>1. CASE Aside(b)
    <3>1. pc'[b] \notin {"blob", "ref", "append", "index"} /\ op'[b].checkpoint = NoCheckpoint
      BY <2>1 DEF Aside
    <3> QED
      BY <3>1
  <2>2. CASE LoadWriter(b) \/ LoadReindex(b)
    <3>1. pc[b] = "load" /\ pc'[b] \in {"roll", "rebuild"} /\ op'[b].checkpoint = op[b].checkpoint
      BY <2>2, RunLoaded DEF LoadWriter, LoadReindex, Load, Goto
    <3>2. op'[b].checkpoint = NoCheckpoint
      BY <1>2, <3>1
    <3> QED
      BY <3>1, <3>2
  <2>3. CASE RollForward(b)
    <3>1. pc[b] = "roll" /\ pc'[b] = "ready" /\ op'[b].checkpoint = op[b].checkpoint
      BY <2>3 DEF RollForward, Goto, Begin, Ops
    <3>2. op'[b].checkpoint = NoCheckpoint
      BY <1>2, <3>1
    <3> QED
      BY <3>1, <3>2
  <2>4. CASE Rebuild(b) \/ IndexRows(b) \/ LineOfFailedAppend(b)
    BY <2>4 DEF Rebuild, IndexRows, LineOfFailedAppend, DropWriter, Done, Goto, Begin, NoOp
  <2>5. CASE CommitTree(b)
    <3> DEFINE d == [n |-> writer[b].next, parent |-> op[b].parent,
                     commit |-> op[b].id, seq |-> writer[b].seq + 1]
    <3>1. /\ op'[b].checkpoint = d /\ op'[b].kind = "checkpoint"
          /\ pc'[b] = "blob" /\ UNCHANGED <<events, writer>>
      BY <2>5 DEF CommitTree, Goto, Begin, Ops, durable
    <3>2. ParentRecorded(d)
      <4> SUFFICES ASSUME op[b].parent # NoParent
                   PROVE \E e \in Recorded(events) : e.n = op[b].parent /\ e.seq < writer[b].seq + 1
        BY DEF ParentRecorded
      <4>1. PICK e \in index.checkpoints : e.n = op[b].parent
        BY <2>5 DEF CommitTree, ParentIndexed
      <4>2. e \in Recorded(events) /\ e.seq \in 1..Len(events)
        BY <4>1, NumbersBelow DEF Shown
      <4>3. writer[b].seq = Len(events)
        BY <2>5 DEF CommitTree, Locked, Synced, WithWriter
      <4> QED
        BY <4>1, <4>2, <4>3
    <3>3. d.n = writer[b].next /\ d.seq = writer[b].seq + 1
      OBVIOUS
    <3> HIDE DEF d
    <3>4. ParentRecorded(op[b].checkpoint)'
      BY <3>1, <3>2 DEF ParentRecorded
    <3> QED
      BY <3>1, <3>3, <3>4
  <2>6. CASE PutState(b)
    BY <1>2, <2>6 DEF PutState, Goto, ParentRecorded
  <2>7. CASE UpdateRef(b)
    BY <1>2, <2>7 DEF UpdateRef, Goto, ParentRecorded
  <2>8. CASE AppendLine(b)
    <3>1. /\ events'[Len(events')] = Sealed(b) /\ Len(events') = Len(events) + 1
          /\ Len(events) \in Nat
      <4>1. /\ Len(events') = Len(events) + 1 /\ DOMAIN events' = 1..(Len(events) + 1)
            /\ \A i \in DOMAIN events' : events'[i] = IF i = Len(events) + 1 THEN Sealed(b) ELSE events[i]
        BY <2>8, LineWritten DEF AppendLine
      <4>2. Len(events) \in Nat
        OBVIOUS
      <4> HIDE DEF TypeOK
      <4> QED
        BY <4>1, <4>2
    <3>2. Sealed(b).checkpoint = op[b].checkpoint
      BY DEF Sealed
    <3>3. /\ op'[b].event = Sealed(b) /\ op'[b].checkpoint = op[b].checkpoint /\ pc'[b] = "index"
      BY <2>8, LineAppended
    <3>4. op[b].checkpoint # NoCheckpoint => op[b].checkpoint.seq = writer[b].seq + 1
      BY <1>2, <2>8 DEF AppendLine, Appending
    <3>5. writer[b].seq = Len(events)
      <4> HIDE DEF TypeOK
      <4> QED
        BY <2>8 DEF AppendLine, Appending, WithWriter, Locked, Synced
    <3> HIDE DEF TypeOK
    <3> QED
      BY <3>1, <3>2, <3>3, <3>4, <3>5
  <2> QED
    BY <2>1, <2>2, <2>3, <2>4, <2>5, <2>6, <2>7, <2>8, StepCases
<1> QED
  BY <1>3, <1>4 DEF Drafts

\* Numbers and loads stay those of the ledger: only the holder of the lock changes it.
LEMMA FreshStep ==
  ASSUME ViewInv, NEW b \in Backends, Progress(b) \/ Environment(b)
  PROVE  Fresh'
<1> DEFINE FreshAt(c) ==
      /\ writer[c] # NoWriter => writer[c].next = NextNumber(events)
      /\ op[c].loaded # NotLoaded => op[c].loaded = LoadDurableRun(events)
<1>1. Apart(b)
  BY StepApart DEF ViewInv, StoreInv
<1>2. \A c \in Backends : FreshAt(c)
  BY DEF ViewInv, Fresh
<1>3. ASSUME UNCHANGED <<events, refs, blobs>>, NEW c \in Backends,
             writer'[c] \in {writer[c], NoWriter}, op'[c].loaded \in {op[c].loaded, NotLoaded}
      PROVE  FreshAt(c)'
  BY <1>2, <1>3 DEF LoadDurableRun, Restorable
<1>4. ASSUME lock = b, NEW c \in Backends \ {b}
      PROVE  FreshAt(c)'
  BY <1>1, <1>4, Alone DEF ViewInv, StoreInv, Apart
<1>5. CASE UNCHANGED <<events, refs, blobs>>
  <2>1. \A c \in Backends \ {b} : FreshAt(c)'
    BY <1>1, <1>3, <1>5 DEF Apart
  <2>2. FreshAt(b)'
    <3>1. CASE writer'[b] \in {writer[b], NoWriter} /\ op'[b].loaded \in {op[b].loaded, NotLoaded}
      BY <1>3, <1>5, <3>1
    <3>2. CASE LoadWriter(b) \/ LoadReindex(b)
      <4>1. op'[b].loaded = LoadDurableRun(events) /\ writer'[b] = writer[b]
        BY <3>2, RunLoaded DEF ViewInv, StoreInv
      <4> QED
        BY <1>2, <1>5, <4>1 DEF LoadDurableRun, Restorable
    <3>3. CASE RollForward(b) \/ Rebuild(b)
      <4>1. op'[b].loaded = NotLoaded
        <5>1. op \in [Backends -> Ops]
          BY DEF ViewInv, StoreInv, TypeOK
        <5>2. CASE RollForward(b)
          <6>1. op' = [op EXCEPT ![b] = [op[b] EXCEPT !.loaded = NotLoaded, !.indexed = 0]]
            BY <5>2, Zenon DEF RollForward, Begin
          <6> QED
            BY <5>1, <6>1 DEF Ops
        <5>3. CASE Rebuild(b)
          BY <5>1, <5>3 DEF Rebuild, Done, Begin, NoOp
        <5> QED
          BY <3>3, <5>2, <5>3
      <4>2. writer'[b] = writer[b] \/ (op[b].loaded # NotLoaded /\ writer'[b] = WriterOf(op[b].loaded))
        BY <3>3 DEF RollForward, Rebuild, ViewInv, StoreInv, TypeOK, Locked
      <4>3. op[b].loaded # NotLoaded => WriterOf(op[b].loaded).next = NextNumber(events)
        BY <1>2 DEF WriterOf, LoadDurableRun
      <4> QED
        BY <1>2, <1>5, <4>1, <4>2, <4>3
    <3>4. CASE CommitTree(b) \/ PutState(b) \/ IndexRows(b)
      BY <1>3, <1>5, <3>4 DEF CommitTree, PutState, IndexRows, Done, Begin, NoOp,
                              ViewInv, StoreInv, TypeOK, Ops
    <3>5. CASE UpdateRef(b)
      BY <1>3, <1>5, <3>5 DEF UpdateRef
    <3>6. CASE AppendLine(b) \/ LineOfFailedAppend(b)
      <4>1. Len(events') = Len(events) + 1
        BY <3>6, LineWritten DEF AppendLine, LineOfFailedAppend, ViewInv, StoreInv
      <4>2. Len(events) \in Nat
        BY DEF ViewInv, StoreInv, TypeOK
      <4> QED
        BY <1>5, <4>1, <4>2
    <3> QED
      BY <3>1, <3>2, <3>3, <3>4, <3>5, <3>6, StepCases DEF ViewInv, StoreInv, Aside
  <2> QED
    BY <2>1, <2>2 DEF Fresh
<1>6. CASE PutState(b) \/ UpdateRef(b)
  <2>1. lock = b /\ op[b].loaded = NotLoaded /\ writer[b] # NoWriter
    BY <1>6 DEF PutState, UpdateRef, ViewInv, StoreInv, Locked, WithWriter
  <2>2. UNCHANGED <<events, writer, op>>
    BY <1>6 DEF PutState, UpdateRef
  <2>3. FreshAt(b)'
    BY <1>2, <2>1, <2>2
  <2> QED
    BY <1>4, <2>1, <2>3 DEF Fresh
<1>7. CASE AppendLine(b) \/ LineOfFailedAppend(b)
  <2>1. Appending(b) /\ WriteLine(Sealed(b))
    BY <1>7 DEF AppendLine, LineOfFailedAppend
  <2>2. lock = b /\ op[b].loaded = NotLoaded /\ writer[b] \in Writers
    BY <2>1, SealedExtends DEF Appending, ViewInv, StoreInv, Locked
  <2>3. NextNumber(events') = IF op[b].kind = "checkpoint" THEN writer[b].next + 1 ELSE writer[b].next
    BY <2>1, NumberKept DEF ViewInv
  <2>4. FreshAt(b)'
    <3>1. CASE AppendLine(b)
      <4>1. writer'[b].next = IF op[b].kind = "checkpoint" THEN writer[b].next + 1 ELSE writer[b].next
        BY <2>2, <3>1 DEF AppendLine, ViewInv, StoreInv, TypeOK, Writers
      <4>2. op'[b].loaded = NotLoaded
        BY <2>2, <3>1, LineAppended DEF ViewInv, StoreInv
      <4> QED
        BY <2>3, <4>1, <4>2
    <3>2. CASE LineOfFailedAppend(b)
      BY <3>2 DEF LineOfFailedAppend, DropWriter, Done, Begin, NoOp, ViewInv, StoreInv, TypeOK
    <3> QED
      BY <1>7, <3>1, <3>2
  <2> QED
    BY <1>4, <2>2, <2>4 DEF Fresh
<1> QED
  BY <1>5, <1>6, <1>7, StepCases DEF ViewInv, StoreInv, Aside, LoadWriter, LoadReindex, Load,
                                     RollForward, Rebuild, CommitTree, IndexRows, durable

-----------------------------------------------------------------------------
(* What readers see.                                                         *)

\* The whole ledger is shown when all of its lines and of its records are.
LEMMA ShowsAll ==
  ASSUME TypeOK, Numbered, LedgerChain
  PROVE  Shows(Len(events)) <=> /\ index.events = Lines(events)
                                /\ index.checkpoints = Recorded(events)
<1>1. DOMAIN events = 1..Len(events) /\ Len(events) \in Nat
  BY DEF TypeOK
<1>2. {c \in Recorded(events) : c.seq <= Len(events)} = Recorded(events)
  BY <1>1, NumbersBelow
<1> QED
  BY <1>1, <1>2 DEF Shows, Lines

\* What the index shows is what its highest event says.
LEMMA ShowsMax ==
  ASSUME TypeOK, LedgerChain, NEW k \in 0..Len(events), Shows(k)
  PROVE  MaxEventSeq = k
<1>1. k \in Nat /\ DOMAIN events = 1..Len(events) /\ Len(events) \in Nat
  BY DEF TypeOK
<1>2. \A i \in 1..k : events[i].seq = i
  BY <1>1 DEF LedgerChain, VerifyChain
<1>3. {0} \cup {e.seq : e \in index.events} = 0..k
  BY <1>1, <1>2 DEF Shows
<1> DEFINE S == {0} \cup {e.seq : e \in index.events}
<1>4. k \in S
  BY <1>1, <1>3
<1>5. S \in SUBSET (0..k) /\ S # {}
  BY <1>3
<1>6. MaxEventSeq = Max(S)
  BY DEF MaxEventSeq
<1> HIDE DEF S
<1>7. Max(S) \in 0..k /\ k <= Max(S)
  BY <1>1, <1>4, <1>5, MaxBounded
<1> QED
  BY <1>1, <1>6, <1>7

\* A line that is written is beyond what the index shows.
LEMMA ShowsKept ==
  ASSUME StoreInv, Drafts, NEW b \in Backends, Appending(b), WriteLine(Sealed(b)),
         UNCHANGED index, NEW k \in 0..Len(events), Shows(k)
  PROVE  Shows(k)' /\ k \in 0..Len(events') /\ Len(events') = Len(events) + 1
<1>1. Len(events) \in Nat /\ k \in Nat /\ k <= Len(events)
  BY DEF StoreInv, TypeOK
<1>2. /\ Len(events') = Len(events) + 1 /\ DOMAIN events' = 1..(Len(events) + 1)
      /\ \A i \in DOMAIN events' : events'[i] = IF i = Len(events) + 1 THEN Sealed(b) ELSE events[i]
  BY LineWritten DEF StoreInv
<1>3. \A i \in 1..k : events'[i] = events[i]
  BY <1>1, <1>2
<1>4. Recorded(events') = Recorded(events) \cup ({op[b].checkpoint} \ {NoCheckpoint})
  BY DraftRecorded
<1>5. op[b].checkpoint # NoCheckpoint => op[b].checkpoint.seq = Len(events) + 1
  <2>1. op[b].checkpoint # NoCheckpoint => op[b].checkpoint.seq = writer[b].seq + 1
    BY DEF Drafts, Appending
  <2>2. writer[b].seq = Len(events)
    BY DEF StoreInv, Locked, Synced, Appending, WithWriter
  <2> QED
    BY <2>1, <2>2
<1>6. {c \in Recorded(events') : c.seq <= k} = {c \in Recorded(events) : c.seq <= k}
  BY <1>1, <1>4, <1>5
<1> QED
  BY <1>1, <1>2, <1>3, <1>6 DEF Shows

\* A step that leaves the rows, the ledger and the writers alone.
LEMMA ShownKept ==
  ASSUME Shown, UNCHANGED <<events, overlooked>>,
         index'.events = index.events, index'.checkpoints = index.checkpoints,
         index.run => index'.run,
         \A c \in Backends :
           /\ pc'[c] = "roll" => pc[c] = "roll" /\ op'[c].indexed = op[c].indexed
           /\ writer'[c] # NoWriter =>
                writer[c] # NoWriter /\ (pc'[c] = "index" <=> pc[c] = "index")
  PROVE  Shown'
<1>1. \A k : Shows(k) => Shows(k)'
  BY DEF Shows
<1>2. \A c \in Backends : writer'[c] # NoWriter => Position(c)' = Position(c)
  BY DEF Position
<1>3. index'.checkpoints \subseteq Recorded(events')
  BY DEF Shown
<1>4. ASSUME ~overlooked'
      PROVE  \E k \in 0..Len(events') : Shows(k)'
  BY <1>1, <1>4 DEF Shown
<1>5. ASSUME ~overlooked', NEW c \in Backends
      PROVE  /\ pc'[c] = "roll" => op'[c].indexed \in 0..Len(events') /\ Shows(op[c].indexed)'
             /\ writer'[c] # NoWriter => index'.run /\ Shows(Position(c))'
  <2>1. ASSUME pc'[c] = "roll"
        PROVE  op'[c].indexed = op[c].indexed /\ op[c].indexed \in 0..Len(events') /\ Shows(op[c].indexed)
    BY <1>5, <2>1 DEF Shown
  <2>2. ASSUME writer'[c] # NoWriter
        PROVE  index'.run /\ Shows(Position(c))
    BY <1>5, <2>2 DEF Shown
  <2> QED
    BY <1>1, <1>2, <2>1, <2>2 DEF Shows
<1> QED
  BY <1>3, <1>4, <1>5 DEF Shown

\* Readers are shown a prefix of the ledger, at every step.
LEMMA ShownStep ==
  ASSUME ViewInv, NEW b \in Backends, Progress(b) \/ Environment(b)
  PROVE  Shown'
<1>1. Apart(b)
  BY StepApart DEF ViewInv, StoreInv
<1>2. TypeOK /\ Locked /\ LedgerChain /\ Numbered /\ Synced /\ Stored /\ InCall
  BY DEF ViewInv, StoreInv
<1>3. Len(events) \in Nat /\ DOMAIN events = 1..Len(events)
  BY <1>2 DEF TypeOK
<1>4. Restorable(events) = Recorded(events)
  BY DEF ViewInv, Registered, Restorable
\* The holder of the lock is left alone with the ledger.
<1>5. ASSUME lock = b,
             index'.checkpoints \subseteq Recorded(events'),
             ~overlooked' => \E k \in 0..Len(events') : Shows(k)',
             pc'[b] # "roll",
             ~overlooked' /\ writer'[b] # NoWriter => index'.run /\ Shows(Position(b))'
      PROVE  Shown'
  <2>1. \A c \in Backends \ {b} : pc'[c] # "roll" /\ writer'[c] = NoWriter
    BY <1>1, <1>2, <1>5, Alone DEF Apart
  <2> QED
    BY <1>5, <2>1 DEF Shown
<1>6. CASE Aside(b)
  <2>1. \A c \in Backends :
           /\ pc'[c] = "roll" => pc[c] = "roll" /\ op'[c].indexed = op[c].indexed
           /\ writer'[c] # NoWriter =>
                writer[c] # NoWriter /\ (pc'[c] = "index" <=> pc[c] = "index")
    BY <1>1, <1>6 DEF Apart, Aside
  <2> QED
    BY <1>6, <2>1, ShownKept DEF Aside, ViewInv
<1>7. CASE LoadReindex(b) \/ CommitTree(b) \/ PutState(b) \/ UpdateRef(b)
  <2>1. pc'[b] \notin {"roll", "index"} /\ pc[b] # "index" /\ UNCHANGED writer
    BY <1>2, <1>7 DEF LoadReindex, Load, CommitTree, PutState, UpdateRef, Goto, TypeOK
  <2>2. UNCHANGED <<events, overlooked, index>>
    BY <1>7 DEF LoadReindex, Load, CommitTree, PutState, UpdateRef, durable, history
  <2>3. \A c \in Backends :
           /\ pc'[c] = "roll" => pc[c] = "roll" /\ op'[c].indexed = op[c].indexed
           /\ writer'[c] # NoWriter =>
                writer[c] # NoWriter /\ (pc'[c] = "index" <=> pc[c] = "index")
    BY <1>1, <2>1 DEF Apart
  <2> QED
    BY <2>2, <2>3, ShownKept DEF ViewInv
<1>8. CASE LoadWriter(b)
  <2>1. UNCHANGED <<events, overlooked, index, writer>> /\ pc[b] = "load" /\ pc'[b] = "roll"
    BY <1>2, <1>8 DEF LoadWriter, Load, Goto, history, TypeOK
  <2>2. op'[b].indexed = MaxEventSeq
    <3>1. op' = [op EXCEPT ![b] = [op[b] EXCEPT !.loaded = LoadDurableRun(events), !.indexed = MaxEventSeq]]
      BY <1>8, Zenon DEF LoadWriter, Begin
    <3> QED
      BY <1>2, <3>1 DEF TypeOK, Ops
  <2>3. \A k : Shows(k)' <=> Shows(k)
    BY <2>1 DEF Shows
  <2>4. ~overlooked => MaxEventSeq \in 0..Len(events) /\ Shows(MaxEventSeq)
    <3> HAVE ~overlooked
    <3>1. PICK k \in 0..Len(events) : Shows(k)
      BY DEF ViewInv, Shown
    <3>2. MaxEventSeq = k
      BY <1>2, <3>1, ShowsMax
    <3> QED
      BY <3>1, <3>2
  <2>5. \A c \in Backends \ {b} :
          pc'[c] = pc[c] /\ op'[c] = op[c] /\ writer'[c] = writer[c] /\ Position(c)' = Position(c)
    BY <1>1, <2>1 DEF Apart, Position
  <2>6. Position(b)' = Position(b)
    BY <2>1 DEF Position
  <2>7. ASSUME ~overlooked', NEW c \in Backends
        PROVE  /\ pc'[c] = "roll" => op'[c].indexed \in 0..Len(events') /\ Shows(op[c].indexed)'
               /\ writer'[c] # NoWriter => index'.run /\ Shows(Position(c))'
    <3>1. CASE c = b
      <4>1. op'[c].indexed \in 0..Len(events') /\ Shows(op'[c].indexed)
        BY <2>1, <2>2, <2>4, <2>7, <3>1
      <4>2. writer'[c] # NoWriter => index'.run /\ Shows(Position(c)')
        BY <2>1, <2>6, <2>7, <3>1 DEF ViewInv, Shown
      <4> QED
        BY <2>3, <4>1, <4>2 DEF Shows
    <3>2. CASE c # b
      <4>1. pc'[c] = "roll" => op'[c].indexed \in 0..Len(events') /\ Shows(op'[c].indexed)
        BY <2>1, <2>5, <2>7, <3>2 DEF ViewInv, Shown
      <4>2. writer'[c] # NoWriter => index'.run /\ Shows(Position(c)')
        BY <2>1, <2>5, <2>7, <3>2 DEF ViewInv, Shown
      <4> QED
        BY <2>3, <4>1, <4>2 DEF Shows
    <3> QED
      BY <3>1, <3>2
  <2>8. index'.checkpoints \subseteq Recorded(events')
    BY <2>1 DEF ViewInv, Shown
  <2>9. ~overlooked' => \E k \in 0..Len(events') : Shows(k)'
    BY <2>1, <2>3 DEF ViewInv, Shown
  <2> QED
    BY <2>7, <2>8, <2>9 DEF Shown
<1>9. CASE RollForward(b)
  <2> DEFINE j == op[b].indexed
             es == {e \in Lines(events) : e.seq > j}
             cs == {c \in Recorded(events) : c.seq > j}
  <2>1. lock = b /\ op[b].loaded = LoadDurableRun(events)
    BY <1>2, <1>9 DEF RollForward, Locked, ViewInv, Fresh
  <2>2. /\ index' = [InsertRows(es, cs) EXCEPT !.run = TRUE]
        /\ UNCHANGED <<events, overlooked>> /\ pc[b] = "roll" /\ pc'[b] = "ready"
    BY <1>2, <1>4, <1>9, <2>1 DEF RollForward, LoadDurableRun, Goto, history, durable, TypeOK
  <2>3. index'.run = TRUE /\ index'.events = index.events \cup es /\ index'.checkpoints = index.checkpoints \cup cs
    BY <1>2, <2>2 DEF InsertRows, TypeOK
  <2>4. index'.checkpoints \subseteq Recorded(events')
    BY <2>2, <2>3 DEF ViewInv, Shown
  <2>5. ASSUME ~overlooked'
        PROVE  Shows(Len(events))'
    <3>1. j \in 0..Len(events) /\ Shows(j)
      BY <2>2, <2>5 DEF ViewInv, Shown
    <3>2. \A i \in 1..Len(events) : events[i].seq = i
      BY <1>2, <1>3 DEF LedgerChain, VerifyChain
    <3>3. es = {events[i] : i \in {i \in 1..Len(events) : i > j}}
      BY <1>3, <3>2 DEF Lines
    <3>4. index'.events = {events[i] : i \in 1..Len(events)}
      BY <1>3, <2>3, <3>1, <3>3 DEF Shows
    <3>5. \A c \in Recorded(events) : c.seq \in 1..Len(events)
      BY <1>2, NumbersBelow
    <3>6. index'.checkpoints = {c \in Recorded(events) : c.seq <= Len(events)}
      BY <1>3, <2>3, <3>1, <3>5 DEF Shows
    <3> QED
      BY <2>2, <3>4, <3>6 DEF Shows
  <2>6. Position(b)' = Len(events)'
    BY <2>2 DEF Position
  <2>7. ~overlooked' => index'.run /\ Shows(Position(b))'
    BY <2>3, <2>5, <2>6 DEF Shows
  <2>8. ~overlooked' => \E k \in 0..Len(events') : Shows(k)'
    BY <1>3, <2>2, <2>5 DEF Shows
  <2> QED
    BY <1>5, <2>1, <2>2, <2>4, <2>7, <2>8
<1>10. CASE AppendLine(b) \/ LineOfFailedAppend(b)
  <2>1. Appending(b) /\ WriteLine(Sealed(b)) /\ UNCHANGED <<index, overlooked>>
    BY <1>10 DEF AppendLine, LineOfFailedAppend, history
  <2>2. lock = b /\ writer[b] # NoWriter /\ pc[b] # "index"
    BY <1>2, <2>1 DEF Appending, Locked, WithWriter
  <2>3. \A k \in 0..Len(events) :
          Shows(k) => Shows(k)' /\ k \in 0..Len(events') /\ Len(events') = Len(events) + 1
    BY <2>1, ShowsKept DEF ViewInv
  <2>4. index'.checkpoints \subseteq Recorded(events')
    BY <2>1, DraftRecorded DEF ViewInv, Shown
  <2>5. ~overlooked' => \E k \in 0..Len(events') : Shows(k)'
    BY <2>1, <2>3 DEF ViewInv, Shown
  <2>6. pc'[b] \in {"index", "idle"} /\ (writer'[b] # NoWriter => pc'[b] = "index")
    BY <1>2, <1>10 DEF AppendLine, LineOfFailedAppend, DropWriter, Done, Goto, TypeOK
  <2>7. ASSUME ~overlooked', writer'[b] # NoWriter
        PROVE  index'.run /\ Shows(Position(b))'
    <3>1. index.run /\ Shows(Len(events))
      BY <2>1, <2>2, <2>7 DEF ViewInv, Shown, Position
    <3>2. Len(events) \in 0..Len(events)
      BY <1>3
    <3>3. PICK k \in 0..Len(events) : k = Len(events)
      BY <3>2
    <3>4. Shows(k)' /\ Len(events') = k + 1
      BY <2>3, <3>1, <3>3
    <3>5. Position(b)' = Len(events') - 1
      BY <2>6, <2>7 DEF Position
    <3>6. Position(b)' = k
      BY <1>3, <3>3, <3>4, <3>5
    <3> QED
      BY <2>1, <3>1, <3>4, <3>6 DEF Shows
  <2> QED
    BY <1>5, <2>2, <2>4, <2>5, <2>6, <2>7
<1>11. CASE IndexRows(b)
  <2> DEFINE e == op[b].event
             c == op[b].checkpoint
  <2>1. lock = b /\ writer[b] # NoWriter /\ pc[b] = "index" /\ pc'[b] = "idle"
    BY <1>2, <1>11 DEF IndexRows, Done, Goto, Locked, WithWriter, TypeOK
  <2>2. /\ index'.events = index.events \cup {e}
        /\ index'.checkpoints = index.checkpoints \cup ({c} \ {NoCheckpoint})
        /\ index'.run = index.run
        /\ UNCHANGED <<events, overlooked, writer>>
    BY <1>2, <1>11 DEF IndexRows, InsertRows, durable, TypeOK
  <2>3. Len(events) \in DOMAIN events /\ e = events[Len(events)] /\ e.checkpoint = c
        /\ e.seq = Len(events) /\ (c # NoCheckpoint => c.seq = Len(events))
    BY <1>2, <1>3, <2>1 DEF ViewInv, Drafts, LedgerChain, VerifyChain
  <2>4. \A d \in Recorded(events) : d.seq \in 1..Len(events) /\ (d.seq = Len(events) => d = c)
    <3> TAKE d \in Recorded(events)
    <3>1. PICK i \in DOMAIN events : d = events[i].checkpoint /\ d.seq = events[i].seq
      BY DEF Recorded, Lines
    <3>2. d.seq = i
      BY <1>2, <3>1 DEF LedgerChain, VerifyChain
    <3> QED
      BY <1>3, <2>3, <3>1, <3>2
  <2>5. c # NoCheckpoint => c \in Recorded(events)
    BY <2>3 DEF Recorded, Lines
  <2>6. index'.checkpoints \subseteq Recorded(events')
    BY <2>2, <2>5 DEF ViewInv, Shown
  <2>7. ASSUME ~overlooked'
        PROVE  index'.run /\ Shows(Len(events))'
    <3>1. index.run /\ Shows(Len(events) - 1)
      BY <2>1, <2>2, <2>7 DEF ViewInv, Shown, Position
    <3>2. index'.events = {events[i] : i \in 1..Len(events)}
      BY <1>3, <2>2, <2>3, <3>1 DEF Shows
    <3>3. index'.checkpoints = {d \in Recorded(events) : d.seq <= Len(events)}
      <4>1. index.checkpoints = {d \in Recorded(events) : d.seq <= Len(events) - 1}
        BY <3>1 DEF Shows
      <4>2. \A d \in Recorded(events) : d \in index.checkpoints \/ d = c
        BY <1>3, <2>4, <4>1
      <4>3. \A d \in Recorded(events) : d # NoCheckpoint
        BY DEF Recorded
      <4>4. \A d \in Recorded(events) : d.seq <= Len(events)
        BY <1>3, <2>4
      <4> HIDE DEF e, c
      <4>5. index'.checkpoints = Recorded(events)
        BY <2>2, <2>5, <4>1, <4>2, <4>3
      <4> QED
        BY <4>4, <4>5
    <3>4. Shows(Len(events))'
      <4>1. events' = events
        BY <2>2
      <4> HIDE DEF e, c
      <4> QED
        BY <3>2, <3>3, <4>1 DEF Shows
    <3> QED
      BY <2>2, <3>1, <3>4
  <2>8. Position(b)' = Len(events)'
    BY <2>1 DEF Position
  <2>9. ~overlooked' => index'.run /\ Shows(Position(b))'
    BY <2>7, <2>8 DEF Shows
  <2>10. ~overlooked' => \E k \in 0..Len(events') : Shows(k)'
    BY <1>3, <2>2, <2>7 DEF Shows
  <2> QED
    BY <1>5, <2>1, <2>6, <2>9, <2>10
<1>12. CASE Rebuild(b)
  <2>1. pc'[b] = "idle" /\ UNCHANGED events
    BY <1>2, <1>12 DEF Rebuild, Done, Goto, durable, TypeOK
  <2>2. CASE op[b].loaded # NotLoaded
    <3>1. lock = b /\ op[b].loaded = LoadDurableRun(events)
      BY <1>2, <2>2 DEF Locked, ViewInv, Fresh
    <3>2. index' = [run |-> TRUE, events |-> Lines(events), checkpoints |-> Recorded(events)]
      BY <1>4, <1>12, <2>2, <3>1 DEF Rebuild, LoadDurableRun
    <3>3. Shows(Len(events))'
      <4>1. {c \in Recorded(events) : c.seq <= Len(events)} = Recorded(events)
        BY <1>2, <1>3, NumbersBelow
      <4> QED
        BY <1>3, <2>1, <3>2, <4>1 DEF Shows, Lines
    <3>4. Position(b)' = Len(events)'
      BY <2>1 DEF Position
    <3>5. index'.run /\ Shows(Position(b))'
      BY <3>2, <3>3, <3>4 DEF Shows
    <3>6. \E k \in 0..Len(events') : Shows(k)'
      BY <1>3, <2>1, <3>3 DEF Shows
    <3> QED
      BY <1>5, <2>1, <3>1, <3>2, <3>5, <3>6
  <2>3. CASE op[b].loaded = NotLoaded
    <3>1. /\ index' = EmptyIndex /\ UNCHANGED writer
          /\ overlooked' = (overlooked \/ announced)
      BY <1>12, <2>3 DEF Rebuild
    <3>2. index'.checkpoints \subseteq Recorded(events')
      BY <3>1 DEF EmptyIndex
    <3>3. ~announced => \A c \in Backends : writer[c] = NoWriter /\ pc[c] # "roll"
      BY <1>2 DEF ViewInv, Announced, InCall
    <3>4. ~announced => \A c \in Backends : writer'[c] = NoWriter /\ pc'[c] # "roll"
      BY <1>1, <2>1, <3>1, <3>3 DEF Apart
    <3>5. ~announced => Shows(0)'
      <4>1. {c \in Recorded(events) : c.seq <= 0} = {}
        BY <1>2, <1>3, NumbersBelow
      <4> QED
        BY <2>1, <3>1, <4>1 DEF Shows, EmptyIndex
    <3>6. ~overlooked' => \E k \in 0..Len(events') : Shows(k)'
      <4>1. 0 \in 0..Len(events')
        BY <1>3, <2>1
      <4>2. ~overlooked' => Shows(0)'
        BY <3>1, <3>5
      <4> QED
        BY <4>1, <4>2
    <3>7. ~overlooked' => \A c \in Backends : writer'[c] = NoWriter /\ pc'[c] # "roll"
      BY <3>1, <3>4
    <3> QED
      BY <3>2, <3>6, <3>7 DEF Shown
  <2> QED
    BY <2>2, <2>3
<1> QED
  BY <1>2, <1>6, <1>7, <1>8, <1>9, <1>10, <1>11, <1>12, StepCases DEF ViewInv

\* There is nothing to see at first.
LEMMA ViewInvInit == Init => ViewInv
<1> SUFFICES ASSUME Init PROVE ViewInv
  OBVIOUS
<1>1. StoreInv
  BY StoreInvInit
<1>2. events = <<>> /\ DOMAIN events = {} /\ Len(events) = 0 /\ Recorded(events) = {}
  BY DEF Init, Recorded, Lines
<1>3. Announced
  BY DEF Init, Announced, EmptyIndex, NoOp, Writing
<1>4. Registered
  BY <1>2 DEF Registered
<1>5. Drafts /\ Fresh
  BY DEF Init, Drafts, Fresh, NoOp
<1>6. Shows(0) /\ 0 \in 0..Len(events)
  BY <1>2 DEF Init, EmptyIndex, Shows
<1>7. Shown
  BY <1>2, <1>6 DEF Init, EmptyIndex, Shown
<1> QED
  BY <1>1, <1>3, <1>4, <1>5, <1>7 DEF ViewInv

\* What readers see stays part of the ledger, at every step.
LEMMA ViewInvStep == ViewInv /\ [Next]_vars => ViewInv'
<1> SUFFICES ASSUME ViewInv, [Next]_vars PROVE ViewInv'
  OBVIOUS
<1>1. StoreInv'
  BY StoreInvStep DEF ViewInv
<1>2. CASE Next
  <2>1. PICK b \in Backends : Progress(b) \/ Environment(b)
    BY <1>2 DEF Next
  <2> QED
    BY <1>1, <2>1, AnnouncedStep, RegisteredStep, DraftsStep, FreshStep, ShownStep DEF ViewInv
<1>3. CASE UNCHANGED vars
  <2> USE <1>3 DEF vars, durable, history, ViewInv
  <2>1. Announced'
    BY DEF Announced
  <2>2. Registered'
    BY DEF Registered, Restorable, ParentRecorded
  <2>3. Drafts'
    BY DEF Drafts, ParentRecorded
  <2>4. Fresh'
    BY DEF Fresh, LoadDurableRun, Restorable
  <2>5. Shown'
    BY DEF Shown, Shows, Position
  <2> QED
    BY <1>1, <2>1, <2>2, <2>3, <2>4, <2>5
<1> QED
  BY <1>2, <1>3

\* The index, the ledger and what the backends have of them stay in step.
THEOREM ViewInvariant == Spec => []ViewInv
BY ViewInvInit, ViewInvStep, PTL DEF Spec

-----------------------------------------------------------------------------
(* What that promises.                                                       *)

\* Readers see a whole prefix of the ledger, with checkpoints that can be
\* restored and have their number for themselves and a visible older parent.
LEMMA ViewWhole == ViewInv => VisibleIsWhole
<1> SUFFICES ASSUME ViewInv PROVE VisibleIsWhole
  OBVIOUS
<1>1. TypeOK /\ LedgerChain
  BY DEF ViewInv, StoreInv
<1>2. ASSUME ~overlooked
      PROVE  /\ index.events = {events[i] : i \in 1..MaxEventSeq}
             /\ \A c \in index.checkpoints : c.parent # NoParent =>
                  \E d \in index.checkpoints : d.n = c.parent /\ d.seq < c.seq
  <2>1. PICK k \in 0..Len(events) : Shows(k)
    BY <1>2 DEF ViewInv, Shown
  <2>2. MaxEventSeq = k
    BY <1>1, <2>1, ShowsMax
  <2>3. ASSUME NEW c \in index.checkpoints, c.parent # NoParent
        PROVE  \E d \in index.checkpoints : d.n = c.parent /\ d.seq < c.seq
    <3>1. c \in Recorded(events) /\ c.seq <= k
      BY <2>1, <2>3 DEF Shows
    <3>2. PICK d \in Recorded(events) : d.n = c.parent /\ d.seq < c.seq
      BY <2>3, <3>1 DEF ViewInv, Registered, ParentRecorded
    <3>3. d.seq \in Nat /\ c.seq \in Nat /\ k \in Nat
      <4>1. Recorded(events) \subseteq Checkpoints
        BY NumbersBelow DEF ViewInv, StoreInv
      <4> QED
        BY <1>1, <3>1, <4>1 DEF Checkpoints
    <3>4. d.seq <= k
      BY <3>1, <3>2, <3>3
    <3> QED
      BY <2>1, <3>2, <3>4 DEF Shows
  <2> QED
    BY <2>1, <2>2, <2>3 DEF Shows
<1>3. \A c \in index.checkpoints :
        c \in Restorable(events) /\ \A d \in index.checkpoints : d.n = c.n => d = c
  BY DEF ViewInv, Shown, Registered
<1> QED
  BY <1>2, <1>3 DEF VisibleIsWhole

\* A crash, a failed write or a reindex at any point leaves no visible partial
\* event or checkpoint.
THEOREM VisibleWhole == Spec => []VisibleIsWhole
BY ViewInvariant, ViewWhole, PTL

\* A writer between its mutations has what is on disk, and its index is the one
\* that a reindex would build.
LEMMA ViewConverged == ViewInv => WriterConverged
<1> SUFFICES ASSUME ViewInv, NEW b \in Backends, writer[b] # NoWriter, pc[b] \in {"idle", "ready"}
             PROVE  /\ lock = b
                    /\ ~torn
                    /\ writer[b] = WriterOf(LoadDurableRun(events))
                    /\ ~overlooked => index = RebuiltIndex
  BY DEF WriterConverged
<1>1. TypeOK /\ Numbered /\ LedgerChain
  BY DEF ViewInv, StoreInv
<1>2. lock = b /\ ~torn
  BY DEF ViewInv, StoreInv, Locked, Synced
<1>3. writer[b] = WriterOf(LoadDurableRun(events))
  <2>1. writer[b].seq = Len(events) /\ writer[b].hash = HeadHash(events, Len(events))
        /\ writer[b].next = NextNumber(events)
    BY DEF ViewInv, StoreInv, Synced, Fresh
  <2>2. writer[b] = [seq |-> writer[b].seq, hash |-> writer[b].hash, next |-> writer[b].next]
    BY <1>1 DEF TypeOK, Writers
  <2> QED
    BY <2>1, <2>2 DEF WriterOf, LoadDurableRun
<1>4. ASSUME ~overlooked
      PROVE  index = RebuiltIndex
  <2>1. index.run /\ Shows(Len(events))
    BY <1>4 DEF ViewInv, Shown, Position
  <2>2. index.events = Lines(events) /\ index.checkpoints = Recorded(events)
    BY <1>1, <2>1, ShowsAll
  <2>3. Restorable(events) = Recorded(events)
    BY DEF ViewInv, Registered, Restorable
  <2>4. index = [run |-> index.run, events |-> index.events, checkpoints |-> index.checkpoints]
        /\ index.run = TRUE
    BY <1>1, <2>1 DEF TypeOK
  <2> QED
    BY <2>2, <2>3, <2>4 DEF RebuiltIndex
<1> QED
  BY <1>2, <1>3, <1>4

\* Roll-forward, failures and refreshes lose and invent nothing.
THEOREM Converged == Spec => []WriterConverged
BY ViewInvariant, ViewConverged, PTL

-----------------------------------------------------------------------------
(* The store implements RunLog.                                              *)

\* What readers see, as RunLog says it.
Prefixed == ~overlooked => MaxEventSeq \in 0..Len(events) /\ Shows(MaxEventSeq)

\* The invariant gives readers a prefix.
LEMMA ViewPrefixed == ViewInv => Prefixed
<1> SUFFICES ASSUME ViewInv, ~overlooked
             PROVE  MaxEventSeq \in 0..Len(events) /\ Shows(MaxEventSeq)
  BY DEF Prefixed
<1>1. PICK k \in 0..Len(events) : Shows(k)
  BY DEF ViewInv, Shown
<1>2. MaxEventSeq = k
  BY <1>1, ShowsMax DEF ViewInv, StoreInv
<1> QED
  BY <1>1, <1>2

\* When readers see more of the same ledger, the prefix grows.
LEMMA PrefixGrows ==
  ASSUME ViewInv, Prefixed, Prefixed', ~overlooked, ~overlooked',
         UNCHANGED events, index.events \subseteq index'.events
  PROVE  /\ MaxEventSeq' \in MaxEventSeq..Len(events)
         /\ index'.events = {events[i] : i \in 1..MaxEventSeq'}
<1> DEFINE k == MaxEventSeq
           n == MaxEventSeq'
<1>1. /\ Len(events) \in Nat /\ k \in 0..Len(events) /\ n \in 0..Len(events)
      /\ \A i \in 1..Len(events) : events[i].seq = i
  BY DEF ViewInv, StoreInv, TypeOK, LedgerChain, VerifyChain, Prefixed
<1>2. index.events = {events[i] : i \in 1..k} /\ index'.events = {events[i] : i \in 1..n}
  BY DEF Prefixed, Shows
<1> HIDE DEF k, n
<1>3. k # 0 => \E i \in 1..n : events[k] = events[i]
  BY <1>1, <1>2
<1>4. k <= n
  BY <1>1, <1>3
<1> QED
  BY <1>1, <1>2, <1>4 DEF k, n

\* Every step of a backend is a step of the log, or none.
LEMMA StepRefines ==
  ASSUME ViewInv, Prefixed, Prefixed', NEW b \in Backends, Progress(b) \/ Environment(b)
  PROVE  Log!Next \/ UNCHANGED Log!vars
<1>1. TypeOK /\ InCall /\ Locked /\ Synced /\ LedgerChain /\ Stored
  BY DEF ViewInv, StoreInv
<1>2. ASSUME UNCHANGED <<events, acked, overlooked>>, index'.events = index.events
      PROVE  UNCHANGED Log!vars
  BY <1>2 DEF Log!vars, MaxEventSeq
<1>3. ASSUME UNCHANGED events, overlooked'
      PROVE  Log!Next
  BY <1>3 DEF Log!Next, Log!Degrade
<1>4. ASSUME UNCHANGED <<events, acked, overlooked>>, index.events \subseteq index'.events
      PROVE  Log!Next
  <2>1. CASE ~overlooked
    <3>1. MaxEventSeq' \in MaxEventSeq..Len(events)
      BY <1>4, <2>1, PrefixGrows
    <3>2. Log!Show(MaxEventSeq')
      BY <1>4 DEF Log!Show
    <3> QED
      BY <2>1, <3>1, <3>2 DEF Log!Next
  <2> QED
    BY <1>3, <1>4, <2>1
<1>5. CASE Aside(b)
  BY <1>2, <1>5 DEF Aside
<1>6. CASE LoadWriter(b) \/ LoadReindex(b) \/ CommitTree(b) \/ PutState(b) \/ UpdateRef(b)
  BY <1>2, <1>6 DEF LoadWriter, LoadReindex, Load, CommitTree, PutState, UpdateRef, durable, history
<1>7. CASE RollForward(b)
  <2>1. UNCHANGED <<events, acked, overlooked>>
    BY <1>7 DEF RollForward, durable, history
  <2>2. index.events \subseteq index'.events
    BY <1>1, <1>7 DEF RollForward, InsertRows, TypeOK
  <2> QED
    BY <1>4, <2>1, <2>2
<1>8. CASE AppendLine(b) \/ LineOfFailedAppend(b)
  <2>1. Appending(b) /\ WriteLine(Sealed(b)) /\ UNCHANGED <<index, acked, overlooked>>
    BY <1>8 DEF AppendLine, LineOfFailedAppend, history
  <2>2. Sealed(b) \in Events /\ Sealed(b).seq = Len(events) + 1
    <3>1. Sealed(b) \in Events
      BY <1>1, <2>1, SealedExtends
    <3>2. writer[b].seq = Len(events)
      BY <1>1, <2>1 DEF Appending, Locked, Synced, WithWriter
    <3> QED
      BY <3>1, <3>2 DEF Sealed
  <2>3. events' = Append(events, Sealed(b)) /\ Len(events') = Len(events) + 1
        /\ events'[Len(events')] = Sealed(b)
    <3>1. /\ events' = Append(events, Sealed(b)) /\ Len(events') = Len(events) + 1
          /\ \A i \in DOMAIN events' : events'[i] = IF i = Len(events) + 1 THEN Sealed(b) ELSE events[i]
          /\ DOMAIN events' = 1..(Len(events) + 1)
      BY <1>1, <2>1, LineWritten
    <3>2. Len(events) \in Nat
      BY <1>1 DEF TypeOK
    <3> QED
      BY <3>1, <3>2
  <2>4. Sealed(b) \notin {events[i] : i \in 1..Len(events)}
    <3>1. Len(events) \in Nat /\ \A i \in 1..Len(events) : events[i].seq = i
      BY <1>1 DEF TypeOK, LedgerChain, VerifyChain
    <3> QED
      BY <2>2, <3>1
  <2>5. UNCHANGED <<MaxEventSeq, acked, ~overlooked>>
    BY <2>1 DEF MaxEventSeq
  <2>6. Log!Extend
    BY <2>2, <2>3, <2>4, <2>5 DEF Log!Extend, Log!Prefix
  <2> QED
    BY <2>6 DEF Log!Next
<1>9. CASE IndexRows(b)
  <2>1. /\ UNCHANGED <<events, overlooked>> /\ acked' = acked \cup {op[b].event}
        /\ index'.events = index.events \cup {op[b].event}
    BY <1>1, <1>9 DEF IndexRows, InsertRows, durable, TypeOK
  <2>2. CASE ~overlooked
    <3>1. /\ MaxEventSeq' \in MaxEventSeq..Len(events)
          /\ index'.events = {events[i] : i \in 1..MaxEventSeq'}
      BY <2>1, <2>2, PrefixGrows
    <3>2. Log!Acknowledge(MaxEventSeq')
      BY <2>1, <3>1 DEF Log!Acknowledge, Log!Prefix
    <3> QED
      BY <2>2, <3>1, <3>2 DEF Log!Next
  <2> QED
    BY <1>3, <2>1, <2>2
<1>10. CASE Rebuild(b)
  <2>1. UNCHANGED <<events, acked>>
    BY <1>10 DEF Rebuild, durable
  <2>2. CASE op[b].loaded # NotLoaded
    <3>1. op[b].loaded.events = events
      BY <1>1, <2>2 DEF Synced
    <3>2. index'.events = Lines(events) /\ UNCHANGED overlooked
      BY <1>1, <1>10, <2>2, <3>1 DEF Rebuild, TypeOK
    <3>3. index.events \subseteq index'.events
      BY <1>1, <3>2 DEF Stored, AckedDurable
    <3> QED
      BY <1>4, <2>1, <3>2, <3>3
  <2>3. CASE op[b].loaded = NotLoaded
    <3>1. index' = EmptyIndex /\ overlooked' = (overlooked \/ announced)
      BY <1>10, <2>3 DEF Rebuild
    <3>2. CASE overlooked'
      BY <1>3, <2>1, <3>2
    <3>3. CASE ~overlooked'
      <4>1. index.events = {} /\ index'.events = {}
        BY <3>1, <3>3 DEF ViewInv, Announced, EmptyIndex
      <4>2. UNCHANGED overlooked
        BY <1>1, <3>1, <3>3 DEF TypeOK
      <4> QED
        BY <1>2, <2>1, <4>1, <4>2
    <3> QED
      BY <3>2, <3>3
  <2> QED
    BY <2>2, <2>3
<1> QED
  BY <1>1, <1>5, <1>6, <1>7, <1>8, <1>9, <1>10, StepCases DEF ViewInv

\* Whatever the number of processes, and whatever fails: the ledger is a log
\* that only grows, readers see a growing prefix of it until a reindex overlooks
\* the run, and an acknowledgement is never taken back.
THEOREM StoreImplementsRunLog == Spec => ImplementsRunLog
<1>1. Init => Log!Init
  <2> SUFFICES ASSUME Init PROVE Log!Init
    OBVIOUS
  <2>1. ViewInv /\ Len(events) = 0
    BY ViewInvInit DEF Init
  <2>2. MaxEventSeq = 0
    BY <2>1, ViewPrefixed DEF Init, Prefixed
  <2> QED
    BY <2>2 DEF Init, Log!Init
<1>2. Prefixed /\ Prefixed' /\ ViewInv /\ [Next]_vars => [Log!Next]_(Log!vars)
  <2> SUFFICES ASSUME Prefixed, Prefixed', ViewInv, [Next]_vars
               PROVE  Log!Next \/ UNCHANGED Log!vars
    OBVIOUS
  <2>1. CASE Next
    BY <2>1, StepRefines DEF Next
  <2>2. CASE UNCHANGED vars
    BY <2>2 DEF vars, durable, history, Log!vars, MaxEventSeq
  <2> QED
    BY <2>1, <2>2
<1> QED
  BY <1>1, <1>2, ViewInvariant, ViewPrefixed, PTL DEF Spec, ImplementsRunLog, Log!Spec
=============================================================================
