---------------------------- MODULE RunLockProofs ----------------------------
(***************************************************************************)
(* What the lock guarantees for every number of processes, of hosts and of  *)
(* calls.  As long as no process has died nobody reclaims, the file at the  *)
(* lock path belongs to the holder, and it stays there.  Afterwards one     *)
(* process at most holds the lock if two at most are left.                  *)
(***************************************************************************)
EXTENDS RunLock, FiniteSetTheorems, TLAPS

\* The locations in which a process owns the file at the lock path.
Owning == {"held", "relread", "relunlink"}

\* The locations of reclaimStale.
Reclaiming == {"rename", "check", "restore", "drop"}

\* The part of the inductive invariant about the lock: no reclaim is under way, and owning the file and
\* being named by it are the same thing.
LockInv ==
  Dead = {} =>
    /\ \A p \in Procs : pc[p] \notin Reclaiming
    /\ \A p \in Procs : pc[p] \in Owning <=> lockfile.proc = p
    /\ \A p \in Procs : lockfile.proc = p => lockfile = Owner(p)

\* Whoever is in a call has drawn a token for it.
TokenDrawn == \A p \in Procs : pc[p] \notin {"idle", "dead"} => gen[p] \in 1..MaxAcquires

TypeInv == TypeOK /\ TokenDrawn

-----------------------------------------------------------------------------

\* A dead process stays dead: it takes no step.
LEMMA DeadStays ==
  ASSUME [Next]_vars, TypeOK, Dead' = {}
  PROVE  Dead = {}
<1>1. CASE Next
  <2>1. PICK p \in Procs : Step(p)
    BY <1>1 DEF Next
  <2>2. pc[p] # "dead" /\ \E l \in Locations : pc' = [pc EXCEPT ![p] = l]
    BY <2>1 DEF Step, Progress, TypeOK, Locations, Acquire, Release, Crash, LinkLock,
       LinkExists, ReadGone, ReadHeld, ReadStale, RenameAside, CheckMoved, RestoreMoved,
       DropMoved, ReleaseRead, ReleaseUnlink, NextRound
  <2> QED
    BY <2>2 DEF Dead, TypeOK
<1>2. CASE UNCHANGED vars
  BY <1>2 DEF vars, Dead
<1> QED
  BY <1>1, <1>2

\* The type invariant, with the tokens.
LEMMA TypeStep ==
  ASSUME TypeInv, [Next]_vars
  PROVE  TypeInv'
<1> USE RunLockAssumption DEF TypeInv, TypeOK, TokenDrawn, Contents, Owners, Locations,
        NoFile, Owner
<1>1. CASE Next
  <2>1. PICK p \in Procs : Step(p)
    BY <1>1 DEF Next
  <2>2. CASE Acquire(p)
    BY <2>2 DEF Acquire
  <2>3. CASE LinkLock(p)
    BY <2>3 DEF LinkLock
  <2>4. CASE LinkExists(p)
    BY <2>4 DEF LinkExists
  <2>5. CASE ReadGone(p)
    BY <2>5 DEF ReadGone, NextRound
  <2>6. CASE ReadHeld(p)
    BY <2>6 DEF ReadHeld
  <2>7. CASE ReadStale(p)
    BY <2>7 DEF ReadStale
  <2>8. CASE RenameAside(p)
    BY <2>8 DEF RenameAside, NextRound
  <2>9. CASE CheckMoved(p)
    BY <2>9 DEF CheckMoved
  <2>10. CASE RestoreMoved(p)
    BY <2>10 DEF RestoreMoved
  <2>11. CASE DropMoved(p)
    BY <2>11 DEF DropMoved, NextRound
  <2>12. CASE Release(p)
    BY <2>12 DEF Release
  <2>13. CASE ReleaseRead(p)
    BY <2>13 DEF ReleaseRead
  <2>14. CASE ReleaseUnlink(p)
    BY <2>14 DEF ReleaseUnlink
  <2>15. CASE Crash(p)
    BY <2>15 DEF Crash
  <2> QED
    BY <2>1, <2>2, <2>3, <2>4, <2>5, <2>6, <2>7, <2>8, <2>9, <2>10, <2>11, <2>12, <2>13,
       <2>14, <2>15 DEF Step, Progress
<1>2. CASE UNCHANGED vars
  BY <1>2 DEF vars
<1> QED
  BY <1>1, <1>2

\* Initially nobody is in a call.
LEMMA TypeInit == Init => TypeInv
BY RunLockAssumption DEF Init, TypeInv, TypeOK, TokenDrawn, Contents, Owners, Locations,
   NoFile

\* TypeOK: every variable keeps its type, however many calls and crashes.
THEOREM TypeCorrect == Spec => []TypeOK
<1>1. TypeInv => TypeOK
  BY DEF TypeInv
<1> QED
  BY TypeInit, TypeStep, <1>1, PTL DEF Spec

-----------------------------------------------------------------------------

\* Initially nobody owns the file.
LEMMA LockInit == Init => LockInv
BY RunLockAssumption DEF Init, LockInv, Owning, Reclaiming, NoFile, Unreadable

\* The core: as long as nobody is dead every holder found must be respected, so
\* nobody reclaims, and the file changes hands only by link() and unlink().
LEMMA LockStep ==
  ASSUME TypeInv, LockInv, [Next]_vars
  PROVE  LockInv'
<1> SUFFICES ASSUME Dead' = {} PROVE LockInv'
  BY DEF LockInv
<1> USE RunLockAssumption DEF LockInv, TypeInv, TypeOK, Owning, Reclaiming, Owner
<1>1. Dead = {}
  BY DeadStays
<1>2. CASE Next
  <2>1. PICK p \in Procs : Step(p)
    BY <1>2 DEF Next
  <2>2. CASE Acquire(p)
    BY <1>1, <2>2 DEF Acquire
  <2>3. CASE LinkLock(p)
    BY <1>1, <2>3 DEF LinkLock, NoFile
  <2>4. CASE LinkExists(p) \/ ReadHeld(p) \/ Release(p)
    BY <1>1, <2>4 DEF LinkExists, ReadHeld, Release
  <2>5. CASE ReadGone(p)
    BY <1>1, <2>5 DEF ReadGone, NextRound
  <2>6. CASE ReadStale(p)
    <3>1. Alive(lockfile)
      BY <1>1 DEF Alive
    <3> QED
      BY <3>1, <2>6 DEF ReadStale, MustRespect
  <2>7. CASE RenameAside(p) \/ CheckMoved(p) \/ RestoreMoved(p) \/ DropMoved(p)
    BY <1>1, <2>7 DEF RenameAside, CheckMoved, RestoreMoved, DropMoved
  <2>8. CASE ReleaseRead(p)
    BY <1>1, <2>8 DEF ReleaseRead
  <2>9. CASE ReleaseUnlink(p)
    BY <1>1, <2>9 DEF ReleaseUnlink, NoFile
  <2>10. CASE Crash(p)
    BY <2>10 DEF Crash, Dead
  <2> QED
    BY <2>1, <2>2, <2>3, <2>4, <2>5, <2>6, <2>7, <2>8, <2>9, <2>10 DEF Step, Progress
<1>3. CASE UNCHANGED vars
  BY <1>1, <1>3 DEF vars
<1> QED
  BY <1>2, <1>3

\* SafeUntilCrash: until a process dies there is one holder at most, and no file
\* of a released lock at the lock path, for any number of processes and calls.
THEOREM SafeBeforeCrash == Spec => []SafeUntilCrash
<1>1. LockInv => SafeUntilCrash
  BY DEF LockInv, SafeUntilCrash, MutualExclusion, NoGhostLock, Holds, Owning
<1> QED
  BY TypeInit, TypeStep, LockInit, LockStep, <1>1, PTL DEF Spec

\* HeldFileStays: until a process dies, no step moves or replaces the file of a
\* holder.
THEOREM HeldFileSafe == Spec => HeldFileStays
<1> DEFINE Stays == \A p \in Procs :
      Dead' = {} /\ Holds(p) /\ lockfile = Owner(p) => lockfile' = Owner(p)
<1>1. TypeInv /\ LockInv /\ [Next]_vars => Stays
  <2> SUFFICES ASSUME TypeInv, LockInv, [Next]_vars,
                      NEW p \in Procs, Dead' = {}, Holds(p), lockfile = Owner(p)
               PROVE  lockfile' = Owner(p)
    OBVIOUS
  <2>1. Dead = {}
    BY DeadStays DEF TypeInv
  <2>2. CASE Next
    <3>1. PICK q \in Procs : Step(q)
      BY <2>2 DEF Next
    <3> USE RunLockAssumption DEF LockInv, Owning, Reclaiming, Owner, Holds
    <3>2. CASE LinkLock(q)
      BY <2>1, <3>2 DEF LinkLock, NoFile
    <3>3. CASE RenameAside(q) \/ RestoreMoved(q)
      BY <2>1, <3>3 DEF RenameAside, RestoreMoved
    <3>4. CASE ReleaseUnlink(q)
      BY <2>1, <3>4 DEF ReleaseUnlink
    <3> QED
      BY <3>1, <3>2, <3>3, <3>4 DEF Step, Progress, Acquire, Release, Crash, LinkExists,
         ReadGone, ReadHeld, ReadStale, CheckMoved, DropMoved, ReleaseRead
  <2>3. CASE UNCHANGED vars
    BY <2>3 DEF vars
  <2> QED
    BY <2>2, <2>3
<1>2. Stays => [Stays]_vars
  OBVIOUS
<1> QED
  BY TypeInit, TypeStep, LockInit, LockStep, <1>1, PTL DEF Spec, HeldFileStays

-----------------------------------------------------------------------------
(* After a death processes reclaim, and what they do wrong needs one process  *)
(* more: as long as, once a process has died, no more than two are alive,     *)
(* there is one holder.                                                       *)

TwoAlive == Dead # {} => \A p, q, r \in Procs \ Dead : p = q \/ q = r \/ p = r

\* What a reclaimer has seen is the lock of a process that died.
SeenDead == \A p \in Procs : pc[p] \in Reclaiming => seen[p].proc \in Dead

\* q has moved the file of p aside, and is going to link it back.
Displaces(q, p) == pc[q] \in {"check", "restore"} /\ aside[q] = Owner(p)

\* The file at the lock path is the holder's, or nobody but who holds it aside
\* could take the path.
Claimed(p) ==
  \/ lockfile = Owner(p)
  \/ lockfile = NoFile /\ \A q \in Procs \ {p} : pc[q] = "dead" \/ Displaces(q, p)

\* So for a holder, and for one that is about to unlink its file.
HolderClaims == \A p \in Procs : pc[p] \in {"held", "relunlink"} => Claimed(p)

\* The owner of a file is a process, and no file has none.
LEMMA OwnerFacts ==
  ASSUME TypeInv, NEW p \in Procs
  PROVE  /\ Owner(p).proc = p /\ Owner(p) # NoFile
         /\ \A q \in Procs : Owner(p) = Owner(q) => p = q
BY RunLockAssumption DEF Owner, NoFile

\* Whoever died stays dead, and whoever is seen stale had died.
LEMMA SeenDeadStep ==
  ASSUME TypeInv, SeenDead, [Next]_vars
  PROVE  SeenDead' /\ Dead \subseteq Dead'
<1> USE DEF TypeInv, TypeOK, SeenDead, Reclaiming, Dead
<1>1. CASE Next
  <2>1. PICK p \in Procs : Step(p)
    BY <1>1 DEF Next
  <2>2. CASE ReadStale(p)
    <3>1. lockfile.proc \in Dead
      BY <2>2 DEF ReadStale, MustRespect, Alive, Owners
    <3> QED
      BY <2>2, <3>1 DEF ReadStale
  <2>3. CASE RenameAside(p) \/ CheckMoved(p) \/ RestoreMoved(p)
    BY <2>3 DEF RenameAside, CheckMoved, RestoreMoved, NextRound
  <2>4. CASE Acquire(p) \/ LinkLock(p) \/ LinkExists(p) \/ ReadHeld(p) \/ Release(p) \/ ReleaseRead(p)
             \/ ReleaseUnlink(p) \/ Crash(p)
    BY <2>4 DEF Acquire, LinkLock, LinkExists, ReadHeld, Release, ReleaseRead, ReleaseUnlink, Crash
  <2>5. CASE ReadGone(p) \/ DropMoved(p)
    BY <2>5 DEF ReadGone, DropMoved, NextRound
  <2> QED
    BY <2>1, <2>2, <2>3, <2>4, <2>5 DEF Step, Progress
<1>2. CASE UNCHANGED vars
  BY <1>2 DEF vars
<1> QED
  BY <1>1, <1>2

\* The path is taken, moved or freed by the one process that can.
LEMMA HolderClaimsStep ==
  ASSUME TypeInv, SeenDead, TwoAlive, HolderClaims, [Next]_vars
  PROVE  HolderClaims'
<1>1. CASE UNCHANGED vars
  BY <1>1 DEF vars, HolderClaims, Claimed, Displaces, Owner
<1>2. ASSUME NEW p \in Procs, Step(p) PROVE HolderClaims'
  <2> SUFFICES ASSUME NEW h \in Procs, pc'[h] \in {"held", "relunlink"} PROVE Claimed(h)'
    BY DEF HolderClaims
  <2> USE DEF TypeInv, TypeOK
  <2>1. CASE pc'[h] # pc[h]
    <3>1. p = h /\ (LinkLock(h) \/ ReleaseRead(h))
      BY <1>2, <2>1 DEF Step, Progress, Acquire, LinkLock, LinkExists, ReadGone, ReadHeld, ReadStale, RenameAside,
         CheckMoved, RestoreMoved, DropMoved, Release, ReleaseRead, ReleaseUnlink, Crash, NextRound
    <3> QED
      BY <2>1, <3>1 DEF LinkLock, ReleaseRead, Claimed, Owner
  <2> SUFFICES ASSUME pc'[h] = pc[h] PROVE Claimed(h)'
    BY <2>1
  <2>2. pc[h] \in {"held", "relunlink"} /\ Claimed(h)
    BY DEF HolderClaims
  <2>3. p # h
    BY <1>2, <2>2 DEF Step, Progress, Acquire, LinkLock, LinkExists, ReadGone, ReadHeld, ReadStale, RenameAside,
       CheckMoved, RestoreMoved, DropMoved, Release, ReleaseRead, ReleaseUnlink, Crash, NextRound
  <2>4. gen'[h] = gen[h] /\ Owner(h)' = Owner(h)
    BY <1>2, <2>3 DEF Step, Progress, Acquire, LinkLock, LinkExists, ReadGone, ReadHeld, ReadStale, RenameAside,
       CheckMoved, RestoreMoved, DropMoved, Release, ReleaseRead, ReleaseUnlink, Crash, NextRound, Owner
  <2>5. /\ Owner(h).proc = h /\ Owner(h) # NoFile
        /\ \A q \in Procs : Owner(h) = Owner(q) => h = q
    BY OwnerFacts
  <2>6. CASE lockfile = Owner(h)
    <3>1. CASE RenameAside(p)
      <4>1. Procs \ Dead \subseteq {p, h}
        <5>1. Dead # {} /\ p \in Procs \ Dead /\ h \in Procs \ Dead
          BY <2>2, <3>1 DEF RenameAside, SeenDead, Reclaiming, Dead
        <5> QED
          BY <2>3, <5>1 DEF TwoAlive
      <4>2. pc'[p] = "check" /\ aside'[p] = Owner(h) /\ lockfile' = NoFile
        BY <2>5, <2>6, <3>1 DEF RenameAside
      <4>3. \A q \in Procs \ {p, h} : pc'[q] = "dead"
        BY <2>5, <2>6, <3>1, <4>1 DEF RenameAside, Dead
      <4> QED
        BY <2>4, <4>2, <4>3 DEF Claimed, Displaces
    <3>2. CASE ReleaseUnlink(p)
      <4>1. Claimed(p)
        BY <3>2 DEF ReleaseUnlink, HolderClaims
      <4> QED
        BY <2>2, <2>3, <2>5, <2>6, <4>1 DEF Claimed
    <3>3. CASE lockfile' = lockfile
      BY <2>4, <2>6, <3>3 DEF Claimed
    <3> QED
      BY <1>2, <2>5, <2>6, <3>1, <3>2, <3>3 DEF Step, Progress, Acquire, LinkLock, LinkExists, ReadGone, ReadHeld,
         ReadStale, CheckMoved, RestoreMoved, DropMoved, Release, ReleaseRead, Crash
  <2>7. CASE lockfile = NoFile /\ \A q \in Procs \ {h} : pc[q] = "dead" \/ Displaces(q, h)
    <3>1. Displaces(p, h)
      BY <1>2, <2>3, <2>7 DEF Step, Progress, Acquire, LinkLock, LinkExists, ReadGone, ReadHeld, ReadStale,
         RenameAside, CheckMoved, RestoreMoved, DropMoved, Release, ReleaseRead, ReleaseUnlink, Crash
    <3>2. CASE CheckMoved(p)
      <4>1. seen[p].proc # h
        BY <2>2, <3>1 DEF SeenDead, Reclaiming, Displaces, Dead
      <4>2. pc'[p] = "restore" /\ aside' = aside /\ lockfile' = lockfile
        BY <2>5, <3>1, <3>2, <4>1 DEF CheckMoved, Displaces
      <4>3. \A q \in Procs \ {p} : pc'[q] = pc[q]
        BY <3>2 DEF CheckMoved
      <4> QED
        BY <2>4, <2>7, <3>1, <4>2, <4>3 DEF Claimed, Displaces
    <3>3. CASE RestoreMoved(p)
      BY <2>4, <2>7, <3>1, <3>3 DEF RestoreMoved, Claimed, Displaces
    <3>4. CASE Crash(p)
      <4>1. pc'[p] = "dead" /\ aside' = aside /\ lockfile' = lockfile /\ \A q \in Procs \ {p} : pc'[q] = pc[q]
        BY <3>4 DEF Crash
      <4> QED
        BY <2>4, <2>7, <4>1 DEF Claimed, Displaces
    <3> QED
      BY <1>2, <3>1, <3>2, <3>3, <3>4 DEF Displaces, Step, Progress, Acquire, LinkLock, LinkExists, ReadGone,
         ReadHeld, ReadStale, RenameAside, DropMoved, Release, ReleaseRead, ReleaseUnlink
  <2> QED
    BY <2>2, <2>6, <2>7 DEF Claimed
<1> QED
  BY <1>1, <1>2 DEF Next

\* "Single writer per run" (lock.ts:2) holds after deaths too, on any hosts and
\* for any number of calls, as long as two processes at most are left.
THEOREM ExclusionOfTwo == Spec /\ []TwoAlive => []MutualExclusion
<1>1. Init => SeenDead /\ HolderClaims
  BY DEF Init, SeenDead, HolderClaims, Reclaiming
<1>2. TypeInv /\ HolderClaims => MutualExclusion
  <2> SUFFICES ASSUME TypeInv, HolderClaims, NEW p \in Procs, NEW q \in Procs, Holds(p), Holds(q), p # q
               PROVE  FALSE
    BY DEF MutualExclusion
  <2>1. Claimed(p) /\ Claimed(q)
    BY DEF Holds, HolderClaims
  <2>2. Owner(p) # Owner(q)
    BY OwnerFacts
  <2>3. ~Displaces(q, p) /\ ~Displaces(p, q) /\ pc[p] # "dead" /\ pc[q] # "dead"
    BY DEF Holds, Displaces
  <2> QED
    BY <2>1, <2>2, <2>3 DEF Claimed
<1> QED
  BY TypeInit, TypeStep, SeenDeadStep, HolderClaimsStep, <1>1, <1>2, PTL DEF Spec

\* So three processes never break it, however they race to reclaim a dead one's
\* lock; with a fourth it breaks.
THEOREM ExclusionOfThree == Cardinality(Procs) <= 3 => (Spec => []MutualExclusion)
<1> SUFFICES ASSUME Cardinality(Procs) <= 3 PROVE Spec => []MutualExclusion
  OBVIOUS
<1>1. TwoAlive
  <2> SUFFICES ASSUME NEW d \in Dead, NEW p \in Procs \ Dead, NEW q \in Procs \ Dead, NEW r \in Procs \ Dead,
                      p # q, q # r, p # r
               PROVE  FALSE
    BY DEF TwoAlive
  <2>1. /\ Cardinality({p}) = 1 /\ IsFiniteSet({p})
        /\ q \notin {p}
    BY FS_Singleton
  <2>2. PICK two : two = {p} \cup {q}
    OBVIOUS
  <2>3. Cardinality(two) = 2 /\ IsFiniteSet(two)
    BY <2>1, <2>2, FS_AddElement
  <2>4. PICK three : three = two \cup {r}
    OBVIOUS
  <2>5. r \notin two
    BY <2>2
  <2>6. Cardinality(three) = 3 /\ IsFiniteSet(three)
    BY <2>3, <2>4, <2>5, FS_AddElement
  <2>7. PICK four : four = three \cup {d}
    OBVIOUS
  <2>8. d \notin three
    BY <2>2, <2>4
  <2>9. Cardinality(four) = 4
    BY <2>6, <2>7, <2>8, FS_AddElement
  <2>10. four \subseteq Procs
    BY <2>2, <2>4, <2>7 DEF Dead
  <2>11. Cardinality(four) <= Cardinality(Procs) /\ Cardinality(Procs) \in Nat
    BY <2>10, RunLockAssumption, FS_Subset, FS_CardinalityType
  <2> QED
    BY <2>9, <2>11
<1> QED
  BY <1>1, ExclusionOfTwo, PTL
=============================================================================
