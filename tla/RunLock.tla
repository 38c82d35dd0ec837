------------------------------- MODULE RunLock -------------------------------
(***************************************************************************)
(* The per-run writer lock of src/storage/lock.ts: one lockfile            *)
(* `.ckpt/lock/<run>.lock` that processes create with link(), remove on    *)
(* release, and reclaim from a crashed holder by renaming it aside.        *)
(*                                                                         *)
(* One step per system call that another process can observe.  The private *)
(* temp file of createLockfile and its directory fsync are invisible to    *)
(* the others and are part of the link step.  A process is a writer with a *)
(* pid of its own; a pid is never reused.                                  *)
(***************************************************************************)
EXTENDS Naturals, FiniteSets

CONSTANTS Procs,        \* processes that may want the lock of this run
          HostMaps,     \* the placements [Procs -> hosts] to consider
          MaxAttempts,  \* rounds of the acquire loop (5 in the code)
          MaxAcquires,  \* bound: acquire() calls (lock tokens) per process
          MaxCrashes    \* bound: processes that may be killed

ASSUME RunLockAssumption ==
  /\ IsFiniteSet(Procs)
  /\ {"none", "unreadable"} \cap Procs = {}
  /\ MaxAttempts \in Nat \ {0}
  /\ MaxAcquires \in Nat
  /\ MaxCrashes \in Nat

VARIABLES host,      \* [Procs -> hosts]: os.hostname() of each process
          lockfile,  \* what `<run>.lock` holds: an owner, Unreadable, or NoFile
          aside,     \* [Procs -> the private `<run>.lock.stale-*` file of a reclaimer]
          pc,        \* [Procs -> where the process is in acquire() or release()]
          seen,      \* [Procs -> the stale owner that readOwner returned]
          attempt,   \* [Procs -> rounds of the acquire loop begun]
          gen        \* [Procs -> acquire() calls made; numbers its random tokens]

vars == <<host, lockfile, aside, pc, seen, attempt, gen>>

-----------------------------------------------------------------------------

\* An owner record {pid, hostname, token}: the pid is the process, the token
\* is fresh for every acquire() call of that process.
Owners == [proc : Procs, token : 1..MaxAcquires]

NoFile == [proc |-> "none", token |-> 0]

\* A lockfile whose JSON is not an owner: parseOwner returns null.
Unreadable == [proc |-> "unreadable", token |-> 0]

Contents == Owners \cup {NoFile, Unreadable}

Locations == {"idle", "create", "read", "rename", "check", "restore", "drop",
              "held", "relread", "relunlink", "dead"}

TypeOK ==
  /\ host \in HostMaps
  /\ lockfile \in Contents
  /\ aside \in [Procs -> Contents]
  /\ pc \in [Procs -> Locations]
  /\ seen \in [Procs -> Contents]
  /\ attempt \in [Procs -> 0..MaxAttempts]
  /\ gen \in [Procs -> 0..MaxAcquires]

\* The owner record of the acquire() call that p is in, or made last.
Owner(p) == [proc |-> p, token |-> gen[p]]

\* The caller of acquire() holds a RunLock that it has not begun to release.
Holds(p) == pc[p] = "held"

Dead == {p \in Procs : pc[p] = "dead"}

\* process.kill(pid, 0) succeeds.
Alive(owner) == owner.proc \notin Dead

\* A reader of the lockfile must treat it as held: its owner is unreadable, on
\* another host, or alive.
MustRespect(p, owner) ==
  owner \in Owners => host[owner.proc] # host[p] \/ Alive(owner)

-----------------------------------------------------------------------------

Init ==
  /\ host \in HostMaps
  /\ lockfile \in {NoFile, Unreadable}
  /\ aside = [p \in Procs |-> NoFile]
  /\ pc = [p \in Procs |-> "idle"]
  /\ seen = [p \in Procs |-> NoFile]
  /\ attempt = [p \in Procs |-> 0]
  /\ gen = [p \in Procs |-> 0]

\* acquire() is called: a fresh token, first round of the loop.
Acquire(p) ==
  /\ pc[p] = "idle"
  /\ gen[p] < MaxAcquires
  /\ gen' = [gen EXCEPT ![p] = @ + 1]
  /\ attempt' = [attempt EXCEPT ![p] = 1]
  /\ pc' = [pc EXCEPT ![p] = "create"]
  /\ UNCHANGED <<host, lockfile, aside, seen>>

\* Mutant: rename() instead of link(), which replaces an existing lockfile.
LinkLockByRename(p) ==
  /\ pc[p] = "create"
  /\ lockfile' = Owner(p)
  /\ pc' = [pc EXCEPT ![p] = "held"]
  /\ UNCHANGED <<host, aside, seen, attempt, gen>>

\* createLockfile: link() succeeds only when there is no lockfile.
LinkLock(p) ==
  /\ pc[p] = "create"
  /\ lockfile = NoFile
  /\ lockfile' = Owner(p)
  /\ pc' = [pc EXCEPT ![p] = "held"]
  /\ UNCHANGED <<host, aside, seen, attempt, gen>>

\* createLockfile: EEXIST, so readOwner is next.
LinkExists(p) ==
  /\ pc[p] = "create"
  /\ lockfile # NoFile
  /\ pc' = [pc EXCEPT ![p] = "read"]
  /\ UNCHANGED <<host, lockfile, aside, seen, attempt, gen>>

\* The next round of the acquire loop, or ERR_RUN_LOCKED ("lock is contended").
NextRound(p) ==
  IF attempt[p] < MaxAttempts
  THEN /\ attempt' = [attempt EXCEPT ![p] = @ + 1]
       /\ pc' = [pc EXCEPT ![p] = "create"]
  ELSE /\ attempt' = [attempt EXCEPT ![p] = 0]
       /\ pc' = [pc EXCEPT ![p] = "idle"]

\* readOwner finds no lockfile: released between our create and our read.
ReadGone(p) ==
  /\ pc[p] = "read"
  /\ lockfile = NoFile
  /\ NextRound(p)
  /\ UNCHANGED <<host, lockfile, aside, seen, gen>>

\* Mutant: a held lock is waited for instead of refused.
ReadHeldWaits(p) ==
  /\ pc[p] = "read"
  /\ lockfile # NoFile
  /\ MustRespect(p, lockfile)
  /\ pc' = [pc EXCEPT ![p] = "create"]
  /\ UNCHANGED <<host, lockfile, aside, seen, attempt, gen>>

\* readOwner finds a holder that must be respected: ERR_RUN_LOCKED.
ReadHeld(p) ==
  /\ pc[p] = "read"
  /\ lockfile # NoFile
  /\ MustRespect(p, lockfile)
  /\ pc' = [pc EXCEPT ![p] = "idle"]
  /\ attempt' = [attempt EXCEPT ![p] = 0]
  /\ UNCHANGED <<host, lockfile, aside, seen, gen>>

\* readOwner finds a holder that crashed on this host: reclaimStale(holder).
ReadStale(p) ==
  /\ pc[p] = "read"
  /\ lockfile # NoFile
  /\ ~MustRespect(p, lockfile)
  /\ seen' = [seen EXCEPT ![p] = lockfile]
  /\ pc' = [pc EXCEPT ![p] = "rename"]
  /\ UNCHANGED <<host, lockfile, aside, attempt, gen>>

\* reclaimStale: rename the lockfile aside, whatever it holds by now.  ENOENT
\* means that another process reclaimed it: reclaimStale returns.
RenameAside(p) ==
  /\ pc[p] = "rename"
  /\ IF lockfile = NoFile
     THEN NextRound(p) /\ UNCHANGED <<lockfile, aside>>
     ELSE /\ aside' = [aside EXCEPT ![p] = lockfile]
          /\ lockfile' = NoFile
          /\ pc' = [pc EXCEPT ![p] = "check"]
          /\ UNCHANGED attempt
  /\ UNCHANGED <<host, seen, gen>>

\* Mutant: the comparison of the tokens is inverted.
CheckMovedInverted(p) ==
  /\ pc[p] = "check"
  /\ pc' = [pc EXCEPT ![p] = IF aside[p] # seen[p] THEN "drop" ELSE "restore"]
  /\ UNCHANGED <<host, lockfile, aside, seen, attempt, gen>>

\* reclaimStale: is the moved file the stale one we saw?
CheckMoved(p) ==
  /\ pc[p] = "check"
  /\ pc' = [pc EXCEPT ![p] = IF aside[p] = seen[p] THEN "drop" ELSE "restore"]
  /\ UNCHANGED <<host, lockfile, aside, seen, attempt, gen>>

\* reclaimStale: link the moved file back unless a lockfile exists (EEXIST).
RestoreMoved(p) ==
  /\ pc[p] = "restore"
  /\ lockfile' = IF lockfile = NoFile THEN aside[p] ELSE lockfile
  /\ pc' = [pc EXCEPT ![p] = "drop"]
  /\ UNCHANGED <<host, aside, seen, attempt, gen>>

\* reclaimStale: unlink the moved file; then the next round.
DropMoved(p) ==
  /\ pc[p] = "drop"
  /\ aside' = [aside EXCEPT ![p] = NoFile]
  /\ seen' = [seen EXCEPT ![p] = NoFile]
  /\ NextRound(p)
  /\ UNCHANGED <<host, lockfile, gen>>

\* release(): #released is set, so the holder writes no more.
Release(p) ==
  /\ pc[p] = "held"
  /\ pc' = [pc EXCEPT ![p] = "relread"]
  /\ attempt' = [attempt EXCEPT ![p] = 0]
  /\ UNCHANGED <<host, lockfile, aside, seen, gen>>

\* release(): readOwner; the file is unlinked only when it carries our token.
ReleaseRead(p) ==
  /\ pc[p] = "relread"
  /\ pc' = [pc EXCEPT ![p] = IF lockfile = Owner(p) THEN "relunlink" ELSE "idle"]
  /\ UNCHANGED <<host, lockfile, aside, seen, attempt, gen>>

\* release(): unlink the path, whatever it holds by now (ENOENT is ignored).
ReleaseUnlink(p) ==
  /\ pc[p] = "relunlink"
  /\ lockfile' = NoFile
  /\ pc' = [pc EXCEPT ![p] = "idle"]
  /\ UNCHANGED <<host, aside, seen, attempt, gen>>

\* The process is killed at any point; its files stay as they are.
Crash(p) ==
  /\ pc[p] # "dead"
  /\ Cardinality(Dead) < MaxCrashes
  /\ pc' = [pc EXCEPT ![p] = "dead"]
  /\ UNCHANGED <<host, lockfile, aside, seen, attempt, gen>>

\* What a process does by itself once acquire() or release() was called.
Progress(p) ==
  \/ LinkLock(p) \/ LinkExists(p)
  \/ ReadGone(p) \/ ReadHeld(p) \/ ReadStale(p)
  \/ RenameAside(p) \/ CheckMoved(p) \/ RestoreMoved(p) \/ DropMoved(p)
  \/ ReleaseRead(p) \/ ReleaseUnlink(p)

Step(p) == Acquire(p) \/ Release(p) \/ Crash(p) \/ Progress(p)

Next == \E p \in Procs : Step(p)

Spec == Init /\ [][Next]_vars

\* The operating system schedules every live process.  Nothing obliges a
\* caller to call acquire() or release(), nor a process to crash.
Fairness == \A p \in Procs : WF_vars(Progress(p))

FairSpec == Spec /\ Fairness

-----------------------------------------------------------------------------
(* Properties *)

\* "Single writer per run": at most one process holds an unreleased lock.
MutualExclusion == \A p, q \in Procs : Holds(p) /\ Holds(q) => p = q

\* A live process whose token is in the lockfile is the holder, or is about to
\* remove the file: a released lock does not come back and block the run for
\* as long as the process lives.
NoGhostLock ==
  \A p \in Procs :
    lockfile.proc = p /\ pc[p] # "dead"
      => lockfile = Owner(p) /\ pc[p] \in {"held", "relread", "relunlink"}

\* As long as no process has died nobody reclaims, and both hold.
SafeUntilCrash == Dead = {} => MutualExclusion /\ NoGhostLock

\* Until a process dies, the lockfile of a holder stays where it is: an
\* acquire() that finds it, however often, leaves it alone.
HeldFileStays ==
  [][\A p \in Procs :
       Dead' = {} /\ Holds(p) /\ lockfile = Owner(p) => lockfile' = Owner(p)]_vars

\* Every acquire() and release() ends, held or refused, however the lock is
\* contended: there is no waiting on another process.
CallsTerminate ==
  \A p \in Procs : (pc[p] # "idle") ~> (pc[p] \in {"idle", "held", "dead"})

\* A lock left by a process that died does not block the run for ever: on the
\* same host, an acquire() that nobody contends finds it stale and gets it.
StaleLockRecovered ==
  \A p \in Procs :
    (/\ pc[p] = "create"
     /\ attempt[p] = 1
     /\ lockfile # NoFile
     /\ ~MustRespect(p, lockfile)
     /\ Procs \ {p} \subseteq Dead)
      ~> (pc[p] = "dead" \/ lockfile = Owner(p))
=============================================================================
