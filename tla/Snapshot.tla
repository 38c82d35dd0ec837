------------------------------ MODULE Snapshot ------------------------------
(***************************************************************************)
(* How a checkpoint gets the files of a workspace: buildSnapshot             *)
(* (src/engine/snapshot.ts) with its stat cache, the commit that storage     *)
(* makes of the staged delta (src/storage/git.ts), the restore of a commit    *)
(* into the execution worktree (src/engine/git.ts), and ChangeDetector        *)
(* (src/storage/change-detection.ts), which trusts stats in the same way.     *)
(*                                                                           *)
(* An agent writes the workspace at any time, also between the stat of a     *)
(* file and its reading.  Timestamps are those of a coarse file system.       *)
(* Content is all of a file that matters: its size, what Redaction makes of   *)
(* it, and what a checkout may write for it: blobs are hashed without filters, *)
(* but checked out with the line endings, `ident` and filters of the user's    *)
(* attributes and configuration.  Nobody sets an mtime by hand.               *)
(***************************************************************************)
EXTENDS Naturals, Sequences, FiniteSets, SequencesExt, FiniteSetsExt

CONSTANTS Order,         \* the paths, in the order of a walk
          Above,         \* [paths -> the paths of its proper directories]
          Excluded,      \* paths that isExcludedPath or the caller's filter leaves out
          Preserved,     \* paths that `git clean -e` keeps
          Contents, Gone,
          Size,          \* [Contents -> Nat]
          Sanitized,     \* [Contents -> Contents \cup {Skip}]: what redactContent returns
          Skip,          \* a secret in a file that is not text
          CheckedOut,    \* [Contents -> SUBSET Contents]: what a checkout may write for a blob
          MaxFileBytes,
          Modes, Inodes,
          Workspaces,    \* what the workspace may hold at first: [Paths -> file]
          Elsewhere,     \* files outside the workspace
          Granularity,   \* of the file system's timestamps
          RacyWindow,    \* RACY_WINDOW_NS
          MaxTime,       \* bound: ticks of the clock
          MaxWrites,     \* bound: writes of the agent
          MaxPasses      \* bound: snapshots, detections and restores

Paths == ToSet(Order)
Absent == [text |-> Gone, mode |-> "none", mtime |-> 0, ino |-> 0]

ASSUME PathsAssumption ==
  /\ Order \in Seq(Paths)
  \* A walk comes to a directory before it comes to what is in it.
  /\ \A i, j \in DOMAIN Order : Order[i] \in Above[Order[j]] => i < j
  /\ \A p \in Paths : Above[p] \subseteq Paths
  /\ Excluded \subseteq Paths /\ Excluded # Paths /\ Preserved \subseteq Excluded

ASSUME ContentsAssumption ==
  /\ Gone \notin Contents /\ Skip \notin Contents
  /\ Size \in [Contents -> Nat] /\ MaxFileBytes \in Nat
  /\ Sanitized \in [Contents -> Contents \cup {Skip}]
  /\ CheckedOut \in [Contents -> (SUBSET Contents) \ {{}}]
  /\ Granularity \in Nat \ {0} /\ RacyWindow \in Nat /\ RacyWindow >= Granularity

ASSUME FilesAssumption ==
  /\ "100644" \in Modes
  /\ \A w \in Workspaces : w \in [Paths -> [text : Contents, mode : Modes, mtime : Nat, ino : Inodes] \cup {Absent}]
  \* A file elsewhere has an inode of its own.
  /\ \A f \in Elsewhere :
       /\ f \in [text : Contents, mode : Modes, mtime : Nat, ino : {f.ino}]
       /\ f.ino \notin Inodes /\ \A g \in Elsewhere : g.ino = f.ino => g = f

VARIABLES files,      \* the run's workspace: [Paths -> [text, mode, mtime, ino]]
          outside,    \* files that may be moved into it
          dir,        \* "repo", or "execution" once the run was restored
          now,
          commits,    \* trees of the checkpoint commits: [path -> [mode, oid]]
          current,    \* the commit that the next checkpoint builds on, 0 for none
          cache,      \* SnapshotCache: [base, files], base 0 for none
          detected,   \* file_cache of checkpoint.db: [path -> entry]
          pc, job,    \* the pass that is going on
          had,        \* what each path held during the pass
          restored,   \* the commit that the workspace still is as restored from, or 0
          writes, passes

vars == <<files, outside, dir, now, commits, current, cache, detected, pc, job, had, restored,
          writes, passes>>

Present(p) == files[p].text # Gone
Seen(f) == [text |-> f.text, mode |-> f.mode]
NoCache == [base |-> 0, files |-> <<>>]
NoJob == [at |-> 0, listed |-> <<>>, stamp |-> 0, text |-> Gone, files |-> <<>>,
          written |-> {}, skipped |-> {}]
Nothing == [p \in Paths |-> {}]

With(f, p, v) == [q \in DOMAIN f \cup {p} |-> IF q = p THEN v ELSE f[q]]

Below(p) == {q \in Paths : p \in Above[q]}

\* The timestamp of a write at the current time.
Coarse == now - (now % Granularity)

Init ==
  /\ files \in Workspaces
  /\ outside = Elsewhere
  /\ dir = "repo" /\ now = 0
  /\ commits = <<>> /\ current = 0
  /\ cache = NoCache /\ detected = <<>>
  /\ pc = "idle" /\ job = NoJob /\ had = Nothing /\ restored = 0
  /\ writes = 0 /\ passes = 0

-----------------------------------------------------------------------------
(* The agent and the clock.                                                  *)

Tick ==
  /\ now < MaxTime
  /\ now' = now + 1
  /\ UNCHANGED <<files, outside, dir, commits, current, cache, detected, pc, job, had, restored, writes, passes>>

Writes(p, f) ==
  /\ writes < MaxWrites
  /\ writes' = writes + 1
  /\ files' = [files EXCEPT ![p] = f]
  /\ had' = IF pc = "idle" THEN had ELSE [had EXCEPT ![p] = @ \cup {Seen(f)}]
  /\ restored' = IF p \in Excluded THEN restored ELSE 0
  /\ UNCHANGED <<dir, now, commits, current, cache, detected, pc, job, passes>>

Taken == {files[p].ino : p \in {p \in Paths : Present(p)}}

NewFile(p, mode) ==
  \E c \in Contents, i \in Inodes \ Taken :
    /\ Writes(p, [text |-> c, mode |-> mode, mtime |-> Coarse, ino |-> i])
    /\ UNCHANGED outside

\* A file where there is none, and no file above or below it; its inode may be
\* that of a file that is gone.
Create(p) ==
  ~Present(p) /\ (\A q \in Above[p] \cup Below(p) : ~Present(q)) /\ NewFile(p, "100644")
\* New content in place, or in a new file that is renamed to p.
Rewrite(p) ==
  /\ Present(p)
  /\ \/ /\ \E c \in Contents \ {files[p].text} : Writes(p, [files[p] EXCEPT !.text = c, !.mtime = Coarse])
        /\ UNCHANGED outside
     \/ NewFile(p, files[p].mode)
\* A file that may be older than a hash of p is renamed to p.
Move(p) ==
  /\ Present(p)
  /\ \E f \in outside : Writes(p, f) /\ outside' = outside \ {f}
Chmod(p) ==
  /\ Present(p)
  /\ \E m \in Modes \ {files[p].mode} : Writes(p, [files[p] EXCEPT !.mode = m])
  /\ UNCHANGED outside
Delete(p) == Present(p) /\ Writes(p, Absent) /\ UNCHANGED outside

Agent == \E p \in Paths : Create(p) \/ Rewrite(p) \/ Move(p) \/ Chmod(p) \/ Delete(p)

-----------------------------------------------------------------------------
(* buildSnapshot: the walk, then per file the stat cache or reading it.      *)

\* The places in a walk that are not passed over, and the first of some.
Walked == {i \in DOMAIN Order : Order[i] \notin Excluded}
First(places) == CHOOSE i \in places : \A j \in places : i <= j

\* A pass begins at a step.
Begin(step) ==
  /\ pc = "idle" /\ passes < MaxPasses
  /\ passes' = passes + 1
  /\ pc' = step /\ job' = [NoJob EXCEPT !.at = First(Walked)]
  /\ had' = [p \in Paths |-> {Seen(files[p])}]

End == pc' = "idle" /\ job' = NoJob /\ had' = Nothing

Checkpoint ==
  /\ Begin("walk")
  /\ UNCHANGED <<files, outside, dir, now, commits, current, cache, detected, restored, writes>>

\* The next file of a loop, or the step after the last one.
NextFile(j, loop, then) ==
  LET later == {i \in Walked : i > job.at}
  IN  IF later # {} THEN job' = [j EXCEPT !.at = First(later)] /\ pc' = loop
      ELSE job' = [j EXCEPT !.at = First(Walked)] /\ pc' = then

StatOf(p) == [mode |-> files[p].mode, size |-> Size[files[p].text],
              mtime |-> files[p].mtime, ino |-> files[p].ino]

\* listWorkspace at one name: lstat.  A file that appeared after its directory
\* was read is not in the list, nor one below what was a file.
List ==
  LET p == Order[job.at]
      large == [job EXCEPT !.skipped = @ \cup {[path |-> p, reason |-> "too_large"]}]
      WasFile(q) == q \in DOMAIN job.listed \cup {skipped.path : skipped \in job.skipped}
  IN  /\ pc = "walk"
      /\ \/ /\ Present(p) /\ \A q \in Above[p] : ~WasFile(q)
            /\ NextFile(IF Size[files[p].text] > MaxFileBytes THEN large
                        ELSE [job EXCEPT !.listed = With(@, p, StatOf(p))], "walk", "stat")
         \/ Seen(Absent) \in had[p] /\ NextFile(job, "walk", "stat")
      /\ UNCHANGED <<files, outside, dir, now, commits, current, cache, detected, had, restored, writes, passes>>

\* The entries that a checkpoint on `current` may go by, and the tree it is
\* compared with (a parent commit's tree, if there is no such cache).
Cached == IF current # 0 /\ cache.base = current THEN cache.files ELSE <<>>
ParentTree ==
  IF current = 0 THEN <<>>
  ELSE IF cache.base = current
  THEN [p \in DOMAIN cache.files |-> [mode |-> cache.files[p].mode, oid |-> cache.files[p].oid]]
  ELSE commits[current]

\* Mutant: an mtime is trusted whenever the file was hashed.
IsStatCacheHitTrusting(known, stat) ==
  known.mode = stat.mode /\ known.size = stat.size /\ known.mtime = stat.mtime /\ known.ino = stat.ino

IsStatCacheHit(known, stat) ==
  /\ known.mode = stat.mode /\ known.size = stat.size
  /\ known.mtime = stat.mtime /\ known.ino = stat.ino
  /\ stat.mtime + RacyWindow < known.hashedAt

\* A hit stands for the file; otherwise the clock is read, then the file.
Stat ==
  LET p == Order[job.at]
  IN  /\ pc = "stat"
      /\ IF p \notin DOMAIN job.listed THEN NextFile(job, "stat", "commit")
         ELSE IF p \in DOMAIN Cached /\ IsStatCacheHit(Cached[p], job.listed[p])
         THEN NextFile([job EXCEPT !.files = With(@, p, Cached[p])], "stat", "commit")
         ELSE pc' = "read" /\ job' = [job EXCEPT !.stamp = now]
      /\ UNCHANGED <<files, outside, dir, now, commits, current, cache, detected, had, restored, writes, passes>>

\* What becomes of a file that was read: it is skipped, or it is in the tree,
\* and staged if it differs from the parent's.
Take(p, text) ==
  LET stat == job.listed[p]
      entry == [mode |-> stat.mode, oid |-> Sanitized[text], size |-> stat.size,
                mtime |-> stat.mtime, ino |-> stat.ino, hashedAt |-> job.stamp]
      changed == p \notin DOMAIN ParentTree
                   \/ ParentTree[p] # [mode |-> entry.mode, oid |-> entry.oid]
  IN  IF Sanitized[text] = Skip
      THEN [job EXCEPT !.skipped = @ \cup {[path |-> p, reason |-> "secret_detected"]}]
      ELSE [job EXCEPT !.files = With(@, p, entry),
                       !.written = IF changed THEN @ \cup {p} ELSE @]

\* What keeps a path from being read that was a file: a directory in its place
\* (EISDIR), or a file in place of one of its directories (ENOTDIR).
Displaced(p) == \E q \in Above[p] \cup Below(p) : Present(q)

Read ==
  LET p == Order[job.at]
  IN  /\ pc = "read"
      /\ IF Present(p) THEN NextFile(Take(p, files[p].text), "stat", "commit") /\ UNCHANGED had
         ELSE IF Displaced(p) THEN End
         ELSE NextFile(job, "stat", "commit") /\ UNCHANGED had
      /\ UNCHANGED <<files, outside, dir, now, commits, current, cache, detected, restored, writes, passes>>

-----------------------------------------------------------------------------
(* createCheckpoint: the delta, checked against the parent's tree.           *)

\* Mutant: an entry that a new file displaces is left to update-index.
DeletedUndisplaced ==
  {p \in DOMAIN ParentTree \ DOMAIN job.files :
     \A q \in Above[p] \cup Below(p) : q \notin job.written}

Deleted == DOMAIN ParentTree \ DOMAIN job.files

\* #deltaRecords: `written` and `deleted` account for each entry of the parent.
DeltaFits(tree) ==
  LET Remains(p) == p \in job.written \/ (p \in DOMAIN tree /\ p \notin Deleted)
  IN  /\ job.written \cap Deleted = {}
      /\ Deleted \subseteq DOMAIN tree
      /\ \A p \in job.written : \A q \in Above[p] \cup Below(p) : ~Remains(q)

\* The tree of the commit: staged files over the parent's, without the deleted.
\* With no parent the staging directory is the tree.
Entry(p) == [mode |-> job.files[p].mode, oid |-> job.files[p].oid]
CommitTree ==
  LET parent == IF current = 0 THEN <<>> ELSE commits[current]
  IN  [p \in job.written \cup (DOMAIN parent \ Deleted) |->
         IF p \in job.written THEN Entry(p) ELSE parent[p]]

Commit ==
  /\ pc = "commit"
  /\ current # 0 => DeltaFits(commits[current])
  /\ commits' = Append(commits, CommitTree)
  /\ current' = Len(commits) + 1
  /\ cache' = [base |-> Len(commits) + 1, files |-> job.files]
  /\ End
  /\ UNCHANGED <<files, outside, dir, now, detected, restored, writes, passes>>

\* createCheckpoint rejects, ERR_INVALID_CHANGES or another failure, perhaps
\* after the checkpoint is durable: the cache is dropped.
CommitFails ==
  /\ pc = "commit"
  /\ \/ current # 0 /\ DeltaFits(commits[current])
        /\ commits' = Append(commits, CommitTree) /\ current' = Len(commits) + 1
     \/ UNCHANGED <<commits, current>>
  /\ cache' = NoCache
  /\ End
  /\ UNCHANGED <<files, outside, dir, now, detected, restored, writes, passes>>

-----------------------------------------------------------------------------
(* A restore, of any commit, between checkpoints.                            *)

\* Mutant: the contents are written, every one as a plain file.
RestoredFileModeless(tree, p, text, ino) ==
  IF p \in DOMAIN tree
  THEN [text |-> text[p], mode |-> "100644", mtime |-> Coarse, ino |-> ino]
  ELSE IF dir = "execution" /\ p \in Preserved THEN files[p]
  ELSE Absent

\* materialize: an execution worktree is checked out and cleaned of all that
\* is not preserved; the first one is added.
RestoredFile(tree, p, text, ino) ==
  IF p \in DOMAIN tree
  THEN [text |-> text[p], mode |-> tree[p].mode, mtime |-> Coarse, ino |-> ino]
  ELSE IF dir = "execution" /\ p \in Preserved THEN files[p]
  ELSE Absent

Restore ==
  /\ pc = "idle" /\ passes < MaxPasses
  /\ passes' = passes + 1
  /\ \E c \in DOMAIN commits :
       /\ \E text \in [DOMAIN commits[c] -> Contents], ino \in [Paths -> Inodes] :
            /\ \A p \in DOMAIN commits[c] : text[p] \in CheckedOut[commits[c][p].oid]
            /\ files' = [p \in Paths |-> RestoredFile(commits[c], p, text, ino[p])]
            /\ \A p, q \in Paths :
                 p # q /\ files'[p].text # Gone /\ files'[q].text # Gone => files'[p].ino # files'[q].ino
       /\ current' = c /\ restored' = c
  /\ dir' = "execution"
  /\ cache' = NoCache
  /\ UNCHANGED <<outside, now, commits, detected, pc, job, had, writes>>

-----------------------------------------------------------------------------
(* ChangeDetector.detect over the files that there are, one after the other.  *)

Detect ==
  /\ pc = "idle" /\ passes < MaxPasses
  /\ passes' = passes + 1
  /\ pc' = "detect"
  /\ job' = [NoJob EXCEPT !.at = First(Walked),
                          !.listed = [p \in {p \in Paths \ Excluded : Present(p)} |-> StatOf(p)]]
  /\ had' = [p \in Paths |-> {Seen(files[p])}]
  /\ UNCHANGED <<files, outside, dir, now, commits, current, cache, detected, restored, writes>>

IsCandidateUnchanged(entry, stat) ==
  /\ entry.size = stat.size /\ entry.mtime = stat.mtime /\ entry.ino = stat.ino
  /\ stat.mtime + RacyWindow < entry.hashedAt

\* A candidate keeps its hash; for another file the clock is read.  A file that
\* vanished is left out; a path in a directory that is a file now is an error.
DetectStat ==
  LET p == Order[job.at]
  IN  /\ pc = "detect"
      /\ IF p \in DOMAIN job.listed /\ Displaced(p) THEN End
         ELSE IF p \notin DOMAIN job.listed \/ ~Present(p)
         THEN NextFile(job, "detect", "removed") /\ UNCHANGED had
         ELSE IF p \in DOMAIN detected /\ IsCandidateUnchanged(detected[p], StatOf(p))
         THEN NextFile([job EXCEPT !.files = With(@, p, detected[p].sha)], "detect", "removed")
              /\ UNCHANGED had
         ELSE /\ pc' = "hash"
              /\ job' = [job EXCEPT !.stamp = now, !.listed[p] = StatOf(p)]
              /\ UNCHANGED had
      /\ UNCHANGED <<files, outside, dir, now, commits, current, cache, detected, restored, writes, passes>>

\* The file is read to its end.
Hash ==
  /\ pc = "hash"
  /\ IF Present(Order[job.at])
     THEN pc' = "set" /\ job' = [job EXCEPT !.text = files[Order[job.at]].text] /\ UNCHANGED had
     ELSE End
  /\ UNCHANGED <<files, outside, dir, now, commits, current, cache, detected, restored, writes, passes>>

\* Mutant: the time of the hash is that of its end.
HashedEntryLate(stat) ==
  [size |-> stat.size, mtime |-> stat.mtime, ino |-> stat.ino, sha |-> job.text, hashedAt |-> now]

HashedEntry(stat) ==
  [size |-> stat.size, mtime |-> stat.mtime, ino |-> stat.ino, sha |-> job.text, hashedAt |-> job.stamp]

SetEntry ==
  LET p == Order[job.at]
  IN  /\ pc = "set"
      /\ detected' = With(detected, p, HashedEntry(job.listed[p]))
      /\ NextFile([job EXCEPT !.files = With(@, p, job.text), !.text = Gone], "detect", "removed")
      /\ UNCHANGED <<files, outside, dir, now, commits, current, cache, had, restored, writes, passes>>

\* What was not seen is dropped from the cache.
DropRemoved ==
  /\ pc = "removed"
  /\ detected' = [p \in DOMAIN detected \cap DOMAIN job.files |-> detected[p]]
  /\ End
  /\ UNCHANGED <<files, outside, dir, now, commits, current, cache, restored, writes, passes>>

-----------------------------------------------------------------------------

Next ==
  \/ Tick \/ Agent
  \/ Checkpoint \/ List \/ Stat \/ Read \/ Commit \/ CommitFails
  \/ Restore
  \/ Detect \/ DetectStat \/ Hash \/ SetEntry \/ DropRemoved

Spec == Init /\ [][Next]_vars

-----------------------------------------------------------------------------
(* Properties.                                                               *)

\* A checkpoint holds of each file a content and a mode that the file had while
\* the checkpoint was made, sanitized; it leaves out only what was not there, is
\* excluded, or is reported as skipped for what was there.
CheckpointIsRecent ==
  pc = "commit" =>
    \A p \in Paths :
      IF p \in DOMAIN CommitTree
      THEN /\ p \notin Excluded
           /\ \E s \in had[p] : s.text # Gone /\ CommitTree[p].oid = Sanitized[s.text]
           /\ \E s \in had[p] : s.mode = CommitTree[p].mode
      ELSE \/ p \in Excluded \/ Seen(Absent) \in had[p]
           \/ \E skipped \in job.skipped, s \in had[p] :
                /\ skipped.path = p
                /\ IF skipped.reason = "too_large" THEN Size[s.text] > MaxFileBytes
                   ELSE Sanitized[s.text] = Skip

\* The stat cache is the tree of the commit it is used with, whatever was
\* skipped, vanished, failed or was restored in between.
CacheIsBaseTree ==
  cache.base # 0 =>
    commits[cache.base] = [p \in DOMAIN cache.files |->
                             [mode |-> cache.files[p].mode, oid |-> cache.files[p].oid]]

\* Storage never refuses the engine's delta against that tree, not when files
\* become directories and directories files: a refused one would fail every
\* later checkpoint.
DeltaAlwaysFits ==
  CacheIsBaseTree /\ (pc = "commit" /\ current # 0 => DeltaFits(commits[current]))

\* A content that a checkout writes as it is, and that a checkpoint takes as it is.
Lasting(c) == CheckedOut[c] = {c} /\ Sanitized[c] = c /\ Size[c] <= MaxFileBytes

\* A checkpoint of a workspace as it was restored has the files of the restored
\* one, and no others: each with its content and mode, unless the checkout or
\* Redaction converts that content, or it outgrew the limit after its lstat.
RestoredUnchanged ==
  pc = "commit" /\ restored # 0 =>
    LET tree == commits[restored]
        Stays(p) == p \in DOMAIN CommitTree /\ CommitTree[p] = tree[p]
    IN  /\ DOMAIN CommitTree \subseteq DOMAIN tree
        /\ {skipped.path : skipped \in job.skipped} \subseteq DOMAIN tree
        /\ \A p \in DOMAIN tree :
             Lasting(tree[p].oid) => Stays(p) /\ \A skipped \in job.skipped : skipped.path # p

\* A detection reports of each file a content that it had during the pass.
DetectedIsRecent ==
  pc = "removed" =>
    \A p \in Paths \ Excluded :
      IF p \in DOMAIN job.files THEN \E s \in had[p] : s.text = job.files[p]
      ELSE Seen(Absent) \in had[p]
=============================================================================
