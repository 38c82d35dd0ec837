-------------------------------- MODULE Redact --------------------------------
(***************************************************************************)
(* The secret detectors (src/redact/detectors.ts), what sanitize makes of a   *)
(* text, and the export scan (src/redact/bundle.ts), which reads a file in     *)
(* overlapping windows and must cover what one pass over the file covers.     *)
(*                                                                         *)
(* A text is a sequence of symbols.  Each stands for a character of a class,   *)
(* or for a string that a window is never so small as to cut: the name of a    *)
(* secret variable, the prefix of a token or of a URL, the first or last line   *)
(* of a PEM block, a redaction marker.  A window is the function of the text    *)
(* on its positions, so that what a detector sees ends where the window does.   *)
(* The formats of tokens count as one detector; JSON literals and escaped      *)
(* quotes, and the measure of entropy, are abstracted.                        *)
(***************************************************************************)
EXTENDS Integers, Sequences, FiniteSetsExt, SequencesExt

CONSTANTS Texts,         \* the files that may be scanned
          PemMaxBody,    \* PEM_MAX_BODY
          TokenMin, TokenMax,   \* the length of a token after its prefix
          EntropyMin,    \* HIGH_ENTROPY_MIN_LENGTH
          MaxBytes,      \* MAX_TOOL_OUTPUT_BYTES, MAX_ENV_VALUE_BYTES: of a string that is kept
          WindowBytes, OverlapBytes, MaxGrowth

VARIABLES text,       \* the file
          start,      \* where the window starts
          length,     \* how long it is
          cursors,    \* [detectors -> the position that its scan continues from]
          candidates, \* what the windows so far decided
          fellBack,   \* a decision that the largest window cut was covered to its line's end
          done

vars == <<text, start, length, cursors, candidates, fellBack, done>>

Letters == {"name", "token", "letter"}
Word == Letters \cup {"digit"}
Markers == {"[pem]", "[other]"}
Symbols == Word \cup Markers \cup {"=", "quote", "url", "@", "/", ",", "blank", "newline", "BEGIN", "END"}

PemBody == Word \cup {"/", "=", "newline"}
Password == Symbols \ {"@", "quote", "blank", "newline"}
Host == Password \ {"/"}
EntropyChars == Word \cup {"/"}
Line == Symbols \ {"newline"}
EndsMarked == {"newline", ",", "quote"}   \* what may follow a marker that ends its value
AfterQuoted == {"blank", "newline", ","}

\* A symbol for a string is one only where no other character runs into the string.
Separated(t) ==
  \A i \in 1..(Len(t) - 1) :
    /\ t[i] \in EntropyChars => t[i + 1] \notin {"url", "BEGIN", "END"}
    /\ t[i] \in {"BEGIN", "END"} => t[i + 1] \notin EntropyChars

ASSUME RedactAssumption ==
  /\ \A t \in Texts : t \in Seq(Symbols) /\ Separated(t)
  /\ PemMaxBody \in Nat /\ TokenMin \in Nat /\ TokenMax \in Nat /\ EntropyMin \in Nat \ {0}
  /\ MaxBytes \in Nat
  /\ OverlapBytes >= 2 /\ WindowBytes > 2 * OverlapBytes /\ MaxGrowth \in Nat \ {0}
  \* The largest window holds the search for the END line of a block.
  /\ WindowBytes * MaxGrowth > WindowBytes + PemMaxBody

\* In order of precedence.
Detectors == <<"pem", "token", "db_url", "env_assignment", "high_entropy">>
Ranks == DOMAIN Detectors

-----------------------------------------------------------------------------
(* Windows.                                                                  *)

Window(from, to) == [i \in from..(to - 1) |-> text[i]]
Whole(t) == [i \in 1..Len(t) |-> t[i]]

\* Just past the last character that is seen.
EndOf(w) == IF DOMAIN w = {} THEN 1 ELSE Max(DOMAIN w) + 1
Sees(w, i, class) == i \in DOMAIN w /\ w[i] \in class

\* Where the run of characters of a class ends that starts at i.
RunEnd(w, i, class) == Min({j \in i..Max({i, EndOf(w)}) : ~Sees(w, j, class)})

\* A decision: a span, or a rejection; where the scan continues; and how far it looked.
Accept(from, to, resumeAt, decidedEnd) ==
  [accepted |-> TRUE, start |-> from, end |-> to, resumeAt |-> resumeAt,
   decidedEnd |-> decidedEnd, runsOn |-> FALSE]
Reject(from, to, resumeAt, decidedEnd) ==
  [Accept(from, to, resumeAt, decidedEnd) EXCEPT !.accepted = FALSE]
RejectAt(from, to) == Reject(from, to, to, to)
Match(from, to) == Accept(from, to, to, to)

-----------------------------------------------------------------------------
(* Detectors.                                                                *)

\* The END line of the block whose BEGIN line is at i.
EndLines(w, i) ==
  {j \in (i + 1)..(i + 1 + PemMaxBody) :
     Sees(w, j, {"END"}) /\ \A k \in (i + 1)..j : w[k] # "BEGIN"}

\* A block, or a BEGIN line and the run after it: for which the search for the END
\* line read as far as one could be, or up to the next block.
Pem(w, i) ==
  IF EndLines(w, i) # {} THEN Match(i, Min(EndLines(w, i)) + 1)
  ELSE LET end == RunEnd(w, i + 1, PemBody)
           begins == {j \in DOMAIN w : j > i /\ w[j] = "BEGIN"}
           horizon == Min({i + PemMaxBody + 2} \cup {j + 1 : j \in begins})
       IN  [Accept(i, end, end, Max({end, horizon})) EXCEPT !.runsOn = end = EndOf(w)]

\* readUrlPassword: up to the first "@" whose host is not followed by another.
UrlPassword(w, at) ==
  LET first == RunEnd(w, at + 1, Password)
      ats == {j \in first..(RunEnd(w, at + 1, Password \cup {"@"}) - 1) :
                w[j] = "@" /\ ~Sees(w, RunEnd(w, j + 1, Host), {"@"})}
      UpTo(end) == LET hostEnd == RunEnd(w, end + 1, Host) IN Accept(at, end, hostEnd, hostEnd)
  IN  IF ~Sees(w, at, Password \cup {"@"}) THEN RejectAt(at - 1, at)
      ELSE IF ats = {} THEN Reject(at - 1, at, first, first)
      ELSE UpTo(Min(ats))

\* A value that an earlier pass has redacted: the marker ends it.
IsMarked(w, at) ==
  LET after == RunEnd(w, at + 1, {"blank"})
  IN  /\ Sees(w, at, Markers)
      /\ \/ w[at] = "[pem]" /\ Sees(w, at + 1, {"blank"})
         \/ after = EndOf(w)
         \/ Sees(w, after, EndsMarked)

\* Just past the closing quote of the value at `at`, or 0.
ClosingQuote(w, at) ==
  LET stop == RunEnd(w, at + 1, Line \ {"quote"}) IN IF Sees(w, stop, {"quote"}) THEN stop + 1 ELSE 0

\* The rest of the line, without its trailing blanks.
BareValue(w, i, at) ==
  LET lineEnd == RunEnd(w, at, Line)
  IN  IF lineEnd = at THEN RejectAt(i, at)
      ELSE Accept(at, Max({j \in at..(lineEnd - 1) : w[j] # "blank"}) + 1, lineEnd, lineEnd)

\* The quoted value at `at` that ends before `end`, unless nothing may follow there.
QuotedValue(w, i, at, end) ==
  IF end = 0 \/ ~(end = EndOf(w) \/ Sees(w, end, AfterQuoted)) THEN BareValue(w, i, at)
  ELSE IF end = at + 2 THEN RejectAt(i, end)
  ELSE Accept(at + 1, end - 1, end, end + 1)

\* readSecretValue: of the assignment that starts at i, the value at `at`.
SecretValue(w, i, at) ==
  IF IsMarked(w, at) THEN Reject(i, at, at + 1, RunEnd(w, at + 1, {"blank"}) + 1)
  ELSE QuotedValue(w, i, at, IF Sees(w, at, {"quote"}) THEN ClosingQuote(w, at) ELSE 0)

\* Where the value of the name at i starts, or 0: a quote of the name, blanks, "=", blanks.
ValueStart(w, i) ==
  LET name == RunEnd(w, i, Word)
      equals == RunEnd(w, IF Sees(w, name, {"quote"}) THEN name + 1 ELSE name, {"blank"})
  IN  IF Sees(w, equals, {"="}) THEN RunEnd(w, equals + 1, {"blank"}) ELSE 0

\* The word at i is the name of a secret.
IsSecretEnvName(w, i) == w[i] = "name" /\ RunEnd(w, i, Word) = i + 1

EnvAssignment(w, i) ==
  IF IsSecretEnvName(w, i) THEN SecretValue(w, i, ValueStart(w, i))
  ELSE RejectAt(i, ValueStart(w, i))

\* Of the run at i with its padding: random where every other character is a digit.
HighEntropy(w, i) ==
  LET Random(end) == 2 * Cardinality({j \in i..(end - 1) : w[j] = "digit"}) >= end - i
      Decide(end) == IF Random(end) THEN Match(i, end) ELSE RejectAt(i, end)
      Padded(run) == Min({run + 2, RunEnd(w, run, {"="})})
  IN  Decide(Padded(RunEnd(w, i, EntropyChars)))

\* Where a detector's pattern matches.
Matches(d, w) ==
  {i \in DOMAIN w :
     CASE d = "pem"    -> w[i] = "BEGIN"
       [] d = "token"  -> /\ w[i] = "token" /\ ~Sees(w, i - 1, Word)
                          /\ RunEnd(w, i + 1, Word) - (i + 1) \in TokenMin..TokenMax
       [] d = "db_url" -> w[i] = "url" /\ ~Sees(w, i - 1, Word)
       [] d = "env_assignment" -> /\ w[i] \in Letters /\ ~Sees(w, i - 1, Word)
                                  /\ ValueStart(w, i) # 0
       [] d = "high_entropy"   -> RunEnd(w, i, EntropyChars) - i >= EntropyMin}

Select(d, w, i) ==
  CASE d = "pem"            -> Pem(w, i)
    [] d = "token"          -> Match(i, RunEnd(w, i + 1, Word))
    [] d = "db_url"         -> UrlPassword(w, i + 1)
    [] d = "env_assignment" -> EnvAssignment(w, i)
    [] d = "high_entropy"   -> HighEntropy(w, i)

-----------------------------------------------------------------------------
(* One pass.                                                                 *)

\* Mutant: a marker is a secret like any other.
IsRedactedNever(w, s) == FALSE

\* A span that is a marker was redacted by an earlier pass.
IsRedacted(w, s) == s.end = s.start + 1 /\ w[s.start] \in Markers

\* The decision `s` before those of the rest: a span that is found, and one that
\* the end of the window cut.
WithDecision(rank, w, s, rest) ==
  LET span == [rank |-> rank, start |-> s.start, end |-> s.end]
  IN  [rest EXCEPT
         !.found = @ \cup (IF s.accepted /\ s.end > s.start /\ ~IsRedacted(w, s) THEN {span} ELSE {}),
         !.cut = @ \cup (IF s.decidedEnd >= EndOf(w) THEN {[span |-> span, runsOn |-> s.runsOn]} ELSE {})]

\* The matches that a detector decides, in turn: of those before `until`.
FindCandidates(rank, w, from, until) ==
  LET matches == {i \in Matches(Detectors[rank], w) : i < until}
      Scan[cursor \in Nat] ==
        LET After(at, s) == WithDecision(rank, w, s, Scan[Max({s.resumeAt, at + 1})])
            Next1(at) == After(at, Select(Detectors[rank], w, at))
        IN  IF \A i \in matches : i < cursor THEN [found |-> {}, cut |-> {}, resume |-> cursor]
            ELSE Next1(Min({i \in matches : i >= cursor}))
  IN  Scan[from]

Before(a, b) ==
  \/ a.start < b.start
  \/ a.start = b.start /\ a.end > b.end
  \/ a.start = b.start /\ a.end = b.end /\ a.rank < b.rank

\* mergeSecretSpans: overlapping spans become one, of the kind of the first.
MergeSpans(spans) ==
  LET Merge(merged, span) ==
        IF merged # <<>> /\ span.start < Last(merged).end
        THEN [merged EXCEPT ![Len(merged)].end = Max({@, span.end})]
        ELSE Append(merged, span)
  IN  FoldLeft(Merge, <<>>, SetToSortSeq(spans, Before))

Candidates(t) == UNION {FindCandidates(rank, Whole(t), 1, Len(t) + 1).found : rank \in Ranks}

DetectSecrets(t) == MergeSpans(Candidates(t))

\* Each span becomes a marker of its kind.
Replaced(t, spans) ==
  LET Marker(span) == IF Detectors[span.rank] = "pem" THEN <<"[pem]">> ELSE <<"[other]">>
      Redact(out, i) ==
        out \o SubSeq(t, IF i = 1 THEN 1 ELSE spans[i - 1].end, spans[i].start - 1) \o Marker(spans[i])
      rest == SubSeq(t, IF spans = <<>> THEN 1 ELSE Last(spans).end, Len(t))
  IN  FoldLeft(Redact, <<>>, [i \in DOMAIN spans |-> i]) \o rest

Sanitize(t) == Replaced(t, DetectSecrets(t))

-----------------------------------------------------------------------------
(* What an observation keeps of a captured string.                           *)

Truncated(t) == SubSeq(t, 1, Min({Len(t), MaxBytes}))

\* A string that is kept, or only its hash.
Kept(t) == [text |-> t, hash |-> <<>>]
Fingerprint(t) == [text |-> <<>>, hash |-> t]

\* Mutant: the output is cut to its limit, and then redacted.
SanitizeStringCut(t) == Kept(Sanitize(Truncated(t)))

\* sanitizeString: tool output is redacted, and then cut to its limit.
SanitizeString(t) == Kept(Truncated(Sanitize(t)))

\* An id that pairs requests with their answers: one that would be redacted is hashed.
CorrelationId(t) == IF DetectSecrets(t) = <<>> THEN Kept(t) ELSE Fingerprint(t)

\* classifyOne: a variable whose name is a secret's, is on the allowlist, or neither.
EnvEntry(name, t) ==
  CASE name = "secret" -> Fingerprint(t)
    [] name = "safe"   -> SanitizeString(t)
    [] name = "other"  -> IF DetectSecrets(t) = <<>> THEN Kept(Truncated(t)) ELSE Fingerprint(t)

EnvNames == {"secret", "safe", "other"}

\* walkObject: a member of a tool's payload, by its key; the members of env by theirs.
SanitizeMember(key, t) ==
  CASE key \in EnvNames    -> EnvEntry(key, t)
    [] key = "tool_call_id" -> CorrelationId(t)
    [] key = "output"       -> SanitizeString(t)

-----------------------------------------------------------------------------
(* scanBytes: window after window.                                           *)

Init ==
  /\ text \in Texts
  /\ start = 1 /\ length = WindowBytes
  /\ cursors = [rank \in Ranks |-> 1]
  /\ candidates = {} /\ fellBack = FALSE /\ done = FALSE

Size == Len(text)
WindowEnd == Min({Size + 1, start + length})
AtEof == WindowEnd = Size + 1
Handover == start + WindowBytes - OverlapBytes

\* What every detector decides in the window.
Scans ==
  LET w == Window(start, WindowEnd)
  IN  [rank \in Ranks |-> FindCandidates(rank, w, cursors[rank], IF AtEof THEN Size + 1 ELSE Handover)]

Found(scans) == UNION {scans[rank].found : rank \in Ranks}
Cut(scans) == UNION {scans[rank].cut : rank \in Ranks}

\* The window is read again at double its length, for a decision that its end cut.
Grow ==
  /\ ~done /\ ~AtEof
  /\ length < WindowBytes * MaxGrowth
  /\ Cut(Scans) # {}
  /\ length' = 2 * length
  /\ UNCHANGED <<text, start, cursors, candidates, fellBack, done>>

LineBreakFrom(from) == RunEnd(Whole(text), from, Line)
RunEndFrom(from) == RunEnd(Whole(text), from, PemBody)

\* What is covered of a match that the largest window cut, and where its detector
\* resumes: on the next line, except after a match that may cross lines.
Covered(cut) ==
  LET lineEnd == LineBreakFrom(WindowEnd)
  IN  IF Detectors[cut.span.rank] # "pem" THEN [end |-> lineEnd, resumeAt |-> lineEnd + 1]
      ELSE IF cut.runsOn THEN [end |-> RunEndFrom(WindowEnd), resumeAt |-> RunEndFrom(WindowEnd)]
      ELSE [end |-> Max({lineEnd, cut.span.end}), resumeAt |-> cut.span.end]

\* Mutant: every detector starts anew where the next window does.
ResumesRestarted(scans, floor) == [rank \in Ranks |-> floor]

\* Where each detector continues: where it stopped, but not before the floor.
Resumes(scans, floor) ==
  [rank \in Ranks |-> Max({scans[rank].resume, floor}
                           \cup {Covered(cut).resumeAt : cut \in scans[rank].cut})]

\* The window is decided: the next one starts a character before the floor.
HandOver ==
  /\ ~done /\ ~AtEof
  /\ \E scans \in {Scans} :
       LET floor == Handover - OverlapBytes \div 2
       IN  /\ Cut(scans) # {} => length >= WindowBytes * MaxGrowth
           /\ candidates' = candidates \cup Found(scans)
                              \cup {[cut.span EXCEPT !.end = Covered(cut).end] : cut \in Cut(scans)}
           /\ cursors' = Resumes(scans, floor)
           /\ fellBack' = (fellBack \/ Cut(scans) # {})
           /\ start' = floor - 1
           /\ length' = WindowBytes
           /\ UNCHANGED <<text, done>>

\* The last window reaches the end of the file.
Finish ==
  /\ ~done /\ AtEof
  /\ candidates' = candidates \cup Found(Scans)
  /\ done' = TRUE
  /\ UNCHANGED <<text, start, length, cursors, fellBack>>

Next == Grow \/ HandOver \/ Finish

Spec == Init /\ [][Next]_vars

Hits == MergeSpans(candidates)

-----------------------------------------------------------------------------
(* Properties.                                                               *)

Covers(spans) == UNION {spans[i].start..(spans[i].end - 1) : i \in DOMAIN spans}

\* No secret is lost at a window's end: "every byte a single detectSecrets() pass
\* over the whole file covers is covered here", and "The hits are identical to a
\* single pass unless a decision falls back to its line end".
WindowsCoverSinglePass ==
  done => LET single == DetectSecrets(text)
          IN  /\ Covers(single) \subseteq Covers(Hits)
              /\ fellBack \/ Hits = single

\* A block begins inside the value of an assignment, and is redacted with it.
BlockInValue(spans) ==
  \E block, value \in spans :
    /\ Detectors[block.rank] = "pem" /\ Detectors[value.rank] = "env_assignment"
    /\ value.start <= block.start /\ block.start < value.end

\* What sanitize returns has nothing left to redact, so that a value which is
\* captured twice is stored as it was ("sanitizing sanitized output is a no-op"),
\* except after a block that begins in a value: what follows the block on its last
\* line, or after its run, may make the marker part of another value.
SanitizeSettles ==
  LET Settles(once) == Sanitize(once) = once
  IN  done => Settles(Sanitize(text)) \/ BlockInValue(Candidates(text))

\* Whatever an observation keeps of a capture is the start of what lies outside its
\* secrets, "so a secret straddling the cut is still seen"; and an id stays "still
\* unique": one that differs, be it within a secret, is kept as another.
CapturesKeepNoSecret ==
  LET Plain(t) == SelectSeq(t, LAMBDA symbol : symbol \notin Markers)
      Outside(secret) == Plain([i \in 1..Len(text) |-> IF i \in secret THEN "[other]" ELSE text[i]])
      AllStart(outside) ==
        \A key \in EnvNames \cup {"output", "tool_call_id"} :
          IsPrefix(Plain(SanitizeMember(key, text).text), outside)
  IN  done =>
        /\ AllStart(Outside(Covers(DetectSecrets(text))))
        /\ CorrelationId(Front(text)) # CorrelationId(text)
=============================================================================
