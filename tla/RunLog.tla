-------------------------------- MODULE RunLog --------------------------------
(***************************************************************************)
(* What the store promises the writers and the readers of one run, whatever *)
(* the number of processes: a log that only grows, of which readers see a   *)
(* prefix that only grows, and acknowledgements that are never taken back.  *)
(* Once a reindex has overlooked the run, only the log itself is promised.  *)
(***************************************************************************)
EXTENDS Naturals, Sequences

CONSTANT Entries  \* what may be logged

VARIABLES log,       \* the durable entries, in order
          shown,     \* readers see the first `shown` entries
          acked,     \* entries whose writer was told that they are in the log
          reliable   \* no reindex has overlooked the run

vars == <<log, shown, acked, reliable>>

Prefix(n) == {log[i] : i \in 1..n}

Init ==
  /\ log = <<>>
  /\ shown = 0
  /\ acked = {}
  /\ reliable = TRUE

\* A new entry becomes durable.
Extend ==
  /\ Len(log') = Len(log) + 1
  /\ log' = Append(log, log'[Len(log')])
  /\ log'[Len(log')] \in Entries \ Prefix(Len(log))
  /\ UNCHANGED <<shown, acked, reliable>>

\* Readers see more of the log.
Show(n) ==
  /\ shown' = n
  /\ UNCHANGED <<log, acked, reliable>>

\* A writer is told that an entry is in the log: readers see it by then.
Acknowledge(n) ==
  /\ shown' = n
  /\ \E e \in Prefix(n) : acked' = acked \cup {e}
  /\ UNCHANGED <<log, reliable>>

\* The run is overlooked: what readers see, and so what an acknowledgement
\* means to them, is arbitrary from here on.
Degrade ==
  /\ reliable' = FALSE
  /\ UNCHANGED log

Next ==
  \/ Extend
  \/ reliable /\ \E n \in shown..Len(log) : Show(n) \/ Acknowledge(n)
  \/ Degrade

Spec == Init /\ [][Next]_vars
=============================================================================
