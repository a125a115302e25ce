-------------------------- MODULE DurableTranscript --------------------------
(***************************************************************************)
(* What a backend that persists promises, whatever it writes to do so: the *)
(* conversation is a log that grows by whole appends, and by a prefix of   *)
(* one when the append is cut short; a power loss rolls it back no further *)
(* than the last operation acknowledged; and nothing else changes it.      *)
(***************************************************************************)
EXTENDS Naturals, Sequences

CONSTANT Batches   \* what one append may write

VARIABLES
  log,             \* the turns a reader finds now
  possible         \* the turns a reader may find after a power loss

durableVars == <<log, possible>>

Prefixes(batch) == {SubSeq(batch, 1, k) : k \in 0 .. Len(batch)}

Init == \E turns \in {<<>>} \cup Batches : log = turns /\ possible = {turns}

\* An append that was acknowledged: nothing older can come back.
Commit(batch) ==
  /\ log' = log \o batch
  /\ possible' = {log'}

\* One that failed, or whose process died: some of its turns are there, and
\* none is promised.
CutShort(batch) ==
  /\ \E some \in Prefixes(batch) : log' = log \o some
  /\ possible' = possible \cup {log \o some : some \in Prefixes(batch)}

Reset ==
  /\ log' = <<>>
  /\ possible' = {<<>>}

ResetCutShort ==
  /\ log' \in {log, <<>>}
  /\ possible' = possible \cup {<<>>}

\* Something else was written and synced, and the log with it.
Settle ==
  /\ possible' = {log}
  /\ UNCHANGED log

PowerLoss ==
  /\ log' \in possible
  /\ possible' = {log'}

Next ==
  \/ \E batch \in Batches : Commit(batch) \/ CutShort(batch)
  \/ Reset
  \/ ResetCutShort
  \/ Settle
  \/ PowerLoss

Spec == Init /\ [][Next]_durableVars

=============================================================================
