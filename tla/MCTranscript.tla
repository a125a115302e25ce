---------------------------- MODULE MCTranscript ----------------------------
(* Constants for checking TranscriptLoops and WireRequest on every short transcript. *)
EXTENDS WireRequest, TLC

CONSTANTS c1, c2

MCCallId == {c1, c2}
MCBody   == {"t"}

\* Uneven costs, so that a budget can fall on either side of a group.
MCTokenCost(m) == Len(m.parts) + (IF m.role = "user" THEN 1 ELSE 0)

MCMessages ==
  {Msg("system", <<Text("t")>>), Msg("user", <<Text("t"), Image>>),
   Msg("assistant", <<Call(c1), Call(c2)>>),
   Msg("user", <<Result(c1), Text("t")>>),
   Msg("user", <<Result(c1), Result(c2)>>)}
  \cup {Msg("assistant", <<Text("t"), Reasoning, Call(id)>>) : id \in MCCallId}
  \cup {ToolResult(id) : id \in MCCallId}

\* What the dialects are proved to take of transcripts is proved of these.
ASSUME MessagesAreOrdinary == \A m \in MCMessages : Ordinary(m)

=============================================================================
