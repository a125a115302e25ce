--------------------------- MODULE MCConversation ---------------------------
(* Constants for checking Conversation. *)
EXTENDS Conversation, TLC

CONSTANTS c1, c2, c3, c4

MCCallId == {c1, c2, c3, c4}
MCBody   == {"q", "a"}

MCTokenCost(m) == 1

\* One tool, that every call asks for.
MCRegistered == <<Tool("f", "v1", FALSE)>>
MCNameOf == [id \in MCCallId |-> "f"]

\* Two calls, one call, an answer, and a reply cut short at its call.
MCReplies ==
  {Reply("requires_action", FALSE, <<Call(c1), Call(c2)>>),
   Reply("requires_action", FALSE, <<Call(c3)>>),
   Reply("completed", FALSE, <<Text("a")>>),
   Reply("incomplete", FALSE, <<Text("a"), Call(c3), Call(c4)>>)}

\* A question, a turn of nothing, a rule, the answer to a call and to two, and an
\* answer beside text of the caller's.
MCCallerTurns ==
  {Msg("user", <<Text("q")>>),
   Msg("user", <<>>),
   Msg("developer", <<Text("q")>>),
   ToolResult(c3),
   Msg("user", <<Result(c3), Result(c4)>>),
   Msg("user", <<Result(c3), Text("q")>>)}

NoHistories == {}

=============================================================================
