---------------------------- MODULE MCAgentLoop ----------------------------
(* Constants for checking AgentLoop. *)
EXTENDS AgentLoop, TLC

CONSTANTS c1, c2, c3, c4, c5, c6, c7

MCCallId == {c1, c2, c3, c4, c5, c6, c7}
MCBody   == {"q", "a"}

MCTokenCost(m) == 1

\* Two versions of one tool, a tool that fails, and one that the guard denies.
MCRegistered ==
  <<Tool("f", "v1", FALSE), Tool("g", "v1", TRUE), Tool("f", "v2", FALSE), Tool("h", "v1", FALSE)>>
MCNameOf == [id \in MCCallId |->
  CASE id \in {c1, c4} -> "f" [] id \in {c2, c5} -> "g" [] id \in {c3, c6} -> "h" [] id = c7 -> "nothing"]

\* One call, two, four (twice the ceiling), an answer, a refusal beside a call,
\* a reply cut short at its call, and a failed one.
MCReplies ==
  {Reply("requires_action", FALSE, <<Call(c1)>>),
   Reply("completed", FALSE, <<Call(c2), Call(c3)>>),
   Reply("completed", FALSE, <<Text("a"), Call(c4), Call(c5), Call(c6), Call(c7)>>),
   Reply("completed", FALSE, <<Text("a")>>),
   Reply("completed", TRUE, <<Text("a"), Call(c1)>>),
   Reply("incomplete", FALSE, <<Call(c1)>>),
   Reply("failed", FALSE, <<>>),
   Reply("other", FALSE, <<Call(c1)>>)}

MCHistories ==
  {<<Msg("user", <<Text("q")>>)>>,
   <<Msg("developer", <<Text("q")>>), Msg("user", <<Text("q")>>),
     Msg("assistant", <<Text("a")>>), Msg("user", <<Text("q")>>)>>}

=============================================================================
