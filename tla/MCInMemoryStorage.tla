-------------------------- MODULE MCInMemoryStorage --------------------------
(* Constants for checking InMemoryStorage: exchanges of several shapes. *)
EXTENDS InMemoryStorage, TLC

MCCallId == {"c1", "c2"}
MCBody   == {"q1", "q2", "q3", "q4", "a1", "a2", "rule"}

MCTokenCost(m) == IF m.role = "assistant" THEN 2 ELSE 1

Ask(b)    == Msg("user", <<Text(b)>>)
Say(b)    == Msg("assistant", <<Text(b)>>)
Use(id)   == Msg("assistant", <<Call(id)>>)

\* A plain exchange, one with a tool, one cut short at its call, the answer to
\* that call sent by the caller, and turns of other kinds.
MCBatches ==
  {<<Ask("q1"), Say("a1")>>,
   <<Ask("q2"), Use("c1"), ToolResult("c1"), Say("a2")>>,
   <<Ask("q3"), Use("c2")>>,
   <<ToolResult("c2")>>,
   <<Ask("q4")>>,
   <<Msg("developer", <<Text("rule")>>)>>}

MCWindows == {NoWindow, ByGroups(1), ByGroups(2), ByGroups(4), ByTokens(0), ByTokens(4), ByTokens(7)}
=============================================================================
