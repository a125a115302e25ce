--------------------------- MODULE MCJsonlStorage ---------------------------
(* Constants for checking JsonlStorage. *)
EXTENDS JsonlStorage, TLC

MCCallId == {"c1"}
MCBody   == {"q1", "q2", "a1"}

MCTokenCost(m) == 1

Ask(b)  == [role |-> "user", parts |-> <<Text(b)>>]
Say(b)  == [role |-> "assistant", parts |-> <<Text(b)>>]
Use(id) == [role |-> "assistant", parts |-> <<Call(id)>>]

\* A plain exchange, one cut short at its call, and the answer to that call.
MCBatches ==
  {<<Ask("q1"), Say("a1")>>,
   <<Ask("q2"), Use("c1")>>,
   <<ToolResult("c1")>>}

MCWindows == {ByGroups(1), ByGroups(2)}

=============================================================================
