---------------------------- MODULE MCEventStream ----------------------------
(* Constants for checking EventStream. *)
EXTENDS EventStream

In(dialect, answer) == [dialect |-> dialect, answer |-> answer]

\* Blocks of text side by side, of which each has a part of its own; two calls,
\* one without arguments and one with members out of order; a thought that is
\* replayed with its signature; a block the parser does not model, with input.
MCAnthropic ==
  {[content |-> <<[type |-> "thinking", thinking |-> <<"t">>, signature |-> <<"s", "s">>],
                  [type |-> "text", text |-> <<"a", "b">>],
                  [type |-> "text", text |-> <<"c">>]>>,
    stop |-> "end_turn", usage |-> <<1, 2, 3, 4>>],
   [content |-> <<[type |-> "tool_use", id |-> "c1", input |-> EmptyObject],
                  [type |-> "server_tool_use", id |-> "c2", input |-> <<Open, 2, 1, Close>>],
                  [type |-> "tool_use", id |-> "c3", input |-> <<Open, 2, 1, Close>>]>>,
    stop |-> "tool_use", usage |-> <<>>]}

MCGemini ==
  {[steps |-> <<[type |-> "thought", signature |-> <<"s", "s">>],
                [type |-> "model_output", text |-> <<"a", "b">>],
                [type |-> "model_output", text |-> <<"c">>]>>,
    status |-> "budget_exceeded", usage |-> <<1, 2, 3>>],
   [steps |-> <<[type |-> "function_call", id |-> "c1", input |-> <<Open, 2, 1, Close>>],
                [type |-> "code_execution", code |-> <<"x", "y">>, result |-> "r"],
                [type |-> "function_call", id |-> "c2", input |-> EmptyObject]>>,
    status |-> "requires_action", usage |-> <<>>]}

MCChat ==
  {[text |-> <<"a", "b">>, refusal |-> <<"n">>, calls |-> <<>>, finish |-> "stop",
    usage |-> <<1, 2, 3>>],
   [text |-> <<>>, refusal |-> <<>>,
    calls |-> <<[id |-> "c1", input |-> <<Open, 2, 1, Close>>],
                [id |-> "c2", input |-> <<>>],
                [id |-> "c3", input |-> EmptyObject]>>,
    finish |-> "tool_calls", usage |-> <<1, 2, 3>>],
   [text |-> <<"a">>, refusal |-> <<>>, calls |-> <<>>, finish |-> "length",
    usage |-> <<>>]}

MCResponses ==
  {[output |-> <<[type |-> "reasoning", id |-> "r1"],
                 [type |-> "message",
                  parts |-> <<[type |-> "output_text", text |-> <<"a", "b">>],
                              [type |-> "output_text", text |-> <<"c">>],
                              [type |-> "refusal", text |-> <<"n">>]>>]>>,
    status |-> "completed", usage |-> <<1, 2, 3>>],
   [output |-> <<[type |-> "function_call", id |-> "c1", input |-> <<Open, 2, 1, Close>>],
                 [type |-> "function_call", id |-> "c2", input |-> EmptyObject]>>,
    status |-> "completed", usage |-> <<>>]}

MCAnswers ==
  {In("anthropic", r) : r \in MCAnthropic} \cup {In("gemini", r) : r \in MCGemini}
    \cup {In("chat", r) : r \in MCChat} \cup {In("responses", r) : r \in MCResponses}

=============================================================================
