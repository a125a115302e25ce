--------------------------- MODULE AnthropicStream ---------------------------
(***************************************************************************)
(* dialect/anthropic: the same answer parsed whole (response.rs) and       *)
(* decoded from a stream (stream.rs), with the frames the API sends for it *)
(* (external, as docs/reference/wire/anthropic.md and the tests have it).  *)
(*                                                                         *)
(* An answer is its content blocks, why it stopped, and its token counts:  *)
(* plain input, the two cache counts, and output.                          *)
(***************************************************************************)
EXTENDS Assembler

AnthropicStatus(reason) ==
  CASE reason \in {"end_turn", "stop_sequence"} -> "completed"
    [] reason = "max_tokens"                    -> "incomplete"
    [] reason = "tool_use"                      -> "requires_action"
    [] OTHER                                    -> "other"

-----------------------------------------------------------------------------
(* response.rs *)

\* What the parser keeps of a block it does not model: all of it.
AnthropicOpaque(block) ==
  IF block.type = "server_tool_use"
  THEN [block EXCEPT !.input = Canonical(@)] ELSE block

ConvertBlock(block) ==
  CASE block.type = "text"     -> TextPart(block.text)
    [] block.type = "tool_use" -> CallPart(block.id, Canonical(block.input))
    [] OTHER                   -> ReasoningPart(AnthropicOpaque(block))

AnthropicUsage(u) ==
  LET input == u[1] + u[2] + u[3]
  IN <<input, u[4], input + u[4]>>

AnthropicParse(r) ==
  [content |-> [k \in DOMAIN r.content |-> ConvertBlock(r.content[k])],
   status  |-> AnthropicStatus(r.stop),
   usage   |-> IF r.usage = NoUsage THEN NoUsage ELSE AnthropicUsage(r.usage)]

-----------------------------------------------------------------------------
(* The frames of an answer *)

AnthropicPiece(i, delta) ==
  Frame("content_block_delta", [index |-> i, delta |-> delta])

\* A block as its start frame has it, and the deltas that follow.
AnthropicStarted(block) ==
  CASE block.type = "text"     -> [block EXCEPT !.text = <<>>]
    [] block.type = "thinking" -> [block EXCEPT !.thinking = <<>>, !.signature = <<>>]
    [] block.type \in {"tool_use", "server_tool_use"} -> [block EXCEPT !.input = EmptyObject]
    [] OTHER -> block

AnthropicPieces(i, block) ==
  CASE block.type = "text" ->
         [k \in DOMAIN block.text |->
            AnthropicPiece(i, [type |-> "text_delta", text |-> block.text[k]])]
    [] block.type = "thinking" ->
         [k \in DOMAIN block.thinking |->
            AnthropicPiece(i, [type |-> "thinking_delta", thinking |-> block.thinking[k]])]
         \o [k \in DOMAIN block.signature |->
            AnthropicPiece(i, [type |-> "signature_delta", signature |-> block.signature[k]])]
    [] block.type \in {"tool_use", "server_tool_use"} ->
         [k \in DOMAIN block.input |->
            AnthropicPiece(i, [type |-> "input_json_delta", json |-> <<block.input[k]>>])]
    [] OTHER -> <<>>

AnthropicBlockFrames(i, block) ==
  <<Frame("content_block_start", [index |-> i, block |-> AnthropicStarted(block)])>>
    \o AnthropicPieces(i, block)
    \o <<Frame("content_block_stop", [index |-> i])>>

\* The counts known at the start of an answer, or at its end.
Counts(usage, first, last) ==
  IF usage = NoUsage THEN NoUsage ELSE SubSeq(usage, first, last)

AnthropicFrames(r) ==
  <<Frame("message_start", [usage |-> Counts(r.usage, 1, 3)])>>
    \o FlattenSeq([k \in DOMAIN r.content |-> AnthropicBlockFrames(k - 1, r.content[k])])
    \o <<Frame("message_delta", [stop |-> r.stop, usage |-> Counts(r.usage, 4, 4)]),
         Frame("message_stop", [index |-> 0])>>

\* Blocks have the fields of their type, and a text is not empty: the stream would
\* have no fragment of it, and so no part.
IsBlock(block) ==
  CASE block.type = "text" ->
         block = [type |-> "text", text |-> block.text] /\ IsSaid(block.text)
    [] block.type = "thinking" ->
         /\ block = [type |-> "thinking", thinking |-> block.thinking,
                     signature |-> block.signature]
         /\ IsList(block.thinking) /\ IsList(block.signature)
    [] block.type \in {"tool_use", "server_tool_use"} ->
         /\ block = [type |-> block.type, id |-> block.id, input |-> block.input]
         /\ IsSpelled(block.input)
    [] OTHER -> TRUE

IsAnthropicAnswer(r) ==
  /\ IsList(r.content) /\ \A block \in Range(r.content) : IsBlock(block)
  /\ r.usage = NoUsage \/ r.usage \in [1 .. 4 -> Nat]

AnthropicError == Frame("error", [index |-> 0])

-----------------------------------------------------------------------------
(* stream.rs *)

AnthropicDecoder ==
  [tools |-> {}, texts |-> {}, thinking |-> <<>>, opaque |-> <<>>, input |-> 0]

Without(map, i) == Restrict(map, DOMAIN map \ {i})

AnthropicStart(d, i, block) ==
  CASE block.type = "tool_use" ->
         Yields([d EXCEPT !.tools = @ \cup {i}], <<RawToolStart(i, block.id)>>)
    [] block.type = "thinking" ->
         Ignores([d EXCEPT !.thinking =
                    Inserted(@, i, [type |-> "thinking", thinking |-> <<>>, signature |-> <<>>])])
    [] block.type = "text" -> Ignores([d EXCEPT !.texts = @ \cup {i}])
    [] OTHER -> Ignores([d EXCEPT !.opaque = Inserted(@, i, [block |-> block, json |-> <<>>])])

AnthropicDelta(d, i, delta) ==
  CASE delta.type = "text_delta" -> Yields(d, <<RawText(delta.text)>>)
    [] delta.type = "input_json_delta" ->
         IF i \in DOMAIN d.opaque
         THEN Ignores([d EXCEPT !.opaque[i].json = @ \o delta.json])
         ELSE Yields(d, <<RawToolArgs(i, delta.json)>>)
    [] delta.type = "thinking_delta" ->
         Yields(IF i \in DOMAIN d.thinking
                THEN [d EXCEPT !.thinking[i].thinking = Append(@, delta.thinking)] ELSE d,
                <<RawReasoningText(delta.thinking)>>)
    [] delta.type = "signature_delta" ->
         Ignores(IF i \in DOMAIN d.thinking
                 THEN [d EXCEPT !.thinking[i].signature = Append(@, delta.signature)] ELSE d)
    [] OTHER -> Ignores(d)

\* A slip: the placeholder of the start frame is kept.
OpaqueAsStarted(held) == held.block

\* The block that was held whole, with the input that streamed into it.
OpaqueAsStreamed(held) ==
  IF IsObject(held.json) THEN [held.block EXCEPT !.input = Canonical(held.json)]
  ELSE held.block

AnthropicStop(d, i) ==
  CASE i \in d.tools -> Yields([d EXCEPT !.tools = @ \ {i}], <<RawToolEnd(i)>>)
    [] i \in DOMAIN d.thinking ->
         Yields([d EXCEPT !.thinking = Without(@, i)], <<RawReasoningBlob(d.thinking[i])>>)
    [] i \in DOMAIN d.opaque ->
         Yields([d EXCEPT !.opaque = Without(@, i)],
                <<RawReasoningBlob(OpaqueAsStreamed(d.opaque[i]))>>)
    [] i \in d.texts -> Yields([d EXCEPT !.texts = @ \ {i}], <<RawTextEnd>>)
    [] OTHER -> Ignores(d)

\* Input tokens came with the first frame, output tokens with this one.
AnthropicEnd(d, stop, usage) ==
  Yields(d, <<RawMeta(AnthropicStatus(stop),
                      IF usage = <<>> THEN NoUsage
                      ELSE <<d.input, usage[1], d.input + usage[1]>>)>>)

AnthropicDecode(d, frame) ==
  LET p == Payload(frame)
  IN CASE frame.event = "error" -> Fails(d)
       [] frame.event = "message_start" ->
            Ignores([d EXCEPT !.input =
                       IF p.usage = <<>> THEN 0 ELSE p.usage[1] + p.usage[2] + p.usage[3]])
       [] frame.event = "content_block_start" -> AnthropicStart(d, p.index, p.block)
       [] frame.event = "content_block_delta" -> AnthropicDelta(d, p.index, p.delta)
       [] frame.event = "content_block_stop"  -> AnthropicStop(d, p.index)
       [] frame.event = "message_delta"       -> AnthropicEnd(d, p.stop, p.usage)
       [] OTHER -> Ignores(d)

=============================================================================
