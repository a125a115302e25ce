--------------------------- MODULE ResponsesStream ---------------------------
(***************************************************************************)
(* dialect/openai_responses: the same response parsed whole (response.rs)  *)
(* and decoded from a stream (stream.rs), with the frames the API sends    *)
(* for it (external, as docs/reference/wire and the tests have it).        *)
(*                                                                         *)
(* A response is its output items, its status and its token counts.        *)
(***************************************************************************)
EXTENDS Assembler

ResponsesStatus(status) ==
  IF status \in {"completed", "incomplete", "requires_action", "failed"}
  THEN status ELSE "other"

-----------------------------------------------------------------------------
(* response.rs *)

ResponsesPart(part) ==
  IF part.type = "output_text" THEN TextPart(part.text) ELSE RefusalPart(part.text)

\* Arguments are handed on as the model wrote them.
ConvertItem(item) ==
  CASE item.type = "message" ->
         [k \in DOMAIN item.parts |-> ResponsesPart(item.parts[k])]
    [] item.type = "function_call" -> <<CallPart(item.id, item.input)>>
    [] OTHER                       -> <<ReasoningPart(item)>>

ResponsesParse(r) ==
  [content |-> FlattenSeq([k \in DOMAIN r.output |-> ConvertItem(r.output[k])]),
   status  |-> ResponsesStatus(r.status),
   usage   |-> r.usage]

-----------------------------------------------------------------------------
(* The frames of a response *)

ResponsesPartFrames(i, part) ==
  LET kind == IF part.type = "output_text"
              THEN <<"response.output_text.delta", "response.output_text.done">>
              ELSE <<"response.refusal.delta", "response.refusal.done">>
  IN [k \in DOMAIN part.text |-> Frame(kind[1], [index |-> i, text |-> part.text[k]])]
     \o <<Frame(kind[2], [index |-> i])>>

ResponsesItemPieces(i, item) ==
  CASE item.type = "message" ->
         FlattenSeq([k \in DOMAIN item.parts |-> ResponsesPartFrames(i, item.parts[k])])
    [] item.type = "function_call" ->
         [k \in DOMAIN item.input |->
            Frame("response.function_call_arguments.delta",
                  [index |-> i, json |-> <<item.input[k]>>])]
         \o <<Frame("response.function_call_arguments.done",
                    [index |-> i, json |-> item.input])>>
    [] OTHER -> <<Frame("response.reasoning_summary_text.delta", [index |-> i, text |-> "t"])>>

ResponsesItemFrames(i, item) ==
  <<Frame("response.output_item.added", [index |-> i, item |-> item])>>
    \o ResponsesItemPieces(i, item)
    \o <<Frame("response.output_item.done", [index |-> i, item |-> item])>>

ResponsesFrames(r) ==
  FlattenSeq([k \in DOMAIN r.output |-> ResponsesItemFrames(k - 1, r.output[k])])
    \o <<Frame("response.completed", [index |-> 0, status |-> r.status, usage |-> r.usage])>>

\* No text and no call's arguments are empty, and no two refusals are side by side:
\* nothing ends a refusal, and the stream would have one part for both.
IsItem(item) ==
  CASE item.type = "message" ->
         IsList(item.parts)
         /\ \A part \in Range(item.parts) :
              part.type \in {"output_text", "refusal"} /\ IsSaid(part.text)
    [] item.type = "function_call" -> IsSaid(item.input)
    [] OTHER -> TRUE

IsResponse(r) ==
  /\ IsList(r.output) /\ \A item \in Range(r.output) : IsItem(item)
  /\ LET content == ResponsesParse(r).content
     IN \A k \in 2 .. Len(content) :
          ~(content[k - 1].part = "refusal" /\ content[k].part = "refusal")

ResponsesError == Frame("error", [index |-> 0])

-----------------------------------------------------------------------------
(* stream.rs *)

\* The decoder keeps nothing.
ResponsesDecoder == [stateless |-> TRUE]

ResponsesDeltas(event, p) ==
  CASE event = "response.output_text.delta" -> <<RawText(p.text)>>
    [] event = "response.output_text.done"  -> <<RawTextEnd>>
    [] event = "response.refusal.delta"     -> <<RawRefusal(p.text)>>
    [] event = "response.reasoning_summary_text.delta" -> <<RawReasoningText(p.text)>>
    [] event = "response.output_item.added" ->
         IF p.item.type = "function_call" THEN <<RawToolStart(p.index, p.item.id)>> ELSE <<>>
    [] event = "response.output_item.done" ->
         IF p.item.type \in {"message", "function_call"} THEN <<>>
         ELSE <<RawReasoningBlob(p.item)>>
    [] event = "response.function_call_arguments.delta" -> <<RawToolArgs(p.index, p.json)>>
    [] event = "response.function_call_arguments.done" ->
         <<RawToolReplace(p.index, p.json), RawToolEnd(p.index)>>
    [] event \in {"response.completed", "response.incomplete", "response.failed"} ->
         <<RawMeta(ResponsesStatus(p.status), p.usage)>>
    [] OTHER -> <<>>

ResponsesDecode(d, frame) ==
  IF frame.event = "error" THEN Fails(d)
  ELSE Yields(d, ResponsesDeltas(frame.event, Payload(frame)))

=============================================================================
