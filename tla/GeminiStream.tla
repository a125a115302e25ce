----------------------------- MODULE GeminiStream -----------------------------
(***************************************************************************)
(* dialect/gemini: the same interaction parsed whole (response.rs) and     *)
(* decoded from a stream (stream.rs), with the frames the API sends for it *)
(* (external, as docs/reference/wire/gemini.md and the tests have it).     *)
(*                                                                         *)
(* An interaction is its steps, its status and its token counts.  A        *)
(* model_output step has one text part.  A step Freyja does not model has  *)
(* a string field, code, and a field of another kind, result.              *)
(***************************************************************************)
EXTENDS Assembler

GeminiStatus(status) ==
  CASE status \in {"completed", "requires_action"}    -> status
    [] status \in {"incomplete", "budget_exceeded"}   -> "incomplete"
    [] status \in {"failed", "cancelled"}             -> "failed"
    [] OTHER                                          -> "other"

-----------------------------------------------------------------------------
(* response.rs *)

ConvertStep(step) ==
  CASE step.type = "model_output"  -> TextPart(step.text)
    [] step.type = "function_call" -> CallPart(step.id, Canonical(step.input))
    [] OTHER                       -> ReasoningPart(step)

GeminiParse(r) ==
  [content |-> [k \in DOMAIN r.steps |-> ConvertStep(r.steps[k])],
   status  |-> GeminiStatus(r.status),
   usage   |-> r.usage]

-----------------------------------------------------------------------------
(* The frames of an interaction.  The event is named inside the payload. *)

GeminiPiece(i, delta) ==
  Frame("none", [event |-> "step.delta", index |-> i, delta |-> delta])

GeminiStarted(step) ==
  CASE step.type = "model_output"  -> [step EXCEPT !.text = <<>>]
    [] step.type = "function_call" -> [step EXCEPT !.input = EmptyObject]
    [] step.type = "thought"       -> [step EXCEPT !.signature = <<>>]
    [] OTHER                       -> [step EXCEPT !.code = <<>>, !.result = "none"]

GeminiPieces(i, step) ==
  CASE step.type = "model_output" ->
         [k \in DOMAIN step.text |->
            GeminiPiece(i, [type |-> "text", text |-> step.text[k]])]
    [] step.type = "function_call" ->
         [k \in DOMAIN step.input |->
            GeminiPiece(i, [type |-> "arguments_delta", json |-> <<step.input[k]>>])]
    [] step.type = "thought" ->
         <<GeminiPiece(i, [type |-> "thought_summary", text |-> "t"])>>
         \o [k \in DOMAIN step.signature |->
            GeminiPiece(i, [type |-> "thought_signature", signature |-> step.signature[k]])]
    [] OTHER ->
         [k \in DOMAIN step.code |->
            GeminiPiece(i, [type |-> "code", code |-> step.code[k]])]
         \o <<GeminiPiece(i, [type |-> "result", result |-> step.result])>>

GeminiStepFrames(i, step) ==
  <<Frame("none", [event |-> "step.start", index |-> i, step |-> GeminiStarted(step)])>>
    \o GeminiPieces(i, step)
    \o <<Frame("none", [event |-> "step.stop", index |-> i])>>

GeminiFrames(r) ==
  FlattenSeq([k \in DOMAIN r.steps |-> GeminiStepFrames(k - 1, r.steps[k])])
    \o <<Frame("none", [event |-> "interaction.completed", index |-> 0,
                        status |-> r.status, usage |-> r.usage])>>

\* Steps have the fields of their type, and a text is not empty: the stream would
\* have no fragment of it, and so no part.
IsStep(step) ==
  CASE step.type = "model_output" ->
         step = [type |-> "model_output", text |-> step.text] /\ IsSaid(step.text)
    [] step.type = "function_call" ->
         /\ step = [type |-> "function_call", id |-> step.id, input |-> step.input]
         /\ IsSpelled(step.input)
    [] step.type = "thought" ->
         step = [type |-> "thought", signature |-> step.signature] /\ IsList(step.signature)
    [] OTHER ->
         /\ step = [type |-> step.type, code |-> step.code, result |-> step.result]
         /\ IsList(step.code)

IsInteraction(r) == IsList(r.steps) /\ \A step \in Range(r.steps) : IsStep(step)

GeminiError == Frame("none", [event |-> "error", index |-> 0])

-----------------------------------------------------------------------------
(* stream.rs *)

\* steps: what was started at each index, with the signature of a thought.
GeminiDecoder == [steps |-> <<>>]

GeminiStart(d, i, step) ==
  LET held    == [step |-> step, signature |-> <<>>]
      started == [d EXCEPT !.steps = Inserted(@, i, held)]
  IN IF step.type = "function_call"
     THEN Yields(started, <<RawToolStart(i, step.id)>>)
     ELSE Ignores(started)

\* merge_delta: strings append, anything else is the latest value.
MergeDelta(step, delta) ==
  IF delta.type = "code" THEN [step EXCEPT !.code = Append(@, delta.code)]
  ELSE [step EXCEPT !.result = delta.result]

Holds(d, i, types) == i \in DOMAIN d.steps /\ d.steps[i].step.type \in types

GeminiModelled == {"function_call", "model_output", "thought"}

GeminiDelta(d, i, delta) ==
  CASE delta.type = "text"            -> Yields(d, <<RawText(delta.text)>>)
    [] delta.type = "arguments_delta" -> Yields(d, <<RawToolArgs(i, delta.json)>>)
    [] delta.type = "thought_summary" -> Yields(d, <<RawReasoningText(delta.text)>>)
    [] delta.type = "thought_signature" ->
         Ignores(IF Holds(d, i, {"thought"})
                 THEN [d EXCEPT !.steps[i].signature = Append(@, delta.signature)] ELSE d)
    [] OTHER ->
         Ignores(IF i \in DOMAIN d.steps /\ ~Holds(d, i, GeminiModelled)
                 THEN [d EXCEPT !.steps[i].step = MergeDelta(@, delta)] ELSE d)

\* What the end of a step means.
StepEnded(i, held) ==
  CASE held.step.type = "function_call" -> RawToolEnd(i)
    [] held.step.type = "model_output"  -> RawTextEnd
    [] held.step.type = "thought" ->
         RawReasoningBlob(IF held.signature = <<>> THEN held.step
                          ELSE [held.step EXCEPT !.signature = held.signature])
    [] OTHER -> RawReasoningBlob(held.step)

GeminiStop(d, i) ==
  IF i \in DOMAIN d.steps
  THEN Yields([d EXCEPT !.steps = Restrict(@, DOMAIN @ \ {i})],
              <<StepEnded(i, d.steps[i])>>)
  ELSE Ignores(d)

GeminiDecode(d, frame) ==
  LET p == Payload(frame)
  IN CASE p.event = "step.start" -> GeminiStart(d, p.index, p.step)
       [] p.event = "step.delta" -> GeminiDelta(d, p.index, p.delta)
       [] p.event = "step.stop"  -> GeminiStop(d, p.index)
       [] p.event \in {"interaction.completed", "interaction.failed",
                       "interaction.incomplete"} ->
            Yields(d, <<RawMeta(GeminiStatus(p.status), p.usage)>>)
       [] OTHER -> Ignores(d)

=============================================================================
