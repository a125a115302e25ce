------------------------------ MODULE Assembler ------------------------------
(***************************************************************************)
(* stream/assembler.rs: what the frames of any dialect meant, turned into  *)
(* the events a caller sees and the response it may ask for at the end.    *)
(*                                                                         *)
(* A text is the sequence of its fragments.  A JSON object is a sequence   *)
(* of numbers: Open, its members in the order they were written, Close; a  *)
(* fragment of one is any run of it.  Ids of responses, model names and    *)
(* provider metadata are left out.                                         *)
(***************************************************************************)
EXTENDS Integers, SequencesExt, TLC

Open  == 0
Close == 9
EmptyObject == <<Open, Close>>

\* serde_json::from_str succeeds.
IsObject(text) == Len(text) > 1 /\ text[1] = Open /\ Last(text) = Close

\* Value::to_string of what it read: the members sorted.
Canonical(text) == SortSeq(text, <)

IsList(s) == s \in Seq(Range(s))

\* A text with something in it, and an object written out.
IsSaid(text)   == IsList(text) /\ text # <<>>
IsSpelled(text) == IsList(text) /\ IsObject(text)

\* RawDelta
RawText(text)               == [delta |-> "text", text |-> text]
RawTextEnd                  == [delta |-> "text_end"]
RawRefusal(text)            == [delta |-> "refusal", text |-> text]
RawToolStart(slot, id)      == [delta |-> "tool_start", slot |-> slot, id |-> id]
RawToolArgs(slot, fragment) == [delta |-> "tool_args", slot |-> slot, text |-> fragment]
RawToolReplace(slot, args)  == [delta |-> "tool_replace", slot |-> slot, text |-> args]
RawToolEnd(slot)            == [delta |-> "tool_end", slot |-> slot]
RawReasoningText(text)      == [delta |-> "reasoning_text", text |-> text]
RawReasoningBlob(data)      == [delta |-> "reasoning_blob", data |-> data]
RawMeta(status, usage)      == [delta |-> "meta", status |-> status, usage |-> usage]

\* OutputContent
TextPart(text)     == [part |-> "text", text |-> text]
RefusalPart(text)  == [part |-> "refusal", text |-> text]
CallPart(id, args) == [part |-> "call", id |-> id, arguments |-> args]
ReasoningPart(data) == [part |-> "reasoning", data |-> data]

\* Token counts: input, output and total, or none.
NoUsage == <<>>

\* StreamEvent
TextDelta(text)      == [event |-> "text_delta", text |-> text]
RefusalDelta(text)   == [event |-> "refusal_delta", text |-> text]
ToolCall(id, args)   == [event |-> "tool_call", id |-> id, arguments |-> args]
ReasoningDelta(text) == [event |-> "reasoning_delta", text |-> text]
Reasoning(data)      == [event |-> "reasoning", data |-> data]
Done(status, usage)  == [event |-> "done", status |-> status, usage |-> usage]

\* A slip: a stream is complete until a frame says otherwise.
InitialStatusCompleted == "completed"

InitialStatus == "incomplete"

\* The state of Assembler, with the events not yet handed over in `out`.
\* normalize is StreamDecoder::normalizes_tool_arguments.
NewAssembler(normalize) ==
  [normalize |-> normalize, pending |-> <<>>, captured |-> <<>>,
   status |-> InitialStatus, usage |-> NoUsage,
   finished |-> FALSE, textOpen |-> FALSE, out |-> <<>>]

LastIs(a, part) == a.captured # <<>> /\ Last(a.captured).part = part

\* The last captured part with one more fragment of text.
Extended(a, text) ==
  [a.captured EXCEPT ![Len(a.captured)].text = Append(@, text)]

AbsorbText(a, text) ==
  [a EXCEPT !.captured = IF LastIs(a, "text") /\ a.textOpen THEN Extended(a, text)
                         ELSE Append(@, TextPart(<<text>>)),
            !.textOpen = TRUE,
            !.out = Append(@, TextDelta(text))]

AbsorbRefusal(a, text) ==
  [a EXCEPT !.captured = IF LastIs(a, "refusal") THEN Extended(a, text)
                         ELSE Append(@, RefusalPart(<<text>>)),
            !.out = Append(@, RefusalDelta(text))]

AbsorbBlob(a, data) ==
  [a EXCEPT !.captured = Append(@, ReasoningPart(data)),
            !.out = Append(@, Reasoning(data))]

\* A slip: the frame that has the status is taken for the last.
AbsorbMetaFinishing(a, status, usage) ==
  [a EXCEPT !.status   = IF status = "none" THEN @ ELSE status,
            !.usage    = IF usage = NoUsage THEN @ ELSE usage,
            !.finished = @ \/ status # "none"]

AbsorbMeta(a, status, usage) ==
  [a EXCEPT !.status = IF status = "none" THEN @ ELSE status,
            !.usage  = IF usage = NoUsage THEN @ ELSE usage]

\* HashMap::insert
Inserted(map, key, value) ==
  [k \in DOMAIN map \cup {key} |-> IF k = key THEN value ELSE map[k]]

AbsorbToolStart(a, slot, id) ==
  [a EXCEPT !.pending = Inserted(@, slot, [id |-> id, arguments |-> <<>>])]

AbsorbToolArgs(a, slot, text) ==
  IF slot \in DOMAIN a.pending
  THEN [a EXCEPT !.pending[slot].arguments = @ \o text] ELSE a

AbsorbToolReplace(a, slot, text) ==
  IF slot \in DOMAIN a.pending
  THEN [a EXCEPT !.pending[slot].arguments = text] ELSE a

\* The arguments of a call whose fragments have all arrived.
FinishedArguments(a, text) ==
  LET whole == IF text = <<>> THEN EmptyObject ELSE text
  IN IF a.normalize /\ IsObject(whole) THEN Canonical(whole) ELSE whole

FinishCall(a, slot) ==
  IF slot \notin DOMAIN a.pending THEN a
  ELSE LET call == a.pending[slot]
           args == FinishedArguments(a, call.arguments)
       IN [a EXCEPT !.pending  = Restrict(@, DOMAIN @ \ {slot}),
                    !.captured = Append(@, CallPart(call.id, args)),
                    !.out      = Append(@, ToolCall(call.id, args))]

Absorb(a, d) ==
  CASE d.delta = "text"           -> AbsorbText(a, d.text)
    [] d.delta = "text_end"       -> [a EXCEPT !.textOpen = FALSE]
    [] d.delta = "refusal"        -> AbsorbRefusal(a, d.text)
    [] d.delta = "reasoning_text" -> [a EXCEPT !.out = Append(@, ReasoningDelta(d.text))]
    [] d.delta = "reasoning_blob" -> AbsorbBlob(a, d.data)
    [] d.delta = "meta"           -> AbsorbMeta(a, d.status, d.usage)
    [] d.delta = "tool_start"     -> AbsorbToolStart(a, d.slot, d.id)
    [] d.delta = "tool_args"      -> AbsorbToolArgs(a, d.slot, d.text)
    [] d.delta = "tool_replace"   -> AbsorbToolReplace(a, d.slot, d.text)
    [] d.delta = "tool_end"       -> FinishCall(a, d.slot)

\* One delta after the other.
AbsorbAll(a, deltas) ==
  LET after[n \in 0 .. Len(deltas)] ==
        IF n = 0 THEN a ELSE Absorb(after[n - 1], deltas[n])
  IN after[Len(deltas)]

LowestSlot(a) == CHOOSE slot \in DOMAIN a.pending : \A s \in DOMAIN a.pending : slot <= s

\* The calls that no frame ended are finished, lowest slot first.
Flushed(a) ==
  LET calls == Cardinality(DOMAIN a.pending)
      after[n \in 0 .. calls] ==
        IF n = 0 THEN a ELSE FinishCall(after[n - 1], LowestSlot(after[n - 1]))
  IN after[calls]

\* A slip: the terminal event goes out before the calls are flushed.
ClosedDoneFirst(a) ==
  Flushed([a EXCEPT !.finished = TRUE, !.out = Append(@, Done(a.status, a.usage))])

\* What is pending is flushed, then the terminal event goes out.
Closed(a) ==
  [Flushed(a) EXCEPT !.finished = TRUE, !.out = Append(@, Done(a.status, a.usage))]

-----------------------------------------------------------------------------
(* trait StreamDecoder *)

\* What decode makes of a frame: its own next state, and deltas or an error.
Yields(decoder, deltas) == [decoder |-> decoder, deltas |-> deltas, failed |-> FALSE]
Ignores(decoder)        == Yields(decoder, <<>>)
Fails(decoder)          == [decoder |-> decoder, deltas |-> <<>>, failed |-> TRUE]

\* A frame and its payload.  Providers put a payload on one data line; a frame
\* with none is a comment, and does not parse as JSON.
Frame(event, payload) == [event |-> event, data |-> <<payload>>]
HasPayload(frame)     == Len(frame.data) = 1
Payload(frame)        == frame.data[1]

\* into_response, when it succeeds.
Assembled(a) == [content |-> a.captured, status |-> a.status, usage |-> a.usage]

=============================================================================
