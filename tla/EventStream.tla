----------------------------- MODULE EventStream -----------------------------
(***************************************************************************)
(* stream/event.rs: a live stream of events.  `next` loops: hand over what *)
(* is queued, decode a buffered frame, else wait for bytes; when the body  *)
(* has ended, flush and finish.  Each turn of that loop is an action.      *)
(*                                                                         *)
(* The endpoint (external) answers in one of the four dialects.  Its bytes *)
(* arrive in any chunks, and may stop at any of them, cleanly or not; it   *)
(* may report a failure between two frames, or never end one.  The caller  *)
(* may go on calling `next` after an error, and may drop a call of it at   *)
(* the one await, where nothing has changed yet.                           *)
(***************************************************************************)
EXTENDS Sse, AnthropicStream, GeminiStream, ChatStream, ResponsesStream

CONSTANTS
  Answers,    \* what is answered: records of a dialect and an answer in it
  MaxChunk,   \* bound: the longest chunk of a body
  MaxFrame,   \* MAX_FRAME_BYTES
  MaxStream   \* MAX_STREAM_BYTES

ASSUME StreamAssumption ==
  MaxChunk \in Nat \ {0} /\ MaxFrame \in Nat /\ MaxStream \in Nat

VARIABLES
  sent,     \* what the endpoint answers: dialect, answer, fault, frames, bytes
  read,     \* bytes of it taken from the socket so far
  live,     \* whether the connection still holds
  buffer,   \* the SseBuffer
  decoder,  \* the dialect's StreamDecoder
  asm,      \* the Assembler, and in `out` the events queued
  closed,   \* whether the body has ended
  drained,  \* whether `next` has returned None
  failed,   \* whether a call of `next` has returned an error
  decoded,  \* history: the frames split off so far
  seen      \* history: the events handed to the caller

streamVars ==
  <<read, live, buffer, asm, closed, drained, failed, decoder, decoded, seen, sent>>

-----------------------------------------------------------------------------
(* What an endpoint sends *)

Lines(frame) ==
  IF frame.data = <<>> THEN <<CommentLine>>
  ELSE (IF frame.event = "none" THEN <<>> ELSE <<EventLine(frame.event)>>)
       \o [k \in DOMAIN frame.data |-> DataLine(frame.data[k])]

FrameBytes(frame, newline) ==
  FlattenSeq([k \in DOMAIN Lines(frame) |-> <<Lines(frame)[k]>> \o newline]) \o newline

Encoded(frames, newline) ==
  FlattenSeq([k \in DOMAIN frames |-> FrameBytes(frames[k], newline)])

\* A frame that carries nothing.
KeepAlive == [event |-> "none", data |-> <<>>]

FramesOf(a) ==
  <<KeepAlive>> \o
  CASE a.dialect = "anthropic" -> AnthropicFrames(a.answer)
    [] a.dialect = "gemini"    -> GeminiFrames(a.answer)
    [] a.dialect = "chat"      -> ChatFrames(a.answer)
    [] a.dialect = "responses" -> ResponsesFrames(a.answer)

\* Every answer is in one of the four dialects and is sent as frames that carry
\* one payload each, or none; every chunk of a chat has its lists.
ASSUME AnswersAreFramed ==
  \A a \in Answers :
    /\ a.dialect \in {"anthropic", "gemini", "chat", "responses"}
    /\ FramesOf(a) \in Seq(Range(FramesOf(a))) /\ FramesOf(a) # <<>>
    /\ \A f \in Range(FramesOf(a)) : f = KeepAlive \/ f = Frame(f.event, Payload(f))
    /\ a.dialect = "chat" => \A f \in Range(FramesOf(a)) : IsChunk(f)

\* What is answered is what the documents of its API describe.
IsAnswer(a) ==
  CASE a.dialect = "anthropic" -> IsAnthropicAnswer(a.answer)
    [] a.dialect = "gemini"    -> IsInteraction(a.answer)
    [] a.dialect = "chat"      -> IsChatAnswer(a.answer)
    [] a.dialect = "responses" -> IsResponse(a.answer)

ASSUME AnswersAreDocumented == \A a \in Answers : IsAnswer(a)

ErrorOf(a) ==
  CASE a.dialect = "anthropic" -> AnthropicError
    [] a.dialect = "gemini"    -> GeminiError
    [] a.dialect = "chat"      -> ChatError
    [] a.dialect = "responses" -> ResponsesError

\* An answer sent as it should be, with a failure reported after n of its
\* frames, or with the frame after n never ended.
SentWhole(a, newline) ==
  [dialect |-> a.dialect, answer |-> a.answer, fault |-> "none",
   frames |-> FramesOf(a), bytes |-> Encoded(FramesOf(a), newline)]

SentFailing(a, newline, n) ==
  LET frames == SubSeq(FramesOf(a), 1, n) \o <<ErrorOf(a)>>
  IN [dialect |-> a.dialect, answer |-> a.answer, fault |-> "error",
      frames |-> frames, bytes |-> Encoded(frames, newline)]

SentEndless(a, newline, n) ==
  LET frames == SubSeq(FramesOf(a), 1, n)
  IN [dialect |-> a.dialect, answer |-> a.answer, fault |-> "endless",
      frames |-> frames,
      bytes  |-> Encoded(frames, newline) \o [k \in 1 .. MaxFrame + 1 |-> CommentLine]]

Sendings ==
  UNION {UNION {{SentWhole(a, newline)}
                \cup {SentFailing(a, newline, n) : n \in 0 .. Len(FramesOf(a)) - 1}
                \cup {SentEndless(a, newline, n) : n \in {Len(FramesOf(a)) - 1}}
                : newline \in {<<LF>>, <<CR, LF>>}}
         : a \in Answers}

-----------------------------------------------------------------------------
(* What generate would have returned, and the decoder of each dialect *)

Parse(dialect, answer) ==
  CASE dialect = "anthropic" -> AnthropicParse(answer)
    [] dialect = "gemini"    -> GeminiParse(answer)
    [] dialect = "chat"      -> ChatParse(answer)
    [] dialect = "responses" -> ResponsesParse(answer)

NewDecoder(dialect) ==
  CASE dialect = "anthropic" -> AnthropicDecoder
    [] dialect = "gemini"    -> GeminiDecoder
    [] dialect = "chat"      -> ChatDecoder
    [] dialect = "responses" -> ResponsesDecoder

\* normalizes_tool_arguments
Normalizes(dialect) == dialect \in {"anthropic", "gemini"}

Decode(dialect, d, frame) ==
  CASE ~HasPayload(frame) -> Ignores(d)
    [] HasPayload(frame) /\ dialect = "anthropic" -> AnthropicDecode(d, frame)
    [] HasPayload(frame) /\ dialect = "gemini"    -> GeminiDecode(d, frame)
    [] HasPayload(frame) /\ dialect = "chat"      -> ChatDecode(d, frame)
    [] HasPayload(frame) /\ dialect = "responses" -> ResponsesDecode(d, frame)

-----------------------------------------------------------------------------
(* The loop of next *)

\* queued.pop_front()
HandOver ==
  /\ asm.out # <<>>
  /\ seen' = Append(seen, Head(asm.out))
  /\ asm' = [asm EXCEPT !.out = Tail(@)]
  /\ UNCHANGED <<sent, read, live, buffer, decoder, closed, drained, failed, decoded>>

MayDecode == asm.out = <<>> /\ ~closed /\ HasFrame(buffer)

\* pump_frame, when a frame is buffered.
DecodeFrame ==
  /\ MayDecode
  /\ LET step == Decode(sent.dialect, decoder, FrameOf(buffer))
     IN /\ decoder' = step.decoder
        /\ asm' = AbsorbAll(asm, step.deltas)
        /\ failed' = (failed \/ step.failed)
  /\ buffer' = WithoutFrame(buffer)
  /\ decoded' = Append(decoded, FrameOf(buffer))
  /\ UNCHANGED <<sent, read, live, closed, drained, seen>>

\* pump_frame has found nothing and the loop is about to ask for bytes.
Waiting == asm.out = <<>> /\ ~closed /\ ~HasFrame(buffer)

\* take: n more bytes arrive.  Past the ceiling of the stream they are dropped,
\* past that of a frame they are kept; either way the call fails.
TakeChunk(n) ==
  /\ Waiting /\ live
  /\ read + n <= Len(sent.bytes)
  /\ read' = read + n
  /\ buffer' = IF read' > MaxStream THEN Scanned(buffer)
               ELSE Pushed(Scanned(buffer), SubSeq(sent.bytes, read + 1, read'))
  /\ failed' = (failed \/ read' > MaxStream \/ Len(buffer'.bytes) > MaxFrame)
  /\ UNCHANGED <<sent, live, decoder, asm, closed, drained, decoded, seen>>

\* The connection fails, or is silent for longer than the read timeout.
BodyBreaks ==
  /\ Waiting /\ live
  /\ live' = FALSE
  /\ failed' = TRUE
  /\ buffer' = Scanned(buffer)
  /\ UNCHANGED <<sent, read, decoder, asm, closed, drained, decoded, seen>>

\* A slip: the end of the body is looked for between frames only.
BodyMayEndBetweenFrames == Waiting /\ buffer.bytes = <<>>

BodyMayEnd == Waiting

\* The body is exhausted, though not all of the answer need have arrived.
BodyEnds ==
  /\ BodyMayEnd
  /\ closed' = TRUE
  /\ buffer' = Scanned(buffer)
  /\ asm' = Closed(asm)
  /\ UNCHANGED <<sent, read, live, decoder, drained, failed, decoded, seen>>

\* None
MayFinish == asm.out = <<>> /\ closed /\ ~drained

Finish ==
  /\ MayFinish
  /\ drained' = TRUE
  /\ UNCHANGED <<sent, read, live, buffer, decoder, asm, closed, failed, decoded, seen>>

StreamNext ==
  \/ HandOver
  \/ DecodeFrame
  \/ \E n \in 1 .. MaxChunk : TakeChunk(n)
  \/ BodyBreaks
  \/ BodyEnds
  \/ Finish

StreamInit ==
  /\ sent \in Sendings
  /\ read = 0 /\ live = TRUE
  /\ buffer = EmptyBuffer
  /\ decoder = NewDecoder(sent.dialect)
  /\ asm = NewAssembler(Normalizes(sent.dialect))
  /\ closed = FALSE /\ drained = FALSE /\ failed = FALSE
  /\ decoded = <<>> /\ seen = <<>>

\* ENABLED StreamNext, written out for TLC.
CanMove ==
  asm.out # <<>> \/ MayDecode \/ (Waiting /\ live) \/ BodyMayEnd \/ MayFinish

\* Weak fairness of StreamNext: the caller calls next until it returns None,
\* after an error too, a connection that has failed brings no more bytes, and
\* a body that neither brings bytes nor ends is broken by the read timeout
\* (client.rs).
StreamFairness == []<>~CanMove \/ []<><<StreamNext>>_streamVars

StreamSpec == StreamInit /\ [][StreamNext]_streamVars /\ StreamFairness

-----------------------------------------------------------------------------
(* Properties *)

Whole == read = Len(sent.bytes)

(* However a body is cut into chunks, within a line, a separator or many frames,
   its frames come out as they were sent, in order and none lost. *)
FramesArriveWhole ==
  /\ IsPrefix(decoded, sent.frames)
  /\ closed /\ Whole /\ ~failed => decoded = sent.frames

(* A drained stream is the response generate would have returned for the same
   answer: part for part, status and token counts (docs/reference/streaming.md). *)
DrainedIsTheResponse ==
  drained /\ Whole /\ ~failed /\ sent.fault = "none"
    => Assembled(asm) = Parse(sent.dialect, sent.answer)

\* What the events so far, handed over or queued, add up to.
Told == seen \o asm.out

\* The texts of one kind of event, and of one kind of part.
Fragments(events, kind) ==
  FlattenSeq([k \in DOMAIN events |->
                IF events[k].event = kind THEN <<events[k].text>> ELSE <<>>])

TextOf(parts, kind) ==
  FlattenSeq([k \in DOMAIN parts |->
                IF parts[k].part = kind THEN parts[k].text ELSE <<>>])

\* The calls and reasoning that events tell, and those among parts.
OpaqueIn(e) ==
  CASE e.event = "tool_call" -> <<CallPart(e.id, e.arguments)>>
    [] e.event = "reasoning" -> <<ReasoningPart(e.data)>>
    [] OTHER                 -> <<>>

OpaqueTold(events) == FlattenSeq([k \in DOMAIN events |-> OpaqueIn(events[k])])

OpaqueOf(parts) ==
  FlattenSeq([k \in DOMAIN parts |->
                IF parts[k].part \in {"call", "reasoning"} THEN <<parts[k]>> ELSE <<>>])

\* The events tell the text, refusals, calls and reasoning of the response.
EventsAreTheResponse ==
  /\ Fragments(Told, "text_delta") = TextOf(asm.captured, "text")
  /\ Fragments(Told, "refusal_delta") = TextOf(asm.captured, "refusal")
  /\ OpaqueTold(Told) = OpaqueOf(asm.captured)

\* Done comes once, after everything else and before None.
DoneIsLast ==
  /\ \A i \in DOMAIN Told : Told[i].event = "done" => i = Len(Told)
  /\ drained => Last(seen).event = "done"

(* A caller that acts on events and one that waits for the response are told the
   same, and the first knows at Done that it has heard it all, whatever the end of
   the body had to flush (absorb, finish_call and close). *)
EventsAddUp == EventsAreTheResponse /\ DoneIsLast

(* A stream that stops early is told from one that finished by its status alone,
   errors apart: any status but incomplete means all of the content is there. *)
FinishedIsWhole ==
  closed /\ asm.status # "incomplete"
    => asm.captured = Parse(sent.dialect, sent.answer).content

(* The response is final from the moment into_response would give it, even while
   events of it are still queued. *)
ResponseIsFinal == [][asm.finished => Assembled(asm') = Assembled(asm)]_streamVars

(* A caller that goes on calling next, through errors too, reaches None: a body
   cut anywhere, even within a frame, is flushed and ends. *)
Drains == <>drained

(* docs/reference/streaming.md: "StreamEvent::ToolCall always carries arguments
   you can hand straight to serde_json::from_str". *)
ToolCallsAreWhole ==
  \A i \in DOMAIN Told : Told[i].event = "tool_call" => IsObject(Told[i].arguments)

=============================================================================
