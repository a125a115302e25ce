------------------------------ MODULE ChatStream ------------------------------
(***************************************************************************)
(* dialect/openai_chat: the same answer parsed whole (response.rs) and     *)
(* decoded from a stream (stream.rs), with the frames an endpoint sends    *)
(* for it (external, as docs/reference/wire and the tests have it).        *)
(*                                                                         *)
(* An answer is one choice: its text, its refusal, its calls, why it       *)
(* finished; and token counts.  No frame of this dialect ends a call.      *)
(***************************************************************************)
EXTENDS Assembler

ChatStatus(reason) ==
  CASE reason = "stop"                            -> "completed"
    [] reason = "length"                          -> "incomplete"
    [] reason \in {"tool_calls", "function_call"} -> "requires_action"
    [] OTHER                                      -> "other"

-----------------------------------------------------------------------------
(* response.rs *)

ChatCall(call) ==
  CallPart(call.id, IF call.input = <<>> THEN EmptyObject ELSE call.input)

ChatParse(r) ==
  [content |-> (IF r.text = <<>> THEN <<>> ELSE <<TextPart(r.text)>>)
               \o (IF r.refusal = <<>> THEN <<>> ELSE <<RefusalPart(r.refusal)>>)
               \o [k \in DOMAIN r.calls |-> ChatCall(r.calls[k])],
   status  |-> ChatStatus(r.finish),
   usage   |-> r.usage]

-----------------------------------------------------------------------------
(* The frames of an answer.  An absent field is the empty sequence, an     *)
(* explicit null is <<"null">>.                                            *)

ChatChunk == [text |-> <<>>, refusal |-> <<>>, calls |-> <<>>, finish |-> <<>>,
              usage |-> <<>>, error |-> FALSE]

ChatFrame(chunk) == Frame("none", chunk)
ChatSentinel     == ChatFrame([sentinel |-> TRUE])

\* All calls begin in one frame, and one frame carries the k-th fragment of
\* each: the widest mixture of slots the format allows.
ChatCallsBegin(calls) ==
  [ChatChunk EXCEPT !.calls =
     [k \in DOMAIN calls |-> [index |-> k - 1, id |-> <<calls[k].id>>, json |-> <<>>]]]

ChatCallGoesOn(call, k, n) ==
  IF Len(call.input) < n THEN <<>>
  ELSE <<[index |-> k - 1, id |-> <<>>, json |-> <<call.input[n]>>]>>

ChatCallsGoOn(calls, n) ==
  [ChatChunk EXCEPT !.calls =
     FlattenSeq([k \in DOMAIN calls |-> ChatCallGoesOn(calls[k], k, n)])]

ChatLongest(calls) ==
  LET lengths == {0} \cup {Len(calls[k].input) : k \in DOMAIN calls}
  IN CHOOSE n \in lengths : \A m \in lengths : m <= n

ChatChunks(r) ==
  [k \in DOMAIN r.text |-> [ChatChunk EXCEPT !.text = <<r.text[k]>>]]
    \o [k \in DOMAIN r.refusal |-> [ChatChunk EXCEPT !.refusal = <<r.refusal[k]>>]]
    \o (IF r.calls = <<>> THEN <<>> ELSE <<ChatCallsBegin(r.calls)>>)
    \o [n \in 1 .. ChatLongest(r.calls) |-> ChatCallsGoOn(r.calls, n)]
    \o <<[ChatChunk EXCEPT !.finish = <<r.finish>>]>>

\* With counts requested, every frame before the last has them as null.
ChatFrames(r) ==
  LET chunks == ChatChunks(r)
  IN (IF r.usage = NoUsage
      THEN [k \in DOMAIN chunks |-> ChatFrame(chunks[k])]
      ELSE [k \in DOMAIN chunks |-> ChatFrame([chunks[k] EXCEPT !.usage = <<"null">>])]
           \o <<ChatFrame([ChatChunk EXCEPT !.usage = r.usage])>>)
     \o <<ChatSentinel>>

IsChatAnswer(r) ==
  /\ IsList(r.text) /\ IsList(r.refusal) /\ IsList(r.calls)
  /\ \A call \in Range(r.calls) : IsList(call.input)
  /\ r.usage = NoUsage \/ r.usage \in [1 .. 3 -> Nat]

\* A frame that is read has its lists.
IsChunk(frame) ==
  HasPayload(frame) /\ frame # ChatSentinel
    => LET p == Payload(frame)
       IN /\ p.text \in Seq(Range(p.text))
          /\ p.refusal \in Seq(Range(p.refusal))
          /\ p.calls \in Seq(Range(p.calls))

ChatError == ChatFrame([ChatChunk EXCEPT !.error = TRUE])

-----------------------------------------------------------------------------
(* stream.rs *)

\* The decoder keeps nothing.
ChatDecoder == [stateless |-> TRUE]

\* A counts object that is null reads as zeros.
ChatUsage(usage) ==
  CASE usage = <<>>   -> NoUsage
    [] Len(usage) = 1 -> <<0, 0, 0>>
    [] OTHER          -> usage

ChatCallDeltas(call) ==
  (IF call.id = <<>> THEN <<>> ELSE <<RawToolStart(call.index, call.id[1])>>)
    \o (IF call.json = <<>> THEN <<>> ELSE <<RawToolArgs(call.index, call.json)>>)

ChatMeta(p) ==
  IF p.finish = <<>> /\ p.usage = <<>> THEN <<>>
  ELSE <<RawMeta(IF p.finish = <<>> THEN "none" ELSE ChatStatus(p.finish[1]),
                 ChatUsage(p.usage))>>

ChatDeltas(p) ==
  [k \in DOMAIN p.text |-> RawText(p.text[k])]
    \o [k \in DOMAIN p.refusal |-> RawRefusal(p.refusal[k])]
    \o FlattenSeq([k \in DOMAIN p.calls |-> ChatCallDeltas(p.calls[k])])
    \o ChatMeta(p)

ChatDecode(d, frame) ==
  LET p == Payload(frame)
  IN CASE frame = ChatSentinel               -> Ignores(d)
       [] frame # ChatSentinel /\ p.error    -> Fails(d)
       [] OTHER                              -> Yields(d, ChatDeltas(p))

=============================================================================
