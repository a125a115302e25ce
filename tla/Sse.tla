--------------------------------- MODULE Sse ---------------------------------
(***************************************************************************)
(* stream/sse.rs: bytes of a body, pushed in whatever chunks they arrive,  *)
(* into server-sent events.                                                *)
(*                                                                         *)
(* A byte is a carriage return, a newline, or a letter that stands for all *)
(* the rest of one line: nothing between two line ends matters to framing, *)
(* and UTF-8 is decoded only once a frame is whole.                        *)
(***************************************************************************)
EXTENDS Integers, SequencesExt

CR == [line |-> "cr"]
LF == [line |-> "lf"]

\* The letters: an event name, a payload, a comment.
EventLine(name)   == [line |-> "event", value |-> name]
DataLine(payload) == [line |-> "data", value |-> payload]
CommentLine       == [line |-> "comment"]

\* A slip: one byte less than what a separator can have on the earlier side.
OverlapTooShort == 2

\* SEPARATOR_OVERLAP
SeparatorOverlap == 3

EmptyBuffer == [bytes |-> <<>>, scanned |-> 0]

Pushed(buffer, chunk) == [buffer EXCEPT !.bytes = @ \o chunk]

StartsWith(bytes, k, pattern) ==
  /\ k + Len(pattern) - 1 <= Len(bytes)
  /\ SubSeq(bytes, k, k + Len(pattern) - 1) = pattern

\* The length of the separator that begins at k, 0 when none does.
SeparatorAt(bytes, k) ==
  CASE StartsWith(bytes, k, <<CR, LF, CR, LF>>) -> 4
    [] StartsWith(bytes, k, <<LF, LF>>)         -> 2
    [] OTHER                                    -> 0

\* Where the frame's text ends: just before the first separator not yet ruled
\* out by an earlier scan, or 0 when there is none.
FrameEnd(buffer) ==
  LET bytes == buffer.bytes
      from  == IF buffer.scanned > SeparatorOverlap
               THEN buffer.scanned - SeparatorOverlap ELSE 0
      ends  == {k \in from + 1 .. Len(bytes) - 1 : SeparatorAt(bytes, k) # 0}
  IN IF ends = {} THEN 0 ELSE CHOOSE k \in ends : \A l \in ends : k <= l

HasFrame(buffer) == FrameEnd(buffer) # 0

\* What the lines of one kind carry.
LinesOf(text, kind) ==
  FlattenSeq([k \in DOMAIN text |->
                IF text[k].line = kind THEN <<text[k].value>> ELSE <<>>])

\* The frame taken off the front: its last event name, and its data lines,
\* which are joined.
FrameOf(buffer) ==
  LET text   == SubSeq(buffer.bytes, 1, FrameEnd(buffer) - 1)
      events == LinesOf(text, "event")
  IN [event |-> IF events = <<>> THEN "none" ELSE Last(events),
      data  |-> LinesOf(text, "data")]

WithoutFrame(buffer) ==
  LET next == FrameEnd(buffer) + SeparatorAt(buffer.bytes, FrameEnd(buffer))
  IN [bytes |-> SubSeq(buffer.bytes, next, Len(buffer.bytes)), scanned |-> 0]

\* What a search that finds no frame leaves behind.
Scanned(buffer) == [buffer EXCEPT !.scanned = Len(buffer.bytes)]

=============================================================================
