----------------------------- MODULE WireRequest -----------------------------
(***************************************************************************)
(* dialect/*/request.rs: how each dialect turns a transcript into the      *)
(* messages, steps or items of its wire format, and what it refuses.       *)
(*                                                                         *)
(* Here a part that Transcript calls text may also be an image or opaque   *)
(* provider state.  The rest of a request, whose fields are copied one by  *)
(* one, is left out; so are names and arguments of calls, and with them    *)
(* Anthropic's refusal of arguments that are not an object.                *)
(***************************************************************************)
EXTENDS TranscriptLoops

Image     == [kind |-> "image"]
Reasoning == [kind |-> "reasoning"]

OfKinds(parts, kinds) == Retain(parts, {k \in DOMAIN parts : parts[k].kind \in kinds})
Carries(m, kinds)     == \E k \in DOMAIN m.parts : m.parts[k].kind \in kinds
PartsOf(messages)     == FlattenSeq([i \in DOMAIN messages |-> messages[i].parts])

\* What build returns: turns on the wire and the instruction field, or an Err.
Built(system, turns) == [refused |-> FALSE, system |-> system, turns |-> turns]
Refused              == [refused |-> TRUE]

\* What each kind of part is for: instructions are text, a user shows images, an
\* assistant turn makes calls, and on a tool turn there are results only.
Ordinary(m) ==
  /\ m.role \in PinnedRoles \cup {"user", "assistant", "tool"}
  /\ \A k \in DOMAIN m.parts :
       LET kind == m.parts[k].kind
       IN /\ Pinned(m)         => kind = "text"
          /\ m.role = "tool"   => kind = "result"
          /\ kind = "image"    => m.role = "user"
          /\ kind = "call"     => m.role = "assistant"
          /\ kind = "result"   => m.role # "assistant"

-----------------------------------------------------------------------------
(* Hoisting, in every dialect but Chat Completions: pinned turns leave the  *)
(* transcript for a field of their own, which holds text alone.             *)

Hoisted(t)      == PartsOf(Retain(t, {i \in DOMAIN t : Pinned(t[i])}))
Turns(t)        == Retain(t, {i \in DOMAIN t : ~Pinned(t[i])})
HoistRefuses(t) == \E i \in DOMAIN Hoisted(t) : Hoisted(t)[i].kind # "text"

-----------------------------------------------------------------------------
(* Anthropic: parts nest in messages of two roles, and the results of one   *)
(* turn of calls share a message.                                           *)

AnthropicRole(m) == IF m.role = "assistant" THEN "assistant" ELSE "user"

OnlyToolResults(content) ==
  content # <<>> /\ \A k \in DOMAIN content : content[k].kind = "result"

Merges(messages, m) ==
  /\ messages # <<>>
  /\ Last(messages).role = AnthropicRole(m)
  /\ OnlyToolResults(Last(messages).content) /\ OnlyToolResults(m.parts)

\* A slip: every turn is a message of its own, as in Chat Completions.
AnthropicPushApart(messages, m) ==
  IF m.parts = <<>> THEN messages
  ELSE Append(messages, [role |-> AnthropicRole(m), content |-> m.parts])

AnthropicPush(messages, m) ==
  CASE m.parts = <<>> -> messages
    [] m.parts # <<>> /\ Merges(messages, m) ->
         [messages EXCEPT ![Len(messages)].content = @ \o m.parts]
    [] OTHER -> Append(messages, [role |-> AnthropicRole(m), content |-> m.parts])

AnthropicMessages(t) ==
  LET after[i \in 0 .. Len(t)] ==
        IF i = 0 THEN <<>> ELSE AnthropicPush(after[i - 1], t[i])
  IN after[Len(t)]

AnthropicBuild(t) ==
  IF \/ HoistRefuses(t)
     \/ \E i \in DOMAIN Turns(t) : Turns(t)[i].role # "user" /\ Carries(Turns(t)[i], {"image"})
  THEN Refused
  ELSE Built(Hoisted(t), AnthropicMessages(Turns(t)))

-----------------------------------------------------------------------------
(* Chat Completions: a message for every turn, whatever its role, with its  *)
(* calls beside its content, and at most one call answered by it.           *)

ChatRole(m) == IF m.role = "developer" THEN "system" ELSE m.role

\* Provider state has no place in this format and is left behind.
ChatMessage(m) ==
  [role    |-> ChatRole(m),
   content |-> OfKinds(m.parts, {"text", "image", "result"}),
   calls   |-> OfKinds(m.parts, {"call"}),
   answers |-> OfKinds(m.parts, {"result"})]

ChatBuild(t) ==
  LET messages == [i \in DOMAIN t |-> ChatMessage(t[i])]
      says(m)  == m.content # <<>> \/ m.calls # <<>>
  IN IF \E i \in DOMAIN t : Len(messages[i].answers) > 1 THEN Refused
     ELSE Built(<<>>, Retain(messages, {i \in DOMAIN t : says(messages[i])}))

-----------------------------------------------------------------------------
(* Gemini and Responses: a flat list, where text and images gather into a   *)
(* step and everything else is a step of its own.                           *)

Step(of, content) == [of |-> of, content |-> content]

\* fn flush
Flushed(steps, of, pending) ==
  IF pending = <<>> THEN steps ELSE Append(steps, Step(of, pending))

\* A slip: what has gathered waits for the end of the turn.
PlacedUnflushed(scan, of, p) ==
  IF p.kind \in {"text", "image"}
  THEN [scan EXCEPT !.pending = Append(@, p)]
  ELSE [scan EXCEPT !.steps = Append(@, Step(p.kind, <<p>>))]

Placed(scan, of, p) ==
  IF p.kind \in {"text", "image"}
  THEN [scan EXCEPT !.pending = Append(@, p)]
  ELSE [steps   |-> Append(Flushed(scan.steps, of, scan.pending), Step(p.kind, <<p>>)),
        pending |-> <<>>]

StepsOf(steps, of, m) ==
  LET after[k \in 0 .. Len(m.parts)] ==
        IF k = 0 THEN [steps |-> steps, pending |-> <<>>]
        ELSE Placed(after[k - 1], of, m.parts[k])
      scan == after[Len(m.parts)]
  IN Flushed(scan.steps, of, scan.pending)

\* The turns t, the i-th of which gathers its text and images under of[i].
AllSteps(t, of) ==
  LET after[i \in 0 .. Len(t)] ==
        IF i = 0 THEN <<>> ELSE StepsOf(after[i - 1], of[i], t[i])
  IN after[Len(t)]

GeminiStep(m) == IF m.role = "assistant" THEN "model_output" ELSE "user_input"

\* A result names the tool of its call, which a call before it must have given.
Nameless(parts) ==
  \E k \in DOMAIN parts :
    /\ parts[k].kind = "result"
    /\ \A l \in 1 .. k - 1 : parts[l] # Call(parts[k].id)

GeminiBuild(t) ==
  IF \/ HoistRefuses(t)
     \/ Nameless(PartsOf(Turns(t)))
     \/ \E i \in DOMAIN t : t[i].role = "tool" /\ Carries(t[i], {"text", "image"})
  THEN Refused
  ELSE Built(Hoisted(t), AllSteps(Turns(t), [i \in DOMAIN Turns(t) |-> GeminiStep(Turns(t)[i])]))

\* Only what a tool turn ends with is looked at.
ResponsesBuild(t) ==
  IF \/ HoistRefuses(t)
     \/ \E i \in DOMAIN Turns(t) : Turns(t)[i].role # "user" /\ Carries(Turns(t)[i], {"image"})
     \/ \E i \in DOMAIN t : /\ t[i].role = "tool" /\ t[i].parts # <<>>
                            /\ Last(t[i].parts).kind = "text"
  THEN Refused
  ELSE Built(Hoisted(t), AllSteps(Turns(t), [i \in DOMAIN Turns(t) |-> Turns(t)[i].role]))

-----------------------------------------------------------------------------
(* What the endpoints accept of calls and results (external, as measured in *)
(* the comments of repair.rs and of anthropic/request.rs).                  *)

\* All results of a turn of calls are in the one message after it.
AnthropicAccepts(turns) ==
  \A i \in DOMAIN turns, id \in CallId :
    /\ Contains(turns[i].content, Call(id)) =>
         /\ i < Len(turns) /\ turns[i + 1].role = "user"
         /\ Contains(turns[i + 1].content, Result(id))
    /\ Contains(turns[i].content, Result(id)) =>
         /\ i > 1 /\ turns[i - 1].role = "assistant"
         /\ Contains(turns[i - 1].content, Call(id))

\* The messages after a turn of calls answer it, one call each, before any other.
ChatAccepts(turns) ==
  LET answers(i, j, id) == /\ i < j /\ Contains(turns[i].calls, Call(id))
                           /\ turns[j].answers = <<Result(id)>>
                           /\ \A l \in i + 1 .. j : turns[l].role = "tool"
  IN \A i \in DOMAIN turns :
       /\ \A k \in DOMAIN turns[i].calls :
            \E j \in DOMAIN turns : answers(i, j, turns[i].calls[k].id)
       /\ turns[i].role = "tool" =>
            \E j \in DOMAIN turns : answers(j, i, turns[i].answers[1].id)
       /\ turns[i].role # "tool" => turns[i].answers = <<>>

\* Every result is after its call, and every call has one.
StepsAccepted(turns) ==
  \A i \in DOMAIN turns :
    LET p == turns[i].content[1]
    IN /\ p.kind = "call"   => \E j \in i + 1 .. Len(turns) : turns[j].content = <<Result(p.id)>>
       /\ p.kind = "result" => \E j \in 1 .. i - 1 : turns[j].content = <<Call(p.id)>>

\* What Message::tool_result builds: a result is all of its turn.
OneResultEach(t) ==
  \A i \in DOMAIN t : t[i].role = "tool" \/ Carries(t[i], {"result"})
    => t[i].role = "tool" /\ Len(t[i].parts) = 1 /\ t[i].parts[1].kind = "result"

-----------------------------------------------------------------------------
(* Properties *)

(* A transcript that repair has passed, before any dialect is known, is one that
   the builders of Anthropic, Gemini and Responses take and that their endpoints
   accept: merging, hoisting and flushing part no call from its results.  So it is
   with Chat Completions where each result is a tool turn of its own, as
   Message::tool_result makes it; a turn of several results is refused there
   (openai_chat/request.rs, "one message per result"). *)
RepairedIsAccepted ==
  LET t         == RepairLoop
      anthropic == AnthropicBuild(t)
      chat      == ChatBuild(t)
      gemini    == GeminiBuild(t)
      responses == ResponsesBuild(t)
  IN /\ ~anthropic.refused /\ AnthropicAccepts(anthropic.turns)
     /\ ~gemini.refused    /\ StepsAccepted(gemini.turns)
     /\ ~responses.refused /\ StepsAccepted(responses.turns)
     /\ OneResultEach(t) => ~chat.refused /\ ChatAccepts(chat.turns)

(* No dialect loses, repeats or moves a part of a transcript it takes, repaired
   or not: what was hoisted and what was sent are all of it, in its order, but
   for the provider state that Chat Completions cannot carry. *)
TranscriptIsSentWhole ==
  LET chat         == ChatBuild(h)
      whole(built) ==
        \/ built.refused
        \/ /\ built.system = Hoisted(h)
           /\ FlattenSeq([i \in DOMAIN built.turns |-> built.turns[i].content])
                = PartsOf(Turns(h))
  IN /\ whole(AnthropicBuild(h)) /\ whole(GeminiBuild(h)) /\ whole(ResponsesBuild(h))
     /\ \/ chat.refused
        \/ /\ FlattenSeq([i \in DOMAIN chat.turns |-> chat.turns[i].content])
                = OfKinds(PartsOf(h), {"text", "image", "result"})
           /\ FlattenSeq([i \in DOMAIN chat.turns |-> chat.turns[i].calls])
                = OfKinds(PartsOf(h), {"call"})

=============================================================================
