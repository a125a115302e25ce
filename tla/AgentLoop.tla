------------------------------ MODULE AgentLoop ------------------------------
(***************************************************************************)
(* agent.rs, run_loop: one run of the tool-calling loop over a transcript  *)
(* moved into it.  A turn asks the model once; a reply that requests tools *)
(* has every call dispatched, at most MaxConcurrent at a time, and the     *)
(* results appended before the next turn asks again.                       *)
(*                                                                         *)
(* The run is one task, so its own steps do not overlap, but the model and *)
(* the tools answer when they like and the tools in any order.  `buffered` *)
(* (futures-util, external) starts calls in the order requested and yields *)
(* their outputs in that order: a slot frees only when the oldest call in  *)
(* flight has finished, so a slow call keeps the slots behind it.          *)
(*                                                                         *)
(* An output is the id of the call whose dispatch returned it and what it  *)
(* says: of a tool, that it answered or failed; or that the guard denied   *)
(* the call, or that no tool has the name.  Usage, and the text of the     *)
(* answer, are left out.                                                   *)
(***************************************************************************)
EXTENDS Transcript, SequencesExt

CONSTANTS
  MaxConcurrent, \* MAX_CONCURRENT_TOOL_CALLS
  MaxTurns,      \* Agent::max_turns
  HasSystem,     \* whether Agent::system was set
  Required,      \* whether the caller set ToolChoice::Required
  Registered,    \* the tools in the order Agent::tool was given them
  NameOf,        \* the name that each call asks for, a function over CallId
  DeniedNames,   \* the names that Agent::guard denies
  Replies,       \* what the model may answer a request with
  Histories      \* the transcripts a run may be handed

ASSUME LoopAssumption ==
  /\ MaxConcurrent \in Nat \ {0}
  /\ MaxTurns \in Nat
  /\ HasSystem \in BOOLEAN /\ Required \in BOOLEAN
  /\ Registered \in Seq({Registered[k] : k \in DOMAIN Registered})

VARIABLES
  phase,       \* "ready" to ask, "asking", "calling" tools, "done" (Ok) or "failed" (Err)
  given,       \* the transcript the run was handed; its length is original_len
  transcript,  \* request.messages
  turns,       \* replies received
  choice,      \* request.tool_choice
  calls,       \* the ids of the calls being dispatched, as requested
  begun,       \* how many of them `buffered` has started
  finished,    \* the positions of those whose dispatch has returned
  outputs,     \* what `buffered` has yielded so far
  stop         \* Run::stop, once the run is over

loopVars ==
  <<phase, given, transcript, turns, choice, calls, begun, finished, outputs, stop>>
dispatchVars == <<calls, begun, finished, outputs>>

\* A reply: its status, "other" for one Freyja does not know, whether a part of
\* it is a refusal, and its parts.
Reply(status, refusal, parts) == [status |-> status, refusal |-> refusal, parts |-> parts]

\* GenerateResponse::to_message and tool_calls.
ToMessage(reply) == Msg("assistant", reply.parts)
CallsOf(reply) ==
  LET made == Pick(reply.parts, {k \in DOMAIN reply.parts : reply.parts[k].kind = "call"})
  IN [k \in DOMAIN made |-> made[k].id]

\* A tool and its definition; versions tell two tools of one name apart.
Tool(name, version, fails) == [name |-> name, version |-> version, fails |-> fails]
Definition(tool) == [name |-> tool.name, version |-> tool.version]

NoTools == [tools |-> <<>>, definitions |-> <<>>]

\* A slip: the tool is replaced and its definition is added beside the old one.
InsertBeside(agent, tool) ==
  LET same == {k \in DOMAIN agent.tools : agent.tools[k].name = tool.name}
  IN [tools |-> IF same = {} THEN Append(agent.tools, tool)
                ELSE [k \in DOMAIN agent.tools |-> IF k \in same THEN tool ELSE agent.tools[k]],
      definitions |-> Append(agent.definitions, Definition(tool))]

\* Agent::insert: a tool of the same name is replaced where it stands.
Insert(agent, tool) ==
  LET same == {k \in DOMAIN agent.tools : agent.tools[k].name = tool.name}
      put(list, entry) == IF same = {} THEN Append(list, entry)
                          ELSE [k \in DOMAIN list |-> IF k \in same THEN entry ELSE list[k]]
  IN [tools |-> put(agent.tools, tool), definitions |-> put(agent.definitions, Definition(tool))]

Agent ==
  LET after[n \in 0 .. Len(Registered)] ==
        IF n = 0 THEN NoTools ELSE Insert(after[n - 1], Registered[n])
  IN after[Len(Registered)]

Says(what, version) == [what |-> what, version |-> version]

\* dispatch: the guard first, then the tool of that name.
Dispatch(name) ==
  LET found == {k \in DOMAIN Agent.tools : Agent.tools[k].name = name}
      tool  == Agent.tools[CHOOSE k \in found : \A l \in found : k <= l]
  IN CASE name \in DeniedNames -> Says("denied", "none")
       [] name \notin DeniedNames /\ found = {} -> Says("unknown", "none")
       [] OTHER -> Says(IF tool.fails THEN "error" ELSE "answer", tool.version)

Output(id) == [id |-> id, says |-> Dispatch(NameOf[id])]

Instruction == Msg("system", <<[kind |-> "instruction"]>>)

\* The instruction goes in front of the transcript while the request is out.
WithSystem(t)    == IF HasSystem THEN <<Instruction>> \o t ELSE t
WithoutSystem(t) == IF HasSystem THEN Tail(t) ELSE t

\* Why a reply ends the run, or "none": a refusal first, then the status, then
\* that it requests nothing.
EndedBy(reply) ==
  CASE reply.refusal                 -> "refused"
    [] ~reply.refusal /\ reply.status = "incomplete" -> "incomplete"
    [] ~reply.refusal /\ reply.status \in {"failed", "other"} -> "failed"
    [] OTHER -> IF CallsOf(reply) = <<>> THEN "answered" ELSE "none"

\* Required is downgraded once the first turn has called a tool.
NextChoice(c, turn) == IF turn = 0 /\ c = "required" THEN "auto" ELSE c

-----------------------------------------------------------------------------
(* buffered and collect *)

\* A slip: every call is started at once, as join_all would.
BegunAll(n, yielded) == n

\* A slip: a slot frees once and is not filled again.
BegunOnce(n, yielded) == IF n < MaxConcurrent THEN n ELSE MaxConcurrent

\* The futures in flight, finished or not, are those begun and not yielded.
Begun(n, yielded) ==
  IF n < yielded + MaxConcurrent THEN n ELSE yielded + MaxConcurrent

\* A slip: outputs are yielded as the calls finish, as buffer_unordered would.
YieldedUnordered(done, i) == Append(outputs, Output(calls[i]))

\* The calls before the first that has not finished.
Yielded(done, i) ==
  LET ready == {k \in 0 .. Len(calls) : 1 .. k \subseteq done}
      last  == CHOOSE k \in ready : \A l \in ready : l <= k
  IN [k \in 1 .. last |-> Output(calls[k])]

\* calls.iter().zip(outputs)
Results(ids, outs) == [k \in DOMAIN outs |-> ToolResult(ids[k])]

\* A reply has no results in it (OutputContent), and the instruction of an agent
\* is no caller's message.
ASSUME MessagesAssumption ==
  /\ \A reply \in Replies :
       reply.parts \in Seq({Text(b) : b \in Body} \cup {Call(id) : id \in CallId})
  /\ \A history \in Histories :
       /\ history \in Seq({history[k] : k \in DOMAIN history})
       /\ \A k \in DOMAIN history : history[k] # Instruction

-----------------------------------------------------------------------------
(* The steps of a run *)

StartRun(history) ==
  /\ phase' = "ready"
  /\ given' = history
  /\ transcript' = history
  /\ turns' = 0
  /\ choice' = IF Required THEN "required" ELSE "auto"
  /\ calls' = <<>> /\ begun' = 0 /\ finished' = {} /\ outputs' = <<>>
  /\ stop' = "none"

Ask ==
  /\ phase = "ready"
  /\ turns < MaxTurns
  /\ phase' = "asking"
  /\ transcript' = WithSystem(transcript)
  /\ UNCHANGED <<given, turns, choice, dispatchVars, stop>>

\* The turn bound is reached before the model answers without tools.
GiveUp ==
  /\ phase = "ready"
  /\ turns = MaxTurns
  /\ phase' = "done"
  /\ stop' = "max_turns"
  /\ UNCHANGED <<given, transcript, turns, choice, dispatchVars>>

\* A slip: the transcript goes back with the turns of the run on it.
RequestFailsKeeping ==
  /\ phase = "asking"
  /\ phase' = "failed"
  /\ transcript' = WithoutSystem(transcript)
  /\ UNCHANGED <<given, turns, choice, dispatchVars, stop>>

\* Client::generate returns Err: the transcript goes back at its original
\* length.
RequestFails ==
  /\ phase = "asking"
  /\ phase' = "failed"
  /\ transcript' = SubSeq(WithoutSystem(transcript), 1, Len(given))
  /\ UNCHANGED <<given, turns, choice, dispatchVars, stop>>

ReplyArrives(reply) ==
  /\ phase = "asking"
  /\ transcript' = Append(WithoutSystem(transcript), ToMessage(reply))
  /\ turns' = turns + 1
  /\ IF EndedBy(reply) # "none"
     THEN /\ phase' = "done"
          /\ stop' = EndedBy(reply)
          /\ UNCHANGED <<choice, dispatchVars>>
     ELSE /\ phase' = "calling"
          /\ choice' = NextChoice(choice, turns)
          /\ calls' = CallsOf(reply)
          /\ begun' = Begun(Len(CallsOf(reply)), 0)
          /\ finished' = {}
          /\ outputs' = <<>>
          /\ UNCHANGED stop
  /\ UNCHANGED given

\* The dispatch of call i returns.  What is ready is yielded, as many more are
\* started, and when nothing is left the results join the transcript.
CallFinishes(i) ==
  /\ phase = "calling"
  /\ i \in 1 .. begun /\ i \notin finished
  /\ finished' = finished \cup {i}
  /\ outputs' = Yielded(finished', i)
  /\ begun' = Begun(Len(calls), Len(outputs'))
  /\ IF Len(outputs') = Len(calls)
     THEN /\ phase' = "ready"
          /\ transcript' = transcript \o Results(calls, outputs')
     ELSE UNCHANGED <<phase, transcript>>
  /\ UNCHANGED <<given, turns, choice, calls, stop>>

\* Providers give every call an id of its own.
FreshCalls(reply) ==
  /\ \A k, l \in DOMAIN CallsOf(reply) : CallsOf(reply)[k] = CallsOf(reply)[l] => k = l
  /\ \A k \in DOMAIN CallsOf(reply), i \in DOMAIN transcript :
       ~HasCall(transcript[i], CallsOf(reply)[k])

LoopNext ==
  \/ Ask
  \/ GiveUp
  \/ RequestFails
  \/ \E reply \in Replies : FreshCalls(reply) /\ ReplyArrives(reply)
  \/ \E i \in DOMAIN calls : CallFinishes(i)

LoopInit ==
  /\ phase = "ready"
  /\ given \in Histories
  /\ transcript = given
  /\ turns = 0
  /\ choice = IF Required THEN "required" ELSE "auto"
  /\ calls = <<>> /\ begun = 0 /\ finished = {} /\ outputs = <<>>
  /\ stop = "none"

\* The executor polls the run whenever it can move, and every tool returns
\* (Freyja has no budget for one: docs/building-an-agent.md).  A request is
\* answered or times out (transport/mod.rs).
LoopFairness ==
  /\ WF_loopVars(Ask)
  /\ WF_loopVars(GiveUp)
  /\ WF_loopVars(RequestFails \/ \E reply \in Replies : FreshCalls(reply) /\ ReplyArrives(reply))
  /\ WF_loopVars(\E i \in DOMAIN calls : CallFinishes(i))

LoopSpec == LoopInit /\ [][LoopNext]_loopVars /\ LoopFairness

-----------------------------------------------------------------------------
(* Properties *)

(* MAX_CONCURRENT_TOOL_CALLS is a ceiling on the calls running at once, however
   many a turn requests and in whatever order they finish. *)
CeilingHolds == Cardinality(1 .. begun \ finished) <= MaxConcurrent

(* Each output is paired with the call that produced it (run_loop zips the two
   lists), though calls finish in any order; and a call is answered by the tool
   whose definition the request declares under its name, never by one that was
   replaced, and never past the guard (insert, dispatch). *)
OutputsAreTheirCalls ==
  \A k \in DOMAIN outputs :
    LET name     == NameOf[calls[k]]
        declared == {d \in DOMAIN Agent.definitions : Agent.definitions[d].name = name}
    IN /\ outputs[k].id = calls[k]
       /\ \A d, e \in declared : d = e
       /\ outputs[k].says.version # "none" =>
            /\ name \notin DeniedNames
            /\ \E d \in declared : Agent.definitions[d].version = outputs[k].says.version

\* A failed run hands the transcript back as it was given: nothing of the turns
\* that succeeded before the failure, and no instruction, stays in it.
FailureRestores == phase = "failed" => transcript = given

\* And no run that ends otherwise leaves the instruction in it, or loses what
\* it was handed.
RunExtendsTheGiven ==
  phase \in {"ready", "calling", "done"} =>
    /\ \A i \in DOMAIN transcript : transcript[i] # Instruction
    /\ SubSeq(transcript, 1, Len(given)) = given

(* A run only ever extends the transcript it was handed, and a failed one gives
   it back untouched, whatever turns succeeded before the failure (run_loop takes
   the instruction off by position and truncates to the length it began with). *)
RunKeepsTheGiven == FailureRestores /\ RunExtendsTheGiven

(* Every run ends, whatever the model requests. *)
RunEnds == <>(phase \in {"done", "failed"})

=============================================================================
