------------------------- MODULE Conversation_proofs -------------------------
(***************************************************************************)
(* What holds of a run for any ceiling, any replies and any histories: the *)
(* tools running at once stay under the ceiling, and the transcript only   *)
(* ever extends the one the run was handed, or is that one again.          *)
(*                                                                         *)
(* What holds of a conversation for any backend, any messages, any windows *)
(* and any length: every request it makes is one that a provider accepts,  *)
(* every send stores its own turns and no others, and a turn of text, or   *)
(* of the results that answer the calls the transcript stops at, is taken. *)
(*                                                                         *)
(* The argument.  No id is used twice, in what the backend holds or in the *)
(* transcript of a send: what is loaded holds messages of the backend, at  *)
(* most once each; the pass repeats none; a reply's calls are new, and its *)
(* results answer those calls alone.  So the pass, which answers for any   *)
(* transcript that answers no call twice, makes of a cut transcript one    *)
(* that can be sent; and it stays so as whole exchanges of calls and their *)
(* results join it.  What a send stores has no id in common with what the  *)
(* backend held, so the backend is again one in which no id is used twice, *)
(* even when the store was cut short.                                      *)
(***************************************************************************)
EXTENDS Conversation, Transcript_proofs, SequenceTheorems, FiniteSetTheorems, TLAPS

-----------------------------------------------------------------------------
(* The ceiling *)

\* What CeilingHolds rests on: the calls begun are at most MaxConcurrent past
\* those yielded, and what is yielded has finished.
Slots ==
  /\ calls \in Seq(CallId)
  /\ begun \in Nat
  /\ DOMAIN outputs = 1 .. Len(outputs) /\ Len(outputs) \in 0 .. Len(calls)
  /\ begun <= Len(outputs) + MaxConcurrent
  /\ 1 .. Len(outputs) \subseteq finished

(* What is yielded is as long as the calls that finished with none before them
   that has not. *)
LEMMA YieldedIsFinished ==
  ASSUME NEW done, NEW i, calls \in Seq(CallId)
  PROVE  \E last \in 0 .. Len(calls) :
           /\ DOMAIN Yielded(done, i) = 1 .. last /\ Len(Yielded(done, i)) = last
           /\ 1 .. last \subseteq done
<1>. DEFINE ready == {k \in 0 .. Len(calls) : 1 .. k \subseteq done}
            last  == CHOOSE k \in ready : \A l \in ready : l <= k
<1>1. Len(calls) \in Nat
  OBVIOUS
<1>2. 0 \in ready
  BY <1>1
<1>3. ready \subseteq 0 .. Len(calls)
  OBVIOUS
<1>. HIDE DEF ready
<1>4. \E k \in ready : \A l \in ready : l <= k
  BY <1>1, <1>2, <1>3, BoundedSetHasAGreatest
<1>5. last \in ready
  BY <1>4
<1>6. last \in 0 .. Len(calls) /\ 1 .. last \subseteq done
  BY <1>5 DEF ready
<1>7. Yielded(done, i) = [k \in 1 .. last |-> Output(calls[k])]
  BY DEF Yielded, ready
<1>. HIDE DEF last
<1>8. last \in Nat
  BY <1>1, <1>6
<1>. DEFINE out == [k \in 1 .. last |-> Output(calls[k])]
<1>9. out \in Seq({Output(calls[k]) : k \in 1 .. last}) /\ Len(out) = last /\ DOMAIN out = 1 .. last
  BY <1>8
<1>. QED BY <1>6, <1>7, <1>9

(* The calls of a reply are those of the message that stands for it, each in the
   place it was requested. *)
LEMMA CallsAreRequested ==
  ASSUME NEW reply \in Replies
  PROVE  /\ CallsOf(reply) \in Seq(CallId)
         /\ ToMessage(reply) \in Message
         /\ \A id \in CallId :
              /\ HasCall(ToMessage(reply), id) <=> \E k \in DOMAIN CallsOf(reply) : CallsOf(reply)[k] = id
              /\ ~HasResult(ToMessage(reply), id)
<1>. DEFINE texts == {Text(b) : b \in Body}
            asked == {Call(id) : id \in CallId}
            parts == reply.parts
            S     == {k \in DOMAIN parts : parts[k].kind = "call"}
            made  == Pick(parts, S)
<1>1. parts \in Seq(texts \cup asked)
  BY MessagesAssumption
<1>2. /\ \A p \in texts : p.kind = "text"
      /\ \A p \in asked : p.kind = "call" /\ p.id \in CallId /\ p = Call(p.id)
  BY DEF Text, Call
<1>3. ToMessage(reply) \in Message
  <2>1. texts \cup asked \subseteq Part
    BY DEF Part
  <2>2. parts \in Seq(Part)
    BY <1>1, <2>1
  <2>. QED BY <2>2 DEF ToMessage, Msg, Message
<1>4. \A k \in DOMAIN parts : parts[k] \in texts \cup asked
  BY <1>1
<1>5. \A k \in S : parts[k] \in asked
  BY <1>2, <1>4
<1>6. \A k \in DOMAIN parts : parts[k] \in asked => k \in S
  BY <1>2
<1>7. S \in SUBSET DOMAIN parts
  OBVIOUS
<1>8. CallsOf(reply) = [k \in DOMAIN made |-> made[k].id]
  BY DEF CallsOf
<1>9. ToMessage(reply).parts = parts
  BY DEF ToMessage, Msg
<1>. HIDE DEF texts, asked, parts, S
<1>10. /\ DOMAIN made = 1 .. Len(made) /\ made \in Seq(texts \cup asked)
       /\ \A k \in DOMAIN made : Nth(S, k) \in S /\ made[k] = parts[Nth(S, k)]
       /\ \A i \in S : \E k \in DOMAIN made : Nth(S, k) = i
  BY <1>1, <1>7, Picked
<1>. HIDE DEF made
<1>11. CallsOf(reply) \in Seq(CallId) /\ DOMAIN CallsOf(reply) = DOMAIN made
  <2>1. Len(made) \in Nat
    BY <1>10
  <2>2. \A k \in DOMAIN made : made[k].id \in CallId
    BY <1>2, <1>5, <1>10
  <2>3. CallsOf(reply) \in [1 .. Len(made) -> CallId]
    BY <1>8, <1>10, <2>2
  <2>. QED BY <1>8, <2>1, <2>3
<1>12. ASSUME NEW id \in CallId
       PROVE  /\ HasCall(ToMessage(reply), id) <=> \E k \in DOMAIN CallsOf(reply) : CallsOf(reply)[k] = id
              /\ ~HasResult(ToMessage(reply), id)
  <2>1. Call(id) \in asked /\ Call(id).id = id
    BY DEF asked, Call
  <2>2. ASSUME NEW k \in DOMAIN parts, parts[k] = Call(id)
        PROVE  \E l \in DOMAIN CallsOf(reply) : CallsOf(reply)[l] = id
    <3>1. k \in S
      BY <1>6, <2>1, <2>2
    <3>2. PICK l \in DOMAIN made : Nth(S, l) = k
      BY <1>10, <3>1
    <3>. QED BY <1>8, <1>10, <1>11, <2>1, <2>2, <3>2
  <2>3. ASSUME NEW k \in DOMAIN CallsOf(reply), CallsOf(reply)[k] = id
        PROVE  \E l \in DOMAIN parts : parts[l] = Call(id)
    <3>1. Nth(S, k) \in S /\ made[k] = parts[Nth(S, k)] /\ made[k].id = id
      BY <1>8, <1>10, <1>11, <2>3
    <3>2. parts[Nth(S, k)] = Call(id)
      BY <1>2, <1>5, <3>1
    <3>. QED BY <1>7, <3>1, <3>2
  <2>4. ASSUME NEW k \in DOMAIN parts PROVE parts[k] # Result(id)
    <3>1. Result(id).kind = "result"
      BY DEF Result
    <3>. QED BY <1>2, <1>4, <2>4, <3>1
  <2>. QED BY <1>9, <2>2, <2>3, <2>4 DEF HasCall, HasResult
<1>. QED BY <1>3, <1>11, <1>12

(* Every step keeps the slots in order. *)
LEMMA SlotsAreKept ==
  ASSUME Slots, [LoopNext]_loopVars
  PROVE  Slots'
<1>. USE DEF Slots
<1>. USE LoopAssumption
<1>1. CASE UNCHANGED dispatchVars
  BY <1>1 DEF dispatchVars
<1>2. ASSUME NEW reply \in Replies, ReplyArrives(reply) PROVE Slots'
  <2>1. CASE EndedBy(reply) # "none"
    BY <1>1, <1>2, <2>1 DEF ReplyArrives
  <2>2. CASE EndedBy(reply) = "none"
    <3>1. calls' = CallsOf(reply) /\ begun' = Begun(Len(calls'), 0) /\ outputs' = <<>>
      BY <1>2, <2>2 DEF ReplyArrives
    <3>2. calls' \in Seq(CallId) /\ Len(calls') \in Nat
      BY <3>1, CallsAreRequested
    <3>. QED BY <3>1, <3>2 DEF Begun
  <2>. QED BY <2>1, <2>2
<1>3. ASSUME NEW i \in DOMAIN calls, CallFinishes(i) PROVE Slots'
  <2>1. PICK last \in 0 .. Len(calls) :
          /\ DOMAIN outputs' = 1 .. last /\ Len(outputs') = last
          /\ 1 .. last \subseteq finished'
    BY <1>3, YieldedIsFinished DEF CallFinishes
  <2>2. calls' = calls /\ begun' = Begun(Len(calls), last)
    BY <1>3, <2>1 DEF CallFinishes
  <2>. QED BY <2>1, <2>2 DEF Begun
<1>4. CASE Ask \/ GiveUp \/ RequestFails \/ UNCHANGED loopVars
  BY <1>1, <1>4 DEF Ask, GiveUp, RequestFails, loopVars, dispatchVars
<1>. QED BY <1>2, <1>3, <1>4 DEF LoopNext

LEMMA SlotsAtFirst == LoopInit => Slots
BY LoopAssumption DEF LoopInit, Slots

LEMMA SlotsHold == LoopSpec => []Slots
BY SlotsAtFirst, SlotsAreKept, PTL DEF LoopSpec

(* No more tools run at once than MAX_CONCURRENT_TOOL_CALLS, however many calls a
   reply requests and in whatever order they finish (run_loop, buffered). *)
THEOREM CeilingAlwaysHolds == LoopSpec => []CeilingHolds
<1>1. Slots => CeilingHolds
  <2>. SUFFICES ASSUME Slots PROVE CeilingHolds
    OBVIOUS
  <2>1. Len(outputs) \in Nat /\ begun \in Nat /\ MaxConcurrent \in Nat
    BY LoopAssumption DEF Slots
  <2>2. 1 .. begun \ finished \in SUBSET (Len(outputs) + 1 .. begun)
    BY <2>1 DEF Slots
  <2>3. /\ IsFiniteSet(Len(outputs) + 1 .. begun)
        /\ Cardinality(Len(outputs) + 1 .. begun) <= MaxConcurrent
    <3>1. Len(outputs) + 1 \in Int /\ begun \in Int
      BY <2>1
    <3>2. begun <= Len(outputs) + MaxConcurrent
      BY DEF Slots
    <3>3. PICK first \in Int : first = Len(outputs) + 1
      BY <3>1
    <3>4. IsFiniteSet(first .. begun) /\ Cardinality(first .. begun) = IF first > begun THEN 0 ELSE begun - first + 1
      BY <3>1, FS_Interval
    <3>. QED BY <2>1, <3>1, <3>2, <3>3, <3>4
  <2>4. /\ IsFiniteSet(1 .. begun \ finished)
        /\ Cardinality(1 .. begun \ finished) <= Cardinality(Len(outputs) + 1 .. begun)
    BY <2>2, <2>3, FS_Subset
  <2>5. Cardinality(1 .. begun \ finished) \in Nat /\ Cardinality(Len(outputs) + 1 .. begun) \in Nat
    BY <2>3, <2>4, FS_CardinalityType
  <2>. QED BY <2>1, <2>3, <2>4, <2>5 DEF CeilingHolds
<1>. QED BY <1>1, SlotsHold, PTL

-----------------------------------------------------------------------------
(* The outputs *)

\* Each output is what dispatching the call in its place returned.
Paired ==
  \A k \in DOMAIN outputs : k \in DOMAIN calls /\ outputs[k] = Output(calls[k])

LEMMA PairsAreKept ==
  ASSUME Slots, Paired, [LoopNext]_loopVars
  PROVE  Paired'
<1>. USE DEF Paired
<1>1. CASE UNCHANGED dispatchVars
  BY <1>1 DEF dispatchVars
<1>2. ASSUME NEW reply \in Replies, ReplyArrives(reply) PROVE Paired'
  BY <1>1, <1>2 DEF ReplyArrives
<1>3. ASSUME NEW i \in DOMAIN calls, CallFinishes(i) PROVE Paired'
  <2>1. calls \in Seq(CallId) /\ outputs' = Yielded(finished', i) /\ calls' = calls
    BY <1>3 DEF CallFinishes, Slots
  <2>2. PICK last \in 0 .. Len(calls) : DOMAIN Yielded(finished', i) = 1 .. last
    BY <2>1, YieldedIsFinished
  <2>3. \A k \in DOMAIN Yielded(finished', i) : Yielded(finished', i)[k] = Output(calls[k])
    BY DEF Yielded
  <2>4. 1 .. last \subseteq DOMAIN calls
    BY <2>1
  <2>. QED BY <2>1, <2>2, <2>3, <2>4
<1>4. CASE Ask \/ GiveUp \/ RequestFails \/ UNCHANGED loopVars
  BY <1>1, <1>4 DEF Ask, GiveUp, RequestFails, loopVars, dispatchVars
<1>. QED BY <1>2, <1>3, <1>4 DEF LoopNext

\* The tools and the definitions of an agent are of one another, and no two have
\* the same name.
Tools == {Registered[k] : k \in DOMAIN Registered}
Consistent(agent) ==
  /\ agent.tools \in Seq(Tools)
  /\ agent.definitions \in Seq({Definition(t) : t \in Tools})
  /\ DOMAIN agent.definitions = DOMAIN agent.tools
  /\ \A k \in DOMAIN agent.tools : agent.definitions[k] = Definition(agent.tools[k])
  /\ \A k, l \in DOMAIN agent.tools : agent.tools[k].name = agent.tools[l].name => k = l

LEMMA InsertIsConsistent ==
  ASSUME NEW agent, Consistent(agent), NEW tool \in Tools
  PROVE  Consistent(Insert(agent, tool))
<1>. DEFINE tools == agent.tools
            defs  == agent.definitions
            same  == {k \in DOMAIN tools : tools[k].name = tool.name}
            Defs  == {Definition(t) : t \in Tools}
            new   == Insert(agent, tool)
<1>1. /\ tools \in Seq(Tools) /\ defs \in Seq(Defs) /\ DOMAIN defs = DOMAIN tools
      /\ \A k \in DOMAIN tools : defs[k] = Definition(tools[k])
      /\ \A k, l \in DOMAIN tools : tools[k].name = tools[l].name => k = l
  BY DEF Consistent
<1>2. Definition(tool) \in Defs
  OBVIOUS
<1>3. CASE same = {}
  <2>1. new.tools = Append(tools, tool) /\ new.definitions = Append(defs, Definition(tool))
    BY <1>3 DEF Insert
  <2>2. \A k \in DOMAIN tools : tools[k].name # tool.name
    BY <1>3
  <2>. HIDE DEF tools, defs, same, new, Defs
  <2>3. /\ new.tools \in Seq(Tools) /\ new.definitions \in Seq(Defs)
        /\ DOMAIN tools = 1 .. Len(tools) /\ Len(tools) \in Nat
        /\ DOMAIN new.tools = 1 .. Len(tools) + 1
        /\ new.tools[Len(tools) + 1] = tool
        /\ \A k \in 1 .. Len(tools) : new.tools[k] = tools[k]
    BY <1>1, <1>2, <2>1
  <2>4. Len(defs) = Len(tools)
    BY <1>1
  <2>5. /\ DOMAIN new.definitions = 1 .. Len(tools) + 1
        /\ new.definitions[Len(tools) + 1] = Definition(tool)
        /\ \A k \in 1 .. Len(tools) : new.definitions[k] = defs[k]
    BY <1>1, <1>2, <2>1, <2>4
  <2>6. \A k \in DOMAIN new.tools : new.definitions[k] = Definition(new.tools[k])
    BY <1>1, <2>3, <2>5
  <2>7. \A k, l \in DOMAIN new.tools : new.tools[k].name = new.tools[l].name => k = l
    BY <1>1, <2>2, <2>3
  <2>. QED BY <2>3, <2>5, <2>6, <2>7 DEF Consistent, Defs, new
<1>4. CASE same # {}
  <2>1. /\ new.tools = [k \in DOMAIN tools |-> IF k \in same THEN tool ELSE tools[k]]
        /\ new.definitions = [k \in DOMAIN defs |-> IF k \in same THEN Definition(tool) ELSE defs[k]]
    BY <1>4 DEF Insert
  <2>2. \A k \in DOMAIN tools : k \in same <=> tools[k].name = tool.name
    OBVIOUS
  <2>. HIDE DEF tools, defs, same, new, Defs
  <2>3. DOMAIN new.tools = DOMAIN tools /\ DOMAIN new.definitions = DOMAIN tools
    BY <1>1, <2>1
  <2>4. PICK n \in Nat : DOMAIN tools = 1 .. n
    BY <1>1
  <2>5. \A k \in 1 .. n : tools[k] \in Tools /\ defs[k] \in Defs
    BY <1>1, <2>4
  <2>6. new.tools \in Seq(Tools)
    <3>1. new.tools \in [1 .. n -> Tools]
      BY <2>1, <2>4, <2>5
    <3>. QED BY <3>1
  <2>7. new.definitions \in Seq(Defs)
    <3>1. new.definitions \in [1 .. n -> Defs]
      BY <1>1, <1>2, <2>1, <2>4, <2>5
    <3>. QED BY <3>1
  <2>8. \A k \in DOMAIN new.tools : new.definitions[k] = Definition(new.tools[k])
    BY <1>1, <2>1
  <2>9. \A k, l \in DOMAIN new.tools : new.tools[k].name = new.tools[l].name => k = l
    BY <1>1, <2>1, <2>2, <2>3
  <2>. QED BY <2>3, <2>6, <2>7, <2>8, <2>9 DEF Consistent, Defs, new
<1>. QED BY <1>3, <1>4

\* The agent after each of the first k tools.
Built(f, k) ==
  /\ f = [i \in 0 .. k |-> f[i]]
  /\ f[0] = NoTools
  /\ \A i \in 1 .. k : f[i] = Insert(f[i - 1], Registered[i])

LEMMA AgentsAreBuilt == \E f : Built(f, Len(Registered))
<1>. DEFINE n       == Len(Registered)
            Without == {k \in 0 .. n : \A f : ~Built(f, k)}
<1>0. n \in Nat
  BY LoopAssumption
<1>. SUFFICES ASSUME \A f : ~Built(f, n)
              PROVE  FALSE
  OBVIOUS
<1>. HIDE DEF n
<1>1. Without # {} /\ Without \in SUBSET (0 .. n)
  BY <1>0
<1>2. PICK k \in Without : \A l \in Without : k <= l
  <2>. HIDE DEF Without
  <2>. QED BY <1>0, <1>1, BoundedSetHasALeast
<1>3. k \in 0 .. n /\ \A f : ~Built(f, k)
  OBVIOUS
<1>4. k # 0
  <2>. DEFINE z == [i \in 0 .. 0 |-> NoTools]
  <2>1. z = [i \in 0 .. 0 |-> z[i]] /\ z[0] = NoTools /\ 1 .. 0 = {}
    OBVIOUS
  <2>. HIDE DEF z
  <2>2. Built(z, 0)
    BY <2>1 DEF Built
  <2>. QED BY <1>3, <2>2
<1>5. k - 1 \in 0 .. n /\ k - 1 \notin Without
  <2>1. k - 1 \in 0 .. n /\ ~(k <= k - 1)
    BY <1>0, <1>3, <1>4
  <2>. HIDE DEF Without
  <2>. QED BY <1>2, <2>1
<1>6. PICK f : Built(f, k - 1)
  BY <1>5
<1>. DEFINE g == [i \in 0 .. k |-> IF i = k THEN Insert(f[k - 1], Registered[k]) ELSE f[i]]
<1>7. k \in Nat /\ k > 0
  BY <1>0, <1>3, <1>4
<1>8. /\ 0 \in 0 .. k /\ 0 # k /\ k \in 0 .. k /\ k - 1 \in 0 .. k /\ k - 1 # k
      /\ \A i \in 1 .. k : i \in 0 .. k /\ i - 1 \in 0 .. k /\ i - 1 # k
                         /\ (i # k => i \in 1 .. k - 1)
  BY <1>7
<1>9. g = [i \in 0 .. k |-> g[i]] /\ g[0] = NoTools
  BY <1>6, <1>8 DEF Built
<1>10. \A i \in 1 .. k : g[i] = Insert(g[i - 1], Registered[i])
  <2>. SUFFICES ASSUME NEW i \in 1 .. k PROVE g[i] = Insert(g[i - 1], Registered[i])
    OBVIOUS
  <2>1. g[i - 1] = f[i - 1]
    BY <1>8
  <2>2. CASE i = k
    BY <1>8, <2>1, <2>2
  <2>3. CASE i # k
    <3>1. g[i] = f[i] /\ f[i] = Insert(f[i - 1], Registered[i])
      BY <1>6, <1>8, <2>3 DEF Built
    <3>. QED BY <2>1, <3>1
  <2>. QED BY <2>2, <2>3
<1>. HIDE DEF g
<1>11. Built(g, k)
  BY <1>9, <1>10 DEF Built
<1>. QED BY <1>3, <1>11

(* However many times a name is registered, one tool and one definition have it. *)
LEMMA AgentIsConsistent == Consistent(Agent)
<1>. DEFINE n     == Len(Registered)
            Is(f) == f = [i \in 0 .. n |-> IF i = 0 THEN NoTools
                                           ELSE Insert(f[i - 1], Registered[i])]
            after == CHOOSE f : Is(f)
            Off   == {i \in 0 .. n : ~Consistent(after[i])}
<1>1. n \in Nat /\ \A i \in 1 .. n : Registered[i] \in Tools
  BY LoopAssumption DEF Tools
<1>2. Agent = after[n]
  BY DEF Agent
<1>3. Is(after)
  <2>1. PICK f : Built(f, n)
    BY AgentsAreBuilt
  <2>2. \A i \in 0 .. n : i # 0 => i \in 1 .. n
    BY <1>1
  <2>3. Is(f)
    <3>1. \A i \in 0 .. n : f[i] = IF i = 0 THEN NoTools ELSE Insert(f[i - 1], Registered[i])
      BY <2>1, <2>2 DEF Built
    <3>2. f = [i \in 0 .. n |-> f[i]]
      BY <2>1 DEF Built
    <3>. QED BY <3>1, <3>2
  <2>. HIDE DEF Is
  <2>. QED BY <2>3
<1>4. \A i \in 0 .. n : after[i] = IF i = 0 THEN NoTools ELSE Insert(after[i - 1], Registered[i])
  <2>. HIDE DEF after
  <2>. QED BY <1>3
<1>. HIDE DEF n, after, Is
<1>5. ASSUME Off # {} PROVE FALSE
  <2>1. PICK k \in Off : \A l \in Off : k <= l
    <3>1. Off \in SUBSET (0 .. n)
      OBVIOUS
    <3>. HIDE DEF Off
    <3>. QED BY <1>1, <1>5, <3>1, BoundedSetHasALeast
  <2>2. k \in 0 .. n /\ ~Consistent(after[k])
    OBVIOUS
  <2>3. k # 0
    <3>1. Consistent(NoTools)
      BY DEF Consistent, NoTools
    <3>2. 0 \in 0 .. n
      BY <1>1
    <3>. QED BY <1>4, <2>2, <3>1, <3>2
  <2>4. k - 1 \in 0 .. n /\ k \in 1 .. n /\ ~(k <= k - 1)
    BY <1>1, <2>2, <2>3
  <2>5. Consistent(after[k - 1])
    <3>1. k - 1 \notin Off
      <4>. HIDE DEF Off
      <4>. QED BY <2>1, <2>4
    <3>. QED BY <2>4, <3>1
  <2>6. after[k] = Insert(after[k - 1], Registered[k])
    BY <1>4, <2>2, <2>3
  <2>7. Registered[k] \in Tools
    BY <1>1, <2>4
  <2>. QED BY <2>2, <2>5, <2>6, <2>7, InsertIsConsistent
<1>6. n \in 0 .. n
  BY <1>1
<1>. QED BY <1>2, <1>5, <1>6

(* The tool that a name finds is the one whose definition is declared. *)
LEMMA DispatchIsDeclared ==
  ASSUME NEW name
  PROVE  LET declared == {d \in DOMAIN Agent.definitions : Agent.definitions[d].name = name}
         IN  /\ \A d, e \in declared : d = e
             /\ Dispatch(name).version # "none" =>
                  /\ name \notin DeniedNames
                  /\ \E d \in declared : Agent.definitions[d].version = Dispatch(name).version
<1>. DEFINE tools    == Agent.tools
            defs     == Agent.definitions
            declared == {d \in DOMAIN defs : defs[d].name = name}
            found    == {k \in DOMAIN tools : tools[k].name = name}
            first    == CHOOSE k \in found : \A l \in found : k <= l
            says     == Dispatch(name)
<1>1. /\ tools \in Seq(Tools) /\ DOMAIN defs = DOMAIN tools
      /\ \A k \in DOMAIN tools : defs[k] = Definition(tools[k])
      /\ \A k, l \in DOMAIN tools : tools[k].name = tools[l].name => k = l
  BY AgentIsConsistent DEF Consistent
<1>. HIDE DEF tools, defs
<1>2. \A k \in DOMAIN tools : defs[k].name = tools[k].name /\ defs[k].version = tools[k].version
  BY <1>1 DEF Definition
<1>3. declared = found
  BY <1>1, <1>2
<1>4. \A d, e \in found : d = e
  BY <1>1
<1>5. found # {} => first \in found
  <2>1. ASSUME NEW k \in found PROVE \A l \in found : k <= l
    <3>1. found \subseteq Nat
      BY <1>1
    <3>. QED BY <1>4, <3>1
  <2>. HIDE DEF found
  <2>. QED BY <2>1
<1>6. says.version # "none" =>
        /\ name \notin DeniedNames /\ found # {}
        /\ says.version = tools[first].version
  BY DEF Dispatch, Says, tools
<1>7. says.version # "none" =>
        /\ name \notin DeniedNames
        /\ \E d \in declared : defs[d].version = says.version
  <2>. SUFFICES ASSUME says.version # "none"
                PROVE  /\ name \notin DeniedNames
                       /\ \E d \in declared : defs[d].version = says.version
    OBVIOUS
  <2>1. first \in found /\ first \in DOMAIN tools
    BY <1>5, <1>6
  <2>. HIDE DEF first, says, found, declared
  <2>. QED BY <1>2, <1>3, <1>6, <2>1
<1>. QED BY <1>3, <1>4, <1>7 DEF defs

(* Calls finish in any order, and each output is of the call in its place, by the
   tool declared under its name (run_loop, dispatch). *)
THEOREM OutputsAreOfTheirCalls == LoopSpec => []OutputsAreTheirCalls
<1>1. Paired => OutputsAreTheirCalls
  <2>. SUFFICES ASSUME Paired, NEW k \in DOMAIN outputs
                PROVE  LET name     == NameOf[calls[k]]
                           declared == {d \in DOMAIN Agent.definitions : Agent.definitions[d].name = name}
                       IN /\ outputs[k].id = calls[k]
                          /\ \A d, e \in declared : d = e
                          /\ outputs[k].says.version # "none" =>
                               /\ name \notin DeniedNames
                               /\ \E d \in declared : Agent.definitions[d].version = outputs[k].says.version
    BY DEF OutputsAreTheirCalls
  <2>1. outputs[k].id = calls[k] /\ outputs[k].says = Dispatch(NameOf[calls[k]])
    BY DEF Paired, Output
  <2>. QED BY <2>1, DispatchIsDeclared
<1>2. LoopInit => Paired
  BY DEF LoopInit, Paired
<1>3. Slots /\ Paired /\ [LoopNext]_loopVars => Paired'
  BY PairsAreKept
<1>. QED BY <1>1, <1>2, <1>3, SlotsHold, PTL DEF LoopSpec

-----------------------------------------------------------------------------
(* The transcript *)

\* The messages a transcript may hold while no request is out.
Turns ==
  (UNION {{history[k] : k \in DOMAIN history} : history \in Histories})
    \cup {ToMessage(reply) : reply \in Replies}
    \cup {ToolResult(id) : id \in CallId}

Extends(t) ==
  /\ t \in Seq(Turns)
  /\ Len(given) <= Len(t)
  /\ \A k \in 1 .. Len(given) : t[k] = given[k]

\* What RunKeepsTheGiven rests on: the instruction is in front of the transcript
\* while a request is out and nowhere else, and what is behind it extends the
\* transcript the run was handed.
Keeping ==
  /\ given \in Seq(Turns)
  /\ CASE phase = "asking" -> \E t \in Seq(Turns) : Extends(t) /\ transcript = WithSystem(t)
       [] phase = "failed" -> transcript = given
       [] OTHER -> Extends(transcript)

LEMMA InstructionIsNoTurn == Instruction \notin Turns
<1>1. \A reply \in Replies : ToMessage(reply) # Instruction
  BY DEF ToMessage, Instruction, Msg
<1>2. \A id \in CallId : ToolResult(id) # Instruction
  BY DEF ToolResult, Instruction, Msg
<1>. QED BY <1>1, <1>2, MessagesAssumption DEF Turns

LEMMA HistoriesAreTurns == Histories \subseteq Seq(Turns)
<1>. SUFFICES ASSUME NEW history \in Histories PROVE history \in Seq(Turns)
  OBVIOUS
<1>1. history \in Seq({history[k] : k \in DOMAIN history})
  BY MessagesAssumption
<1>2. {history[k] : k \in DOMAIN history} \subseteq Turns
  BY DEF Turns
<1>. QED BY <1>1, <1>2

(* Taking the instruction off the front undoes putting it there. *)
LEMMA WithoutWhatWasPut ==
  ASSUME NEW M, NEW t \in Seq(M)
  PROVE  WithoutSystem(WithSystem(t)) = t
<1>1. CASE HasSystem
  <2>. DEFINE All == M \cup {Instruction}
  <2>1. t \in Seq(All) /\ <<Instruction>> \in Seq(All)
    OBVIOUS
  <2>. HIDE DEF All
  <2>2. <<Instruction>> \o t \in Seq(All) /\ Len(<<Instruction>> \o t) = 1 + Len(t)
        /\ \A k \in 1 .. 1 + Len(t) :
             (<<Instruction>> \o t)[k] = IF k <= 1 THEN Instruction ELSE t[k - 1]
    BY <2>1
  <2>3. Tail(<<Instruction>> \o t) \in Seq(All) /\ Len(Tail(<<Instruction>> \o t)) = Len(t)
        /\ \A k \in 1 .. Len(t) : Tail(<<Instruction>> \o t)[k] = t[k]
    BY <2>2, HeadTailProperties
  <2>4. Tail(<<Instruction>> \o t) = t
    BY <2>1, <2>3, SeqEqual
  <2>. QED BY <1>1, <2>4 DEF WithSystem, WithoutSystem
<1>2. CASE ~HasSystem
  BY <1>2 DEF WithSystem, WithoutSystem
<1>. QED BY <1>1, <1>2

(* A transcript that extends the one given has it in front. *)
LEMMA GivenIsInFront ==
  ASSUME NEW t, Extends(t), given \in Seq(Turns)
  PROVE  SubSeq(t, 1, Len(given)) = given
<1>1. Len(given) \in Nat /\ \A k \in 1 .. Len(given) : t[k] \in Turns
  BY DEF Extends
<1>2. PICK n \in Nat : n = Len(given)
  BY <1>1
<1>3. /\ SubSeq(t, 1, n) \in Seq(Turns)
      /\ Len(SubSeq(t, 1, n)) = n
      /\ \A k \in 1 .. n : SubSeq(t, 1, n)[k] = t[k]
  BY <1>1, <1>2, SubSeqProperties
<1>. QED BY <1>2, <1>3, SeqEqual DEF Extends

(* Adding turns to a transcript keeps what it extends. *)
LEMMA AddingKeeps ==
  ASSUME NEW t, Extends(t), given \in Seq(Turns), NEW added \in Seq(Turns)
  PROVE  Extends(t \o added)
<1>1. t \in Seq(Turns) /\ Len(t) \in Nat /\ Len(added) \in Nat /\ Len(given) \in Nat
  BY DEF Extends
<1>2. /\ t \o added \in Seq(Turns)
      /\ Len(t \o added) = Len(t) + Len(added)
      /\ \A k \in 1 .. Len(t) : (t \o added)[k] = t[k]
  BY <1>1
<1>. QED BY <1>1, <1>2 DEF Extends

(* Every step of a run keeps what it was handed. *)
LEMMA KeepingIsKept ==
  ASSUME Keeping, Slots, [LoopNext]_loopVars
  PROVE  Keeping'
<1>. USE DEF Keeping
<1>1. CASE Ask
  BY <1>1 DEF Ask, Extends
<1>2. CASE GiveUp
  BY <1>2 DEF GiveUp, Extends
<1>3. CASE RequestFails
  <2>1. PICK t \in Seq(Turns) : Extends(t) /\ transcript = WithSystem(t)
    BY <1>3 DEF RequestFails
  <2>2. transcript' = given
    BY <1>3, <2>1, WithoutWhatWasPut, GivenIsInFront DEF RequestFails
  <2>. QED BY <1>3, <2>2 DEF RequestFails
<1>4. ASSUME NEW reply \in Replies, ReplyArrives(reply) PROVE Keeping'
  <2>1. PICK t \in Seq(Turns) : Extends(t) /\ transcript = WithSystem(t)
    BY <1>4 DEF ReplyArrives
  <2>2. ToMessage(reply) \in Turns
    BY DEF Turns
  <2>3. transcript' = Append(t, ToMessage(reply))
    BY <1>4, <2>1, WithoutWhatWasPut DEF ReplyArrives
  <2>4. transcript' = t \o <<ToMessage(reply)>>
    BY <2>1, <2>2, <2>3, AppendIsConcat
  <2>5. Extends(transcript')
    <3>1. <<ToMessage(reply)>> \in Seq(Turns)
      BY <2>2
    <3>. QED BY <2>1, <2>4, <3>1, AddingKeeps
  <2>6. given' = given /\ phase' \in {"done", "calling"}
    BY <1>4 DEF ReplyArrives
  <2>. QED BY <2>5, <2>6 DEF Extends
<1>5. ASSUME NEW i \in DOMAIN calls, CallFinishes(i) PROVE Keeping'
  <2>1. Extends(transcript) /\ given' = given
    BY <1>5 DEF CallFinishes
  <2>2. CASE phase' = "calling" /\ transcript' = transcript
    BY <2>1, <2>2 DEF Extends
  <2>3. CASE phase' = "ready" /\ transcript' = transcript \o Results(calls, outputs')
    <3>1. calls \in Seq(CallId) /\ DOMAIN calls = 1 .. Len(calls) /\ Len(calls) \in Nat
      BY DEF Slots
    <3>2. PICK last \in 0 .. Len(calls) : DOMAIN outputs' = 1 .. last
      BY <1>5, <3>1, YieldedIsFinished DEF CallFinishes
    <3>3. \A k \in 1 .. last : ToolResult(calls[k]) \in Turns
      BY <3>1 DEF Turns
    <3>4. Results(calls, outputs') = [k \in 1 .. last |-> ToolResult(calls[k])]
      BY <3>2 DEF Results
    <3>5. last \in Nat
      BY <3>1
    <3>6. Results(calls, outputs') \in Seq(Turns)
      <4>1. Results(calls, outputs') \in [1 .. last -> Turns]
        BY <3>3, <3>4
      <4>. QED BY <3>5, <4>1
    <3>7. Extends(transcript')
      BY <2>1, <2>3, <3>6, AddingKeeps
    <3>. QED BY <2>1, <2>3, <3>7 DEF Extends
  <2>. QED BY <1>5, <2>2, <2>3 DEF CallFinishes
<1>6. CASE UNCHANGED loopVars
  BY <1>6 DEF loopVars, Extends
<1>. QED BY <1>1, <1>2, <1>3, <1>4, <1>5, <1>6 DEF LoopNext

LEMMA KeepingAtFirst == LoopInit => Keeping
BY HistoriesAreTurns DEF LoopInit, Keeping, Extends

(* Whatever the model answers and the tools return, a run that has not failed
   holds what it was handed and turns of its own behind it, and one that failed
   hands back exactly that (run_loop). *)
THEOREM RunAlwaysKeepsTheGiven == LoopSpec => []RunKeepsTheGiven
<1>1. Keeping => RunKeepsTheGiven
  <2>. SUFFICES ASSUME Keeping PROVE RunKeepsTheGiven
    OBVIOUS
  <2>1. FailureRestores
    BY DEF Keeping, FailureRestores
  <2>2. RunExtendsTheGiven
    <3>. SUFFICES ASSUME phase \in {"ready", "calling", "done"} PROVE RunExtendsTheGiven
      BY DEF RunExtendsTheGiven
    <3>1. Extends(transcript) /\ given \in Seq(Turns)
      BY DEF Keeping
    <3>2. \A i \in DOMAIN transcript : transcript[i] # Instruction
      BY <3>1, InstructionIsNoTurn DEF Extends
    <3>. QED BY <3>1, <3>2, GivenIsInFront DEF RunExtendsTheGiven
  <2>. QED BY <2>1, <2>2 DEF RunKeepsTheGiven
<1>2. Slots /\ Keeping /\ [LoopNext]_loopVars => Keeping'
  BY KeepingIsKept
<1>. QED BY <1>1, <1>2, KeepingAtFirst, SlotsHold, PTL DEF LoopSpec

-----------------------------------------------------------------------------
(* The transcript of a send *)

\* No id of m is in s.
Apart(m, s) ==
  \A j \in DOMAIN s, id \in CallId :
    /\ HasCall(m, id) => ~HasCall(s[j], id)
    /\ HasResult(m, id) => ~HasResult(s[j], id)

\* The caller's turn, at `start`, and what the run added behind it have no id in
\* common with what the backend holds.
Running(t, start, s) ==
  /\ start \in 1 .. Len(t)
  /\ \A id \in CallId : ~HasCall(t[start], id)
  /\ \A k \in start + 1 .. Len(t) : t[k].role \in {"assistant", "tool"}
  /\ \A k \in start .. Len(t) : Apart(t[k], s)
  /\ Once(t)

\* The messages of r are the model's or its tools', and have no id in common with
\* t or with what the backend holds.
Joins(r, t, s) ==
  /\ \A k \in DOMAIN r : /\ r[k].role \in {"assistant", "tool"}
                         /\ Apart(r[k], t) /\ Apart(r[k], s)
  /\ Once(r)

\* u is t with r behind it.
Grown(u, t, r) == u = t \o r

\* The calls of m are those in ids, and it answers none.
Requests(m, ids) ==
  \A id \in CallId : /\ HasCall(m, id) <=> \E k \in DOMAIN ids : ids[k] = id
                     /\ ~HasResult(m, id)

\* They differ, and are in neither t nor what the backend holds.
AreFresh(ids, t, s) ==
  /\ \A k, l \in DOMAIN ids : ids[k] = ids[l] => k = l
  /\ \A k \in DOMAIN ids, i \in DOMAIN t : ~HasCall(t[i], ids[k])
  /\ \A k \in DOMAIN ids, j \in DOMAIN s : ~HasCall(s[j], ids[k]) /\ ~HasResult(s[j], ids[k])

\* r holds their results.
Return(r, ids) == DOMAIN r = DOMAIN ids /\ \A k \in DOMAIN ids : r[k] = ToolResult(ids[k])

\* The last message requests the calls in ids, and nothing answers them yet.
Waiting(t, ids, s) ==
  \E sent \in Seq(Message), m \in Message :
    /\ t = Append(sent, m) /\ Sendable(sent) /\ Requests(m, ids)
    /\ \A k, l \in DOMAIN ids : ids[k] = ids[l] => k = l
    /\ \A k \in DOMAIN ids : /\ \A i \in DOMAIN t : ~HasResult(t[i], ids[k])
                             /\ \A j \in DOMAIN s : ~HasResult(s[j], ids[k])

LEMMA MessagesAreTyped == Message = MessagesOf(PinnedRoles \cup {"user", "assistant", "tool"}, Part)
BY DEF Message, MessagesOf

(* What a backend returns holds messages of what it was given, none twice. *)
LEMMA ViewsAreDrawn ==
  ASSUME NEW s \in Seq(Message), NEW v \in Views(s)
  PROVE  v \in Seq(Message) /\ Drawn(v, s, DOMAIN s)
<1>1. CASE v \in {WindowByGroups(s, k) : k \in Keeps}
  <2>1. PICK k \in Keeps : v = Reassemble(s, CutByGroups(s, k))
    BY <1>1 DEF WindowByGroups
  <2>. QED BY <2>1, ReassembledIsDrawn
<1>2. CASE v \in Suffixes(s)
  <2>1. CASE v = <<>>
    <3>1. <<>> \in Seq(Message) /\ DOMAIN <<>> = {}
      OBVIOUS
    <3>2. [k \in {} |-> 1] \in [DOMAIN <<>> -> DOMAIN s]
      BY <3>1
    <3>. QED BY <2>1, <3>1, <3>2 DEF Drawn
  <2>2. CASE \E l \in 1 .. Len(s) : v = SubSeq(s, l, Len(s))
    <3>1. PICK l \in 1 .. Len(s) : v = SubSeq(s, l, Len(s))
      BY <2>2
    <3>2. PICK n \in Nat : n = Len(s)
      OBVIOUS
    <3>3. DOMAIN s = 1 .. n /\ l \in 1 .. n
      BY <3>1, <3>2
    <3>4. /\ v \in Seq(Message) /\ DOMAIN v = 1 .. n - l + 1
          /\ \A k \in DOMAIN v : v[k] = s[l + k - 1]
      BY <3>1, <3>2, <3>3
    <3>. DEFINE from == [k \in DOMAIN v |-> l + k - 1]
    <3>5. from \in [DOMAIN v -> DOMAIN s]
      BY <3>3, <3>4
    <3>6. \A k, j \in DOMAIN v : from[k] = from[j] => k = j
      BY <3>3, <3>4
    <3>7. \A k \in DOMAIN v : v[k] = s[from[k]]
      BY <3>4
    <3>. HIDE DEF from
    <3>. QED BY <3>4, <3>5, <3>6, <3>7 DEF Drawn
  <2>. QED BY <1>2, <2>1, <2>2 DEF Suffixes
<1>. QED BY <1>1, <1>2 DEF Views

(* A send starts from a transcript that every provider accepts. *)
LEMMA SendStarts ==
  ASSUME NEW s \in Seq(Message), Once(s), NEW v \in Views(s), NEW message \in Message,
         \A id \in CallId : HasResult(message, id) => \A i \in DOMAIN s : ~HasResult(s[i], id),
         Accepted(Prepared(v, message), message)
  PROVE  LET t == Prepared(v, message)
         IN  t \in Seq(Message) /\ Sendable(t) /\ Running(t, Len(t), s) /\ t[Len(t)] = message
<1>. DEFINE R == PinnedRoles \cup {"user", "assistant", "tool"}
            h == Append(v, message)
            t == Repair(h)
<1>1. v \in Seq(Message) /\ Drawn(v, s, DOMAIN s) /\ Message = MessagesOf(R, Part)
  BY ViewsAreDrawn, MessagesAreTyped
<1>2. Once(v)
  BY <1>1, DrawnOnce
<1>3. AnsweredOnce(h)
  <2>1. /\ DOMAIN v = 1 .. Len(v) /\ Len(v) \in Nat /\ DOMAIN h = 1 .. Len(v) + 1
        /\ \A i \in DOMAIN v : h[i] = v[i]
        /\ h[Len(v) + 1] = message
    BY <1>1
  <2>2. ASSUME NEW i \in DOMAIN v, NEW id \in CallId, HasResult(message, id) PROVE ~HasResult(v[i], id)
    <3>1. PICK j \in DOMAIN s : v[i] = s[j]
      BY <1>1 DEF Drawn
    <3>. QED BY <2>2, <3>1
  <2>. HIDE DEF h
  <2>3. ASSUME NEW i \in DOMAIN h, NEW j \in DOMAIN h, NEW id \in CallId,
               HasResult(h[i], id), HasResult(h[j], id)
        PROVE  i = j
    <3>1. \A k \in DOMAIN h : k \in DOMAIN v \/ k = Len(v) + 1
      BY <2>1
    <3>2. CASE i \in DOMAIN v /\ j \in DOMAIN v
      BY <1>2, <2>1, <2>3, <3>2 DEF Once, AnsweredOnce
    <3>3. CASE i = Len(v) + 1 /\ j \in DOMAIN v
      BY <2>1, <2>2, <2>3, <3>3
    <3>4. CASE i \in DOMAIN v /\ j = Len(v) + 1
      BY <2>1, <2>2, <2>3, <3>4
    <3>. QED BY <3>1, <3>2, <3>3, <3>4
  <2>. QED BY <2>3 DEF AnsweredOnce
<1>4. Prepared(v, message) = t
  BY DEF Prepared
<1>5. h \in Seq(MessagesOf(R, Part))
  BY <1>1
<1>6. Once(t)
  BY <1>1, <1>2, <1>3, PreparedOnce DEF Once
<1>. HIDE DEF R, h
<1>7. t \in Seq(Message) /\ Sendable(t)
  BY <1>1, <1>3, <1>5, Repaired, RepairIsSendable
<1>. HIDE DEF t
<1>8. t # <<>> /\ t[Len(t)] = message
  BY <1>4 DEF Accepted
<1>9. Len(t) \in DOMAIN t /\ Len(t) \in Nat /\ Len(t) \in 1 .. Len(t)
  BY <1>7, <1>8
<1>10. \A id \in CallId : ~HasCall(t[Len(t)], id)
  BY <1>7, <1>9, LastMakesNoCall
<1>11. Apart(message, s)
  BY <1>8, <1>10 DEF Apart
<1>12. Running(t, Len(t), s)
  <2>1. \A k \in Len(t) .. Len(t) : k = Len(t)
    BY <1>9
  <2>2. \A k \in Len(t) + 1 .. Len(t) : FALSE
    BY <1>9
  <2>. QED BY <1>6, <1>8, <1>9, <1>10, <1>11, <2>1, <2>2 DEF Running
<1>. QED BY <1>4, <1>7, <1>8, <1>12

(* A run stays one as it grows by messages of the model and of its tools that
   share no id with it or with the backend. *)
LEMMA RunningGrows ==
  ASSUME NEW t \in Seq(Message), NEW start \in Nat, NEW s \in Seq(Message), Running(t, start, s),
         NEW r \in Seq(Message), Joins(r, t, s), NEW u \in Seq(Message), Grown(u, t, r)
  PROVE  Running(u, start, s) /\ u[start] = t[start]
<1>. DEFINE n == Len(t)
<1>1. /\ n \in Nat /\ DOMAIN t = 1 .. n /\ Len(r) \in Nat /\ DOMAIN r = 1 .. Len(r)
      /\ Len(u) = n + Len(r)
      /\ \A i \in 1 .. Len(u) : i <= n => u[i] = t[i]
      /\ \A i \in 1 .. Len(u) : ~(i <= n) => u[i] = r[i - n]
  BY DEF Grown
<1>2. Once(u)
  <2>1. Once(t)
    BY DEF Running
  <2>2. Once(r) /\ \A k \in DOMAIN r : Apart(r[k], t)
    BY DEF Joins
  <2>. HIDE DEF n
  <2>. QED BY <2>1, <2>2, OnceBehind DEF Apart, Grown
<1>3. start \in 1 .. n
  BY DEF Running
<1>. HIDE DEF n
<1>4. start \in 1 .. Len(u) /\ u[start] = t[start] /\ start \in Int
  BY <1>1, <1>3
<1>5. \A i \in start .. Len(u) : \/ i <= n /\ i \in start .. n /\ u[i] = t[i]
                                 \/ i - n \in DOMAIN r /\ u[i] = r[i - n]
  BY <1>1, <1>3, <1>4
<1>6. \A i \in start + 1 .. Len(u) : \/ i <= n /\ i \in start + 1 .. n /\ u[i] = t[i]
                                     \/ i - n \in DOMAIN r /\ u[i] = r[i - n]
  BY <1>1, <1>3, <1>4
<1>7. Running(u, start, s)
  BY <1>2, <1>4, <1>5, <1>6 DEF Running, Joins, n
<1>. QED BY <1>4, <1>7

(* A reply joins the transcript of the run it answers. *)
LEMMA ReplyJoins ==
  ASSUME NEW t \in Seq(Message), NEW start \in Nat, NEW s \in Seq(Message), Running(t, start, s),
         Sendable(t), NEW m \in Message, m.role = "assistant", NEW ids \in Seq(CallId),
         Requests(m, ids), AreFresh(ids, t, s),
         NEW u \in Seq(Message), Grown(u, t, <<m>>)
  PROVE  Running(u, start, s) /\ u[start] = t[start] /\ Waiting(u, ids, s)
<1>1. \A k \in DOMAIN ids : ids[k] \in CallId
  OBVIOUS
<1>2. <<m>> \in Seq(Message) /\ DOMAIN <<m>> = {1} /\ <<m>>[1] = m
  OBVIOUS
<1>3. Apart(m, t) /\ Apart(m, s)
  BY DEF Apart, Requests, AreFresh
<1>4. Joins(<<m>>, t, s)
  BY <1>2, <1>3 DEF Joins, Once, CalledOnce, AnsweredOnce
<1>5. Running(u, start, s) /\ u[start] = t[start]
  <2>. DEFINE r == <<m>>
  <2>1. /\ t \in Seq(Message) /\ start \in Nat /\ s \in Seq(Message) /\ Running(t, start, s)
        /\ r \in Seq(Message) /\ u \in Seq(Message) /\ Joins(r, t, s) /\ Grown(u, t, r)
    BY <1>2, <1>4
  <2>. HIDE DEF r
  <2>. QED BY ONLY <2>1, RunningGrows
<1>6. ASSUME NEW k \in DOMAIN ids, NEW i \in DOMAIN t PROVE ~HasResult(t[i], ids[k])
  <2>. SUFFICES ASSUME HasResult(t[i], ids[k]) PROVE FALSE
    OBVIOUS
  <2>1. PICK j \in DOMAIN t : Answers(t, j, i, ids[k])
    BY <1>1 DEF Sendable
  <2>. QED BY <2>1 DEF Answers, AreFresh
<1>7. u = Append(t, m) /\ \A i \in DOMAIN u : (i \in DOMAIN t /\ u[i] = t[i]) \/ u[i] = m
  <2>1. u = Append(t, m)
    BY AppendIsConcat DEF Grown
  <2>. QED BY <2>1
<1>8. \A k \in DOMAIN ids, i \in DOMAIN u : ~HasResult(u[i], ids[k])
  BY <1>1, <1>6, <1>7 DEF Requests
<1>9. Waiting(u, ids, s)
  BY <1>7, <1>8 DEF Waiting, AreFresh
<1>. QED BY <1>5, <1>9

(* The results of its calls join it, and it can be sent again. *)
LEMMA ResultsJoin ==
  ASSUME NEW t \in Seq(Message), NEW start \in Nat, NEW s \in Seq(Message), Running(t, start, s),
         NEW ids \in Seq(CallId), Waiting(t, ids, s),
         NEW r \in Seq(Message), Return(r, ids),
         NEW u \in Seq(Message), Grown(u, t, r)
  PROVE  Running(u, start, s) /\ u[start] = t[start] /\ Sendable(u)
<1>1. PICK sent \in Seq(Message), m \in Message :
        /\ t = Append(sent, m) /\ Sendable(sent) /\ Requests(m, ids)
        /\ \A k, l \in DOMAIN ids : ids[k] = ids[l] => k = l
        /\ \A k \in DOMAIN ids : /\ \A i \in DOMAIN t : ~HasResult(t[i], ids[k])
                                 /\ \A j \in DOMAIN s : ~HasResult(s[j], ids[k])
  BY DEF Waiting
<1>2. \A k \in DOMAIN r, id \in CallId :
        ~HasCall(r[k], id) /\ (HasResult(r[k], id) <=> ids[k] = id)
  BY ResultsOfTools DEF Return
<1>3. Once(r)
  BY <1>1, <1>2 DEF Once, CalledOnce, AnsweredOnce, Return
<1>4. ASSUME NEW k \in DOMAIN r PROVE r[k].role \in {"assistant", "tool"} /\ Apart(r[k], t) /\ Apart(r[k], s)
  <2>1. r[k].role = "tool"
    BY DEF ToolResult, Msg, Return
  <2>. QED BY <1>1, <1>2, <2>1 DEF Apart, Return
<1>5. Joins(r, t, s)
  BY <1>3, <1>4 DEF Joins
<1>6. Running(u, start, s) /\ u[start] = t[start]
  <2>1. /\ t \in Seq(Message) /\ start \in Nat /\ s \in Seq(Message) /\ Running(t, start, s)
        /\ r \in Seq(Message) /\ u \in Seq(Message) /\ Grown(u, t, r)
    OBVIOUS
  <2>. QED BY ONLY <2>1, <1>5, RunningGrows
<1>7. Sendable(Append(sent, m) \o r)
  BY <1>1, ExchangeIsSendable DEF Return, Requests
<1>. QED BY <1>1, <1>6, <1>7 DEF Grown

(* What a send stores uses no id that the backend holds. *)
LEMMA StoredOnce ==
  ASSUME NEW t \in Seq(Message), NEW start \in Nat, NEW s \in Seq(Message), Once(s), Running(t, start, s),
         NEW added \in Seq(Message), Len(added) <= Len(t) - start + 1,
         \A i \in DOMAIN added : added[i] = t[start + i - 1]
  PROVE  /\ s \o added \in Seq(Message) /\ Once(s \o added)
         /\ \A i \in DOMAIN added : i >= 2 => added[i].role \in {"assistant", "tool"}
         /\ \A i \in DOMAIN added : Apart(added[i], s)
<1>1. /\ start \in 1 .. Len(t) /\ Len(t) \in Nat /\ DOMAIN t = 1 .. Len(t)
      /\ DOMAIN added = 1 .. Len(added) /\ Len(added) \in Nat
  BY DEF Running
<1>2. \A i \in DOMAIN added : /\ start + i - 1 \in start .. Len(t)
                              /\ start + i - 1 \in DOMAIN t
                              /\ i >= 2 => start + i - 1 \in start + 1 .. Len(t)
  BY <1>1
<1>3. \A i \in DOMAIN added : Apart(added[i], s)
  BY <1>2 DEF Running
<1>4. Once(added)
  <2>1. \A i, j \in DOMAIN added : start + i - 1 = start + j - 1 => i = j
    BY <1>1
  <2>2. Once(t)
    BY DEF Running
  <2>3. CalledOnce(added)
    BY <1>2, <2>1, <2>2 DEF Once, CalledOnce
  <2>4. AnsweredOnce(added)
    BY <1>2, <2>1, <2>2 DEF Once, AnsweredOnce
  <2>. QED BY <2>3, <2>4 DEF Once
<1>5. Once(s \o added)
  BY <1>3, <1>4, OnceBehind DEF Apart
<1>6. \A i \in DOMAIN added : i >= 2 => added[i].role \in {"assistant", "tool"}
  BY <1>2 DEF Running
<1>7. s \o added \in Seq(Message)
  OBVIOUS
<1>. QED BY <1>3, <1>5, <1>6, <1>7

-----------------------------------------------------------------------------
(* The inductive invariant *)

\* No call is in a pinned message.
CallsAreUnpinned(s) ==
  \A j \in DOMAIN s, id \in CallId : HasCall(s[j], id) => ~Pinned(s[j])

\* What the backend holds.
Kept(s) == s \in Seq(Message) /\ Once(s) /\ CallsAreUnpinned(s)

\* The transcript of the send under way, without the instruction that is in front
\* of it while a request is out.
Serving(t) ==
  /\ transcript = IF phase = "asking" THEN WithSystem(t) ELSE t
  /\ Len(given) \in Nat
  /\ Running(t, Len(given), stored)
  /\ t[Len(given)] = turn
  /\ phase \in {"ready", "asking"} => Sendable(t)
  /\ phase = "calling" => Waiting(t, calls, stored)

Busy == phase \in {"ready", "asking", "calling", "done"}

ConversationInv ==
  /\ Kept(stored)
  /\ Slots
  /\ Busy => \E t \in Seq(Message) : Serving(t)

(* A send that begins. *)
LEMMA SendKeeps ==
  ASSUME ConversationInv, NEW message \in CallerTurns, AnswersOnce(message), Send(message)
  PROVE  ConversationInv'
<1>1. message \in Message
  BY ConversationAssumption
<1>2. PICK v \in Views(stored) :
        Accepted(Prepared(v, message), message) /\ StartRun(Prepared(v, message))
  BY DEF Send
<1>3. Kept(stored) /\ stored' = stored /\ turn' = message
  BY DEF ConversationInv, Send
<1>. DEFINE t == Prepared(v, message)
<1>4. t \in Seq(Message) /\ Sendable(t) /\ Running(t, Len(t), stored) /\ t[Len(t)] = message
  BY <1>1, <1>2, <1>3, SendStarts DEF AnswersOnce, Kept
<1>5. /\ phase' = "ready" /\ given' = t /\ transcript' = t
      /\ calls' = <<>> /\ begun' = 0 /\ finished' = {} /\ outputs' = <<>>
  BY <1>2 DEF StartRun
<1>. HIDE DEF t
<1>6. Slots'
  BY <1>5, LoopAssumption DEF Slots
<1>7. Len(t) \in Nat
  BY <1>4
<1>8. Serving(t)'
  BY <1>3, <1>4, <1>5, <1>7 DEF Serving
<1>. QED BY <1>3, <1>4, <1>6, <1>8 DEF ConversationInv

(* The steps of the run keep the transcript of the send. *)
LEMMA ReplyKeeps ==
  ASSUME ConversationInv, NEW reply \in Replies, FreshReply(reply), ReplyArrives(reply),
         UNCHANGED <<stored, turn>>
  PROVE  Busy' => \E t \in Seq(Message) : Serving(t)'
<1>. DEFINE ids == CallsOf(reply)
            m   == ToMessage(reply)
<1>1. PICK t \in Seq(Message) : Serving(t)
  BY DEF ReplyArrives, ConversationInv, Busy
<1>2. /\ transcript = WithSystem(t) /\ Len(given) \in Nat /\ Running(t, Len(given), stored)
      /\ t[Len(given)] = turn /\ Sendable(t) /\ stored \in Seq(Message)
  BY <1>1 DEF ReplyArrives, Serving, ConversationInv, Kept
<1>3. /\ m \in Message /\ m.role = "assistant" /\ ids \in Seq(CallId)
      /\ Requests(m, ids)
  BY CallsAreRequested DEF ToMessage, Msg, Requests
<1>4. \A i \in DOMAIN t : \E l \in DOMAIN transcript : transcript[l] = t[i]
  <2>1. CASE HasSystem
    <3>1. transcript = <<Instruction>> \o t
      BY <1>2, <2>1 DEF WithSystem
    <3>2. \A i \in DOMAIN t : i + 1 \in DOMAIN (<<Instruction>> \o t) /\ (<<Instruction>> \o t)[i + 1] = t[i]
      OBVIOUS
    <3>. QED BY <3>1, <3>2
  <2>2. CASE ~HasSystem
    BY <1>2, <2>2 DEF WithSystem
  <2>. QED BY <2>1, <2>2
<1>5. AreFresh(ids, t, stored)
  BY <1>4 DEF FreshReply, FreshCalls, AreFresh
<1>6. transcript' = Append(t, m) /\ given' = given
  BY <1>2, WithoutWhatWasPut DEF ReplyArrives
<1>7. phase' \in {"done", "calling"} /\ (phase' = "calling" => calls' = ids)
  BY DEF ReplyArrives
<1>. HIDE DEF ids, m
<1>8. PICK u \in Seq(Message) : u = Append(t, m) /\ Grown(u, t, <<m>>)
  <2>1. Append(t, m) \in Seq(Message)
    BY <1>3
  <2>. QED BY <1>3, <2>1, AppendIsConcat DEF Grown
<1>9. Running(u, Len(given), stored) /\ u[Len(given)] = t[Len(given)] /\ Waiting(u, ids, stored)
  <2>. DEFINE start == Len(given)
  <2>1. /\ t \in Seq(Message) /\ start \in Nat /\ stored \in Seq(Message)
        /\ Running(t, start, stored) /\ Sendable(t)
        /\ m \in Message /\ m.role = "assistant" /\ ids \in Seq(CallId) /\ Requests(m, ids)
        /\ AreFresh(ids, t, stored) /\ u \in Seq(Message) /\ Grown(u, t, <<m>>)
    BY <1>2, <1>3, <1>5, <1>8
  <2>. HIDE DEF start
  <2>2. Running(u, start, stored) /\ u[start] = t[start] /\ Waiting(u, ids, stored)
    BY ONLY <2>1, ReplyJoins
  <2>. QED BY <2>2 DEF start
<1>10. Serving(u)'
  BY <1>2, <1>6, <1>7, <1>8, <1>9 DEF Serving
<1>. QED BY <1>10

LEMMA ResultsKeep ==
  ASSUME ConversationInv, NEW i \in DOMAIN calls, CallFinishes(i), UNCHANGED <<stored, turn>>
  PROVE  Busy' => \E t \in Seq(Message) : Serving(t)'
<1>1. PICK t \in Seq(Message) : Serving(t)
  BY DEF CallFinishes, ConversationInv, Busy
<1>2. /\ phase = "calling" /\ transcript = t /\ Len(given) \in Nat
      /\ Running(t, Len(given), stored)
      /\ t[Len(given)] = turn /\ Waiting(t, calls, stored) /\ stored \in Seq(Message)
  BY <1>1 DEF CallFinishes, Serving, ConversationInv, Kept
<1>3. calls' = calls /\ given' = given
  BY DEF CallFinishes
<1>4. CASE phase' = "calling" /\ transcript' = transcript
  BY <1>2, <1>3, <1>4 DEF Serving
<1>5. CASE phase' = "ready" /\ Len(outputs') = Len(calls)
           /\ transcript' = transcript \o Results(calls, outputs')
  <2>1. calls \in Seq(CallId) /\ DOMAIN calls = 1 .. Len(calls) /\ Len(calls) \in Nat
    BY DEF ConversationInv, Slots
  <2>2. DOMAIN outputs' = DOMAIN calls
    BY <1>5, <2>1, YieldedIsFinished DEF CallFinishes
  <2>3. PICK r : r = Results(calls, outputs')
    OBVIOUS
  <2>4. /\ r = [k \in DOMAIN calls |-> ToolResult(calls[k])]
        /\ \A k \in DOMAIN calls : ToolResult(calls[k]) \in Message
    <3>1. \A k \in DOMAIN calls : Result(calls[k]) \in Part
      BY <2>1 DEF Part
    <3>2. \A p \in Part : <<p>> \in Seq(Part)
      OBVIOUS
    <3>3. \A k \in DOMAIN calls : ToolResult(calls[k]) \in Message
      BY <3>1, <3>2 DEF ToolResult, Msg, Message
    <3>. QED BY <2>2, <2>3, <3>3 DEF Results
  <2>5. r \in Seq(Message) /\ Return(r, calls)
    <3>1. r \in [1 .. Len(calls) -> Message]
      BY <2>1, <2>4
    <3>2. r \in Seq(Message)
      BY <2>1, <3>1
    <3>. QED BY <2>4, <3>2 DEF Return
  <2>6. PICK u \in Seq(Message) : Grown(u, t, r)
    <3>1. t \o r \in Seq(Message)
      BY <2>5
    <3>. QED BY <3>1 DEF Grown
  <2>7. Running(u, Len(given), stored) /\ u[Len(given)] = t[Len(given)] /\ Sendable(u)
    <3>. DEFINE start == Len(given)
    <3>1. /\ t \in Seq(Message) /\ start \in Nat /\ stored \in Seq(Message)
          /\ Running(t, start, stored) /\ calls \in Seq(CallId) /\ Waiting(t, calls, stored)
          /\ r \in Seq(Message) /\ Return(r, calls) /\ u \in Seq(Message) /\ Grown(u, t, r)
      BY <1>2, <2>1, <2>5, <2>6
    <3>. HIDE DEF start
    <3>2. Running(u, start, stored) /\ u[start] = t[start] /\ Sendable(u)
      BY ONLY <3>1, ResultsJoin
    <3>. QED BY <3>2 DEF start
  <2>8. Serving(u)'
    <3>1. transcript' = u
      BY <1>2, <1>5, <2>3, <2>6 DEF Grown
    <3>. QED BY <1>2, <1>3, <1>5, <2>7, <3>1 DEF Serving
  <2>. QED BY <2>8
<1>. QED BY <1>2, <1>4, <1>5 DEF CallFinishes

LEMMA RunKeeps ==
  ASSUME ConversationInv, Progress, UNCHANGED <<stored, turn>>
  PROVE  ConversationInv'
<1>1. [LoopNext]_loopVars
  BY DEF Progress, LoopNext, FreshReply
<1>2. Slots'
  BY <1>1, SlotsAreKept DEF ConversationInv
<1>3. CASE Ask
  <2>1. PICK t \in Seq(Message) : Serving(t)
    BY <1>3 DEF Ask, ConversationInv, Busy
  <2>2. Serving(t)'
    BY <1>3, <2>1 DEF Ask, Serving
  <2>. QED BY <1>2, <2>2 DEF ConversationInv
<1>4. CASE GiveUp
  <2>1. PICK t \in Seq(Message) : Serving(t)
    BY <1>4 DEF GiveUp, ConversationInv, Busy
  <2>2. Serving(t)'
    BY <1>4, <2>1 DEF GiveUp, Serving
  <2>. QED BY <1>2, <2>2 DEF ConversationInv
<1>5. CASE RequestFails
  BY <1>2, <1>5 DEF RequestFails, ConversationInv, Busy
<1>6. ASSUME NEW reply \in Replies, FreshReply(reply), ReplyArrives(reply) PROVE ConversationInv'
  BY <1>2, <1>6, ReplyKeeps DEF ConversationInv
<1>7. ASSUME NEW i \in DOMAIN calls, CallFinishes(i) PROVE ConversationInv'
  BY <1>2, <1>7, ResultsKeep DEF ConversationInv
<1>. QED BY <1>3, <1>4, <1>5, <1>6, <1>7 DEF Progress

(* What a send stores is its part of the transcript, from the caller's turn on. *)
LEMMA NewTurnsAreOfTheSend ==
  ASSUME NEW t \in Seq(Message), phase = "done", Serving(t)
  PROVE  /\ NewTurns \in Seq(Message)
         /\ Len(NewTurns) = Len(t) - Len(given) + 1
         /\ \A i \in DOMAIN NewTurns : NewTurns[i] = t[Len(given) + i - 1]
<1>1. PICK n \in Nat, start \in Nat :
        /\ n = Len(t) /\ start = Len(given) /\ start \in 1 .. n
        /\ transcript = t /\ t[start] = turn
  BY DEF Serving, Running
<1>2. DOMAIN t = 1 .. n /\ \A i \in start + 1 .. n : t[i] \in Message
  BY <1>1
<1>. DEFINE rest == SubSeq(t, start + 1, n)
<1>3. /\ rest \in Seq(Message) /\ Len(rest) = n - start
      /\ \A i \in 1 .. n - start : rest[i] = t[start + i]
  <2>1. PICK first \in Nat : first = start + 1
    BY <1>1
  <2>2. /\ SubSeq(t, first, n) \in Seq(Message)
        /\ Len(SubSeq(t, first, n)) = IF first <= n THEN n - first + 1 ELSE 0
        /\ \A i \in 1 .. n - first + 1 : SubSeq(t, first, n)[i] = t[first + i - 1]
    BY <1>1, <1>2, <2>1, SubSeqProperties
  <2>3. n - first + 1 = n - start /\ \A i \in 1 .. n - start : first + i - 1 = start + i
    BY <1>1, <2>1
  <2>. QED BY <1>1, <2>1, <2>2, <2>3
<1>. HIDE DEF rest
<1>4. NewTurns = <<turn>> \o rest
  BY <1>1 DEF NewTurns, rest
<1>5. turn \in Message /\ <<turn>> \in Seq(Message)
  BY <1>1, <1>2
<1>6. /\ <<turn>> \o rest \in Seq(Message) /\ Len(<<turn>> \o rest) = 1 + Len(rest)
      /\ \A i \in 1 .. 1 + Len(rest) : (<<turn>> \o rest)[i] = IF i = 1 THEN turn ELSE rest[i - 1]
  <2>1. PICK one \in Seq(Message) : one = <<turn>> /\ Len(one) = 1 /\ one[1] = turn
    BY <1>5
  <2>2. rest \in Seq(Message)
    BY <1>3
  <2>3. /\ one \o rest \in Seq(Message) /\ Len(one \o rest) = 1 + Len(rest)
        /\ \A i \in 1 .. 1 + Len(rest) : (one \o rest)[i] = IF i <= 1 THEN one[i] ELSE rest[i - 1]
    BY <2>1, <2>2
  <2>4. \A i \in 1 .. 1 + Len(rest) : i <= 1 <=> i = 1
    BY <2>2
  <2>. QED BY <2>1, <2>3, <2>4
<1>7. ASSUME NEW i \in 1 .. n - start + 1 PROVE NewTurns[i] = t[start + i - 1]
  <2>1. CASE i = 1
    BY <1>1, <1>3, <1>4, <1>6, <2>1
  <2>2. CASE i # 1
    <3>1. i - 1 \in 1 .. n - start /\ start + (i - 1) = start + i - 1 /\ i \in 1 .. 1 + (n - start)
      BY <1>1, <2>2
    <3>. QED BY <1>3, <1>4, <1>6, <2>2, <3>1
  <2>. QED BY <2>1, <2>2
<1>8. /\ NewTurns \in Seq(Message) /\ Len(NewTurns) = n - start + 1
      /\ DOMAIN NewTurns = 1 .. n - start + 1
  BY <1>1, <1>3, <1>4, <1>6
<1>. QED BY <1>1, <1>7, <1>8

(* Any part of it that the backend reached leaves the backend as it was before,
   with the caller's turn and messages of the run behind. *)
LEMMA StoringKeeps ==
  ASSUME ConversationInv, phase = "done",
         NEW added \in Seq(Message), Len(added) \in 1 .. Len(NewTurns),
         \A i \in DOMAIN added : added[i] = NewTurns[i]
  PROVE  /\ Kept(stored \o added)
         /\ added[1] = turn
         /\ \A i \in 2 .. Len(added) :
              /\ added[i].role \in {"assistant", "tool"}
              /\ \A id \in CallId, j \in DOMAIN stored :
                   HasCall(added[i], id) => ~HasCall(stored[j], id)
<1>1. PICK t \in Seq(Message) : Serving(t)
  BY DEF ConversationInv, Busy
<1>2. PICK start \in Nat : start = Len(given)
  BY <1>1 DEF Serving
<1>3. /\ NewTurns \in Seq(Message) /\ Len(NewTurns) = Len(t) - start + 1
      /\ \A i \in DOMAIN NewTurns : NewTurns[i] = t[start + i - 1]
  BY <1>1, <1>2, NewTurnsAreOfTheSend
<1>4. /\ Len(added) \in Nat /\ DOMAIN added = 1 .. Len(added) /\ 1 \in DOMAIN added
      /\ DOMAIN added \subseteq DOMAIN NewTurns /\ Len(added) <= Len(NewTurns)
  BY <1>3
<1>5. \A i \in DOMAIN added : added[i] = t[start + i - 1]
  BY <1>3, <1>4
<1>6. /\ Running(t, start, stored) /\ t[start] = turn
      /\ stored \in Seq(Message) /\ Once(stored) /\ CallsAreUnpinned(stored)
  BY <1>1, <1>2 DEF Serving, ConversationInv, Kept
<1>7. /\ stored \o added \in Seq(Message) /\ Once(stored \o added)
      /\ \A i \in DOMAIN added : i >= 2 => added[i].role \in {"assistant", "tool"}
      /\ \A i \in DOMAIN added : Apart(added[i], stored)
  <2>1. Len(added) <= Len(t) - start + 1
    BY <1>3, <1>4
  <2>. QED BY <1>5, <1>6, <2>1, StoredOnce
<1>8. added[1] = turn
  <2>1. start + 1 - 1 = start
    BY <1>2
  <2>. QED BY <1>4, <1>5, <1>6, <2>1
<1>9. \A i \in DOMAIN added, id \in CallId : HasCall(added[i], id) => ~Pinned(added[i])
  <2>1. \A id \in CallId : ~HasCall(added[1], id)
    BY <1>6, <1>8 DEF Running
  <2>2. \A i \in DOMAIN added : i # 1 => ~Pinned(added[i])
    BY <1>4, <1>7 DEF Pinned, PinnedRoles
  <2>. QED BY <2>1, <2>2
<1>10. CallsAreUnpinned(stored \o added)
  <2>1. \A i \in DOMAIN (stored \o added) :
          \/ i \in DOMAIN stored /\ (stored \o added)[i] = stored[i]
          \/ \E j \in DOMAIN added : (stored \o added)[i] = added[j]
    <3>1. /\ DOMAIN (stored \o added) = 1 .. Len(stored) + Len(added) /\ Len(stored) \in Nat
          /\ DOMAIN stored = 1 .. Len(stored)
      BY <1>6
    <3>2. ASSUME NEW i \in 1 .. Len(stored) + Len(added), ~(i <= Len(stored))
          PROVE  i - Len(stored) \in DOMAIN added /\ (stored \o added)[i] = added[i - Len(stored)]
      BY <1>4, <1>6, <3>1, <3>2
    <3>3. ASSUME NEW i \in 1 .. Len(stored) + Len(added), i <= Len(stored)
          PROVE  i \in DOMAIN stored /\ (stored \o added)[i] = stored[i]
      BY <1>4, <1>6, <3>1, <3>3
    <3>. QED BY <3>1, <3>2, <3>3
  <2>. QED BY <1>6, <1>9, <2>1 DEF CallsAreUnpinned
<1>11. \A i \in 2 .. Len(added) :
         /\ added[i].role \in {"assistant", "tool"}
         /\ \A id \in CallId, j \in DOMAIN stored : HasCall(added[i], id) => ~HasCall(stored[j], id)
  <2>1. \A i \in 2 .. Len(added) : i \in DOMAIN added /\ i >= 2
    BY <1>4
  <2>. QED BY <1>7, <2>1 DEF Apart
<1>. QED BY <1>7, <1>8, <1>10, <1>11 DEF Kept

(* A step that stores, or that is cut short as it does, adds such a part. *)
LEMMA Stores ==
  ASSUME ConversationInv, Store \/ StoreCutShort
  PROVE  /\ phase = "done" /\ phase' = "idle"
         /\ \E added \in Seq(Message) :
              /\ Len(added) \in 1 .. Len(NewTurns)
              /\ \A i \in DOMAIN added : added[i] = NewTurns[i]
              /\ stored' = stored \o added
<1>1. phase = "done" /\ phase' = "idle"
  BY DEF Store, StoreCutShort, BecomeIdle
<1>2. PICK t \in Seq(Message) : Serving(t)
  BY <1>1 DEF ConversationInv, Busy
<1>3. NewTurns \in Seq(Message) /\ Len(NewTurns) >= 1
  <2>1. Len(t) - Len(given) + 1 >= 1
    BY <1>2 DEF Serving, Running
  <2>. QED BY <1>1, <1>2, <2>1, NewTurnsAreOfTheSend
<1>4. PICK new \in Seq(Message), n \in Nat : new = NewTurns /\ n = Len(new) /\ n >= 1
  BY <1>3
<1>5. CASE Store
  <2>1. stored' = stored \o new
    BY <1>4, <1>5 DEF Store
  <2>2. Len(new) \in 1 .. n /\ \A i \in DOMAIN new : new[i] = NewTurns[i]
    BY <1>4
  <2>. QED BY <1>1, <1>4, <2>1, <2>2
<1>6. CASE StoreCutShort
  <2>1. PICK k \in 1 .. n - 1 : stored' = stored \o SubSeq(new, 1, k)
    BY <1>4, <1>6 DEF StoreCutShort
  <2>2. /\ k \in Nat /\ k >= 1 /\ k <= n
        /\ \A i \in 1 .. k : new[i] \in Message
    BY <1>4, <2>1
  <2>3. /\ SubSeq(new, 1, k) \in Seq(Message) /\ Len(SubSeq(new, 1, k)) = k
        /\ \A i \in 1 .. k : SubSeq(new, 1, k)[i] = new[i]
    BY <2>2, SubSeqProperties
  <2>4. DOMAIN SubSeq(new, 1, k) = 1 .. k /\ k \in 1 .. n
    BY <2>2, <2>3
  <2>. QED BY <1>1, <1>4, <2>1, <2>3, <2>4
<1>. QED BY <1>5, <1>6

(* A clear that fails somewhere leaves a suffix. *)
LEMMA SuffixesAreKept ==
  ASSUME NEW s, Kept(s), NEW v \in Suffixes(s)
  PROVE  Kept(v) /\ ~(Len(v) > Len(s))
<1>1. s \in Seq(Message) /\ Once(s) /\ CallsAreUnpinned(s)
  BY DEF Kept
<1>2. v \in Seq(Message) /\ Drawn(v, s, DOMAIN s)
  BY <1>1, ViewsAreDrawn DEF Views
<1>3. Once(v)
  BY <1>1, <1>2, DrawnOnce
<1>4. CallsAreUnpinned(v)
  <2>1. PICK f \in [DOMAIN v -> DOMAIN s] : \A k \in DOMAIN v : v[k] = s[f[k]]
    BY <1>2 DEF Drawn
  <2>2. \A k \in DOMAIN v : f[k] \in DOMAIN s
    BY <2>1
  <2>. QED BY <1>1, <2>1, <2>2 DEF CallsAreUnpinned
<1>5. ~(Len(v) > Len(s))
  <2>1. CASE v = <<>>
    BY <1>1, <2>1
  <2>2. CASE \E l \in 1 .. Len(s) : v = SubSeq(s, l, Len(s))
    BY <1>1, <2>2
  <2>. QED BY <2>1, <2>2 DEF Suffixes
<1>. QED BY <1>2, <1>3, <1>4, <1>5 DEF Kept

LEMMA IdleIsNotBusy ==
  ASSUME Kept(stored'), phase' = "idle", calls' = <<>>, begun' = 0, outputs' = <<>>, finished' = {}
  PROVE  ConversationInv'
BY LoopAssumption DEF ConversationInv, Slots, Busy

LEMMA ConversationInvAtFirst == ConversationInit => ConversationInv
<1>. SUFFICES ASSUME ConversationInit PROVE ConversationInv
  OBVIOUS
<1>1. Kept(stored)
  <2>1. <<>> \in Seq(Message) /\ DOMAIN <<>> = {}
    OBVIOUS
  <2>. QED BY <2>1 DEF ConversationInit, Kept, Once, CalledOnce, AnsweredOnce, CallsAreUnpinned
<1>. QED BY <1>1, LoopAssumption DEF ConversationInit, ConversationInv, Slots, Busy

LEMMA ConversationInvIsKept ==
  ASSUME ConversationInv, [ConversationNext]_conversationVars
  PROVE  ConversationInv'
<1>1. ASSUME NEW message \in CallerTurns, AnswersOnce(message), Send(message) PROVE ConversationInv'
  BY <1>1, SendKeeps
<1>2. CASE Progress /\ UNCHANGED <<stored, turn>>
  BY <1>2, RunKeeps
<1>3. CASE Store \/ StoreCutShort
  <2>1. PICK added \in Seq(Message) :
          /\ Len(added) \in 1 .. Len(NewTurns)
          /\ \A i \in DOMAIN added : added[i] = NewTurns[i]
          /\ stored' = stored \o added
    BY <1>3, Stores
  <2>2. Kept(stored')
    BY <1>3, <2>1, Stores, StoringKeeps
  <2>. QED BY <1>3, <2>2, IdleIsNotBusy DEF Store, StoreCutShort, BecomeIdle
<1>4. CASE SendAbandoned
  BY <1>4, IdleIsNotBusy DEF SendAbandoned, BecomeIdle, ConversationInv
<1>5. CASE Clear
  <2>1. Kept(stored') /\ phase' = phase /\ phase = "idle"
    BY <1>5, SuffixesAreKept DEF Clear, Idle, loopVars, ConversationInv
  <2>2. Slots'
    BY <1>5 DEF Clear, loopVars, ConversationInv, Slots
  <2>. QED BY <2>1, <2>2 DEF ConversationInv, Busy
<1>6. CASE UNCHANGED conversationVars
  BY <1>6 DEF conversationVars, loopVars, ConversationInv, Slots, Busy, Serving
<1>. QED BY <1>1, <1>2, <1>3, <1>4, <1>5, <1>6 DEF ConversationNext

LEMMA ConversationInvHolds == ConversationSpec => []ConversationInv
BY ConversationInvAtFirst, ConversationInvIsKept, PTL DEF ConversationSpec

-----------------------------------------------------------------------------
(* The theorems *)

(* Every request of every run is one that a provider accepts, whatever the
   backend cut off what it returned, whatever earlier runs left in it, and
   wherever a send or a store of it was cut short (send_with, run_loop). *)
THEOREM EveryRequestIsSendable ==
  ConversationSpec => []EveryRequestOfAConversationIsSendable
<1>1. ConversationInv => EveryRequestOfAConversationIsSendable
  <2>. SUFFICES ASSUME ConversationInv, phase = "asking"
                PROVE  Sendable(WithoutSystem(transcript))
    BY DEF EveryRequestOfAConversationIsSendable
  <2>1. PICK t \in Seq(Message) : Serving(t)
    BY DEF ConversationInv, Busy
  <2>. QED BY <2>1, WithoutWhatWasPut DEF Serving
<1>. QED BY <1>1, ConversationInvHolds, PTL

(* What a step adds to the backend is the caller's turn and, behind it, what the
   run of that turn added: no turn that was loaded is stored again, however the
   pass moved the boundary between the two (send_with, history.split_off). *)
THEOREM OnlyNewTurns == ConversationSpec => OnlyNewTurnsAreStored
<1>. DEFINE Adds ==
       Len(stored') > Len(stored) =>
         LET added == SubSeq(stored', Len(stored) + 1, Len(stored'))
         IN /\ stored' = stored \o added
            /\ added[1] = turn
            /\ \A i \in 2 .. Len(added) :
                 /\ added[i].role \in {"assistant", "tool"}
                 /\ \A id \in CallId, j \in DOMAIN stored :
                      HasCall(added[i], id) => ~HasCall(stored[j], id)
<1>1. ASSUME ConversationInv, ConversationNext PROVE Adds
  <2>1. CASE Store \/ StoreCutShort
    <3>1. PICK added \in Seq(Message) :
            /\ Len(added) \in 1 .. Len(NewTurns)
            /\ \A i \in DOMAIN added : added[i] = NewTurns[i]
            /\ stored' = stored \o added
      BY <1>1, <2>1, Stores
    <3>2. /\ added[1] = turn
          /\ \A i \in 2 .. Len(added) :
               /\ added[i].role \in {"assistant", "tool"}
               /\ \A id \in CallId, j \in DOMAIN stored :
                    HasCall(added[i], id) => ~HasCall(stored[j], id)
      BY <1>1, <2>1, <3>1, Stores, StoringKeeps
    <3>3. SubSeq(stored', Len(stored) + 1, Len(stored')) = added
      <4>1. PICK old \in Seq(Message), n \in Nat, m \in Nat :
              old = stored /\ n = Len(stored) /\ m = Len(added) /\ m >= 1
        BY <1>1, <3>1 DEF ConversationInv, Kept
      <4>2. /\ old \o added \in Seq(Message) /\ Len(old \o added) = n + m
            /\ \A i \in 1 .. m : (old \o added)[n + i] = added[i]
        BY <4>1
      <4>3. /\ stored' \in Seq(Message) /\ Len(stored') = n + m
            /\ \A i \in 1 .. m : stored'[n + i] = added[i]
        BY <3>1, <4>1, <4>2
      <4>4. PICK all \in Seq(Message), first \in Nat, last \in Nat :
              all = stored' /\ first = n + 1 /\ last = n + m
        BY <4>1, <4>3
      <4>5. \A i \in first .. last : all[i] \in Message
        BY <4>1, <4>3, <4>4
      <4>6. /\ SubSeq(all, first, last) \in Seq(Message)
            /\ Len(SubSeq(all, first, last)) = m
            /\ \A i \in 1 .. m : SubSeq(all, first, last)[i] = all[first + i - 1]
        <5>1. /\ SubSeq(all, first, last) \in Seq(Message)
              /\ Len(SubSeq(all, first, last)) = IF first <= last THEN last - first + 1 ELSE 0
              /\ \A i \in 1 .. last - first + 1 : SubSeq(all, first, last)[i] = all[first + i - 1]
          BY <4>5, SubSeqProperties
        <5>2. first <= last /\ last - first + 1 = m
          BY <4>1, <4>4
        <5>. QED BY <5>1, <5>2
      <4>7. \A i \in 1 .. m : first + i - 1 = n + i
        BY <4>1, <4>4
      <4>8. SubSeq(all, first, last) = added
        <5>1. \A i \in 1 .. m : SubSeq(all, first, last)[i] = added[i]
          BY <4>3, <4>4, <4>6, <4>7
        <5>. QED BY <4>1, <4>6, <5>1, SeqEqual
      <4>9. stored' = all /\ Len(stored) + 1 = first /\ Len(stored') = last
        BY <4>1, <4>3, <4>4
      <4>. QED BY ONLY <4>8, <4>9
    <3>. QED BY <3>1, <3>2, <3>3
  <2>2. CASE stored' = stored
    <3>1. Len(stored) \in Nat
      BY <1>1 DEF ConversationInv, Kept
    <3>. QED BY <2>2, <3>1
  <2>3. CASE Clear
    BY <1>1, <2>3, SuffixesAreKept DEF Clear, ConversationInv
  <2>. QED BY <1>1, <2>1, <2>2, <2>3 DEF ConversationNext, Send, SendAbandoned
<1>2. ConversationInv /\ [ConversationNext]_conversationVars => [Adds]_conversationVars
  BY <1>1
<1>3. ConversationSpec => [][Adds]_conversationVars
  <2>. HIDE DEF Adds
  <2>. QED BY <1>2, ConversationInvHolds, PTL DEF ConversationSpec
<1>. QED BY <1>3 DEF OnlyNewTurnsAreStored

(* The caller's own words are never refused: the pass takes exchanges that the
   backend cut apart, and leaves a turn of text whole and last (repair,
   send_with). *)
THEOREM TextIsTaken == ConversationSpec => []TextIsNeverRefused
<1>1. ConversationInv => TextIsNeverRefused
  <2>. SUFFICES ASSUME ConversationInv, NEW v \in Views(stored), NEW message \in CallerTurns,
                       message.parts # <<>>,
                       \A k \in DOMAIN message.parts : message.parts[k].kind = "text"
                PROVE  Accepted(Prepared(v, message), message)
    BY DEF TextIsNeverRefused
  <2>. DEFINE R == PinnedRoles \cup {"user", "assistant", "tool"}
              h == Append(v, message)
              n == Len(h)
  <2>1. message \in Message /\ v \in Seq(Message) /\ Message = MessagesOf(R, Part)
    BY ConversationAssumption, ViewsAreDrawn, MessagesAreTyped DEF ConversationInv, Kept
  <2>2. h \in Seq(MessagesOf(R, Part)) /\ n \in DOMAIN h /\ h[n] = message
    BY <2>1
  <2>. HIDE DEF h, n, R
  <2>3. \A k \in DOMAIN h[n].parts : PartKept(h, Broken(h), n, h[n].parts[k])
    BY <2>2 DEF PartKept
  <2>4. Repair(h) # <<>> /\ Repair(h)[Len(Repair(h))] = h[n]
    BY <2>2, <2>3, LastIsWhole DEF n
  <2>. QED BY <2>2, <2>4 DEF Accepted, Prepared, h
<1>. QED BY <1>1, ConversationInvHolds, PTL

-----------------------------------------------------------------------------
(* Approval by a person *)

(* The first message that is not pinned opens a group: nothing is open before it
   where no pinned message makes a call. *)
LEMMA FirstOpensAGroup ==
  ASSUME NEW M, NEW h \in Seq(M), CallsAreUnpinned(h), NEW n \in DOMAIN h, ~Pinned(h[n])
  PROVE  GroupCount(h) > 0
<1>. DEFINE S == {i \in DOMAIN h : ~Pinned(h[i])}
<1>1. DOMAIN h = 1 .. Len(h) /\ Len(h) \in Nat /\ S \in SUBSET (0 .. Len(h)) /\ S # {}
  OBVIOUS
<1>. HIDE DEF S
<1>2. PICK first \in S : \A i \in S : first <= i
  BY <1>1, BoundedSetHasALeast
<1>3. ASSUME NEW id \in OpenBefore(h, first) PROVE FALSE
  <2>1. PICK j \in 1 .. first - 1 : HasCall(h[j], id) /\ id \in CallId
    BY DEF OpenBefore, LeavesOpen, HasCall
  <2>2. j \in DOMAIN h /\ ~(first <= j)
    BY <1>1, <2>1
  <2>3. j \in S
    BY <2>1, <2>2 DEF CallsAreUnpinned, S
  <2>. QED BY <1>2, <2>2, <2>3
<1>4. first \in Starts(h)
  BY <1>3 DEF Starts, Boundaries, S
<1>5. IsFiniteSet(Starts(h)) /\ GroupCount(h) \in Nat
  BY StartsAreFinite, 0 \in Nat
<1>. QED BY <1>4, <1>5, FS_EmptySet DEF GroupCount

(* A cut that leaves a group in view leaves the last message in view, and last. *)
LEMMA LastIsInView ==
  ASSUME NEW M, NEW h \in Seq(M), NEW n \in DOMAIN h, n = Len(h), ~Pinned(h[n]),
         NEW from \in Nat, from < GroupCount(h), NEW v \in Seq(M), v = Reassemble(h, from)
  PROVE  v # <<>> /\ v[Len(v)] = h[n]
<1>. DEFINE C     == DOMAIN h \ (TopPinned(h) \cup Oldest(h, from))
            front == Preamble(h, from)
            back  == Pick(h, C)
<1>1. DOMAIN h = 1 .. Len(h) /\ Len(h) \in Nat
  OBVIOUS
<1>2. n \notin TopPinned(h)
  BY DEF TopPinned
<1>3. n \notin Oldest(h, from)
  <2>1. Starts(h) \subseteq DOMAIN h /\ GroupCount(h) \in Nat
    BY StartsAreFinite, 0 \in Nat
  <2>2. {s \in Starts(h) : s <= n} = Starts(h)
    BY <1>1, <2>1
  <2>3. Cardinality({s \in Starts(h) : s <= n}) = GroupCount(h)
    BY <2>2, Zenon DEF GroupCount
  <2>4. ~(GroupCount(h) <= from)
    BY <2>1
  <2>. QED BY <2>3, <2>4 DEF Oldest
<1>4. C \in SUBSET DOMAIN h /\ n \in C
  BY <1>2, <1>3
<1>5. v = front \o back
  BY DEF Reassemble, InView
<1>6. front \in Seq(M)
  <2>1. TopPinned(h) \in SUBSET DOMAIN h /\ {i \in Oldest(h, from) : Pinned(h[i])} \in SUBSET DOMAIN h
    BY DEF TopPinned, Boundaries, Oldest
  <2>2. /\ Pick(h, TopPinned(h)) \in Seq(M)
        /\ Pick(h, {i \in Oldest(h, from) : Pinned(h[i])}) \in Seq(M)
    BY <2>1, Picked
  <2>. DEFINE a == Pick(h, TopPinned(h))
              b == Pick(h, {i \in Oldest(h, from) : Pinned(h[i])})
  <2>3. front = a \o b
    BY DEF Preamble
  <2>4. a \in Seq(M) /\ b \in Seq(M)
    BY <2>2
  <2>. HIDE DEF a, b, front
  <2>5. a \o b \in Seq(M)
    BY <2>4
  <2>. QED BY <2>3, <2>5
<1>. HIDE DEF C, front
<1>7. /\ back \in Seq(M) /\ DOMAIN back = 1 .. Len(back)
      /\ \A k \in DOMAIN back : Nth(C, k) \in C /\ back[k] = h[Nth(C, k)]
      /\ \A i \in C : \E k \in DOMAIN back : Nth(C, k) = i
      /\ \A k, l \in DOMAIN back : k < l <=> Nth(C, k) < Nth(C, l)
  BY <1>4, Picked
<1>. HIDE DEF back
<1>8. PICK k \in DOMAIN back : Nth(C, k) = n
  BY <1>4, <1>7
<1>9. Len(back) \in DOMAIN back /\ Len(back) \in Nat
  BY <1>7, <1>8
<1>10. k = Len(back)
  <2>1. ~(n < Nth(C, Len(back)))
    <3>1. Nth(C, Len(back)) \in DOMAIN h
      BY <1>4, <1>7, <1>9
    <3>. QED BY <1>1, <3>1
  <2>2. ~(k < Len(back))
    BY <1>7, <1>8, <1>9, <2>1
  <2>. QED BY <1>7, <1>9, <2>2
<1>11. back[Len(back)] = h[n]
  BY <1>7, <1>8, <1>10
<1>12. /\ front \o back \in Seq(M) /\ Len(front \o back) = Len(front) + Len(back)
       /\ (front \o back)[Len(front) + Len(back)] = back[Len(back)]
  BY <1>6, <1>7, <1>9
<1>13. Len(v) \in Nat /\ Len(v) > 0 /\ v[Len(v)] = h[n]
  <2>1. Len(front) \in Nat /\ Len(back) > 0
    BY <1>6, <1>9, <1>7
  <2>. QED BY <1>5, <1>9, <1>11, <1>12, <2>1
<1>. QED BY <1>13

(* A transcript that stops at unanswered calls accepts a turn of the results that
   answer them, through any window of a backend that keeps a group: the window
   keeps the last message last, and the pass, which sees the results come right
   behind their calls, keeps every one of them (reassemble, repair, send_with). *)
THEOREM ApprovalIsTaken ==
  ASSUME 0 \notin Keeps
  PROVE  ConversationSpec => []ApprovalIsAccepted
<1>1. ConversationInv => ApprovalIsAccepted
  <2>. SUFFICES ASSUME ConversationInv, Pending # {},
                       NEW message \in CallerTurns, NEW keep \in Keeps, OnlyResults(message),
                       \A id \in CallId : HasResult(message, id) <=> id \in Pending
                PROVE  Accepted(Prepared(WindowByGroups(stored, keep), message), message)
    BY DEF ApprovalIsAccepted
  <2>. DEFINE R == PinnedRoles \cup {"user", "assistant", "tool"}
              v == WindowByGroups(stored, keep)
              h == Append(v, message)
              n == Len(stored)
              end == Len(h)
  <2>1. stored \in Seq(Message) /\ Once(stored) /\ CallsAreUnpinned(stored)
    BY DEF ConversationInv, Kept
  <2>2. /\ message \in Message /\ Message = MessagesOf(R, Part)
        /\ v \in Seq(Message) /\ Drawn(v, stored, DOMAIN stored)
    BY <2>1, ConversationAssumption, ViewsAreDrawn, MessagesAreTyped DEF Views
  <2>3. n \in DOMAIN stored /\ ~Pinned(stored[n])
    <3>1. PICK id \in CallId : stored # <<>> /\ HasCall(stored[n], id)
      BY DEF Pending
    <3>2. n \in DOMAIN stored
      BY <2>1, <3>1
    <3>. QED BY <2>1, <3>1, <3>2 DEF CallsAreUnpinned
  <2>. HIDE DEF n
  <2>4. v # <<>> /\ v[Len(v)] = stored[n]
    <3>1. GroupCount(stored) > 0 /\ GroupCount(stored) \in Nat
      BY <2>1, <2>3, FirstOpensAGroup, StartsAreFinite, 0 \in Nat
    <3>2. keep \in Nat /\ keep # 0
      BY ConversationAssumption
    <3>3. PICK from \in Nat : from = CutByGroups(stored, keep) /\ from < GroupCount(stored)
      BY <3>1, <3>2 DEF CutByGroups, SaturatingSub
    <3>4. v = Reassemble(stored, from)
      BY <3>3 DEF WindowByGroups
    <3>. HIDE DEF v
    <3>. QED BY <2>1, <2>2, <2>3, <3>3, <3>4, LastIsInView DEF n
  <2>. HIDE DEF v
  <2>5. Once(v)
    BY <2>1, <2>2, DrawnOnce
  <2>6. /\ h \in Seq(MessagesOf(R, Part)) /\ end \in DOMAIN h /\ h[end] = message
        /\ end = Len(v) + 1 /\ Len(v) \in Nat /\ Len(v) \in DOMAIN v
        /\ DOMAIN h = 1 .. Len(v) + 1 /\ DOMAIN v = 1 .. Len(v)
        /\ \A i \in DOMAIN v : h[i] = v[i]
    BY <2>2, <2>4
  <2>. HIDE DEF h, R, end
  <2>7. ASSUME NEW id \in CallId, HasResult(message, id) PROVE ResultKept(h, Broken(h), end, id)
    <3>1. HasCall(v[Len(v)], id)
      BY <2>4, <2>7 DEF Pending, n
    <3>2. Len(v) \in 1 .. end - 1 /\ HasCall(h[Len(v)], id)
      BY <2>6, <3>1
    <3>3. ASSUME NEW i \in DOMAIN h, id \in OpenBefore(h, i), ~OnlyResults(h[i]) PROVE FALSE
      <4>1. PICK j \in 1 .. i - 1 : HasCall(h[j], id)
        BY <3>3 DEF OpenBefore, LeavesOpen, HasCall
      <4>2. j \in DOMAIN v /\ HasCall(v[j], id)
        BY <2>6, <4>1
      <4>3. j = Len(v)
        BY <2>5, <2>6, <3>1, <4>2 DEF Once, CalledOnce
      <4>4. i = end
        BY <2>6, <4>1, <4>3
      <4>. QED BY <2>6, <3>3, <4>4
    <3>4. id \notin Broken(h)
      BY <3>3 DEF Broken
    <3>. QED BY <3>2, <3>4 DEF ResultKept
  <2>8. ASSUME NEW k \in DOMAIN message.parts
        PROVE  PartKept(h, Broken(h), end, message.parts[k])
    <3>1. message.parts[k] \in Part /\ message.parts[k].kind = "result"
      <4>1. message.parts \in Seq(Part)
        BY <2>2 DEF Message
      <4>2. message.parts[k] \in Part
        BY <4>1
      <4>. QED BY <4>2 DEF OnlyResults
    <3>2. PICK id \in CallId : message.parts[k] = Result(id)
      BY <3>1 DEF Part, Text, Call
    <3>3. HasResult(message, id) /\ message.parts[k].id = id
      BY <3>2 DEF HasResult, Result
    <3>. QED BY <2>7, <3>1, <3>3 DEF PartKept
  <2>9. h[end].parts # <<>>
    BY <2>6 DEF OnlyResults
  <2>10. Repair(h) # <<>> /\ Repair(h)[Len(Repair(h))] = h[end]
    BY <2>6, <2>8, <2>9, LastIsWhole DEF end
  <2>. QED BY <2>6, <2>10 DEF Accepted, Prepared, h, v
<1>. QED BY <1>1, ConversationInvHolds, PTL

=============================================================================
