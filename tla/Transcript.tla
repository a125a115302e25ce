----------------------------- MODULE Transcript -----------------------------
(***************************************************************************)
(* What Freyja computes from a transcript, which is a sequence of messages *)
(* (model/message.rs), oldest first:                                       *)
(*                                                                         *)
(*   - repair, which drops the halves of tool exchanges that a backend cut *)
(*     apart (repair.rs);                                                  *)
(*   - split and reassemble, which find the spans that a window may evict  *)
(*     (helper/window.rs), and the two cuts, by groups and by tokens.      *)
(*                                                                         *)
(* The code computes both with one left-to-right scan that keeps a set     *)
(* `open` of the calls not yet answered.  Here `open` is defined outright, *)
(* as a function of the transcript and the position of the scan, and what  *)
(* the scans build from it is a set of positions.  TranscriptLoops holds   *)
(* the scans as the code writes them, and WireRequest_proofs proves that   *)
(* the two agree.                                                          *)
(*                                                                         *)
(* Abstractions.  A part is a tool call, a tool result, or "text", which   *)
(* stands for every other kind of InputContent: no rule below looks inside *)
(* one.  The body of a text part tells turns apart.  The output of a tool  *)
(* and the name and arguments of a call are left out.  A pinned message    *)
(* carries no call: split passes over the content of a pinned message that *)
(* arrives with nothing open, and no code of Freyja builds one with calls. *)
(***************************************************************************)
EXTENDS Sequences, Picks

CONSTANTS
  CallId,      \* the ids providers give to tool calls
  Body,        \* the wordings of text parts
  TokenCost(_) \* TokenCounter::count of a message (counter.rs)

-----------------------------------------------------------------------------
(* Messages *)

Text(b)    == [kind |-> "text", body |-> b]
Call(id)   == [kind |-> "call", id |-> id]
Result(id) == [kind |-> "result", id |-> id]

Msg(role, parts) == [role |-> role, parts |-> parts]

Part ==
  {Text(b) : b \in Body} \cup {Call(id) : id \in CallId} \cup {Result(id) : id \in CallId}

PinnedRoles == {"system", "developer"}

Message == [role : PinnedRoles \cup {"user", "assistant", "tool"}, parts : Seq(Part)]

Pinned(m)   == m.role \in PinnedRoles

\* Message::tool_result builds a message of its own for every result.
ToolResult(id) == Msg("tool", <<Result(id)>>)

HasCall(m, id)   == \E k \in DOMAIN m.parts : m.parts[k] = Call(id)
HasResult(m, id) == \E k \in DOMAIN m.parts : m.parts[k] = Result(id)

OnlyResults(m) ==
  /\ m.parts # <<>>
  /\ \A k \in DOMAIN m.parts : m.parts[k].kind = "result"

-----------------------------------------------------------------------------
(* The calls a scan holds open when it reaches message i *)

\* The parts of m leave the call open: m makes it, and does not answer it
\* further on.
LeavesOpen(m, id) ==
  \E k \in DOMAIN m.parts :
    /\ m.parts[k] = Call(id)
    /\ \A l \in DOMAIN m.parts : l > k => m.parts[l] # Result(id)

\* A slip: a call that nothing answers holds no group open, as if that let a
\* window move past it.
OpenIfAnswered(h, i) ==
  {id \in CallId : \E j \in 1 .. i - 1 :
     /\ LeavesOpen(h[j], id)
     /\ \A l \in j + 1 .. i - 1 : ~HasResult(h[l], id)
     /\ \E l \in i .. Len(h) : HasResult(h[l], id)}

OpenBefore(h, i) ==
  {id \in CallId : \E j \in 1 .. i - 1 :
     /\ LeavesOpen(h[j], id)
     /\ \A l \in j + 1 .. i - 1 : ~HasResult(h[l], id)}

-----------------------------------------------------------------------------
(* repair.rs *)

\* A slip: results are known by the role they arrive under.
BrokenUnlessTool(h) ==
  {id \in CallId : \E i \in DOMAIN h :
     id \in OpenBefore(h, i) /\ h[i].role # "tool"}

\* The ids drained into `broken`: open when something other than a message of
\* results arrives.  The code drains `open` as it does so, which changes
\* nothing here: an id that stays open is in `broken` already.
Broken(h) ==
  {id \in CallId : \E i \in DOMAIN h :
     id \in OpenBefore(h, i) /\ ~OnlyResults(h[i])}

\* calls[id] is the first message making the call, so it precedes i when any
\* message before i makes it.
ResultKept(h, broken, i, id) ==
  id \notin broken /\ \E j \in 1 .. i - 1 : HasCall(h[j], id)

\* results[id] is the first message answering it, so it follows i when every
\* message answering it does.
CallKept(h, broken, i, id) ==
  /\ id \notin broken
  /\ \E j \in DOMAIN h : HasResult(h[j], id)
  /\ \A j \in DOMAIN h : HasResult(h[j], id) => j > i

\* A slip: the turn that comes between a call and its result goes too.
PartKeptUnlessBetween(h, broken, i, p) ==
  CASE p.kind = "result" -> ResultKept(h, broken, i, p.id)
    [] p.kind = "call"   -> CallKept(h, broken, i, p.id)
    [] OTHER             -> OpenBefore(h, i) = {}

PartKept(h, broken, i, p) ==
  CASE p.kind = "result" -> ResultKept(h, broken, i, p.id)
    [] p.kind = "call"   -> CallKept(h, broken, i, p.id)
    [] OTHER             -> TRUE

\* Message i, once the parts that the pass drops are out of it.
Trimmed(h, broken, i) ==
  [h[i] EXCEPT !.parts = Pick(@, {k \in DOMAIN @ : PartKept(h, broken, i, @[k])})]

Repair(h) ==
  LET broken  == Broken(h)
      trimmed == [i \in DOMAIN h |-> Trimmed(h, broken, i)]
  IN Pick(trimmed, {i \in DOMAIN h : trimmed[i].parts # <<>>})

\* Result j answers call i, with nothing but results from the one to the other.
Answers(t, i, j, id) ==
  /\ i < j
  /\ HasCall(t[i], id) /\ HasResult(t[j], id)
  /\ \A l \in i + 1 .. j : OnlyResults(t[l])

\* What every provider accepts, as the comment on repair records it: each call
\* is answered later, each result answers an earlier call, and nothing but
\* results comes between the two.
Sendable(t) ==
  \A i \in DOMAIN t, id \in CallId :
    /\ HasCall(t[i], id)   => \E j \in DOMAIN t : Answers(t, i, j, id)
    /\ HasResult(t[i], id) => \E j \in DOMAIN t : Answers(t, j, i, id)

-----------------------------------------------------------------------------
(* helper/window.rs *)

\* A slip: a group closes as soon as a result arrives.
BoundariesAtResults(h) ==
  {i \in DOMAIN h : \/ OpenBefore(h, i) = {}
                    \/ \E id \in OpenBefore(h, i) : HasResult(h[i], id)}

\* The positions at which nothing is open, so that the group being built is
\* closed.  (A message answering an open call cannot arrive there, which is
\* why the `answers_open` of the code adds nothing.)
Boundaries(h) == {i \in DOMAIN h : OpenBefore(h, i) = {}}

TopPinned(h) == {i \in Boundaries(h) : Pinned(h[i])}
Starts(h)    == {i \in Boundaries(h) : ~Pinned(h[i])}

GroupCount(h) == Cardinality(Starts(h))

\* The messages of the `from` oldest groups, groups[..from]: message i is in
\* the group that the last start not after it opened.
Oldest(h, from) ==
  LET starts == Starts(h)
  IN {i \in DOMAIN h \ TopPinned(h) :
        Cardinality({s \in starts : s <= i}) <= from}

\* What reassemble puts before the groups still in view: the pinned turns,
\* then those rescued out of the groups being dropped.
Preamble(h, from) ==
  Pick(h, TopPinned(h)) \o Pick(h, {i \in Oldest(h, from) : Pinned(h[i])})

InView(h, from) == Pick(h, DOMAIN h \ (TopPinned(h) \cup Oldest(h, from)))

Reassemble(h, from) == Preamble(h, from) \o InView(h, from)

SaturatingSub(a, b) == IF a > b THEN a - b ELSE 0

\* A slip: one group too few is kept.
CutOneMore(h, keep) == SaturatingSub(GroupCount(h) + 1, keep)

CutByGroups(h, keep) == SaturatingSub(GroupCount(h), keep)

\* The cost of the messages at the positions in S.
Cost(h, S) ==
  LET cost[i \in 0 .. Len(h)] ==
        IF i = 0 THEN 0
        ELSE cost[i - 1] + (IF i \in S THEN TokenCost(h[i]) ELSE 0)
  IN cost[Len(h)]

\* The groups numbered above `from` and at most `to`, without their pinned
\* messages, which were paid for first.
Between(h, from, to) ==
  {i \in Oldest(h, to) \ Oldest(h, from) : ~Pinned(h[i])}

\* A slip: the newest group is left out too when it alone is over budget.
CutNewestToo(h, budget) ==
  LET n         == GroupCount(h)
      forGroups == SaturatingSub(budget, Cost(h, {i \in DOMAIN h : Pinned(h[i])}))
      fitting   == {f \in 0 .. n - 1 : Cost(h, Between(h, f, n)) <= forGroups}
  IN n - Cardinality(fitting)

\* Newest first, the newest group whatever it costs, stopping before the
\* first group that does not fit in what remains.  The deeper a cut the less
\* it keeps, so the cuts that fit are those from the answer to n - 1.
CutByTokens(h, budget) ==
  LET n         == GroupCount(h)
      forGroups == SaturatingSub(budget, Cost(h, {i \in DOMAIN h : Pinned(h[i])}))
      remaining == SaturatingSub(forGroups, Cost(h, Between(h, n - 1, n)))
      fitting   == {f \in 0 .. n - 1 :
                      f = n - 1 \/ Cost(h, Between(h, f, n - 1)) <= remaining}
  IN n - Cardinality(fitting)

WindowByGroups(h, keep)   == Reassemble(h, CutByGroups(h, keep))
WindowByTokens(h, budget) == Reassemble(h, CutByTokens(h, budget))

=============================================================================
