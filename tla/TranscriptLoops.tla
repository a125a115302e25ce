--------------------------- MODULE TranscriptLoops ---------------------------
(***************************************************************************)
(* The loops of repair.rs and helper/window.rs as the code writes them,    *)
(* over a transcript that grows by one message at a time.  A loop is the   *)
(* function from how many of its iterations are over to its locals, as a   *)
(* record, and one operator is the body of one iteration.                  *)
(*                                                                         *)
(* The invariants say that the loops compute what Transcript defines, and  *)
(* that what they compute is what the rest of Freyja relies on.            *)
(***************************************************************************)
EXTENDS Transcript, SequencesExt

CONSTANTS
  Messages,   \* the messages a transcript is made of
  MaxLen,     \* bound: the longest transcript
  Budgets,    \* the token budgets tried
  ReusedIds   \* whether an id may be called, or answered, more than once

\* A cost and a budget are counts (usize).  Only calls and results look like
\* calls and results, and an instruction is neither: no code of Freyja builds a
\* pinned message with either in it.
ASSUME TranscriptAssumption ==
  /\ Budgets \subseteq Nat
  /\ \A m \in Messages :
      /\ TokenCost(m) \in Nat
      /\ m \in [role : {m.role}, parts : Seq({m.parts[k] : k \in DOMAIN m.parts})]
      /\ \A k \in DOMAIN m.parts :
           LET p == m.parts[k]
           IN  /\ p.kind = "call"   => \E id \in CallId : p = Call(id)
               /\ p.kind = "result" => \E id \in CallId : p = Result(id)
               /\ Pinned(m) => p.kind \notin {"call", "result"}

VARIABLE h    \* the transcript

\* What one part does to the set of open calls, and what all those of a message do.
ScanPart(open, p) ==
  CASE p.kind = "result" -> open \ {p.id}
    [] p.kind = "call"   -> open \cup {p.id}
    [] OTHER             -> open

ScanParts(open, m) ==
  LET after[k \in 0 .. Len(m.parts)] ==
        IF k = 0 THEN open ELSE ScanPart(after[k - 1], m.parts[k])
  IN after[Len(m.parts)]

\* Vec::retain, Iterator::filter: s without what is at no position in S.
Retain(s, S) ==
  LET kept[k \in 0 .. Len(s)] ==
        IF k = 0 THEN <<>>
        ELSE IF k \in S THEN Append(kept[k - 1], s[k]) ELSE kept[k - 1]
  IN kept[Len(s)]

-----------------------------------------------------------------------------
(* repair.rs: fn repair *)

\* entry(id).or_insert(i) for every id in ids.
OrInsert(map, ids, i) ==
  [id \in DOMAIN map |-> IF id \in ids /\ map[id] = 0 THEN i ELSE map[id]]

\* Whether m may arrive while calls are open.
MayArriveInside(m) == OnlyResults(m)

\* One iteration of the first loop.  0 stands for an absent key.
RepairScan(scan, i) ==
  LET m       == h[i]
      drained == IF MayArriveInside(m) THEN {} ELSE scan.open
  IN [calls   |-> OrInsert(scan.calls, {id \in CallId : HasCall(m, id)}, i),
      results |-> OrInsert(scan.results, {id \in CallId : HasResult(m, id)}, i),
      broken  |-> scan.broken \cup drained,
      open    |-> ScanParts(scan.open \ drained, m)]

RepairScanned ==
  LET absent == [id \in CallId |-> 0]
      after[i \in 0 .. Len(h)] ==
        IF i = 0
        THEN [calls |-> absent, results |-> absent, broken |-> {}, open |-> {}]
        ELSE RepairScan(after[i - 1], i)
  IN after[Len(h)]

\* A slip: the ordering of a call and its result is not compared.
RetainedUnordered(scan, i, p) ==
  CASE p.kind = "result" -> p.id \notin scan.broken /\ scan.calls[p.id] # 0
    [] p.kind = "call"   -> p.id \notin scan.broken /\ scan.results[p.id] # 0
    [] OTHER             -> TRUE

\* The closure of the second loop's retain.
Retained(scan, i, p) ==
  CASE p.kind = "result" -> p.id \notin scan.broken /\ scan.calls[p.id] \in 1 .. i - 1
    [] p.kind = "call"   -> p.id \notin scan.broken /\ scan.results[p.id] > i
    [] OTHER             -> TRUE

RepairLoop ==
  LET scan     == RepairScanned
      retained == [i \in DOMAIN h |->
                     [h[i] EXCEPT !.parts =
                        Retain(@, {k \in DOMAIN @ : Retained(scan, i, @[k])})]]
  IN Retain(retained, {i \in DOMAIN h : retained[i].parts # <<>>})

-----------------------------------------------------------------------------
(* helper/window.rs: fn split, fn reassemble, fn cut_by_tokens *)

\* Whether the group being built ends before a message that finds `open`.
GroupClosed(open, answersOpen) == open = {} /\ ~answersOpen

\* One iteration of split.  start is 0 for None.
SplitScan(scan, i) ==
  LET m           == h[i]
      answersOpen == \E id \in scan.open : HasResult(m, id)
      closed      == GroupClosed(scan.open, answersOpen)
      groups      == IF closed /\ scan.start # 0
                     THEN Append(scan.groups, SubSeq(h, scan.start, i - 1))
                     ELSE scan.groups
      start       == IF closed THEN 0 ELSE scan.start
  IN IF closed /\ Pinned(m)
     THEN [scan EXCEPT !.groups = groups, !.start = start, !.pinned = Append(@, m)]
     ELSE [scan EXCEPT !.groups = groups,
                       !.start  = IF start = 0 THEN i ELSE start,
                       !.open   = ScanParts(@, m)]

Split ==
  LET after[i \in 0 .. Len(h)] ==
        IF i = 0
        THEN [pinned |-> <<>>, groups |-> <<>>, start |-> 0, open |-> {}]
        ELSE SplitScan(after[i - 1], i)
      scan == after[Len(h)]
  IN [pinned |-> scan.pinned,
      groups |-> IF scan.start = 0 THEN scan.groups
                 ELSE Append(scan.groups, SubSeq(h, scan.start, Len(h)))]

\* The messages of some groups that are pinned, and those that are not.
PinnedOf(groups) ==
  LET all == FlattenSeq(groups) IN Retain(all, {k \in DOMAIN all : Pinned(all[k])})
OthersOf(group) == Retain(group, {k \in DOMAIN group : ~Pinned(group[k])})

ReassembleLoop(split, from) ==
  split.pinned \o PinnedOf(SubSeq(split.groups, 1, from))
               \o FlattenSeq(SubSeq(split.groups, from + 1, Len(split.groups)))

TotalCost(messages) ==
  LET sum[k \in 0 .. Len(messages)] ==
        IF k = 0 THEN 0 ELSE sum[k - 1] + TokenCost(messages[k])
  IN sum[Len(messages)]

\* The break of the newest-first loop.
StopAt(cost, remaining, newest) == cost > remaining /\ ~newest

\* One iteration of the newest-first loop of cut_by_tokens.
CutScan(split, cut, index) ==
  LET cost == TotalCost(OthersOf(split.groups[index]))
  IN IF cut.stopped \/ StopAt(cost, cut.remaining, index = Len(split.groups))
     THEN [cut EXCEPT !.stopped = TRUE]
     ELSE [cut EXCEPT !.remaining = SaturatingSub(@, cost), !.from = index - 1]

CutByTokensLoop(split, budget) ==
  LET pinned == split.pinned \o PinnedOf(split.groups)
      n      == Len(split.groups)
      after[k \in 0 .. n] ==
        IF k = 0
        THEN [remaining |-> SaturatingSub(budget, TotalCost(pinned)),
              from |-> n, stopped |-> FALSE]
        ELSE CutScan(split, after[k - 1], n + 1 - k)
  IN after[n].from

-----------------------------------------------------------------------------
(* A transcript as Conversation::send reaches it: built by appending *)

\* Each id is called once and answered once, unless ids are reused.
FreshIds(m) ==
  ReusedIds \/ \A id \in CallId, i \in DOMAIN h :
                 /\ HasCall(m, id)   => ~HasCall(h[i], id)
                 /\ HasResult(m, id) => ~HasResult(h[i], id)

Init == h = <<>>

AppendMessage(m) ==
  /\ Len(h) < MaxLen
  /\ FreshIds(m)
  /\ h' = Append(h, m)

Next == \E m \in Messages : AppendMessage(m)

Spec == Init /\ [][Next]_h

-----------------------------------------------------------------------------
(* Properties *)

(* The scans of repair.rs and of helper/window.rs, with their drained sets,
   first-occurrence indexes and early exits, compute the sets that Transcript
   defines outright, at every window and every budget. *)
LoopsAgree ==
  LET split == Split
  IN /\ RepairLoop = Repair(h)
     /\ Len(split.groups) = GroupCount(h)
     /\ \A from \in 0 .. GroupCount(h) :
          ReassembleLoop(split, from) = Reassemble(h, from)
     /\ \A budget \in Budgets :
          CutByTokensLoop(split, budget) = CutByTokens(h, budget)

\* Whatever a backend returns, the request built from it pairs every call with
\* its results and keeps them together.
RepairedIsSendable == Sendable(Repair(h))

\* "The pass drops any tool result whose originating call is absent, and any
\* tool call whose result is absent" (docs/reference/storage.md:156): where
\* each call has its results and nothing comes between, none is absent, and
\* the transcript passes through untouched.
SendableIsKept ==
  (Sendable(h) /\ \A i \in DOMAIN h : h[i].parts # <<>>) => Repair(h) = h

(* However a backend cut a transcript, the pass leaves what every provider
   accepts, and it costs nothing where there was nothing to mend (repair). *)
RepairIsSound == RepairedIsSendable /\ SendableIsKept

\* A window over a transcript that needs no repair needs none either.
WindowNeedsNoRepair ==
  Sendable(h) => \A from \in 0 .. GroupCount(h) : Sendable(Reassemble(h, from))

\* The positions of the turns that a window may drop.
Unpinned(t) == {i \in DOMAIN t : ~Pinned(t[i])}

\* A window is every pinned turn of the transcript and a suffix of the others.
WindowKeepsPinned ==
  \A from \in 0 .. GroupCount(h) :
    LET kept == Reassemble(h, from)
    IN /\ \A m \in Messages : Pinned(m) =>
            Cardinality({k \in DOMAIN kept : kept[k] = m})
              = Cardinality({i \in DOMAIN h : h[i] = m})
       /\ IsSuffix(Pick(kept, Unpinned(kept)), Pick(h, Unpinned(h)))

(* At any cut of groups or of tokens, trimming never costs a tool exchange its
   other half, never loses an instruction or sends one twice, and leaves of the
   other turns the last ones, in their order and without a hole (split and
   reassemble).  Instructions come in front, and their own order is not stated:
   one rescued from a dropped group follows those outside of groups. *)
WindowsAreSound == WindowNeedsNoRepair /\ WindowKeepsPinned

\* What every turn of a request costs.
PaidFor(t) == Cost(t, DOMAIN t)

(* A token window keeps the newest group, stays within its budget when more
   than that group is kept, and stops only where one more group would not fit
   (cut_by_tokens). *)
TokenWindowIsTight ==
  LET n      == GroupCount(h)
      pay(f) == PaidFor(Reassemble(h, f))
  IN n > 0 =>
       \A budget \in Budgets :
         LET from == CutByTokens(h, budget)
         IN /\ from < n
            /\ pay(from) <= budget \/ pay(from) = pay(n - 1)
            /\ from > 0 => pay(from - 1) > budget

(* The groups that precede the newest one never change as the transcript
   grows, which is what lets a summary be keyed by how many it covers. *)
OlderGroupsAreSettled ==
  [][\A from \in 0 .. GroupCount(h) - 1 : Oldest(h', from) = Oldest(h, from)]_h

=============================================================================
