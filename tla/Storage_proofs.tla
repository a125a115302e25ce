--------------------------- MODULE Storage_proofs ---------------------------
(***************************************************************************)
(* What holds of both storages, for every set of turns, every window that  *)
(* keeps a group, and every length of transcript.                          *)
(*                                                                         *)
(* A cached summary always stands for the groups it is counted to cover.   *)
(* The cache is made when its groups are older than the newest one, and    *)
(* those are settled (Transcript_proofs), so that it is right at any later *)
(* time follows from its being right when it was made.                     *)
(*                                                                         *)
(* An acknowledged append survives, and memory is the file.  Neither is    *)
(* inductive alone.  An append puts its turns after those that the file    *)
(* holds and after those that memory holds, and acknowledges the second;   *)
(* so what is acknowledged survives because the two are the same, and they *)
(* stay the same because no fragment is left at the end of a file that is  *)
(* open.  Durability is what joins them, and it is what makes each step of *)
(* the file a step of DurableTranscript or a stutter.                      *)
(*                                                                         *)
(* A summary read back is of the groups it is counted to cover because     *)
(* that holds of every image a crash may leave, as of memory (Keyed).      *)
(***************************************************************************)
EXTENDS JsonlStorage, Transcript_proofs, SequenceTheorems

-----------------------------------------------------------------------------
(* The summary in memory: InMemoryStorage *)

\* A window by groups that keeps none is left to the model checker: there the
\* summary is not what its count says.
PositiveWindows == \A w \in Windows : w.by = "groups" => w.size > 0

\* What a load, an append or a clear maintains.
CacheInv ==
  /\ messages \in Seq(Turns)
  /\ config \in Configs
  /\ summary.covers \in Nat
  /\ StandsFor(summary, messages)

(* A summary stays right however the transcript grows. *)
LEMMA StandsForMore ==
  ASSUME NEW h \in Seq(Turns), NEW t \in Seq(Turns), NEW s, s.covers \in Nat,
         StandsFor(s, h)
  PROVE  StandsFor(s, h \o t)
<1>. SUFFICES ASSUME s.covers > 0 PROVE StandsFor(s, h \o t)
  BY DEF StandsFor
<1>1. s.covers < GroupCount(h) /\ s.stands = Dropped(h, s.covers)
  BY DEF StandsFor
<1>2. GroupCount(h) \in Nat /\ GroupCount(h \o t) \in Nat
  BY Appended, StartsAreFinite, 0 \in Nat
<1>3. s.covers < GroupCount(h \o t)
  BY <1>1, <1>2, GroupsOnlyGrow
<1>4. Oldest(h \o t, s.covers) = Oldest(h, s.covers)
  BY <1>1, OldestAreSettled
<1>5. \A i \in Oldest(h, s.covers) : (h \o t)[i] = h[i]
  BY Appended DEF Oldest
<1>6. Dropped(h \o t, s.covers) = Dropped(h, s.covers)
  <2>1. {j \in Oldest(h, s.covers) : ~Pinned((h \o t)[j])}
          = {j \in Oldest(h, s.covers) : ~Pinned(h[j])}
    BY <1>5
  <2>. QED BY <1>4, <1>5, <2>1 DEF Dropped
<1>. QED BY <1>1, <1>3, <1>6 DEF StandsFor

(* Half a window is a window that keeps a group. *)
LEMMA HalfWindow ==
  ASSUME NEW w \in Windows, PositiveWindows
  PROVE  /\ Half(w).by = w.by /\ Half(w).size \in Nat
         /\ w.by = "groups" => Half(w).size > 0
<1>1. w \in [by : {"groups", "tokens", "none"}, size : Nat]
  BY WindowsAssumption
<1>2. CASE w.by = "groups"
  <2>1. w.size \in Nat /\ w.size > 0
    BY <1>1, <1>2 DEF PositiveWindows
  <2>2. (w.size + 1) \div 2 \in Nat /\ (w.size + 1) \div 2 > 0
    BY <2>1
  <2>. QED BY <1>2, <2>2 DEF Half, ByGroups
<1>3. CASE w.by # "groups"
  BY <1>1, <1>3 DEF Half
<1>. QED BY <1>2, <1>3

(* The deeper cut leaves the newest group. *)
LEMMA DeeperCut ==
  ASSUME NEW w \in Windows, PositiveWindows, NEW h \in Seq(Turns)
  PROVE  /\ Cut(w, h) \in Nat /\ Cut(Half(w), h) \in Nat
         /\ Cut(w, h) # 0 => GroupCount(h) > 0
         /\ GroupCount(h) > 0 => Cut(Half(w), h) < GroupCount(h)
<1>1. GroupCount(h) \in Nat
  BY StartsAreFinite, 0 \in Nat
<1>2. w.by \in {"groups", "tokens", "none"} /\ w.size \in Nat
  BY WindowsAssumption
<1>3. CASE w.by = "groups"
  BY <1>1, <1>2, <1>3, HalfWindow DEF Cut, CutByGroups, SaturatingSub, PositiveWindows
<1>4. CASE w.by = "tokens"
  BY <1>1, <1>4, HalfWindow, TokenCutKeepsTheNewest DEF Cut
<1>5. CASE w.by = "none"
  BY <1>5, HalfWindow DEF Cut
<1>. QED BY <1>2, <1>3, <1>4, <1>5

(* Whatever a load leaves in the cache is right. *)
LEMMA LoadOutcomeStandsFor ==
  ASSUME PositiveWindows, NEW h \in Seq(Turns), NEW c \in Configs, NEW answers,
         NEW s, s.covers \in Nat, StandsFor(s, h)
  PROVE  /\ LoadOutcome(h, s, c, answers).summary.covers \in Nat
         /\ StandsFor(LoadOutcome(h, s, c, answers).summary, h)
<1>. DEFINE fresh == Fresh(c.window, h)
<1>1. c.window \in Windows
  BY DEF Configs
<1>2. \/ LoadOutcome(h, s, c, answers).summary = s
      \/ /\ LoadOutcome(h, s, c, answers).summary = fresh
         /\ Cut(c.window, h) # 0
  BY DEF LoadOutcome
<1>3. fresh.covers = Cut(Half(c.window), h) /\ fresh.stands = Dropped(h, fresh.covers)
  BY DEF Fresh
<1>4. ASSUME Cut(c.window, h) # 0
      PROVE  fresh.covers \in Nat /\ StandsFor(fresh, h)
  BY <1>1, <1>3, <1>4, DeeperCut DEF StandsFor
<1>. QED BY <1>2, <1>4

LEMMA CacheInit == Init => CacheInv
<1>. SUFFICES ASSUME Init PROVE CacheInv
  OBVIOUS
<1>1. messages = <<>> /\ summary = NoSummary /\ config \in Configs
  BY DEF Init, MemoryInit
<1>2. <<>> \in Seq(Turns) /\ NoSummary.covers = 0
  BY DEF NoSummary
<1>. QED BY <1>1, <1>2 DEF CacheInv, StandsFor

LEMMA CacheNext ==
  ASSUME PositiveWindows, CacheInv, [Next]_memoryVars
  PROVE  CacheInv'
<1>. USE DEF CacheInv
<1>1. ASSUME NEW answers \in BOOLEAN, MemoryLoad(answers)
      PROVE  CacheInv'
  <2>1. /\ summary' = LoadOutcome(messages, summary, config, answers).summary
        /\ messages' = messages /\ config' = config
    BY <1>1 DEF MemoryLoad
  <2>2. summary'.covers \in Nat /\ StandsFor(summary', messages)
    BY <2>1, LoadOutcomeStandsFor
  <2>. QED BY <2>1, <2>2 DEF StandsFor
<1>2. ASSUME NEW batch \in Batches, MemoryAppend(batch)
      PROVE  CacheInv'
  <2>1. messages' = messages \o batch /\ summary' = summary /\ config' = config
    BY <1>2 DEF MemoryAppend
  <2>2. batch \in Seq(Turns)
    BY BatchesAssumption
  <2>3. StandsFor(summary, messages \o batch)
    BY <2>2, StandsForMore
  <2>. QED BY <2>1, <2>2, <2>3 DEF StandsFor
<1>3. CASE MemoryClear
  <2>1. messages' = <<>> /\ summary' = NoSummary /\ config' = config
    BY <1>3 DEF MemoryClear
  <2>2. <<>> \in Seq(Turns) /\ NoSummary.covers = 0
    BY DEF NoSummary
  <2>. QED BY <2>1, <2>2 DEF StandsFor
<1>4. CASE UNCHANGED memoryVars
  BY <1>4 DEF memoryVars, StandsFor
<1>. QED BY <1>1, <1>2, <1>3, <1>4 DEF Next

(* The count that keys the cache always names the turns the summary was made
   from, and never the newest group (memory.rs, the comment on Summary), unless
   the window is one of no groups at all. *)
THEOREM SummaryCountIsAKey ==
  ASSUME PositiveWindows
  PROVE  Spec => []SummaryIsOfItsGroups
<1>1. CacheInv => SummaryIsOfItsGroups
  BY DEF CacheInv, SummaryIsOfItsGroups
<1>. QED BY CacheInit, CacheNext, <1>1, PTL DEF Spec

-----------------------------------------------------------------------------
(* The view a load returns *)

\* The turns of M that a window counts.
CountedOf(M) == {m \in M : ~Pinned(m) /\ ~Summarizes(m)}

\* What a load may have left in the view, while the transcript stands still.
ViewInv ==
  \/ view = <<>>
  \/ view = Windowed(config.window, messages)
  \/ /\ view = Summarized(messages, summary)
     /\ summary.covers >= Cut(config.window, messages)
     /\ Cut(config.window, messages) # 0

MemoryInv == CacheInv /\ ViewInv

(* Half a window drops as much as the window, or more. *)
LEMMA HalfCutsDeeper ==
  ASSUME NEW w \in Windows, NEW h \in Seq(Turns)
  PROVE  Cut(Half(w), h) >= Cut(w, h)
<1>1. GroupCount(h) \in Nat
  BY StartsAreFinite, 0 \in Nat
<1>2. w \in [by : {"groups", "tokens", "none"}, size : Nat]
  BY WindowsAssumption
<1>3. CASE w.by = "groups"
  <2>1. Half(w).by = "groups" /\ Half(w).size = (w.size + 1) \div 2
    BY <1>3 DEF Half, ByGroups
  <2>2. (w.size + 1) \div 2 \in Nat /\ (w.size + 1) \div 2 <= w.size
    BY <1>2
  <2>. QED BY <1>1, <1>2, <1>3, <2>1, <2>2 DEF Cut, CutByGroups, SaturatingSub
<1>4. CASE w.by = "tokens"
  <2>1. Half(w).by = "tokens" /\ Half(w).size = w.size \div 2
    BY <1>2, <1>4 DEF Half
  <2>2. w.size \in Nat /\ w.size \div 2 \in Nat /\ w.size \div 2 <= w.size
    BY <1>2
  <2>3. Costed(Turns)
    BY BatchesAssumption DEF Costed
  <2>4. /\ Cut(w, h) = CutByTokens(h, w.size)
        /\ Cut(Half(w), h) = CutByTokens(h, w.size \div 2)
    BY <1>4, <2>1 DEF Cut
  <2>5. PICK b \in Nat : b = w.size \div 2
    BY <2>2
  <2>6. CutByTokens(h, w.size) <= CutByTokens(h, b)
    BY <2>2, <2>3, <2>5, LessBudgetCutsDeeper
  <2>7. CutByTokens(h, w.size) \in Nat /\ CutByTokens(h, b) \in Nat
    BY <2>2, TokenCutKeepsTheNewest
  <2>. QED BY <2>4, <2>5, <2>6, <2>7
<1>5. CASE w.by = "none"
  <2>1. Half(w).by = "none"
    BY <1>2, <1>5 DEF Half
  <2>. QED BY <1>5, <2>1 DEF Cut
<1>. QED BY <1>2, <1>3, <1>4, <1>5

(* A load leaves one of those views. *)
LEMMA LoadOutcomeView ==
  ASSUME PositiveWindows, NEW h \in Seq(Turns), NEW c \in Configs, NEW answers,
         NEW s, s.covers \in Nat
  PROVE  LET o == LoadOutcome(h, s, c, answers)
         IN  \/ o.view = Windowed(c.window, h)
             \/ /\ o.view = Summarized(h, o.summary)
                /\ o.summary.covers >= Cut(c.window, h)
                /\ Cut(c.window, h) # 0
<1>. DEFINE needed == Cut(c.window, h)
            fresh  == Fresh(c.window, h)
            used   == IF Serves(s, needed) THEN s ELSE fresh
            o      == LoadOutcome(h, s, c, answers)
<1>1. c.window \in Windows
  BY DEF Configs
<1>2. \/ o.view = Windowed(c.window, h)
      \/ o.view = Summarized(h, used) /\ o.summary = used /\ needed # 0
  BY DEF LoadOutcome
<1>3. fresh.covers >= needed
  BY <1>1, HalfCutsDeeper DEF Fresh
<1>4. used.covers >= needed
  BY <1>3 DEF Serves
<1>. QED BY <1>2, <1>4

LEMMA MemoryInvInit == Init => MemoryInv
BY CacheInit DEF Init, MemoryInit, MemoryInv, ViewInv

LEMMA MemoryInvNext ==
  ASSUME PositiveWindows, MemoryInv, [Next]_memoryVars
  PROVE  MemoryInv'
<1>1. CacheInv'
  BY CacheNext DEF MemoryInv
<1>2. ViewInv'
  <2>1. ASSUME NEW answers \in BOOLEAN, MemoryLoad(answers)
        PROVE  ViewInv'
    <3>. DEFINE o == LoadOutcome(messages, summary, config, answers)
    <3>1. /\ view' = o.view /\ summary' = o.summary
          /\ messages' = messages /\ config' = config
      BY <2>1 DEF MemoryLoad
    <3>2. \/ o.view = Windowed(config.window, messages)
          \/ /\ o.view = Summarized(messages, o.summary)
             /\ o.summary.covers >= Cut(config.window, messages)
             /\ Cut(config.window, messages) # 0
      BY LoadOutcomeView DEF MemoryInv, CacheInv
    <3>. HIDE DEF o
    <3>. QED BY <3>1, <3>2 DEF ViewInv
  <2>2. ASSUME NEW batch \in Batches, MemoryAppend(batch)
        PROVE  ViewInv'
    BY <2>2 DEF MemoryAppend, ViewInv
  <2>3. CASE MemoryClear
    BY <2>3 DEF MemoryClear, ViewInv
  <2>4. CASE UNCHANGED memoryVars
    BY <2>4 DEF memoryVars, MemoryInv, ViewInv
  <2>. QED BY <2>1, <2>2, <2>3, <2>4 DEF Next
<1>. QED BY <1>1, <1>2 DEF MemoryInv

(* A window sends turns of the transcript, and counts those that it leaves in view. *)
LEMMA WindowedCounts ==
  ASSUME NEW h \in Seq(Turns), NEW w
  PROVE  LET from == IF w.by = "none" THEN 0 ELSE Cut(w, h)
             C    == {i \in Seen(h, from) : h[i] \in CountedOf(Turns)}
         IN  /\ Windowed(w, h) \in Seq(Turns)
             /\ w.by # "none" => Counted(Windowed(w, h)) = Pick(h, C)
<1>. DEFINE v   == Windowed(w, h)
            S   == Seen(h, Cut(w, h))
            G   == CountedOf(Turns)
            C   == {i \in S : h[i] \in G}
            pre == Preamble(h, Cut(w, h))
<1>1. CASE w.by = "none"
  BY <1>1 DEF Windowed
<1>2. CASE w.by # "none"
  <2>1. v = Before(pre, h, S)
    BY <1>2 DEF Windowed, Reassemble, InView, Seen, Before
  <2>2. /\ pre \in Seq(Turns) /\ \A k \in DOMAIN pre : Pinned(pre[k])
        /\ S \in SUBSET DOMAIN h
    BY Reassembled DEF Seen
  <2>3. \A k \in DOMAIN pre : pre[k] \notin G
    BY <2>2 DEF CountedOf
  <2>4. \A i \in DOMAIN h : i \in C <=> i \in S /\ h[i] \in G
    OBVIOUS
  <2>5. C \in SUBSET DOMAIN h
    BY <2>2
  <2>. HIDE DEF v, S, G, C, pre
  <2>6. /\ Before(pre, h, S) \in Seq(Turns)
        /\ Pick(Before(pre, h, S), Among(Before(pre, h, S), G)) = Pick(h, C)
    BY ONLY h \in Seq(Turns), <2>2, <2>3, <2>4, <2>5, PicksAfter
  <2>7. v \in Seq(Turns) /\ Pick(v, Among(v, G)) = Pick(h, C)
    BY <2>1, <2>6
  <2>8. Among(v, G) = {k \in DOMAIN v : ~Pinned(v[k]) /\ ~Summarizes(v[k])}
    <3>1. \A k \in DOMAIN v : v[k] \in Turns
      BY <2>7
    <3>. QED BY <3>1 DEF Among, G, CountedOf
  <2>9. Counted(v) = Pick(h, C)
    BY <2>7, <2>8 DEF Counted
  <2>. QED BY <1>2, <2>7, <2>9 DEF v, S, G, C
<1>. QED BY <1>1, <1>2

\* What a request with a summary is made of.
Told(s) == Turns \cup {SummaryMessage(s)}

LEMMA SummaryMessages ==
  ASSUME NEW s
  PROVE  /\ Summarizes(SummaryMessage(s))
         /\ SummaryMessage(s).parts[1].stands = s.stands
         /\ SummaryMessage(s) \notin Turns
<1>1. SummaryMessage(s).parts = <<[kind |-> "summary", stands |-> s.stands]>>
  BY DEF SummaryMessage, Msg
<1>2. /\ 1 \in DOMAIN SummaryMessage(s).parts
      /\ SummaryMessage(s).parts[1] = [kind |-> "summary", stands |-> s.stands]
  BY <1>1
<1>3. Summarizes(SummaryMessage(s))
  BY <1>2 DEF Summarizes
<1>. QED BY <1>2, <1>3, BatchesAssumption

(* With a summary on top, a view counts what it leaves in view, and has every
   turn that the summary does not stand for. *)
LEMMA SummarizedTells ==
  ASSUME NEW h \in Seq(Turns), NEW s, s.covers \in Nat
  PROVE  LET v == Summarized(h, s)
             C == {i \in Seen(h, s.covers) : h[i] \in CountedOf(Turns)}
         IN  /\ v \in Seq(Told(s))
             /\ Counted(v) = Pick(h, C)
             /\ \A i \in DOMAIN h :
                  i \in Seen(h, s.covers) \/ Pinned(h[i]) => \E k \in DOMAIN v : v[k] = h[i]
<1>. DEFINE m == SummaryMessage(s)
            G == CountedOf(Turns)
            C == {i \in Seen(h, s.covers) : h[i] \in G}
            v == Summarized(h, s)
<1>1. m \in Told(s) /\ Turns \subseteq Told(s) /\ m \notin G /\ \A x \in G : ~Pinned(x)
  BY SummaryMessages DEF CountedOf, Told
<1>2. h \in Seq(Told(s))
  BY <1>1
<1>3. v = Topped(h, s.covers, m)
  BY DEF Topped, Summarized
<1>4. C \in SUBSET DOMAIN h /\ \A i \in DOMAIN h : i \in C <=> i \in Seen(h, s.covers) /\ h[i] \in G
  BY DEF Seen
<1>. HIDE DEF G, C, m, v
<1>5. /\ v \in Seq(Told(s))
      /\ Pick(v, Among(v, G)) = Pick(h, C)
      /\ \A i \in DOMAIN h :
           i \in Seen(h, s.covers) \/ Pinned(h[i]) => \E k \in DOMAIN v : v[k] = h[i]
  <2>1. s.covers \in Nat
    OBVIOUS
  <2>. QED BY ONLY <1>1, <1>2, <1>3, <1>4, <2>1, ToppedTells
<1>6. Among(v, G) = {k \in DOMAIN v : ~Pinned(v[k]) /\ ~Summarizes(v[k])}
  <2>1. \A k \in DOMAIN v : v[k] \in Turns \/ v[k] = m
    BY <1>5 DEF Told, m
  <2>2. Summarizes(m)
    BY SummaryMessages DEF m
  <2>. QED BY <1>1, <2>1, <2>2 DEF Among, CountedOf, G
<1>7. Counted(v) = Pick(h, C)
  BY <1>5, <1>6 DEF Counted
<1>. QED BY <1>5, <1>7 DEF v, C, G

(* The picks that a deeper cut leaves are the end of those of the window. *)
LEMMA EndByElements ==
  ASSUME NEW M, NEW u \in Seq(M), NEW v \in Seq(M), NEW d \in Nat, Len(u) = d + Len(v),
         \A k \in DOMAIN v : v[k] = u[d + k]
  PROVE  Len(v) <= Len(u) /\ v = SubSeq(u, Len(u) - Len(v) + 1, Len(u))
<1>1. PICK n \in Nat : n = Len(v)
  OBVIOUS
<1>2. PICK m \in Nat : m = Len(u)
  OBVIOUS
<1>3. m = d + n /\ DOMAIN v = 1 .. n /\ DOMAIN u = 1 .. m
  BY <1>1, <1>2
<1>4. PICK a \in Int : a = m - n + 1
  OBVIOUS
<1>5. a = d + 1
  BY <1>3, <1>4
<1>6. \A i \in a .. m : u[i] \in M
  BY <1>3, <1>5
<1>7. /\ SubSeq(u, a, m) \in Seq(M)
      /\ Len(SubSeq(u, a, m)) = IF a <= m THEN m - a + 1 ELSE 0
      /\ \A i \in 1 .. m - a + 1 : SubSeq(u, a, m)[i] = u[a + i - 1]
  <2>1. a \in Int /\ m \in Int
    OBVIOUS
  <2>. QED BY ONLY <1>6, <2>1, SubSeqProperties
<1>8. m - a + 1 = n /\ \A i \in 1 .. n : a + i - 1 = d + i
  BY <1>3, <1>5
<1>9. Len(SubSeq(u, a, m)) = n
  BY <1>3, <1>5, <1>7, <1>8
<1>10. \A i \in 1 .. n : SubSeq(u, a, m)[i] = v[i]
  BY <1>3, <1>7, <1>8
<1>11. SubSeq(u, a, m) = v
  BY <1>1, <1>7, <1>9, <1>10, SeqEqual
<1>. QED BY <1>1, <1>2, <1>3, <1>4, <1>11

\* Nothing that a batch writes looks like a summary.
LEMMA NoSummaryInTurns ==
  ASSUME NEW v \in Seq(Turns)
  PROVE  SummaryIn(v) = {}
<1>1. \A k \in DOMAIN v : v[k] \in Turns
  OBVIOUS
<1>2. \A k \in DOMAIN v : ~Summarizes(v[k])
  BY <1>1, BatchesAssumption
<1>. QED BY <1>2 DEF SummaryIn

LEMMA ViewLosesNothing ==
  ASSUME MemoryInv, PositiveWindows
  PROVE  NothingVanishes
<1>. USE DEF MemoryInv, CacheInv
<1>1. CASE view = <<>>
  <2>1. <<>> \in Seq(Turns)
    OBVIOUS
  <2>. QED BY <1>1, <2>1, NoSummaryInTurns DEF NothingVanishes
<1>2. CASE view = Windowed(config.window, messages)
  <2>1. view \in Seq(Turns)
    BY <1>2, WindowedCounts
  <2>. QED BY <2>1, NoSummaryInTurns DEF NothingVanishes
<1>3. CASE /\ view = Summarized(messages, summary)
           /\ summary.covers >= Cut(config.window, messages)
           /\ Cut(config.window, messages) # 0
  <2>. SUFFICES ASSUME NEW stands \in SummaryIn(view), NEW i \in DOMAIN messages
                PROVE  \/ \E k \in DOMAIN view : view[k] = messages[i]
                       \/ i \in DOMAIN stands /\ stands[i] = messages[i]
    BY DEF NothingVanishes
  <2>. DEFINE m == SummaryMessage(summary)
  <2>1. /\ view \in Seq(Told(summary))
        /\ \A j \in DOMAIN messages :
             j \in Seen(messages, summary.covers) \/ Pinned(messages[j]) =>
               \E k \in DOMAIN view : view[k] = messages[j]
    BY <1>3, SummarizedTells
  <2>2. stands = summary.stands
    <3>1. PICK k \in DOMAIN view : Summarizes(view[k]) /\ stands = view[k].parts[1].stands
      BY DEF SummaryIn
    <3>2. view[k] \in Turns \/ view[k] = m
      BY <2>1 DEF Told
    <3>. QED BY <3>1, <3>2, BatchesAssumption, SummaryMessages
  <2>3. CASE i \in Seen(messages, summary.covers) \/ Pinned(messages[i])
    BY <2>1, <2>3
  <2>4. CASE i \notin Seen(messages, summary.covers) /\ ~Pinned(messages[i])
    <3>1. i \in Oldest(messages, summary.covers)
      BY <2>4 DEF Seen, TopPinned
    <3>2. summary.covers # 0
      <4>1. config.window \in Windows
        BY DEF Configs
      <4>2. Cut(config.window, messages) \in Nat
        BY <4>1, DeeperCut
      <4>. QED BY <1>3, <4>2
    <3>3. summary.stands = Dropped(messages, summary.covers)
      BY <3>2 DEF StandsFor
    <3>. QED BY <2>2, <2>4, <3>1, <3>3 DEF Dropped
  <2>. QED BY <2>3, <2>4
<1>. QED BY <1>1, <1>2, <1>3 DEF ViewInv

\* What is counted in a window, and in a view with a summary on top of it.
LEMMA ViewStaysWithin ==
  ASSUME MemoryInv, PositiveWindows
  PROVE  ViewIsWithinTheWindow
<1>. USE DEF MemoryInv, CacheInv
<1>. DEFINE sent == Counted(view)
            kept == Counted(Windowed(config.window, messages))
<1>. SUFFICES ASSUME view # <<>>
              PROVE  /\ Len(sent) <= Len(kept)
                     /\ sent = SubSeq(kept, Len(kept) - Len(sent) + 1, Len(kept))
  BY DEF ViewIsWithinTheWindow
<1>0. config.window \in Windows /\ messages \in Seq(Turns) /\ summary.covers \in Nat
  BY DEF Configs
<1>1. CASE view = Windowed(config.window, messages)
  <2>1. view \in Seq(Turns)
    BY <1>0, <1>1, WindowedCounts
  <2>. DEFINE K == {k \in DOMAIN view : ~Pinned(view[k]) /\ ~Summarizes(view[k])}
  <2>2. sent \in Seq(Turns)
    <3>1. sent = Pick(view, K) /\ K \in SUBSET DOMAIN view
      BY DEF Counted
    <3>. HIDE DEF K, sent
    <3>. QED BY <2>1, <3>1, Picked
  <2>3. kept = sent
    BY <1>1
  <2>. HIDE DEF sent, kept
  <2>4. Len(sent) = 0 + Len(sent) /\ \A k \in DOMAIN sent : sent[k] = sent[0 + k]
    BY <2>2
  <2>. QED BY <2>2, <2>3, <2>4, EndByElements
<1>2. CASE /\ view = Summarized(messages, summary)
           /\ summary.covers >= Cut(config.window, messages)
           /\ Cut(config.window, messages) # 0
  <2>. DEFINE from == Cut(config.window, messages)
              to   == summary.covers
              G    == CountedOf(Turns)
              U    == SeenOf(messages, from, G)
              V    == SeenOf(messages, to, G)
  <2>1. sent = Pick(messages, V)
    BY <1>0, <1>2, SummarizedTells DEF SeenOf
  <2>2. config.window.by # "none"
    BY <1>2 DEF Cut
  <2>3. kept = Pick(messages, U)
    BY <1>0, <2>2, WindowedCounts DEF SeenOf
  <2>4. from \in Nat /\ to \in Nat /\ from <= to
    BY <1>0, <1>2, DeeperCut
  <2>5. \A m \in G : ~Pinned(m)
    BY DEF CountedOf
  <2>. HIDE DEF from, to, G, sent, kept
  <2>6. /\ Pick(messages, U) \in Seq(Turns) /\ Pick(messages, V) \in Seq(Turns)
        /\ EndsWith(Pick(messages, U), Pick(messages, V))
    BY ONLY <1>0, <2>4, <2>5, DeeperSeesTheLast, SMTT(60)
  <2>. HIDE DEF U, V
  <2>7. kept \in Seq(Turns) /\ sent \in Seq(Turns)
    BY <2>1, <2>3, <2>6
  <2>8. PICK d \in Nat : /\ Len(kept) = d + Len(sent)
                         /\ \A k \in DOMAIN sent : sent[k] = kept[d + k]
    BY <2>1, <2>3, <2>6 DEF EndsWith
  <2>. QED BY <2>7, <2>8, EndByElements
<1>. QED BY <1>1, <1>2 DEF ViewInv

(* Whatever was appended, and whether a summary was cached, made anew or could
   not be made, a load tells of every turn held and sends no turn that the plain
   window would not (memory.rs, load). *)
THEOREM LoadsTellTheWhole ==
  ASSUME PositiveWindows
  PROVE  Spec => []ViewTellsTheWhole
<1>1. MemoryInv => ViewTellsTheWhole
  BY ViewLosesNothing, ViewStaysWithin DEF ViewTellsTheWhole
<1>. QED BY MemoryInvInit, MemoryInvNext, <1>1, PTL DEF Spec

-----------------------------------------------------------------------------
(* The file: JsonlStorage *)

Durability ==
  /\ JsonlTypeOK
  /\ MemoryIsTheFile
  /\ AcknowledgedSurvive

-----------------------------------------------------------------------------
(* The contents of a file *)

(* A file written by hand, as it were. *)
LEMMA NewFiles ==
  ASSUME NEW v \in 0 .. Version + 1, NEW turns \in Seq(Turns), NEW torn \in BOOLEAN
  PROVE  /\ IsFile(FileOf(v, turns, torn))
         /\ FileOf(v, turns, torn).turns = turns
         /\ ~FileOf(v, turns, torn).damaged
<1>1. FileOf(v, turns, torn) \in FilesWith(NoSummary)
  BY DEF FileOf, FilesWith
<1>2. /\ FileOf(v, turns, torn).summary = NoSummary
      /\ FileOf(v, turns, torn).turns = turns
      /\ ~FileOf(v, turns, torn).damaged
  BY DEF FileOf
<1>. QED BY <1>1, <1>2 DEF IsFile

(* Those that open and clear write before any turn hold none. *)
LEMMA HeaderFiles ==
  ASSUME NEW f \in HeaderInPart \cup {Headed}
  PROVE  IsFile(f) /\ f.turns = <<>> /\ ~f.damaged
<1>1. <<>> \in Seq(Turns) /\ 0 \in 0 .. Version + 1 /\ Version \in 0 .. Version + 1
  BY DEF Version
<1>2. \/ f = FileOf(0, <<>>, FALSE)
      \/ f = FileOf(0, <<>>, TRUE)
      \/ f = FileOf(Version, <<>>, FALSE)
  BY DEF HeaderInPart, Blank, Headed
<1>3. ASSUME NEW v \in {0, Version}, NEW torn \in BOOLEAN, f = FileOf(v, <<>>, torn)
      PROVE  IsFile(f) /\ f.turns = <<>> /\ ~f.damaged
  BY <1>1, <1>3, NewFiles
<1>. QED BY <1>2, <1>3

(* Cutting off a fragment leaves the lines. *)
LEMMA WholeFile ==
  ASSUME NEW f, IsFile(f)
  PROVE  /\ IsFile(Whole(f)) /\ IsFile(Torn(f))
         /\ Whole(f).turns = f.turns /\ Torn(f).turns = f.turns
         /\ Whole(f).damaged = f.damaged /\ Torn(f).damaged = f.damaged
         /\ ~Whole(f).torn
         /\ Whole(f) = Blank => f.turns = <<>> /\ ~f.damaged
<1>1. Whole(f) \in FilesWith(f.summary) /\ Torn(f) \in FilesWith(f.summary)
  BY DEF IsFile, FilesWith, Whole, Torn
<1>2. /\ Whole(f).turns = f.turns /\ Torn(f).turns = f.turns
      /\ Whole(f).damaged = f.damaged /\ Torn(f).damaged = f.damaged
      /\ ~Whole(f).torn
  BY DEF IsFile, FilesWith, Whole, Torn
<1>3. Blank.turns = <<>> /\ ~Blank.damaged
  BY DEF Blank, FileOf
<1>. QED BY <1>1, <1>2, <1>3 DEF IsFile, FilesWith

(* A write of turns to a file without a fragment adds exactly those turns. *)
LEMMA WritingTurns ==
  ASSUME NEW f, IsFile(f), ~f.torn, NEW turns \in Seq(Turns)
  PROVE  /\ IsFile(WithTurns(f, turns))
         /\ WithTurns(f, turns).turns = f.turns \o turns
         /\ WithTurns(f, turns).damaged = f.damaged
         /\ ~WithTurns(f, turns).torn
<1>1. CASE turns = <<>>
  <2>1. WithTurns(f, turns) = f /\ f.turns \in Seq(Turns)
    BY <1>1 DEF WithTurns, IsFile, FilesWith
  <2>2. f.turns \o turns = f.turns
    BY <1>1, <2>1
  <2>. QED BY <2>1, <2>2
<1>2. CASE turns # <<>>
  <2>1. WithTurns(f, turns) = [f EXCEPT !.turns = @ \o turns]
    BY <1>2 DEF WithTurns
  <2>2. f.turns \o turns \in Seq(Turns)
    BY DEF IsFile, FilesWith
  <2>3. WithTurns(f, turns) \in FilesWith(f.summary)
    BY <2>1, <2>2 DEF IsFile, FilesWith
  <2>. QED BY <2>1, <2>3 DEF IsFile, FilesWith
<1>. QED BY <1>1, <1>2

(* A write of a summary to one leaves its turns alone. *)
LEMMA WritingSummary ==
  ASSUME NEW f, IsFile(f), ~f.torn, NEW s
  PROVE  /\ IsFile(WithSummary(f, s))
         /\ WithSummary(f, s).turns = f.turns
         /\ WithSummary(f, s).damaged = f.damaged
         /\ ~WithSummary(f, s).torn
<1>1. WithSummary(f, s) = [f EXCEPT !.summary = s]
  BY DEF WithSummary
<1>2. WithSummary(f, s) \in FilesWith(s)
  BY <1>1 DEF IsFile, FilesWith
<1>. QED BY <1>1, <1>2 DEF IsFile, FilesWith

(* Turns added at the end are after those acknowledged. *)
LEMMA ExtendsMore ==
  ASSUME NEW a \in Seq(Turns), NEW b \in Seq(Turns), NEW c \in Seq(Turns),
         Extends(b, a)
  PROVE  Extends(b \o c, a)
BY DEF Extends

(* And what a write of turns leaves when it is cut short still holds all that
   was acknowledged. *)
LEMMA TurnsInPartSurvive ==
  ASSUME NEW f, IsFile(f), ~f.torn, ~f.damaged,
         NEW turns \in Seq(Turns), NEW a \in Seq(Turns), Extends(f.turns, a),
         NEW part \in TurnsInPart(f, turns)
  PROVE  IsFile(part) /\ ~part.damaged /\ Extends(part.turns, a)
<1>1. PICK k \in 0 .. Len(turns) :
        \/ part = WithTurns(f, SubSeq(turns, 1, k))
        \/ part = Torn(WithTurns(f, SubSeq(turns, 1, k)))
  BY DEF TurnsInPart
<1>. DEFINE written == WithTurns(f, SubSeq(turns, 1, k))
<1>2. SubSeq(turns, 1, k) \in Seq(Turns)
  OBVIOUS
<1>3. /\ IsFile(written) /\ ~written.damaged
      /\ written.turns = f.turns \o SubSeq(turns, 1, k)
  BY <1>2, WritingTurns
<1>4. Extends(written.turns, a)
  BY <1>2, <1>3, ExtendsMore DEF IsFile, FilesWith
<1>5. IsFile(Torn(written)) /\ ~Torn(written).damaged /\ Extends(Torn(written).turns, a)
  BY <1>3, <1>4, WholeFile
<1>. QED BY <1>1, <1>3, <1>4, <1>5

-----------------------------------------------------------------------------
(* The invariant *)

LEMMA DurabilityInit == JsonlInit => Durability
<1>. SUFFICES ASSUME JsonlInit PROVE Durability
  OBVIOUS
<1>1. IsFile(file) /\ file.turns \in Seq(Turns) /\ ~file.damaged
  <2>1. file = Blank \/ \E batch \in Batches : file = Newer(batch)
    BY DEF JsonlInit
  <2>2. CASE file = Blank
    <3>1. Blank \in HeaderInPart \cup {Headed} /\ <<>> \in Seq(Turns)
      BY DEF HeaderInPart
    <3>. QED BY <2>2, <3>1, HeaderFiles
  <2>3. ASSUME NEW batch \in Batches, file = Newer(batch)
        PROVE  IsFile(file) /\ file.turns = batch /\ ~file.damaged
    <3>1. batch \in Seq(Turns) /\ Version + 1 \in 0 .. Version + 1
      BY BatchesAssumption DEF Version
    <3>. QED BY <2>3, <3>1, NewFiles DEF Newer
  <2>. QED BY <2>1, <2>2, <2>3, BatchesAssumption
<1>2. JsonlTypeOK
  <2>1. images = {file} /\ acked = <<>> /\ messages = <<>> /\ open = FALSE
    BY DEF JsonlInit, MemoryInit
  <2>2. <<>> \in Seq(Turns)
    OBVIOUS
  <2>. QED BY <1>1, <2>1, <2>2 DEF JsonlTypeOK
<1>3. MemoryIsTheFile
  BY DEF JsonlInit, MemoryIsTheFile
<1>4. AcknowledgedSurvive
  <2>1. images = {file} /\ acked = <<>>
    BY DEF JsonlInit
  <2>2. Extends(file.turns, <<>>)
    BY <1>1 DEF Extends
  <2>. QED BY <1>1, <2>1, <2>2 DEF AcknowledgedSurvive
<1>. QED BY <1>2, <1>3, <1>4 DEF Durability

LEMMA DurabilityNext ==
  ASSUME ~SummaryWriteMayTear, CallerReopens, Durability, [JsonlNext]_jsonlVars
  PROVE  Durability'
<1>. USE DEF Durability
<1>1. /\ \A f \in images : IsFile(f) /\ ~f.damaged /\ Extends(f.turns, acked)
      /\ file \in images
      /\ open => messages = file.turns /\ ~file.torn
      /\ messages \in Seq(Turns) /\ acked \in Seq(Turns) /\ open \in BOOLEAN
  BY DEF JsonlTypeOK, MemoryIsTheFile, AcknowledgedSurvive
<1>2. /\ IsFile(file) /\ ~file.damaged /\ Extends(file.turns, acked)
      /\ file.turns \in Seq(Turns)
  BY <1>1 DEF IsFile, FilesWith
<1>3. <<>> \in Seq(Turns) /\ \A turns : Extends(turns, <<>>) <=> 0 <= Len(turns)
  BY DEF Extends
<1>. DEFINE Kept(f) == IsFile(f) /\ ~f.damaged /\ Extends(f.turns, acked')
\* It is enough that what a step adds to the images keeps what it acknowledges,
\* and that a storage left open holds the turns of the file.
<1>4. ASSUME \A f \in images' : Kept(f),
             file' \in images', acked' \in Seq(Turns), open' \in BOOLEAN,
             messages' \in Seq(Turns),
             open' => messages' = file'.turns /\ ~file'.torn
      PROVE  Durability'
  BY <1>4 DEF JsonlTypeOK, MemoryIsTheFile, AcknowledgedSurvive
<1>5. ASSUME NEW f, Synced(f), Kept(f)
      PROVE  file' = f /\ file' \in images' /\ \A g \in images' : Kept(g)
  BY <1>5 DEF Synced
<1>6. ASSUME NEW outcomes, Unsynced(outcomes), acked' = acked,
             \A g \in outcomes : Kept(g)
      PROVE  file' \in outcomes /\ file' \in images' /\ \A g \in images' : Kept(g)
  BY <1>1, <1>6 DEF Unsynced
<1>7. CASE UNCHANGED jsonlVars
  BY <1>1, <1>7 DEF jsonlVars, JsonlTypeOK, MemoryIsTheFile, AcknowledgedSurvive
<1>8. ASSUME NEW c \in Configs, Open(c)
      PROVE  Durability'
  <2>1. Unsynced({Whole(file)}) /\ acked' = acked /\ Restore(file, c)
    BY <1>8 DEF Open
  <2>2. Kept(Whole(file))
    BY <1>2, <2>1, WholeFile
  <2>3. file' = Whole(file) /\ file' \in images' /\ \A g \in images' : Kept(g)
    BY <1>6, <2>1, <2>2
  <2>4. messages' = file'.turns /\ ~file'.torn /\ open' = TRUE
    BY <1>2, <2>1, <2>3, WholeFile DEF Restore
  <2>. QED BY <1>1, <1>2, <1>4, <2>1, <2>3, <2>4, WholeFile
<1>9. ASSUME NEW c \in Configs, OpenNew(c)
      PROVE  Durability'
  <2>1. Synced(Headed) /\ acked' = acked /\ Restore(Headed, c) /\ Whole(file) = Blank
    BY <1>9 DEF OpenNew, Empty
  <2>2. file.turns = <<>>
    BY <1>2, <2>1, WholeFile
  <2>3. Headed.turns = <<>> /\ ~Headed.damaged /\ ~Headed.torn
    BY DEF Headed, FileOf
  <2>4. Kept(Headed)
    BY <1>2, <2>1, <2>2, <2>3, HeaderFiles
  <2>5. file' = Headed /\ file' \in images' /\ \A g \in images' : Kept(g)
    BY <1>5, <2>1, <2>4
  <2>. QED BY <1>1, <1>3, <1>4, <2>1, <2>3, <2>5 DEF Restore
<1>10. CASE OpenNewCutShort
  <2>1. /\ Unsynced(HeaderInPart) /\ acked' = acked /\ open' = open /\ ~open
        /\ messages' = messages /\ Whole(file) = Blank
    BY <1>10 DEF OpenNewCutShort, Empty, memory, memoryVars
  <2>2. file.turns = <<>>
    BY <1>2, <2>1, WholeFile
  <2>3. \A g \in HeaderInPart : Kept(g)
    BY <1>2, <2>1, <2>2, HeaderFiles
  <2>4. file' \in images' /\ \A g \in images' : Kept(g)
    BY <1>6, <2>1, <2>3
  <2>. QED BY <1>1, <1>4, <2>1, <2>4
<1>11. CASE OpenRefused
  <2>1. /\ Unsynced({Whole(file)}) /\ acked' = acked /\ open' = open /\ ~open
        /\ messages' = messages
    BY <1>11 DEF OpenRefused, memory, memoryVars
  <2>2. Kept(Whole(file))
    BY <1>2, <2>1, WholeFile
  <2>3. file' \in images' /\ \A g \in images' : Kept(g)
    BY <1>6, <2>1, <2>2
  <2>. QED BY <1>1, <1>4, <2>1, <2>3
<1>12. CASE Drop
  BY <1>1, <1>3, <1>4, <1>12 DEF Drop, Closed
<1>13. CASE PowerLoss
  <2>1. PICK image \in images : Synced(image)
    BY <1>13 DEF PowerLoss
  <2>2. acked' = acked /\ messages' = <<>> /\ open' = FALSE
    BY <1>13 DEF PowerLoss, Closed
  <2>3. Kept(image)
    BY <1>1, <2>2
  <2>4. file' \in images' /\ \A g \in images' : Kept(g)
    BY <1>5, <2>1, <2>3
  <2>. QED BY <1>1, <1>3, <1>4, <2>2, <2>4
<1>14. ASSUME NEW answers \in BOOLEAN, Load(answers)
       PROVE  Durability'
  <2>1. /\ open /\ open' = open /\ acked' = acked /\ messages' = messages
        /\ IF summary'.covers = summary.covers
           THEN UNCHANGED <<file, images>>
           ELSE Synced(WithSummary(file, summary'))
    BY <1>14 DEF Load, MemoryLoad
  <2>2. CASE summary'.covers = summary.covers
    BY <1>1, <1>4, <2>1, <2>2
  <2>3. CASE summary'.covers # summary.covers
    <3>1. Kept(WithSummary(file, summary'))
      BY <1>1, <1>2, <2>1, WritingSummary
    <3>2. /\ file' = WithSummary(file, summary')
          /\ file' \in images' /\ \A g \in images' : Kept(g)
      BY <1>5, <2>1, <2>3, <3>1
    <3>. QED BY <1>1, <1>2, <1>4, <2>1, <3>2, WritingSummary
  <2>. QED BY <2>2, <2>3
<1>15. ASSUME NEW answers \in BOOLEAN, LoadUnstored(answers)
       PROVE  Durability'
  <2>1. /\ open /\ open' = open /\ acked' = acked /\ messages' = messages
        /\ Unsynced({f \in SummaryInPart(file, summary') :
                       SummaryWriteMayTear \/ f # Torn(file)})
    BY <1>15 DEF LoadUnstored, MemoryLoad
  <2>. DEFINE outcomes == {f \in SummaryInPart(file, summary') :
                             SummaryWriteMayTear \/ f # Torn(file)}
  <2>2. \A g \in outcomes : g = file \/ g = WithSummary(file, summary')
    BY DEF SummaryInPart
  <2>3. \A g \in outcomes : Kept(g) /\ g.turns = file.turns /\ ~g.torn
    BY <1>1, <1>2, <2>1, <2>2, WritingSummary
  <2>4. file' \in outcomes /\ file' \in images' /\ \A g \in images' : Kept(g)
    <3>. HIDE DEF outcomes
    <3>. QED BY <1>6, <2>1, <2>3 DEF outcomes
  <2>. QED BY <1>1, <1>4, <2>1, <2>3, <2>4
<1>16. CASE LoadCutShort
  <2>1. PICK fresh : Unsynced(SummaryInPart(file, fresh))
    BY <1>16 DEF LoadCutShort
  <2>2. open /\ acked' = acked /\ messages' = <<>> /\ open' = FALSE
    BY <1>16 DEF LoadCutShort, Closed
  <2>3. \A g \in SummaryInPart(file, fresh) : Kept(g)
    BY <1>1, <1>2, <2>2, WholeFile, WritingSummary DEF SummaryInPart
  <2>4. file' \in images' /\ \A g \in images' : Kept(g)
    BY <1>6, <2>1, <2>2, <2>3
  <2>. QED BY <1>1, <1>3, <1>4, <2>2, <2>4
<1>17. ASSUME NEW batch \in Batches, AppendTurns(batch)
       PROVE  Durability'
  <2>1. /\ open /\ open' = open /\ Synced(WithTurns(file, batch))
        /\ messages' = messages \o batch /\ acked' = messages'
    BY <1>17 DEF AppendTurns, MemoryAppend
  <2>2. batch \in Seq(Turns)
    BY BatchesAssumption
  <2>3. messages' \in Seq(Turns) /\ Extends(messages', messages')
    BY <1>1, <2>1, <2>2 DEF Extends
  <2>4. /\ WithTurns(file, batch).turns = messages'
        /\ ~WithTurns(file, batch).torn
        /\ Kept(WithTurns(file, batch))
    BY <1>1, <1>2, <2>1, <2>2, <2>3, WritingTurns
  <2>5. file' = WithTurns(file, batch) /\ file' \in images' /\ \A g \in images' : Kept(g)
    BY <1>5, <2>1, <2>4
  <2>. QED BY <1>1, <1>4, <2>1, <2>3, <2>4, <2>5
<1>18. ASSUME NEW batch \in Batches, AppendCutShort(batch)
       PROVE  Durability'
  <2>1. /\ open /\ Unsynced(TurnsInPart(file, batch)) /\ acked' = acked
        /\ messages' = <<>> /\ open' = FALSE
    BY <1>18, CallerReopens DEF AppendCutShort, Failed, Closed
  <2>2. batch \in Seq(Turns)
    BY BatchesAssumption
  <2>3. \A g \in TurnsInPart(file, batch) : Kept(g)
    BY <1>1, <1>2, <2>1, <2>2, TurnsInPartSurvive
  <2>4. file' \in images' /\ \A g \in images' : Kept(g)
    BY <1>6, <2>1, <2>3
  <2>. QED BY <1>1, <1>3, <1>4, <2>1, <2>4
<1>19. CASE Clear
  <2>1. /\ Synced(Headed) /\ acked' = <<>> /\ messages' = <<>> /\ open' = open
    BY <1>19 DEF Clear, MemoryClear
  <2>2. Headed.turns = <<>> /\ ~Headed.damaged /\ ~Headed.torn
    BY DEF Headed, FileOf
  <2>3. Kept(Headed)
    BY <1>3, <2>1, <2>2, HeaderFiles
  <2>4. file' = Headed /\ file' \in images' /\ \A g \in images' : Kept(g)
    BY <1>5, <2>1, <2>3
  <2>. QED BY <1>1, <1>3, <1>4, <2>1, <2>2, <2>4
<1>20. CASE ClearCutShort
  <2>1. /\ Unsynced({file} \cup HeaderInPart) /\ acked' = <<>>
        /\ messages' = <<>> /\ open' = FALSE
    BY <1>20, CallerReopens DEF ClearCutShort, Failed, Closed
  <2>2. \A g \in images \cup HeaderInPart : IsFile(g) /\ ~g.damaged
    BY <1>1, HeaderFiles
  <2>3. \A g \in images \cup HeaderInPart : Kept(g)
    BY <1>3, <2>1, <2>2 DEF IsFile, FilesWith
  <2>4. file' \in images' /\ images' = images \cup HeaderInPart
    BY <1>1, <2>1 DEF Unsynced
  <2>. QED BY <1>3, <1>4, <2>1, <2>3, <2>4
<1>. QED
  BY <1>7, <1>8, <1>9, <1>10, <1>11, <1>12, <1>13, <1>14, <1>15, <1>16, <1>17,
     <1>18, <1>19, <1>20
  DEF JsonlNext

(* Whatever write fails or is cut short, and whenever the process or the
   machine stops, the turns of the last acknowledged append are found by the
   next open (jsonl.rs, append and open); provided that a summary which fails
   to be stored leaves no fragment, and that the caller opens the file anew
   after an Err. *)
THEOREM AcknowledgedAppendsSurvive ==
  ASSUME ~SummaryWriteMayTear, CallerReopens
  PROVE  JsonlSpec => []AcknowledgedSurvive
<1>1. Durability => AcknowledgedSurvive
  BY DEF Durability
<1>. QED BY DurabilityInit, DurabilityNext, <1>1, PTL DEF JsonlSpec

(* Under the same conditions an open storage holds the turns of its file, and
   everything has its type. *)
THEOREM MemoryMatchesTheFile ==
  ASSUME ~SummaryWriteMayTear, CallerReopens
  PROVE  JsonlSpec => [](JsonlTypeOK /\ MemoryIsTheFile)
<1>1. Durability => JsonlTypeOK /\ MemoryIsTheFile
  BY DEF Durability
<1>. QED BY DurabilityInit, DurabilityNext, <1>1, PTL DEF JsonlSpec

-----------------------------------------------------------------------------
(* The refinement: each operation on the file is one on the log *)

\* What the contents in S show a reader.
LogsOf(S) == {f.turns : f \in S}

(* Whatever part of a write is reached, a reader is shown a part of the batch,
   and any part may be the one. *)
LEMMA TurnsInPartAreCutShort ==
  ASSUME NEW f, IsFile(f), ~f.torn, NEW turns \in Seq(Turns)
  PROVE  LogsOf(TurnsInPart(f, turns)) = {f.turns \o some : some \in Durable!Prefixes(turns)}
<1>. DEFINE part(k) == SubSeq(turns, 1, k)
<1>1. ASSUME NEW k \in 0 .. Len(turns)
      PROVE  /\ WithTurns(f, part(k)).turns = f.turns \o part(k)
             /\ Torn(WithTurns(f, part(k))).turns = f.turns \o part(k)
  <2>1. part(k) \in Seq(Turns)
    OBVIOUS
  <2>. QED BY <2>1, WritingTurns, WholeFile
<1>2. ASSUME NEW k \in 0 .. Len(turns)
      PROVE  f.turns \o part(k) \in LogsOf(TurnsInPart(f, turns))
  <2>1. WithTurns(f, part(k)) \in TurnsInPart(f, turns)
    BY DEF TurnsInPart
  <2>. QED BY <1>1, <2>1 DEF LogsOf
<1>3. ASSUME NEW g \in TurnsInPart(f, turns)
      PROVE  \E k \in 0 .. Len(turns) : g.turns = f.turns \o part(k)
  <2>1. PICK k \in 0 .. Len(turns) : g = WithTurns(f, part(k)) \/ g = Torn(WithTurns(f, part(k)))
    BY DEF TurnsInPart
  <2>. QED BY <1>1, <2>1
<1>. HIDE DEF part
<1>4. Durable!Prefixes(turns) = {part(k) : k \in 0 .. Len(turns)}
  BY DEF Durable!Prefixes, part
<1>. QED BY <1>2, <1>3, <1>4 DEF LogsOf

LEMMA RefinementInit == JsonlInit => Durable!Init
<1>. SUFFICES ASSUME JsonlInit PROVE Durable!Init
  OBVIOUS
<1>1. \E turns \in {<<>>} \cup Batches : file.turns = turns
  BY DEF JsonlInit, Blank, Newer, FileOf
<1>2. {f.turns : f \in images} = {file.turns}
  BY DEF JsonlInit
<1>. QED BY <1>1, <1>2 DEF Durable!Init

LEMMA RefinementNext ==
  ASSUME ~SummaryWriteMayTear, CallerReopens, Durability, [JsonlNext]_jsonlVars
  PROVE  [Durable!Next]_(Durable!durableVars)
<1>. USE DEF Durability
<1>1. /\ IsFile(file) /\ file \in images
      /\ open => messages = file.turns /\ ~file.torn
      /\ file.turns \in Seq(Turns)
  BY DEF JsonlTypeOK, MemoryIsTheFile, IsFile, FilesWith
\* What a step says of the file, and what that says of the log.
<1>. DEFINE log      == file.turns
            possible == LogsOf(images)
            logs     == <<log, possible>>
<1>2. ASSUME \/ UNCHANGED logs
             \/ \E batch \in Batches : Durable!Commit(batch) \/ Durable!CutShort(batch)
             \/ Durable!Reset \/ Durable!ResetCutShort \/ Durable!Settle \/ Durable!PowerLoss
      PROVE  [Durable!Next]_(Durable!durableVars)
  BY <1>2 DEF Durable!Next, Durable!durableVars, LogsOf
<1>3. ASSUME NEW f, Synced(f)
      PROVE  log' = f.turns /\ possible' = {f.turns}
  BY <1>3 DEF Synced, LogsOf
<1>4. ASSUME NEW outcomes, Unsynced(outcomes)
      PROVE  log' \in LogsOf(outcomes) /\ possible' = possible \cup LogsOf(outcomes)
  BY <1>4 DEF Unsynced, LogsOf
\* A write that adds no turn adds nothing to see.
<1>5. ASSUME NEW outcomes, Unsynced(outcomes), \A g \in outcomes : g.turns = log
      PROVE  UNCHANGED logs
  <2>1. log \in possible
    BY <1>1 DEF LogsOf
  <2>2. \A x \in LogsOf(outcomes) : x = log
    BY <1>5 DEF LogsOf
  <2>. HIDE DEF log, possible
  <2>3. log' = log /\ possible' = possible
    BY <1>4, <1>5, <2>1, <2>2
  <2>. QED BY <2>3
<1>6. LogsOf(HeaderInPart) = {<<>>} /\ Headed.turns = <<>>
  BY DEF LogsOf, HeaderInPart, Blank, Headed, FileOf
<1>7. CASE UNCHANGED jsonlVars
  BY <1>2, <1>7 DEF jsonlVars, LogsOf
<1>8. ASSUME NEW c \in Configs, Open(c)
      PROVE  UNCHANGED logs
  BY <1>1, <1>5, <1>8, WholeFile DEF Open
<1>9. ASSUME NEW c \in Configs, OpenNew(c)
      PROVE  Durable!Reset
  BY <1>3, <1>6, <1>9 DEF OpenNew, Durable!Reset, LogsOf
<1>10. CASE OpenNewCutShort
  <2>1. log' \in {log, <<>>} /\ possible' = possible \cup {<<>>}
    BY <1>4, <1>6, <1>10 DEF OpenNewCutShort
  <2>. QED BY <2>1, <1>2 DEF Durable!ResetCutShort, LogsOf
<1>11. CASE OpenRefused
  BY <1>1, <1>2, <1>5, <1>11, WholeFile DEF OpenRefused
<1>12. CASE Drop
  BY <1>2, <1>12 DEF Drop, LogsOf
<1>13. CASE PowerLoss
  <2>1. PICK image \in images : Synced(image)
    BY <1>13 DEF PowerLoss
  <2>2. log' = image.turns /\ possible' = {image.turns} /\ image.turns \in possible
    BY <1>3, <2>1 DEF LogsOf
  <2>. QED BY <1>2, <2>2 DEF Durable!PowerLoss, LogsOf
<1>14. ASSUME NEW answers \in BOOLEAN, Load(answers)
       PROVE  UNCHANGED logs \/ Durable!Settle
  <2>1. CASE UNCHANGED <<file, images>>
    BY <2>1 DEF LogsOf
  <2>2. CASE Synced(WithSummary(file, summary'))
    <3>1. WithSummary(file, summary').turns = log
      BY <1>1, <1>14, WritingSummary DEF Load
    <3>2. log' = log /\ possible' = {log}
      BY <1>3, <2>2, <3>1
    <3>. QED BY <3>2 DEF Durable!Settle, LogsOf
  <2>. QED BY <1>14, <2>1, <2>2 DEF Load
<1>15. ASSUME NEW answers \in BOOLEAN, LoadUnstored(answers)
       PROVE  UNCHANGED logs
  <2>. DEFINE outcomes == {f \in SummaryInPart(file, summary') :
                             SummaryWriteMayTear \/ f # Torn(file)}
  <2>1. open /\ Unsynced(outcomes)
    BY <1>15 DEF LoadUnstored
  <2>2. \A g \in outcomes : g.turns = log
    BY <1>1, <2>1, WholeFile, WritingSummary DEF SummaryInPart
  <2>. HIDE DEF outcomes, log, logs
  <2>. QED BY <1>5, <2>1, <2>2
<1>16. CASE LoadCutShort
  <2>1. PICK fresh : Unsynced(SummaryInPart(file, fresh))
    BY <1>16 DEF LoadCutShort
  <2>2. \A g \in SummaryInPart(file, fresh) : g.turns = log
    BY <1>1, <1>16, WholeFile, WritingSummary DEF SummaryInPart, LoadCutShort
  <2>. QED BY <1>2, <1>5, <2>1, <2>2
<1>17. ASSUME NEW batch \in Batches, AppendTurns(batch)
       PROVE  Durable!Commit(batch)
  <2>1. batch \in Seq(Turns)
    BY BatchesAssumption
  <2>2. WithTurns(file, batch).turns = log \o batch
    BY <1>1, <1>17, <2>1, WritingTurns DEF AppendTurns
  <2>3. log' = log \o batch /\ possible' = {log'}
    BY <1>3, <1>17, <2>2 DEF AppendTurns
  <2>. QED BY <2>3 DEF Durable!Commit, LogsOf
<1>18. ASSUME NEW batch \in Batches, AppendCutShort(batch)
       PROVE  Durable!CutShort(batch)
  <2>1. batch \in Seq(Turns) /\ open /\ Unsynced(TurnsInPart(file, batch))
    BY <1>18, BatchesAssumption DEF AppendCutShort
  <2>. DEFINE partly == {log \o some : some \in Durable!Prefixes(batch)}
  <2>2. LogsOf(TurnsInPart(file, batch)) = partly
    BY <1>1, <2>1, TurnsInPartAreCutShort
  <2>3. log' \in partly /\ possible' = possible \cup partly
    BY <1>4, <2>1, <2>2
  <2>. QED BY <2>3 DEF Durable!CutShort, LogsOf
<1>19. CASE Clear
  <2>1. log' = <<>> /\ possible' = {<<>>}
    BY <1>3, <1>6, <1>19 DEF Clear
  <2>. QED BY <1>2, <2>1 DEF Durable!Reset, LogsOf
<1>20. CASE ClearCutShort
  <2>1. LogsOf({file} \cup HeaderInPart) = {log, <<>>} /\ log \in possible
    BY <1>1, <1>6 DEF LogsOf
  <2>2. log' \in {log, <<>>} /\ possible' = possible \cup {<<>>}
    <3>1. Unsynced({file} \cup HeaderInPart)
      BY <1>20 DEF ClearCutShort
    <3>. HIDE DEF log, possible
    <3>. QED BY <1>4, <2>1, <3>1
  <2>. QED BY <1>2, <2>2 DEF Durable!ResetCutShort, LogsOf
<1>. QED
  BY <1>2, <1>7, <1>8, <1>9, <1>10, <1>11, <1>12, <1>13, <1>14, <1>15, <1>16,
     <1>17, <1>18, <1>19, <1>20
  DEF JsonlNext

(* A JsonlStorage is a durable transcript: whatever write fails or is cut short
   and whenever the machine stops, what the next open reads (jsonl.rs, open,
   append, clear and load) is what a log of whole appends would show, under the
   two conditions of AcknowledgedAppendsSurvive. *)
THEOREM JsonlIsDurable ==
  ASSUME ~SummaryWriteMayTear, CallerReopens
  PROVE  JsonlSpec => ImplementsDurableTranscript
<1>. QED
  BY DurabilityInit, DurabilityNext, RefinementInit, RefinementNext, PTL
  DEF JsonlSpec, ImplementsDurableTranscript, Durable!Spec

-----------------------------------------------------------------------------
(* What the file says of its summary *)

\* Every summary that may be read back, and the one held, are of their groups.
Keyed ==
  /\ config \in Configs
  /\ \A f \in images : f.summary.covers \in Nat /\ StandsFor(f.summary, f.turns)
  /\ open => summary.covers \in Nat /\ StandsFor(summary, messages)

(* A summary of no group stands for anything. *)
LEMMA NoSummaryStands == NoSummary.covers \in Nat /\ \A h : StandsFor(NoSummary, h)
BY DEF NoSummary, StandsFor

(* What open restores is right where what it reads is. *)
LEMMA RestoredStands ==
  ASSUME NEW h, NEW s, s.covers \in Nat, StandsFor(s, h)
  PROVE  Restored(h, s).covers \in Nat /\ StandsFor(Restored(h, s), h)
BY NoSummaryStands DEF Restored

(* A write of turns, whole or glued to a fragment, adds them at the end. *)
LEMMA WritingTurnsAppends ==
  ASSUME NEW f, IsFile(f), NEW turns \in Seq(Turns)
  PROVE  /\ IsFile(WithTurns(f, turns))
         /\ WithTurns(f, turns).summary = f.summary
         /\ \E more \in Seq(Turns) : WithTurns(f, turns).turns = f.turns \o more
<1>1. f \in FilesWith(f.summary) /\ f.turns \in Seq(Turns)
  BY DEF IsFile, FilesWith
<1>2. CASE turns = <<>>
  <2>1. WithTurns(f, turns) = f /\ f.turns = f.turns \o turns
    BY <1>1, <1>2 DEF WithTurns
  <2>. QED BY <2>1
<1>3. CASE turns # <<>> /\ f.torn
  <2>1. Tail(turns) \in Seq(Turns)
    BY <1>3
  <2>2. WithTurns(f, turns)
          = [f EXCEPT !.turns = @ \o Tail(turns), !.damaged = TRUE, !.torn = FALSE]
    BY <1>3 DEF WithTurns
  <2>3. /\ WithTurns(f, turns).summary = f.summary
        /\ WithTurns(f, turns).turns = f.turns \o Tail(turns)
    BY <1>1, <2>2 DEF FilesWith
  <2>4. f.turns \o Tail(turns) \in Seq(Turns)
    BY <1>1, <2>1
  <2>5. WithTurns(f, turns) \in FilesWith(f.summary)
    BY <1>1, <2>2, <2>4 DEF FilesWith
  <2>. QED BY <2>1, <2>3, <2>5 DEF IsFile
<1>4. CASE turns # <<>> /\ ~f.torn
  <2>1. WithTurns(f, turns) = [f EXCEPT !.turns = @ \o turns]
    BY <1>4 DEF WithTurns
  <2>2. /\ WithTurns(f, turns).summary = f.summary
        /\ WithTurns(f, turns).turns = f.turns \o turns
    BY <1>1, <2>1 DEF FilesWith
  <2>3. f.turns \o turns \in Seq(Turns)
    BY <1>1
  <2>4. WithTurns(f, turns) \in FilesWith(f.summary)
    BY <1>1, <2>1, <2>3 DEF FilesWith
  <2>. QED BY <2>2, <2>4 DEF IsFile
<1>. QED BY <1>1, <1>2, <1>3, <1>4 DEF FilesWith

(* So what a write leaves, in part or whole, is keyed as its file was. *)
LEMMA TurnsInPartKeyed ==
  ASSUME NEW f, IsFile(f), f.summary.covers \in Nat, StandsFor(f.summary, f.turns),
         NEW turns \in Seq(Turns),
         NEW part \in TurnsInPart(f, turns) \cup {WithTurns(f, turns)}
  PROVE  part.summary.covers \in Nat /\ StandsFor(part.summary, part.turns)
<1>1. ASSUME NEW some \in Seq(Turns)
      PROVE  /\ WithTurns(f, some).summary = f.summary
             /\ StandsFor(f.summary, WithTurns(f, some).turns)
             /\ Torn(WithTurns(f, some)).summary = WithTurns(f, some).summary
             /\ Torn(WithTurns(f, some)).turns = WithTurns(f, some).turns
  <2>1. f.turns \in Seq(Turns)
    BY DEF IsFile, FilesWith
  <2>2. PICK more \in Seq(Turns) : WithTurns(f, some).turns = f.turns \o more
    BY WritingTurnsAppends
  <2>3. StandsFor(f.summary, f.turns \o more)
    BY <2>1, StandsForMore
  <2>4. WithTurns(f, some) \in FilesWith(f.summary)
    BY WritingTurnsAppends DEF IsFile
  <2>. QED BY <2>2, <2>3, <2>4, WritingTurnsAppends DEF Torn, FilesWith
<1>2. \/ part = WithTurns(f, turns)
      \/ \E k \in 0 .. Len(turns) :
           \/ part = WithTurns(f, SubSeq(turns, 1, k))
           \/ part = Torn(WithTurns(f, SubSeq(turns, 1, k)))
  BY DEF TurnsInPart
<1>3. \A k \in 0 .. Len(turns) : SubSeq(turns, 1, k) \in Seq(Turns)
  OBVIOUS
<1>. QED BY <1>1, <1>2, <1>3

(* A write of a summary that is right of a file without a fragment. *)
LEMMA SummaryInPartKeyed ==
  ASSUME NEW f, IsFile(f), ~f.torn, f.summary.covers \in Nat,
         StandsFor(f.summary, f.turns),
         NEW s, s.covers \in Nat, StandsFor(s, f.turns),
         NEW part \in SummaryInPart(f, s)
  PROVE  part.summary.covers \in Nat /\ StandsFor(part.summary, part.turns)
<1>1. WithSummary(f, s) = [f EXCEPT !.summary = s]
  BY DEF WithSummary
<1>2. /\ WithSummary(f, s).summary = s /\ WithSummary(f, s).turns = f.turns
      /\ Torn(f).summary = f.summary /\ Torn(f).turns = f.turns
  BY <1>1 DEF IsFile, FilesWith, Torn
<1>. QED BY <1>2 DEF SummaryInPart

(* Files without a line of turns have no summary. *)
LEMMA HeaderFilesKeyed ==
  ASSUME NEW f \in HeaderInPart \cup {Headed}
  PROVE  f.summary.covers \in Nat /\ StandsFor(f.summary, f.turns)
<1>1. f.summary = NoSummary
  BY DEF HeaderInPart, Blank, Headed, FileOf
<1>. QED BY <1>1, NoSummaryStands

LEMMA KeyedInit == JsonlInit => Keyed
<1>. SUFFICES ASSUME JsonlInit PROVE Keyed
  OBVIOUS
<1>1. images = {file} /\ file.summary = NoSummary /\ ~open /\ config \in Configs
  BY DEF JsonlInit, MemoryInit, Blank, Newer, FileOf
<1>. QED BY <1>1, NoSummaryStands DEF Keyed

LEMMA KeyedNext ==
  ASSUME ~SummaryWriteMayTear, CallerReopens, PositiveWindows,
         Durability, Keyed, [JsonlNext]_jsonlVars
  PROVE  Keyed'
<1>. DEFINE Right(f) == f.summary.covers \in Nat /\ StandsFor(f.summary, f.turns)
            Held     == summary.covers \in Nat /\ StandsFor(summary, messages)
<1>1. /\ IsFile(file) /\ file \in images /\ messages \in Seq(Turns)
      /\ open => messages = file.turns /\ ~file.torn
      /\ open \in BOOLEAN
  BY DEF Durability, JsonlTypeOK, MemoryIsTheFile
<1>2. config \in Configs /\ (\A f \in images : Right(f)) /\ (open => Held)
  BY DEF Keyed
<1>3. ASSUME config' \in Configs, \A f \in images' : Right(f), open' => Held'
      PROVE  Keyed'
  BY <1>3 DEF Keyed
<1>. HIDE DEF Held
<1>4. ASSUME NEW f, Synced(f), Right(f)
      PROVE  \A g \in images' : Right(g)
  BY <1>4 DEF Synced
<1>5. ASSUME NEW outcomes, Unsynced(outcomes), \A g \in outcomes : Right(g)
      PROVE  \A g \in images' : Right(g)
  BY <1>2, <1>5 DEF Unsynced
<1>6. Right(Whole(file)) /\ Whole(file).turns = file.turns
      /\ Whole(file).summary = file.summary /\ Right(file)
  BY <1>1, <1>2 DEF Whole, IsFile, FilesWith
<1>7. \A f \in HeaderInPart \cup {Headed} : Right(f)
  BY HeaderFilesKeyed
<1>8. ASSUME NEW answers, open
      PROVE  LET outcome == LoadOutcome(messages, summary, config, answers)
             IN  outcome.summary.covers \in Nat /\ StandsFor(outcome.summary, messages)
  BY <1>1, <1>2, <1>8, LoadOutcomeStandsFor DEF Held
<1>. HIDE DEF Right
<1>9. CASE UNCHANGED jsonlVars
  BY <1>2, <1>3, <1>9 DEF jsonlVars, Held
<1>10. ASSUME NEW f, Right(f), NEW c \in Configs, Restore(f, c)
       PROVE  config' \in Configs /\ Held'
  <2>1. Restored(f.turns, f.summary).covers \in Nat
        /\ StandsFor(Restored(f.turns, f.summary), f.turns)
    BY <1>10, RestoredStands DEF Right
  <2>. QED BY <1>10, <2>1 DEF Restore, Held
<1>11. ASSUME NEW c \in Configs, Open(c)
       PROVE  Keyed'
  BY <1>3, <1>5, <1>6, <1>10, <1>11 DEF Open
<1>12. ASSUME NEW c \in Configs, OpenNew(c)
       PROVE  Keyed'
  BY <1>3, <1>4, <1>7, <1>10, <1>12 DEF OpenNew
<1>13. CASE OpenNewCutShort
  <2>1. ~open' /\ config' = config /\ Unsynced(HeaderInPart)
    BY <1>13 DEF OpenNewCutShort, memory, memoryVars
  <2>. QED BY <1>2, <1>3, <1>5, <1>7, <2>1
<1>14. CASE OpenRefused
  <2>1. ~open' /\ config' = config /\ Unsynced({Whole(file)})
    BY <1>14 DEF OpenRefused, memory, memoryVars
  <2>. QED BY <1>2, <1>3, <1>5, <1>6, <2>1
<1>15. CASE Drop
  BY <1>2, <1>3, <1>15 DEF Drop, Closed
<1>16. CASE PowerLoss
  <2>1. PICK image \in images : Synced(image)
    BY <1>16 DEF PowerLoss
  <2>. QED BY <1>2, <1>3, <1>4, <1>16, <2>1 DEF PowerLoss, Closed
<1>17. ASSUME NEW answers \in BOOLEAN, open, MemoryLoad(answers), open' = open,
              \A f \in images' : Right(f)
       PROVE  Keyed'
  <2>1. /\ summary' = LoadOutcome(messages, summary, config, answers).summary
        /\ messages' = messages /\ config' = config
    BY <1>17 DEF MemoryLoad
  <2>2. Held'
    BY <1>8, <1>17, <2>1 DEF Held
  <2>. QED BY <1>2, <1>3, <1>17, <2>1, <2>2
<1>18. ASSUME NEW answers \in BOOLEAN, open, MemoryLoad(answers),
              NEW part \in SummaryInPart(file, summary')
       PROVE  Right(part)
  <2>1. summary' = LoadOutcome(messages, summary, config, answers).summary
    BY <1>18 DEF MemoryLoad
  <2>2. summary'.covers \in Nat /\ StandsFor(summary', messages)
    BY <1>8, <1>18, <2>1
  <2>. QED BY <1>1, <1>6, <1>18, <2>2, SummaryInPartKeyed DEF Right
<1>19. ASSUME NEW answers \in BOOLEAN, Load(answers)
       PROVE  Keyed'
  <2>1. open /\ MemoryLoad(answers) /\ open' = open
    BY <1>19 DEF Load
  <2>2. CASE UNCHANGED <<file, images>>
    BY <1>2, <1>17, <2>1, <2>2
  <2>3. CASE Synced(WithSummary(file, summary'))
    <3>1. WithSummary(file, summary') \in SummaryInPart(file, summary')
      BY DEF SummaryInPart
    <3>. QED BY <1>4, <1>17, <1>18, <2>1, <2>3, <3>1
  <2>. QED BY <1>19, <2>2, <2>3 DEF Load
<1>20. ASSUME NEW answers \in BOOLEAN, LoadUnstored(answers)
       PROVE  Keyed'
  <2>. DEFINE outcomes == {f \in SummaryInPart(file, summary') :
                             SummaryWriteMayTear \/ f # Torn(file)}
  <2>1. open /\ MemoryLoad(answers) /\ open' = open /\ Unsynced(outcomes)
    BY <1>20 DEF LoadUnstored
  <2>2. \A g \in outcomes : Right(g)
    BY <1>18, <2>1
  <2>. HIDE DEF outcomes
  <2>. QED BY <1>5, <1>17, <2>1, <2>2
<1>21. CASE LoadCutShort
  <2>. DEFINE fresh == LoadOutcome(messages, summary, config, TRUE).summary
  <2>1. /\ open /\ Unsynced(SummaryInPart(file, fresh))
        /\ open' = FALSE /\ config' = config
    BY <1>21 DEF LoadCutShort, Closed
  <2>2. fresh.covers \in Nat /\ StandsFor(fresh, messages)
    BY <1>8, <2>1
  <2>. HIDE DEF fresh
  <2>3. \A g \in SummaryInPart(file, fresh) : Right(g)
    BY <1>1, <1>6, <2>1, <2>2, SummaryInPartKeyed DEF Right
  <2>. QED BY <1>2, <1>3, <1>5, <2>1, <2>3
<1>22. ASSUME NEW batch \in Batches
       PROVE  \A g \in TurnsInPart(file, batch) \cup {WithTurns(file, batch)} : Right(g)
  <2>1. batch \in Seq(Turns)
    BY BatchesAssumption
  <2>. QED BY <1>1, <1>6, <2>1, TurnsInPartKeyed DEF Right
<1>23. ASSUME NEW batch \in Batches, AppendTurns(batch)
       PROVE  Keyed'
  <2>1. /\ open /\ Synced(WithTurns(file, batch))
        /\ messages' = messages \o batch /\ summary' = summary /\ config' = config
    BY <1>23 DEF AppendTurns, MemoryAppend
  <2>2. batch \in Seq(Turns)
    BY BatchesAssumption
  <2>3. Held'
    BY <1>1, <1>2, <2>1, <2>2, StandsForMore DEF Held
  <2>. QED BY <1>2, <1>3, <1>4, <1>22, <2>1, <2>3
<1>24. ASSUME NEW batch \in Batches, AppendCutShort(batch)
       PROVE  Keyed'
  <2>1. Unsynced(TurnsInPart(file, batch)) /\ open' = FALSE /\ config' = config
    BY <1>24, CallerReopens DEF AppendCutShort, Failed, Closed
  <2>. QED BY <1>2, <1>3, <1>5, <1>22, <2>1
<1>25. CASE Clear
  <2>1. Synced(Headed) /\ summary' = NoSummary /\ config' = config
    BY <1>25 DEF Clear, MemoryClear
  <2>2. Held'
    BY <2>1, NoSummaryStands DEF Held
  <2>. QED BY <1>2, <1>3, <1>4, <1>7, <2>1, <2>2
<1>26. CASE ClearCutShort
  <2>1. Unsynced({file} \cup HeaderInPart) /\ open' = FALSE /\ config' = config
    BY <1>26, CallerReopens DEF ClearCutShort, Failed, Closed
  <2>. QED BY <1>2, <1>3, <1>5, <1>6, <1>7, <2>1
<1>. QED
  BY <1>9, <1>11, <1>12, <1>13, <1>14, <1>15, <1>16, <1>19, <1>20, <1>21, <1>23,
     <1>24, <1>25, <1>26
  DEF JsonlNext

(* Whatever is read back after a crash, the summary that open restores stands
   for the groups it is counted to cover (jsonl.rs, open and load), for windows
   that keep a group. *)
THEOREM StoredSummariesAreKeyed ==
  ASSUME ~SummaryWriteMayTear, CallerReopens, PositiveWindows
  PROVE  JsonlSpec => []StoredSummaryIsOfItsGroups
<1>1. Keyed => StoredSummaryIsOfItsGroups
  BY RestoredStands DEF Keyed, StoredSummaryIsOfItsGroups
<1>. QED BY DurabilityInit, DurabilityNext, KeyedInit, KeyedNext, <1>1, PTL DEF JsonlSpec

=============================================================================
