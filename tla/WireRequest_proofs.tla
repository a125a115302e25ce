------------------------- MODULE WireRequest_proofs -------------------------
(***************************************************************************)
(* What repair and the windows promise, that the older groups settle, that *)
(* the loops of the code compute all of it, and what the dialects make of  *)
(* it, for transcripts of every length over every set of messages.         *)
(*                                                                         *)
(* The promises are about what Transcript defines.  Where no id is used    *)
(* twice, that stays so as the transcript grows (OnceInv), and it is all   *)
(* that repair and the windows need: a call and its answer are then in one *)
(* group, which a window has the whole of or nothing.                      *)
(*                                                                         *)
(* The loops need no such thing.  For each there is a statement of what    *)
(* its locals are after i messages or k groups (ScannedUpTo, SplitUpTo,    *)
(* CutUpTo); an iteration carries it on, so it holds behind the last, and  *)
(* what the loop then returns is what Transcript defines.                  *)
(*                                                                         *)
(* A builder puts pieces end to end, one or none for each part of each     *)
(* message, so each thing on the wire is a piece of some part and none is  *)
(* lost; and what follows what is as repair left it.                       *)
(***************************************************************************)
EXTENDS WireRequest, Transcript_proofs, SequenceTheorems

-----------------------------------------------------------------------------
(* Transcripts of Messages *)

Roles == {m.role : m \in Messages}
Kinds == UNION {{m.parts[k] : k \in DOMAIN m.parts} : m \in Messages}

LEMMA MessagesAreBuilt ==
  /\ Messages \subseteq MessagesOf(Roles, Kinds)
  /\ ToolParts(Kinds)
  /\ PinnedAreBare(Messages)
<1>1. ASSUME NEW m \in Messages
      PROVE  m \in MessagesOf(Roles, Kinds)
  <2>. DEFINE P == {m.parts[k] : k \in DOMAIN m.parts}
  <2>1. m \in [role : {m.role}, parts : Seq(P)]
    BY TranscriptAssumption
  <2>2. m.role \in Roles /\ P \subseteq Kinds
    BY DEF Roles, Kinds
  <2>. HIDE DEF P
  <2>3. m.parts \in Seq(P) /\ m = [role |-> m.role, parts |-> m.parts]
    BY <2>1
  <2>4. m.parts \in Seq(Kinds)
    BY <2>2, <2>3
  <2>. QED BY <2>2, <2>3, <2>4 DEF MessagesOf
<1>2. ToolParts(Kinds)
  <2>. SUFFICES ASSUME NEW p \in Kinds
                PROVE  /\ p.kind = "call" => \E id \in CallId : p = Call(id)
                       /\ p.kind = "result" => \E id \in CallId : p = Result(id)
    BY DEF ToolParts
  <2>1. PICK m \in Messages : \E k \in DOMAIN m.parts : p = m.parts[k]
    BY DEF Kinds
  <2>2. PICK k \in DOMAIN m.parts : p = m.parts[k]
    BY <2>1
  <2>. QED BY <2>2, TranscriptAssumption
<1>3. PinnedAreBare(Messages)
  <2>. SUFFICES ASSUME NEW m \in Messages, Pinned(m), NEW k \in DOMAIN m.parts, NEW id \in CallId
                PROVE  m.parts[k] # Call(id) /\ m.parts[k] # Result(id)
    BY DEF PinnedAreBare, HasCall, HasResult
  <2>1. m.parts[k].kind \notin {"call", "result"}
    BY TranscriptAssumption
  <2>2. Call(id).kind = "call" /\ Result(id).kind = "result"
    BY DEF Call, Result
  <2>. QED BY <2>1, <2>2
<1>. QED BY <1>1, <1>2, <1>3

\* The inductive invariant: every id is called once and answered once.
OnceInv == h \in Seq(Messages) /\ Once(h)

LEMMA OnceIsInvariant ==
  ASSUME ~ReusedIds
  PROVE  Spec => []OnceInv
<1>1. Init => OnceInv
  BY DEF Init, OnceInv, Once, CalledOnce, AnsweredOnce
<1>2. OnceInv /\ [Next]_h => OnceInv'
  <2>. SUFFICES ASSUME OnceInv, NEW m \in Messages, FreshIds(m), h' = Append(h, m)
                PROVE  OnceInv'
    BY DEF Next, AppendMessage, OnceInv
  <2>1. h \in Seq(Messages) /\ Once(h) /\ <<m>> \in Seq(Messages)
    BY DEF OnceInv
  <2>2. Once(<<m>>)
    BY DEF Once, CalledOnce, AnsweredOnce
  <2>3. \A i \in DOMAIN h, j \in DOMAIN <<m>>, id \in CallId :
          /\ ~(HasCall(h[i], id) /\ HasCall(<<m>>[j], id))
          /\ ~(HasResult(h[i], id) /\ HasResult(<<m>>[j], id))
    BY DEF FreshIds
  <2>4. Once(h \o <<m>>)
    BY ONLY <2>1, <2>2, <2>3, OnceBehind
  <2>5. h' = h \o <<m>> /\ h' \in Seq(Messages)
    BY <2>1
  <2>. QED BY <2>4, <2>5 DEF OnceInv, Once, CalledOnce, AnsweredOnce
<1>. QED BY <1>1, <1>2, PTL DEF Spec

-----------------------------------------------------------------------------
(* repair.rs *)

(* However a backend cuts a transcript in which no id is used twice, the pass
   leaves one that every provider accepts, and leaves alone one that already is. *)
THEOREM RepairIsAlwaysSound ==
  ASSUME ~ReusedIds
  PROVE  Spec => []RepairIsSound
<1>1. OnceInv => RepairIsSound
  <2>. SUFFICES ASSUME OnceInv PROVE RepairIsSound
    OBVIOUS
  <2>1. h \in Seq(MessagesOf(Roles, Kinds)) /\ AnsweredOnce(h) /\ ToolParts(Kinds)
    <3>1. h \in Seq(Messages) /\ Messages \subseteq MessagesOf(Roles, Kinds)
      BY MessagesAreBuilt DEF OnceInv
    <3>2. h \in Seq(MessagesOf(Roles, Kinds))
      BY <3>1
    <3>. QED BY <3>2, MessagesAreBuilt DEF OnceInv, Once
  <2>2. Sendable(Repair(h))
    BY ONLY <2>1, RepairIsSendable
  <2>3. ASSUME Sendable(h), \A i \in DOMAIN h : h[i].parts # <<>>
        PROVE  Repair(h) = h
    BY ONLY <2>1, <2>3, SendablePassesThrough
  <2>. QED BY <2>2, <2>3 DEF RepairIsSound, RepairedIsSendable, SendableIsKept
<1>2. Spec => []OnceInv
  BY OnceIsInvariant
<1>. QED BY <1>1, <1>2, PTL

-----------------------------------------------------------------------------
(* helper/window.rs *)

(* Every pinned turn is in every window, as often as in the transcript. *)
LEMMA WindowKeepsThePinned ==
  ASSUME NEW M, NEW s \in Seq(M), NEW from, NEW m, Pinned(m)
  PROVE  Cardinality({k \in DOMAIN Reassemble(s, from) : Reassemble(s, from)[k] = m})
           = Cardinality({i \in DOMAIN s : s[i] = m})
<1>. DEFINE t == Reassemble(s, from)
            S == Seen(s, from) \cup {i \in DOMAIN s : Pinned(s[i])}
            X == {k \in DOMAIN t : t[k] = m}
            Y == {i \in DOMAIN s : s[i] = m}
<1>1. PICK f \in [DOMAIN t -> S] :
        /\ \A k \in DOMAIN t : t[k] = s[f[k]]
        /\ \A k, l \in DOMAIN t : f[k] = f[l] => k = l
        /\ \A i \in S : \E k \in DOMAIN t : f[k] = i
  BY ReassembledIsDrawn DEF DrawnWhole
<1>2. S \subseteq DOMAIN s /\ Y \subseteq S
  BY DEF Seen
<1>. DEFINE g == [k \in X |-> f[k]]
<1>. HIDE DEF t, S
<1>3. g \in [X -> Y]
  BY <1>1, <1>2
<1>4. \A k, l \in X : g[k] = g[l] => k = l
  BY <1>1
<1>5. \A i \in Y : \E k \in X : g[k] = i
  <2>. SUFFICES ASSUME NEW i \in Y PROVE \E k \in X : g[k] = i
    OBVIOUS
  <2>1. PICK k \in DOMAIN t : f[k] = i
    BY <1>1, <1>2
  <2>2. k \in X
    BY <1>1, <2>1
  <2>. QED BY <2>1, <2>2
<1>6. IsFiniteSet(DOMAIN t)
  <2>1. t \in Seq(M)
    BY ReassembledIsDrawn DEF t
  <2>2. DOMAIN t = 1 .. Len(t) /\ Len(t) \in Int /\ 1 \in Int
    BY <2>1
  <2>3. PICK n \in Int : n = Len(t)
    BY <2>2
  <2>4. IsFiniteSet(1 .. n)
    BY <2>2, FS_Interval
  <2>. QED BY <2>2, <2>3, <2>4
<1>7. X \subseteq DOMAIN t
  OBVIOUS
<1>. HIDE DEF X, Y, g
<1>8. IsFiniteSet(X)
  BY <1>6, <1>7, FS_Subset
<1>9. g \in Bijection(X, Y)
  BY <1>3, <1>4, <1>5 DEF Bijection, Injection, Surjection, IsInjective
<1>10. ExistsBijection(X, Y)
  BY <1>9 DEF ExistsBijection
<1>11. Cardinality(Y) = Cardinality(X)
  BY <1>8, <1>10, FS_Bijection
<1>. QED BY <1>11 DEF X, Y, t

(* The unpinned turns of a window are the last unpinned turns of the transcript. *)
LEMMA WindowIsASuffix ==
  ASSUME NEW M, NEW s \in Seq(M), NEW from \in Nat
  PROVE  LET t == Reassemble(s, from)
             u == Pick(s, Unpinned(s))
             v == Pick(t, Unpinned(t))
         IN  /\ u \in Seq(M) /\ v \in Seq(M)
             /\ \E d \in Nat : /\ Len(u) = d + Len(v)
                               /\ \A k \in DOMAIN v : v[k] = u[d + k]
<1>. DEFINE G   == {m \in M : ~Pinned(m)}
            S   == Seen(s, from)
            C   == {i \in S : s[i] \in G}
            U   == Unpinned(s)
            pre == Preamble(s, from)
            t   == Reassemble(s, from)
<1>1. /\ pre \in Seq(M) /\ \A k \in DOMAIN pre : pre[k] \notin G
      /\ S \in SUBSET DOMAIN s
  BY Reassembled DEF Seen
<1>2. t = Before(pre, s, S)
  BY DEF Reassemble, InView, Seen, Before
<1>3. t \in Seq(M) /\ Pick(t, Among(t, G)) = Pick(s, C)
  <2>1. s \in Seq(M) /\ pre \in Seq(M) /\ S \in SUBSET DOMAIN s
    BY <1>1
  <2>2. \A k \in DOMAIN pre : pre[k] \notin G
    BY <1>1
  <2>3. \A i \in DOMAIN s : i \in C <=> i \in S /\ s[i] \in G
    OBVIOUS
  <2>4. C \in SUBSET DOMAIN s
    BY <1>1
  <2>. HIDE DEF t, C, G, S, pre
  <2>5. /\ Before(pre, s, S) \in Seq(M)
        /\ Pick(Before(pre, s, S), Among(Before(pre, s, S), G)) = Pick(s, C)
    BY ONLY <2>1, <2>2, <2>3, <2>4, PicksAfter
  <2>. QED BY ONLY <1>2, <2>5
<1>4. Among(t, G) = Unpinned(t)
  <2>1. \A k \in DOMAIN t : t[k] \in M
    BY <1>3
  <2>. HIDE DEF t
  <2>. QED BY <2>1 DEF Among, Unpinned
<1>5. \A i \in DOMAIN s : s[i] \in G <=> i \in U
  BY DEF Unpinned
<1>6. U \in SUBSET DOMAIN s /\ C \in SUBSET U
  BY <1>1, <1>5 DEF Unpinned
<1>7. ASSUME NEW i \in C, NEW j \in U, i < j PROVE j \in C
  <2>1. j \in DOMAIN s /\ ~Pinned(s[j]) /\ i \in S /\ ~Pinned(s[i])
    BY DEF Unpinned
  <2>2. j \in S
    BY <1>7, <2>1, LaterIsSeen
  <2>. QED BY <1>5, <2>1, <2>2
<1>. HIDE DEF C, U
<1>8. Pick(s, U) \in Seq(M) /\ Pick(s, C) \in Seq(M)
  <2>1. C \in SUBSET DOMAIN s
    BY <1>6
  <2>. QED BY <1>6, <2>1, Picked
<1>9. \E d \in Nat : /\ Len(Pick(s, U)) = d + Len(Pick(s, C))
                     /\ \A k \in DOMAIN Pick(s, C) : Pick(s, C)[k] = Pick(s, U)[d + k]
  BY <1>6, <1>7, LastPicks
<1>. QED BY <1>3, <1>4, <1>8, <1>9 DEF U

LEMMA SuffixByElements ==
  ASSUME NEW M, NEW u \in Seq(M), NEW v \in Seq(M), NEW d \in Nat, Len(u) = d + Len(v),
         \A k \in DOMAIN v : v[k] = u[d + k]
  PROVE  IsSuffix(v, u)
<1>. DEFINE n  == Len(v)
            rv == Reverse(v)
            ru == Reverse(u)
<1>1. n \in Nat /\ DOMAIN v = 1 .. n /\ Len(u) = d + n /\ DOMAIN u = 1 .. d + n
  OBVIOUS
<1>2. /\ rv \in Seq(M) /\ Len(rv) = n /\ \A i \in 1 .. n : rv[i] = v[n - i + 1]
  <2>1. rv = [i \in 1 .. n |-> v[(n - i) + 1]]
    BY DEF Reverse
  <2>2. \A i \in 1 .. n : (n - i) + 1 \in DOMAIN v /\ v[(n - i) + 1] \in M
    BY <1>1
  <2>. QED BY <1>1, <2>1, <2>2
<1>3. /\ ru \in Seq(M) /\ Len(ru) = d + n
      /\ \A i \in 1 .. d + n : ru[i] = u[(d + n) - i + 1]
  <2>1. ru = [i \in 1 .. d + n |-> u[((d + n) - i) + 1]]
    BY <1>1 DEF Reverse
  <2>. DEFINE at(i) == ((d + n) - i) + 1
  <2>2. d + n \in Nat /\ \A i \in 1 .. d + n : at(i) \in 1 .. d + n
    BY <1>1
  <2>3. \A i \in 1 .. d + n : u[at(i)] \in M
    BY <1>1, <2>2
  <2>4. ru = [i \in 1 .. d + n |-> u[at(i)]]
    BY <2>1
  <2>5. \A i \in 1 .. d + n : at(i) = (d + n) - i + 1
    OBVIOUS
  <2>. HIDE DEF at, ru
  <2>6. PICK top \in Nat : top = d + n
    BY <2>2
  <2>7. ru \in Seq(M) /\ Len(ru) = top
    BY <2>3, <2>4, <2>6
  <2>. QED BY <2>4, <2>5, <2>6, <2>7
<1>4. \A i \in 1 .. n : rv[i] = ru[i]
  <2>. SUFFICES ASSUME NEW i \in 1 .. n PROVE rv[i] = ru[i]
    OBVIOUS
  <2>. HIDE DEF n
  <2>0. n - i + 1 \in 1 .. n
    BY <1>1
  <2>1. PICK k \in 1 .. n : k = n - i + 1
    BY <2>0
  <2>2. d + k = (d + n) - i + 1 /\ i \in 1 .. d + n
    BY <1>1, <2>1
  <2>3. v[k] = u[d + k]
    BY <1>1
  <2>. QED BY <1>2, <1>3, <2>1, <2>2, <2>3
<1>. HIDE DEF rv, ru, n
<1>5. SubSeq(rv, 1, n) = SubSeq(ru, 1, n)
  <2>1. ASSUME NEW x \in Seq(M), \A i \in 1 .. n : x[i] \in M
        PROVE  /\ SubSeq(x, 1, n) \in Seq(M) /\ Len(SubSeq(x, 1, n)) = n
               /\ \A i \in 1 .. n : SubSeq(x, 1, n)[i] = x[i]
    <3>1. 1 \in Int /\ n \in Int /\ \A i \in 1 .. n : x[i] \in M
      BY <1>1, <2>1
    <3>2. /\ SubSeq(x, 1, n) \in Seq(M)
          /\ Len(SubSeq(x, 1, n)) = IF 1 <= n THEN n - 1 + 1 ELSE 0
          /\ \A i \in 1 .. n - 1 + 1 : SubSeq(x, 1, n)[i] = x[1 + i - 1]
      BY ONLY <3>1, SubSeqProperties
    <3>3. n - 1 + 1 = n /\ \A i \in 1 .. n : 1 + i - 1 = i
      BY <1>1
    <3>. QED BY <1>1, <3>2, <3>3
  <2>2. \A i \in 1 .. n : rv[i] \in M /\ ru[i] \in M
    BY <1>1, <1>2, <1>3
  <2>. QED BY <1>2, <1>3, <1>4, <2>1, <2>2, SeqEqual
<1>6. n <= d + n
  BY <1>1
<1>. QED BY <1>2, <1>3, <1>5, <1>6 DEF IsSuffix, IsPrefix, rv, ru

(* At every cut of a transcript in which no id is used twice, a window has the
   whole of an exchange or nothing, every instruction as often as it was, and of
   the rest the last turns in their order (split, reassemble). *)
THEOREM WindowsAreAlwaysSound ==
  ASSUME ~ReusedIds
  PROVE  Spec => []WindowsAreSound
<1>1. OnceInv => WindowNeedsNoRepair
  <2>. SUFFICES ASSUME OnceInv, Sendable(h), NEW from \in 0 .. GroupCount(h)
                PROVE  Sendable(Reassemble(h, from))
    BY DEF WindowNeedsNoRepair
  <2>1. h \in Seq(Messages) /\ AnsweredOnce(h) /\ PinnedAreBare(Messages) /\ from \in Nat
    <3>1. h \in Seq(Messages)
      BY DEF OnceInv
    <3>2. GroupCount(h) \in Nat
      BY <3>1, StartsAreFinite, 0 \in Nat
    <3>. QED BY <3>1, <3>2, MessagesAreBuilt DEF OnceInv, Once
  <2>. QED BY <2>1, WindowIsSendable
<1>2. OnceInv => WindowKeepsPinned
  <2>. SUFFICES ASSUME OnceInv, NEW from \in 0 .. GroupCount(h)
                PROVE  LET kept == Reassemble(h, from)
                       IN /\ \A m \in Messages : Pinned(m) =>
                               Cardinality({k \in DOMAIN kept : kept[k] = m})
                                 = Cardinality({i \in DOMAIN h : h[i] = m})
                          /\ IsSuffix(Pick(kept, Unpinned(kept)), Pick(h, Unpinned(h)))
    BY DEF WindowKeepsPinned
  <2>1. h \in Seq(Messages) /\ from \in Nat
    <3>1. h \in Seq(Messages)
      BY DEF OnceInv
    <3>2. GroupCount(h) \in Nat
      BY <3>1, StartsAreFinite, 0 \in Nat
    <3>. QED BY <3>1, <3>2
  <2>. DEFINE kept == Reassemble(h, from)
              u    == Pick(h, Unpinned(h))
              v    == Pick(kept, Unpinned(kept))
  <2>2. \A m \in Messages : Pinned(m) =>
          Cardinality({k \in DOMAIN kept : kept[k] = m}) = Cardinality({i \in DOMAIN h : h[i] = m})
    BY <2>1, WindowKeepsThePinned
  <2>3. /\ u \in Seq(Messages) /\ v \in Seq(Messages)
        /\ \E d \in Nat : Len(u) = d + Len(v) /\ \A k \in DOMAIN v : v[k] = u[d + k]
    BY <2>1, WindowIsASuffix
  <2>. HIDE DEF u, v
  <2>4. IsSuffix(v, u)
    BY ONLY <2>3, SuffixByElements
  <2>. QED BY <2>2, <2>4 DEF u, v
<1>3. Spec => []OnceInv
  BY OnceIsInvariant
<1>. QED BY <1>1, <1>2, <1>3, PTL DEF WindowsAreSound

(* At every budget, the cut by tokens keeps the newest group, stays within the
   budget or keeps that group alone, and leaves out no group that would fit. *)
THEOREM TokenWindowsAreTight == Spec => []TokenWindowIsTight
<1>. DEFINE Inv == h \in Seq(Messages)
<1>1. Init => Inv
  BY DEF Init
<1>2. Inv /\ [Next]_h => Inv'
  BY DEF Next, AppendMessage
<1>3. Inv => TokenWindowIsTight
  <2>. SUFFICES ASSUME Inv, GroupCount(h) > 0, NEW budget \in Budgets
                PROVE  LET n      == GroupCount(h)
                           from   == CutByTokens(h, budget)
                           pay(f) == PaidFor(Reassemble(h, f))
                       IN  /\ from < n
                           /\ pay(from) <= budget \/ pay(from) = pay(n - 1)
                           /\ from > 0 => pay(from - 1) > budget
    BY DEF TokenWindowIsTight
  <2>1. Costed(Messages) /\ budget \in Nat /\ GroupCount(h) \in Nat
    BY TranscriptAssumption, StartsAreFinite, 0 \in Nat DEF Costed
  <2>2. \A f : PaidFor(Reassemble(h, f)) = Cost(h, StaysIn(h, f))
    BY <2>1, WindowCosts DEF PaidFor
  <2>. DEFINE from == CutByTokens(h, budget)
              kept(f) == Cost(h, StaysIn(h, f))
  <2>3. /\ from \in 0 .. GroupCount(h) - 1
        /\ kept(from) <= budget \/ kept(from) = kept(GroupCount(h) - 1)
        /\ from > 0 => kept(from - 1) > budget
    BY <2>1, TokenCutIsTight
  <2>4. from < GroupCount(h)
    BY <2>1, <2>3
  <2>. HIDE DEF from, kept
  <2>5. \A f : PaidFor(Reassemble(h, f)) = kept(f)
    BY <2>2 DEF kept
  <2>. QED BY <2>3, <2>4, <2>5 DEF from
<1>. QED BY <1>1, <1>2, <1>3, PTL DEF Spec

(* As a transcript grows by a message (InMemoryStorage::append), the groups
   that precede the newest one (helper/window.rs, split) stay the same
   messages, so a count of them is a cache key (memory.rs, Summary). *)
THEOREM GroupsSettle == Spec => OlderGroupsAreSettled
<1>. DEFINE Inv    == h \in Seq(Messages)
            Settle == \A from \in 0 .. GroupCount(h) - 1 : Oldest(h', from) = Oldest(h, from)
<1>1. Init => Inv
  BY DEF Init
<1>2. Inv /\ [Next]_h => Inv'
  BY DEF Next, AppendMessage
<1>3. Inv /\ [Next]_h => [Settle]_h
  <2>. SUFFICES ASSUME Inv, NEW m \in Messages, h' = Append(h, m),
                       NEW from \in 0 .. GroupCount(h) - 1
                PROVE  Oldest(h', from) = Oldest(h, from)
    BY DEF Next, AppendMessage
  <2>1. h' = h \o <<m>> /\ <<m>> \in Seq(Messages) /\ h \in Seq(Messages)
    OBVIOUS
  <2>2. GroupCount(h) \in Nat
    BY StartsAreFinite, 0 \in Nat
  <2>3. from \in Nat /\ from < GroupCount(h)
    BY <2>2
  <2>4. Oldest(h \o <<m>>, from) = Oldest(h, from)
    BY <2>1, <2>3, OldestAreSettled
  <2>. QED BY <2>1, <2>4
<1>. QED BY <1>1, <1>2, <1>3, PTL DEF Spec, OlderGroupsAreSettled

-----------------------------------------------------------------------------
(* The loop of repair.rs *)

(* What a loop keeps of a sequence is what is picked of it. *)
LEMMA RetainPicks ==
  ASSUME NEW M, NEW s \in Seq(M), NEW S \in SUBSET DOMAIN s
  PROVE  Retain(s, S) = Pick(s, S)
<1>. DEFINE n     == Len(s)
            Is(f) == f = [k \in 0 .. n |->
                            IF k = 0 THEN <<>>
                            ELSE IF k \in S THEN Append(f[k - 1], s[k]) ELSE f[k - 1]]
            kept  == CHOOSE f : Is(f)
            turn  == [k \in 1 .. n |-> [x \in Seq(M) |-> IF k \in S THEN Append(x, s[k]) ELSE x]]
            Upto(k) == {i \in S : i <= k}
            Good  == {k \in 0 .. n : kept[k] = Pick(s, Upto(k))}
<1>1. n \in Nat /\ DOMAIN s = 1 .. n /\ \A k \in 1 .. n : s[k] \in M
  OBVIOUS
<1>2. Retain(s, S) = kept[n]
  BY DEF Retain
<1>. HIDE DEF n
<1>3. PICK Q : Q = Seq(M)
  OBVIOUS
<1>4. <<>> \in Q /\ turn \in [1 .. n -> [Q -> Q]]
  BY <1>1, <1>3
<1>5. PICK f : StatesOf(f, n, Q, <<>>, turn)
  <2>. HIDE DEF turn
  <2>. QED BY <1>1, <1>4, LoopHasStates
<1>6. \A k \in 1 .. n : k \in 0 .. n /\ k - 1 \in 0 .. n /\ k # 0
  BY <1>1
<1>7. Is(f)
  <2>1. f \in [0 .. n -> Q] /\ f[0] = <<>> /\ \A k \in 1 .. n : f[k] = turn[k][f[k - 1]]
    BY <1>5 DEF StatesOf
  <2>2. \A k \in 1 .. n : f[k - 1] \in Seq(M)
    BY <1>3, <1>6, <2>1
  <2>3. ASSUME NEW k \in 0 .. n
        PROVE  f[k] = IF k = 0 THEN <<>>
                      ELSE IF k \in S THEN Append(f[k - 1], s[k]) ELSE f[k - 1]
    <3>1. CASE k = 0
      BY <2>1, <3>1
    <3>2. CASE k # 0
      <4>1. k \in 1 .. n
        BY <1>1, <3>2
      <4>. QED BY <2>1, <2>2, <3>2, <4>1
    <3>. QED BY <3>1, <3>2
  <2>. QED BY <2>1, <2>3
<1>8. Is(kept)
  <2>. HIDE DEF Is
  <2>. QED BY <1>7
<1>. HIDE DEF kept
<1>9. /\ kept[0] = <<>>
      /\ \A k \in 1 .. n : kept[k] = IF k \in S THEN Append(kept[k - 1], s[k]) ELSE kept[k - 1]
  <2>1. 0 \in 0 .. n
    BY <1>1
  <2>2. kept[0] = <<>>
    BY <1>8, <2>1
  <2>3. ASSUME NEW k \in 1 .. n
        PROVE  kept[k] = IF k \in S THEN Append(kept[k - 1], s[k]) ELSE kept[k - 1]
    <3>1. k \in 0 .. n /\ k # 0
      BY <1>6
    <3>. QED BY <1>8, <3>1
  <2>. QED BY <2>2, <2>3
<1>10. 0 \in Good
  <2>1. Upto(0) = {} /\ 0 \in 0 .. n
    BY <1>1
  <2>. HIDE DEF Upto
  <2>. QED BY <1>9, <2>1, NothingPicked
<1>11. ASSUME NEW k \in 1 .. n, k - 1 \in Good PROVE k \in Good
  <2>1. kept[k - 1] = Pick(s, Upto(k - 1)) /\ k \in 0 .. n
    BY <1>6, <1>11
  <2>2. CASE k \notin S
    <3>1. Upto(k) = Upto(k - 1)
      BY <1>1, <2>2
    <3>. HIDE DEF Upto
    <3>. QED BY <1>9, <2>1, <2>2, <3>1
  <2>3. CASE k \in S
    <3>1. Upto(k) = Upto(k - 1) \cup {k}
      BY <1>1, <2>3
    <3>2. Upto(k - 1) \in SUBSET DOMAIN s /\ k \in DOMAIN s /\ \A j \in Upto(k - 1) : j < k
      BY <1>1
    <3>. HIDE DEF Upto
    <3>3. Pick(s, Upto(k - 1) \cup {k}) = Append(Pick(s, Upto(k - 1)), s[k])
      BY <3>2, PickedLast
    <3>. QED BY <1>9, <2>1, <2>3, <3>1, <3>3
  <2>. QED BY <2>2, <2>3
<1>12. \A k \in 1 .. n : k - 1 \in Good => k \in Good
  BY <1>11
<1>13. \A k \in 0 .. n : k \in Good
  <2>. HIDE DEF Good
  <2>. QED BY <1>1, <1>10, <1>12, CountingUp
<1>14. kept[n] = Pick(s, Upto(n)) /\ Upto(n) = S
  <2>1. n \in 0 .. n
    BY <1>1
  <2>. QED BY <1>1, <1>13, <2>1
<1>. QED BY <1>2, <1>14

(* What a message's parts leave open: the calls it makes and does not answer
   further on, and those open before it that it does not answer. *)
LEMMA ScanPartsTell ==
  ASSUME NEW m \in Messages, NEW open \in SUBSET CallId
  PROVE  /\ ScanParts(open, m) \in SUBSET CallId
         /\ \A id \in CallId : id \in ScanParts(open, m) <=>
              LeavesOpen(m, id) \/ (id \in open /\ ~HasResult(m, id))
<1>. DEFINE s     == m.parts
            n     == Len(s)
            Is(f) == f = [k \in 0 .. n |-> IF k = 0 THEN open ELSE ScanPart(f[k - 1], s[k])]
            after == CHOOSE f : Is(f)
            turn  == [k \in 1 .. n |-> [x \in SUBSET CallId |-> ScanPart(x, s[k])]]
<1>1. /\ n \in Nat /\ DOMAIN s = 1 .. n
      /\ \A k \in 1 .. n : /\ s[k].kind = "call" => \E id \in CallId : s[k] = Call(id)
                           /\ s[k].kind = "result" => \E id \in CallId : s[k] = Result(id)
  <2>1. s \in Seq({s[k] : k \in DOMAIN s})
    BY TranscriptAssumption
  <2>2. n \in Nat /\ DOMAIN s = 1 .. n
    BY <2>1
  <2>3. ASSUME NEW k \in DOMAIN s
        PROVE  /\ s[k].kind = "call" => \E id \in CallId : s[k] = Call(id)
               /\ s[k].kind = "result" => \E id \in CallId : s[k] = Result(id)
    BY TranscriptAssumption
  <2>. QED BY <2>2, <2>3
<1>2. ScanParts(open, m) = after[n]
  BY DEF ScanParts
<1>. HIDE DEF n, s
<1>3. PICK Q : Q = SUBSET CallId
  OBVIOUS
<1>4. ASSUME NEW k \in 1 .. n, NEW x \in SUBSET CallId PROVE ScanPart(x, s[k]) \in SUBSET CallId
  <2>1. s[k].kind = "call" => s[k].id \in CallId
    BY <1>1 DEF Call
  <2>. QED BY <2>1 DEF ScanPart
<1>5. open \in Q /\ turn \in [1 .. n -> [Q -> Q]]
  BY <1>3, <1>4
<1>6. PICK f : StatesOf(f, n, Q, open, turn)
  <2>. HIDE DEF turn
  <2>. QED BY <1>1, <1>5, LoopHasStates
<1>7. \A k \in 1 .. n : k \in 0 .. n /\ k - 1 \in 0 .. n /\ k # 0
  BY <1>1
<1>8. f \in [0 .. n -> Q] /\ f[0] = open /\ \A k \in 1 .. n : f[k] = turn[k][f[k - 1]]
  BY <1>6 DEF StatesOf
<1>9. Is(f)
  <2>1. \A k \in 1 .. n : f[k - 1] \in SUBSET CallId
    BY <1>3, <1>7, <1>8
  <2>2. ASSUME NEW k \in 0 .. n
        PROVE  f[k] = IF k = 0 THEN open ELSE ScanPart(f[k - 1], s[k])
    <3>1. CASE k = 0
      BY <1>8, <3>1
    <3>2. CASE k # 0
      <4>1. k \in 1 .. n
        BY <1>1, <3>2
      <4>. QED BY <1>8, <2>1, <3>2, <4>1
    <3>. QED BY <3>1, <3>2
  <2>. QED BY <1>8, <2>2
<1>10. Is(after)
  <2>. HIDE DEF Is
  <2>. QED BY <1>9
<1>. HIDE DEF after
<1>11. /\ after[0] = open
       /\ \A k \in 1 .. n : after[k] = ScanPart(after[k - 1], s[k])
  BY <1>1, <1>7, <1>10
<1>. DEFINE Opened(k, id) == \E j \in 1 .. k : s[j] = Call(id) /\ \A l \in j + 1 .. k : s[l] # Result(id)
            Answered(k, id) == \E l \in 1 .. k : s[l] = Result(id)
            Tells(k, id) == id \in after[k] <=> Opened(k, id) \/ (id \in open /\ ~Answered(k, id))
            Good == {k \in 0 .. n : after[k] \in SUBSET CallId /\ \A id \in CallId : Tells(k, id)}
<1>12. 0 \in Good
  BY <1>1, <1>11
<1>13. ASSUME NEW k \in 1 .. n, k - 1 \in Good PROVE k \in Good
  <2>1. /\ after[k - 1] \in SUBSET CallId /\ after[k] = ScanPart(after[k - 1], s[k])
        /\ \A id \in CallId : Tells(k - 1, id)
    BY <1>11, <1>13
  <2>2. after[k] \in SUBSET CallId
    BY <1>4, <2>1
  <2>3. /\ \A j : j \in 1 .. k <=> j \in 1 .. k - 1 \/ j = k
        /\ \A j \in 1 .. k - 1 : \A l : l \in j + 1 .. k <=> l \in j + 1 .. k - 1 \/ l = k
        /\ k + 1 .. k = {}
    BY <1>1
  <2>4. ASSUME NEW id \in CallId PROVE Tells(k, id)
    <3>1. Tells(k - 1, id)
      BY <2>1
    <3>2. Answered(k, id) <=> Answered(k - 1, id) \/ s[k] = Result(id)
      BY <2>3
    <3>3. Opened(k, id) <=> (Opened(k - 1, id) /\ s[k] # Result(id)) \/ s[k] = Call(id)
      <4>1. ASSUME Opened(k, id) PROVE (Opened(k - 1, id) /\ s[k] # Result(id)) \/ s[k] = Call(id)
        <5>1. PICK j \in 1 .. k : s[j] = Call(id) /\ \A l \in j + 1 .. k : s[l] # Result(id)
          BY <4>1
        <5>2. CASE j = k
          BY <5>1, <5>2
        <5>3. CASE j \in 1 .. k - 1
          <6>1. s[k] # Result(id) /\ \A l \in j + 1 .. k - 1 : s[l] # Result(id)
            BY <2>3, <5>1, <5>3
          <6>. QED BY <5>1, <5>3, <6>1
        <5>. QED BY <2>3, <5>2, <5>3
      <4>2. ASSUME Opened(k - 1, id), s[k] # Result(id) PROVE Opened(k, id)
        <5>1. PICK j \in 1 .. k - 1 : s[j] = Call(id) /\ \A l \in j + 1 .. k - 1 : s[l] # Result(id)
          BY <4>2
        <5>2. j \in 1 .. k /\ \A l \in j + 1 .. k : s[l] # Result(id)
          BY <2>3, <4>2, <5>1
        <5>. QED BY <5>1, <5>2
      <4>3. ASSUME s[k] = Call(id) PROVE Opened(k, id)
        <5>1. k \in 1 .. k /\ \A l \in k + 1 .. k : s[l] # Result(id)
          BY <1>1
        <5>. QED BY <4>3, <5>1
      <4>. QED BY <4>1, <4>2, <4>3
    <3>. HIDE DEF Opened, Answered
    <3>4. CASE s[k].kind = "result"
      <4>1. PICK x \in CallId : s[k] = Result(x)
        BY <1>1, <3>4
      <4>2. after[k] = after[k - 1] \ {x} /\ s[k] # Call(id) /\ (s[k] = Result(id) <=> id = x)
        BY <2>1, <3>4, <4>1 DEF ScanPart, Result, Call
      <4>. QED BY <3>1, <3>2, <3>3, <4>2
    <3>5. CASE s[k].kind = "call"
      <4>1. PICK x \in CallId : s[k] = Call(x)
        BY <1>1, <3>5
      <4>2. after[k] = after[k - 1] \cup {x} /\ s[k] # Result(id) /\ (s[k] = Call(id) <=> id = x)
        BY <2>1, <3>5, <4>1 DEF ScanPart, Result, Call
      <4>. QED BY <3>1, <3>2, <3>3, <4>2
    <3>6. CASE s[k].kind \notin {"call", "result"}
      <4>1. after[k] = after[k - 1] /\ s[k] # Result(id) /\ s[k] # Call(id)
        BY <2>1, <3>6 DEF ScanPart, Result, Call
      <4>. QED BY <3>1, <3>2, <3>3, <4>1
    <3>. QED BY <3>4, <3>5, <3>6
  <2>. HIDE DEF Tells
  <2>. QED BY <1>7, <2>2, <2>4
<1>14. \A k \in 1 .. n : k - 1 \in Good => k \in Good
  BY <1>13
<1>15. n \in Good
  <2>1. \A k \in 0 .. n : k \in Good
    <3>. HIDE DEF Good
    <3>. QED BY <1>1, <1>12, <1>14, CountingUp
  <2>. QED BY <1>1, <2>1
<1>16. ASSUME NEW id \in CallId
       PROVE  /\ Opened(n, id) <=> LeavesOpen(m, id)
              /\ Answered(n, id) <=> HasResult(m, id)
  <2>1. \A j \in 1 .. n : \A l : l \in j + 1 .. n <=> l \in 1 .. n /\ l > j
    BY <1>1
  <2>2. DOMAIN m.parts = 1 .. n /\ s = m.parts
    BY <1>1 DEF s
  <2>. QED BY <2>1, <2>2 DEF LeavesOpen, HasResult
<1>. HIDE DEF Opened, Answered
<1>. QED BY <1>2, <1>15, <1>16

(* What is open before a message and what it does to that is what is open
   before the next. *)
LEMMA OpenNext ==
  ASSUME NEW s, NEW i \in Nat \ {0}, NEW id \in CallId
  PROVE  id \in OpenBefore(s, i + 1) <=>
           LeavesOpen(s[i], id) \/ (id \in OpenBefore(s, i) /\ ~HasResult(s[i], id))
<1>1. /\ \A j : j \in 1 .. (i + 1) - 1 <=> j \in 1 .. i - 1 \/ j = i
      /\ \A j \in 1 .. i - 1 : \A l : l \in j + 1 .. (i + 1) - 1 <=> l \in j + 1 .. i - 1 \/ l = i
      /\ i + 1 .. (i + 1) - 1 = {}
  OBVIOUS
<1>2. ASSUME id \in OpenBefore(s, i + 1)
      PROVE  LeavesOpen(s[i], id) \/ (id \in OpenBefore(s, i) /\ ~HasResult(s[i], id))
  <2>1. PICK j \in 1 .. (i + 1) - 1 :
          LeavesOpen(s[j], id) /\ \A l \in j + 1 .. (i + 1) - 1 : ~HasResult(s[l], id)
    BY <1>2 DEF OpenBefore
  <2>2. CASE j \in 1 .. i - 1
    <3>1. ~HasResult(s[i], id) /\ \A l \in j + 1 .. i - 1 : ~HasResult(s[l], id)
      BY <1>1, <2>1, <2>2
    <3>. QED BY <2>1, <2>2, <3>1 DEF OpenBefore
  <2>. QED BY <1>1, <2>1, <2>2
<1>3. ASSUME LeavesOpen(s[i], id) PROVE id \in OpenBefore(s, i + 1)
  <2>1. i \in 1 .. (i + 1) - 1 /\ \A l \in i + 1 .. (i + 1) - 1 : ~HasResult(s[l], id)
    BY <1>1
  <2>. QED BY <1>3, <2>1 DEF OpenBefore
<1>4. ASSUME id \in OpenBefore(s, i), ~HasResult(s[i], id) PROVE id \in OpenBefore(s, i + 1)
  <2>1. PICK j \in 1 .. i - 1 :
          LeavesOpen(s[j], id) /\ \A l \in j + 1 .. i - 1 : ~HasResult(s[l], id)
    BY <1>4 DEF OpenBefore
  <2>2. j \in 1 .. (i + 1) - 1 /\ \A l \in j + 1 .. (i + 1) - 1 : ~HasResult(s[l], id)
    BY <1>1, <1>4, <2>1
  <2>. QED BY <2>1, <2>2 DEF OpenBefore
<1>. QED BY <1>2, <1>3, <1>4

\* What entry(id).or_insert leaves under a key: the first of the positions, 0
\* where there is none.
First(x, P) == (x = 0 /\ P = {}) \/ (x \in P /\ \A j \in P : x <= j)

\* The first loop of repair after i messages: what it has indexed and drained,
\* and what it holds open of what is.
DrainedUpTo(i) ==
  {id \in CallId : \E j \in 1 .. i : id \in OpenBefore(h, j) /\ ~OnlyResults(h[j])}

ScannedUpTo(scan, i) ==
  /\ \A id \in CallId : /\ First(scan.calls[id], {j \in 1 .. i : HasCall(h[j], id)})
                        /\ First(scan.results[id], {j \in 1 .. i : HasResult(h[j], id)})
  /\ scan.broken = DrainedUpTo(i)
  /\ scan.open \subseteq OpenBefore(h, i + 1)
  /\ OpenBefore(h, i + 1) \subseteq scan.open \cup scan.broken

Scans == [calls : [CallId -> 0 .. Len(h)], results : [CallId -> 0 .. Len(h)],
          broken : SUBSET CallId, open : SUBSET CallId]

LEMMA FirstNext ==
  ASSUME NEW i \in Nat \ {0}, NEW x, NEW P \in SUBSET (1 .. i - 1), First(x, P),
         NEW Q, \A j : j \in Q <=> j \in P \/ j = i
  PROVE  First(IF x = 0 THEN i ELSE x, Q)
<1>1. CASE x = 0 /\ P = {}
  BY <1>1 DEF First
<1>2. CASE x \in P /\ \A j \in P : x <= j
  <2>1. x # 0 /\ x <= i
    BY <1>2
  <2>. QED BY <1>2, <2>1 DEF First
<1>. QED BY <1>1, <1>2 DEF First

LEMMA OrInsertTells ==
  ASSUME NEW n \in Nat, NEW i \in 1 .. n, NEW map \in [CallId -> 0 .. n], NEW ids
  PROVE  /\ OrInsert(map, ids, i) \in [CallId -> 0 .. n]
         /\ \A id \in CallId : OrInsert(map, ids, i)[id] =
              IF id \in ids /\ map[id] = 0 THEN i ELSE map[id]
<1>1. i \in 0 .. n
  OBVIOUS
<1>. QED BY <1>1 DEF OrInsert

(* An iteration of the first loop of repair. *)
LEMMA RepairScanTells ==
  ASSUME h \in Seq(Messages), NEW i \in 1 .. Len(h), NEW scan \in Scans
  PROVE  /\ RepairScan(scan, i) \in Scans
         /\ ScannedUpTo(scan, i - 1) => ScannedUpTo(RepairScan(scan, i), i)
<1>. DEFINE m       == h[i]
            drained == IF MayArriveInside(m) THEN {} ELSE scan.open
            after   == RepairScan(scan, i)
            called   == {id \in CallId : HasCall(m, id)}
            answered == {id \in CallId : HasResult(m, id)}
<1>1. /\ m \in Messages /\ Len(h) \in Nat /\ i \in Nat \ {0}
      /\ scan.calls \in [CallId -> 0 .. Len(h)] /\ scan.results \in [CallId -> 0 .. Len(h)]
      /\ scan.broken \in SUBSET CallId /\ scan.open \in SUBSET CallId
  BY DEF Scans
<1>2. drained \in SUBSET scan.open
  OBVIOUS
<1>3. /\ ScanParts(scan.open \ drained, m) \in SUBSET CallId
      /\ \A id \in CallId : id \in ScanParts(scan.open \ drained, m) <=>
           LeavesOpen(m, id) \/ (id \in scan.open \ drained /\ ~HasResult(m, id))
  <2>1. scan.open \ drained \in SUBSET CallId
    BY <1>1
  <2>. HIDE DEF drained, m
  <2>. QED BY <1>1, <2>1, ScanPartsTell
<1>4. /\ OrInsert(scan.calls, called, i) \in [CallId -> 0 .. Len(h)]
      /\ \A id \in CallId : OrInsert(scan.calls, called, i)[id] =
           IF id \in called /\ scan.calls[id] = 0 THEN i ELSE scan.calls[id]
  <2>1. Len(h) \in Nat /\ i \in 1 .. Len(h) /\ scan.calls \in [CallId -> 0 .. Len(h)]
    BY <1>1
  <2>. HIDE DEF called
  <2>. QED BY ONLY <2>1, OrInsertTells
<1>5. /\ OrInsert(scan.results, answered, i) \in [CallId -> 0 .. Len(h)]
      /\ \A id \in CallId : OrInsert(scan.results, answered, i)[id] =
           IF id \in answered /\ scan.results[id] = 0 THEN i ELSE scan.results[id]
  <2>1. Len(h) \in Nat /\ i \in 1 .. Len(h) /\ scan.results \in [CallId -> 0 .. Len(h)]
    BY <1>1
  <2>. HIDE DEF answered
  <2>. QED BY ONLY <2>1, OrInsertTells
<1>6. after = [calls   |-> OrInsert(scan.calls, called, i),
               results |-> OrInsert(scan.results, answered, i),
               broken  |-> scan.broken \cup drained,
               open    |-> ScanParts(scan.open \ drained, m)]
  BY DEF RepairScan
<1>7. after \in Scans
  <2>1. scan.broken \cup drained \in SUBSET CallId
    BY <1>1, <1>2
  <2>. HIDE DEF after, drained, called, answered, m
  <2>. QED BY <1>3, <1>4, <1>5, <1>6, <2>1 DEF Scans
<1>8. /\ after.calls = OrInsert(scan.calls, called, i)
      /\ after.results = OrInsert(scan.results, answered, i)
      /\ after.broken = scan.broken \cup drained
      /\ after.open = ScanParts(scan.open \ drained, m)
  <2>. HIDE DEF after, drained, called, answered, m
  <2>. QED BY <1>6
<1>9. ASSUME ScannedUpTo(scan, i - 1) PROVE ScannedUpTo(after, i)
  <2>1. /\ \A id \in CallId :
             /\ First(scan.calls[id], {j \in 1 .. i - 1 : HasCall(h[j], id)})
             /\ First(scan.results[id], {j \in 1 .. i - 1 : HasResult(h[j], id)})
        /\ scan.broken = DrainedUpTo(i - 1)
        /\ scan.open \subseteq OpenBefore(h, i)
        /\ OpenBefore(h, i) \subseteq scan.open \cup scan.broken
    <3>1. (i - 1) + 1 = i
      BY <1>1
    <3>. QED BY <1>9, <3>1 DEF ScannedUpTo
  <2>2. \A j : j \in 1 .. i <=> j \in 1 .. i - 1 \/ j = i
    BY <1>1
  <2>3. ASSUME NEW id \in CallId
        PROVE  First(after.calls[id], {j \in 1 .. i : HasCall(h[j], id)})
    <3>. DEFINE P == {j \in 1 .. i - 1 : HasCall(h[j], id)}
                Q == {j \in 1 .. i : HasCall(h[j], id)}
    <3>1. after.calls[id] = IF HasCall(m, id) /\ scan.calls[id] = 0 THEN i ELSE scan.calls[id]
      BY <1>4, <1>8
    <3>2. CASE HasCall(m, id)
      <4>1. \A j : j \in Q <=> j \in P \/ j = i
        BY <2>2, <3>2
      <4>2. P \in SUBSET (1 .. i - 1) /\ First(scan.calls[id], P)
        BY <2>1
      <4>. HIDE DEF P, Q
      <4>3. First(IF scan.calls[id] = 0 THEN i ELSE scan.calls[id], Q)
        BY <1>1, <4>1, <4>2, FirstNext
      <4>4. after.calls[id] = IF scan.calls[id] = 0 THEN i ELSE scan.calls[id]
        BY <3>1, <3>2
      <4>. QED BY <4>3, <4>4 DEF Q
    <3>3. CASE ~HasCall(m, id)
      <4>1. P = Q
        BY <2>2, <3>3
      <4>2. after.calls[id] = scan.calls[id]
        BY <3>1, <3>3
      <4>. QED BY <2>1, <4>1, <4>2
    <3>. QED BY <3>2, <3>3
  <2>4. ASSUME NEW id \in CallId
        PROVE  First(after.results[id], {j \in 1 .. i : HasResult(h[j], id)})
    <3>. DEFINE P == {j \in 1 .. i - 1 : HasResult(h[j], id)}
                Q == {j \in 1 .. i : HasResult(h[j], id)}
    <3>1. after.results[id] = IF HasResult(m, id) /\ scan.results[id] = 0 THEN i ELSE scan.results[id]
      BY <1>5, <1>8
    <3>2. CASE HasResult(m, id)
      <4>1. \A j : j \in Q <=> j \in P \/ j = i
        BY <2>2, <3>2
      <4>2. P \in SUBSET (1 .. i - 1) /\ First(scan.results[id], P)
        BY <2>1
      <4>. HIDE DEF P, Q
      <4>3. First(IF scan.results[id] = 0 THEN i ELSE scan.results[id], Q)
        BY <1>1, <4>1, <4>2, FirstNext
      <4>4. after.results[id] = IF scan.results[id] = 0 THEN i ELSE scan.results[id]
        BY <3>1, <3>2
      <4>. QED BY <4>3, <4>4 DEF Q
    <3>3. CASE ~HasResult(m, id)
      <4>1. P = Q
        BY <2>2, <3>3
      <4>2. after.results[id] = scan.results[id]
        BY <3>1, <3>3
      <4>. QED BY <2>1, <4>1, <4>2
    <3>. QED BY <3>2, <3>3
  <2>5. \A id \in CallId : id \in DrainedUpTo(i) <=>
          id \in DrainedUpTo(i - 1) \/ (id \in OpenBefore(h, i) /\ ~OnlyResults(m))
    BY <2>2 DEF DrainedUpTo
  <2>6. after.broken = DrainedUpTo(i)
    <3>1. after.broken \subseteq CallId /\ DrainedUpTo(i) \subseteq CallId
      BY <1>1, <1>8 DEF DrainedUpTo
    <3>2. CASE OnlyResults(m)
      <4>1. drained = {}
        BY <3>2 DEF MayArriveInside
      <4>. HIDE DEF drained, after, m
      <4>. QED BY <1>8, <2>1, <2>5, <3>1, <3>2, <4>1
    <3>3. CASE ~OnlyResults(m)
      <4>1. drained = scan.open
        BY <3>3 DEF MayArriveInside
      <4>. HIDE DEF drained, after, m
      <4>. QED BY <1>8, <2>1, <2>5, <3>1, <3>3, <4>1
    <3>. QED BY <3>2, <3>3
  <2>7. \A id \in CallId : id \in OpenBefore(h, i + 1) <=>
          LeavesOpen(m, id) \/ (id \in OpenBefore(h, i) /\ ~HasResult(m, id))
    BY <1>1, OpenNext
  <2>8. OpenBefore(h, i + 1) \subseteq CallId
    BY DEF OpenBefore
  <2>9. /\ after.open \subseteq OpenBefore(h, i + 1)
        /\ OpenBefore(h, i + 1) \subseteq after.open \cup after.broken
    <3>. HIDE DEF drained, after, m
    <3>1. ASSUME NEW id \in after.open PROVE id \in OpenBefore(h, i + 1)
      BY <1>3, <1>8, <2>1, <2>7
    <3>2. ASSUME NEW id \in OpenBefore(h, i + 1) PROVE id \in after.open \cup after.broken
      BY <1>3, <1>8, <2>1, <2>7, <2>8
    <3>. QED BY <3>1, <3>2
  <2>. HIDE DEF after
  <2>. QED BY <2>3, <2>4, <2>6, <2>9 DEF ScannedUpTo
<1>. QED BY <1>7, <1>9

(* What the first loop of repair knows of the whole transcript. *)
LEMMA RepairScannedTells ==
  ASSUME h \in Seq(Messages)
  PROVE  ScannedUpTo(RepairScanned, Len(h))
<1>. DEFINE n      == Len(h)
            absent == [id \in CallId |-> 0]
            start  == [calls |-> absent, results |-> absent, broken |-> {}, open |-> {}]
            Is(f)  == f = [i \in 0 .. n |-> IF i = 0 THEN start ELSE RepairScan(f[i - 1], i)]
            after  == CHOOSE f : Is(f)
            turn   == [i \in 1 .. n |-> [x \in Scans |-> RepairScan(x, i)]]
            Good   == {i \in 0 .. n : after[i] \in Scans /\ ScannedUpTo(after[i], i)}
<1>1. n \in Nat /\ n = Len(h)
  OBVIOUS
<1>2. RepairScanned = after[n]
  BY DEF RepairScanned
<1>. HIDE DEF n
<1>3. start \in Scans
  <2>1. absent \in [CallId -> 0 .. Len(h)]
    BY <1>1
  <2>. HIDE DEF absent
  <2>. QED BY <2>1 DEF Scans
<1>4. ScannedUpTo(start, 0)
  <2>1. /\ 1 .. 0 = {}
        /\ \A id \in CallId : start.calls[id] = 0 /\ start.results[id] = 0
        /\ start.broken = {} /\ start.open = {}
    OBVIOUS
  <2>2. DrainedUpTo(0) = {}
    BY <2>1 DEF DrainedUpTo
  <2>3. OpenBefore(h, 0 + 1) = {}
    BY DEF OpenBefore
  <2>. HIDE DEF start
  <2>. QED BY <2>1, <2>2, <2>3 DEF ScannedUpTo, First
<1>. HIDE DEF start
<1>5. \A i \in 1 .. n, x \in Scans :
        /\ RepairScan(x, i) \in Scans
        /\ ScannedUpTo(x, i - 1) => ScannedUpTo(RepairScan(x, i), i)
  BY <1>1, RepairScanTells
<1>6. PICK Q : Q = Scans
  OBVIOUS
<1>7. start \in Q /\ turn \in [1 .. n -> [Q -> Q]]
  BY <1>3, <1>5, <1>6
<1>8. PICK f : StatesOf(f, n, Q, start, turn)
  <2>. HIDE DEF turn
  <2>. QED BY <1>1, <1>7, LoopHasStates
<1>9. \A i \in 1 .. n : i \in 0 .. n /\ i - 1 \in 0 .. n /\ i # 0
  BY <1>1
<1>10. Is(f)
  <2>1. f \in [0 .. n -> Q] /\ f[0] = start /\ \A i \in 1 .. n : f[i] = turn[i][f[i - 1]]
    BY <1>8 DEF StatesOf
  <2>2. \A i \in 1 .. n : f[i - 1] \in Scans
    BY <1>6, <1>9, <2>1
  <2>3. ASSUME NEW i \in 0 .. n
        PROVE  f[i] = IF i = 0 THEN start ELSE RepairScan(f[i - 1], i)
    <3>1. CASE i = 0
      BY <2>1, <3>1
    <3>2. CASE i # 0
      <4>1. i \in 1 .. n
        BY <1>1, <3>2
      <4>. QED BY <2>1, <2>2, <3>2, <4>1
    <3>. QED BY <3>1, <3>2
  <2>. QED BY <2>1, <2>3
<1>11. Is(after)
  <2>. HIDE DEF Is
  <2>. QED BY <1>10
<1>. HIDE DEF after
<1>12. after[0] = start
  <2>1. 0 \in 0 .. n
    BY <1>1
  <2>. QED BY <1>11, <2>1
<1>13. ASSUME NEW i \in 1 .. n PROVE after[i] = RepairScan(after[i - 1], i)
  <2>1. i \in 0 .. n /\ i # 0
    BY <1>9
  <2>. QED BY <1>11, <2>1
<1>14. 0 \in Good
  <2>1. 0 \in 0 .. n
    BY <1>1
  <2>. QED BY <1>3, <1>4, <1>12, <2>1
<1>15. ASSUME NEW i \in 1 .. n, i - 1 \in Good PROVE i \in Good
  BY <1>5, <1>9, <1>13, <1>15
<1>16. \A i \in 0 .. n : i \in Good
  <2>. HIDE DEF Good
  <2>1. \A i \in 1 .. n : i - 1 \in Good => i \in Good
    BY <1>15
  <2>. QED BY <1>1, <1>14, <2>1, CountingUp
<1>17. n \in 0 .. n
  BY <1>1
<1>. QED BY <1>1, <1>2, <1>16, <1>17

(* The two loops of repair leave what Transcript defines. *)
THEOREM RepairLoopIsRepair ==
  ASSUME h \in Seq(Messages)
  PROVE  RepairLoop = Repair(h)
<1>. DEFINE scan     == RepairScanned
            broken   == Broken(h)
            retained == [i \in DOMAIN h |->
                           [h[i] EXCEPT !.parts =
                              Retain(@, {k \in DOMAIN @ : Retained(scan, i, @[k])})]]
            trimmed  == [i \in DOMAIN h |-> Trimmed(h, broken, i)]
<1>1. /\ Len(h) \in Nat /\ DOMAIN h = 1 .. Len(h)
      /\ \A i \in DOMAIN h : h[i] \in Messages /\ i \in Nat
  OBVIOUS
<1>2. ScannedUpTo(scan, Len(h))
  BY RepairScannedTells
<1>. HIDE DEF scan
<1>3. scan.broken = broken
  BY <1>1, <1>2 DEF ScannedUpTo, DrainedUpTo, Broken
<1>. HIDE DEF broken
<1>4. ASSUME NEW i \in DOMAIN h, NEW id \in CallId
      PROVE  /\ scan.calls[id] \in 1 .. i - 1 <=> \E j \in 1 .. i - 1 : HasCall(h[j], id)
             /\ scan.results[id] > i <=>
                  /\ \E j \in DOMAIN h : HasResult(h[j], id)
                  /\ \A j \in DOMAIN h : HasResult(h[j], id) => j > i
  <2>1. /\ First(scan.calls[id], {j \in 1 .. Len(h) : HasCall(h[j], id)})
        /\ First(scan.results[id], {j \in 1 .. Len(h) : HasResult(h[j], id)})
    BY <1>2 DEF ScannedUpTo
  <2>2. scan.calls[id] \in 1 .. i - 1 <=> \E j \in 1 .. i - 1 : HasCall(h[j], id)
    <3>1. \A j \in 1 .. i - 1 : j \in 1 .. Len(h)
      BY <1>1
    <3>. QED BY <1>1, <2>1, <3>1 DEF First
  <2>3. scan.results[id] > i <=>
          /\ \E j \in DOMAIN h : HasResult(h[j], id)
          /\ \A j \in DOMAIN h : HasResult(h[j], id) => j > i
    BY <1>1, <2>1 DEF First
  <2>. QED BY <2>2, <2>3
<1>5. ASSUME NEW i \in DOMAIN h, NEW k \in DOMAIN h[i].parts
      PROVE  Retained(scan, i, h[i].parts[k]) <=> PartKept(h, broken, i, h[i].parts[k])
  <2>0. PICK p : p = h[i].parts[k]
    OBVIOUS
  <2>1. /\ p.kind = "call" => p.id \in CallId
        /\ p.kind = "result" => p.id \in CallId
    <3>1. h[i] \in Messages
      BY <1>1
    <3>2. /\ p.kind = "call" => \E id \in CallId : p = Call(id)
          /\ p.kind = "result" => \E id \in CallId : p = Result(id)
      BY <2>0, <3>1, TranscriptAssumption
    <3>. QED BY <3>2 DEF Call, Result
  <2>2. CASE p.kind = "result"
    <3>1. Retained(scan, i, p) <=> p.id \notin scan.broken /\ scan.calls[p.id] \in 1 .. i - 1
      BY <2>2 DEF Retained
    <3>2. PartKept(h, broken, i, p) <=> ResultKept(h, broken, i, p.id)
      BY <2>2 DEF PartKept
    <3>3. p.id \in CallId
      BY <2>1, <2>2
    <3>. QED BY <1>3, <1>4, <2>0, <3>1, <3>2, <3>3, Zenon DEF ResultKept
  <2>3. CASE p.kind = "call"
    <3>1. Retained(scan, i, p) <=> p.id \notin scan.broken /\ scan.results[p.id] > i
      BY <2>3 DEF Retained
    <3>2. PartKept(h, broken, i, p) <=> CallKept(h, broken, i, p.id)
      BY <2>3 DEF PartKept
    <3>3. p.id \in CallId
      BY <2>1, <2>3
    <3>. QED BY <1>3, <1>4, <2>0, <3>1, <3>2, <3>3, Zenon DEF CallKept
  <2>4. CASE p.kind \notin {"call", "result"}
    <3>1. Retained(scan, i, p) /\ PartKept(h, broken, i, p)
      BY <2>4 DEF Retained, PartKept
    <3>. QED BY <2>0, <3>1, Zenon
  <2>. QED BY <2>2, <2>3, <2>4
<1>6. ASSUME NEW i \in DOMAIN h PROVE retained[i] = trimmed[i]
  <2>. DEFINE s == h[i].parts
              S == {k \in DOMAIN s : Retained(scan, i, s[k])}
              T == {k \in DOMAIN s : PartKept(h, broken, i, s[k])}
  <2>1. S = T
    BY <1>5
  <2>2. Retain(s, S) = Pick(s, S)
    <3>1. PICK M : s \in Seq(M)
      BY <1>1, TranscriptAssumption
    <3>2. S \in SUBSET DOMAIN s
      OBVIOUS
    <3>. HIDE DEF s, S
    <3>. QED BY <3>1, <3>2, RetainPicks
  <2>3. retained[i] = [h[i] EXCEPT !.parts = Retain(s, S)]
    OBVIOUS
  <2>4. trimmed[i] = [h[i] EXCEPT !.parts = Pick(s, T)]
    BY DEF Trimmed
  <2>. HIDE DEF s, S, T, retained, trimmed
  <2>. QED BY <2>1, <2>2, <2>3, <2>4
<1>7. retained = trimmed
  <2>1. retained = [i \in DOMAIN h |-> retained[i]] /\ trimmed = [i \in DOMAIN h |-> trimmed[i]]
    OBVIOUS
  <2>. HIDE DEF retained, trimmed
  <2>. QED BY <1>6, <2>1
<1>8. RepairLoop = Retain(retained, {i \in DOMAIN h : retained[i].parts # <<>>})
  BY DEF RepairLoop, scan
<1>9. Repair(h) = Pick(trimmed, {i \in DOMAIN h : trimmed[i].parts # <<>>})
  BY DEF Repair, broken
<1>10. PICK M : trimmed \in Seq(M)
  <2>. DEFINE X == {trimmed[i] : i \in DOMAIN h}
  <2>1. trimmed \in [1 .. Len(h) -> X]
    BY <1>1
  <2>. HIDE DEF trimmed, X
  <2>2. trimmed \in Seq(X)
    BY <1>1, <2>1
  <2>. QED BY <2>2
<1>11. DOMAIN trimmed = DOMAIN h
  OBVIOUS
<1>. HIDE DEF retained, trimmed
<1>. DEFINE W == {i \in DOMAIN h : trimmed[i].parts # <<>>}
<1>12. W \in SUBSET DOMAIN trimmed
  BY <1>11
<1>13. RepairLoop = Retain(trimmed, W) /\ Repair(h) = Pick(trimmed, W)
  BY <1>7, <1>8, <1>9
<1>. HIDE DEF W
<1>. QED BY <1>10, <1>12, <1>13, RetainPicks

-----------------------------------------------------------------------------
(* Spans and filters of a transcript *)

(* A span of a sequence is what is picked at its positions. *)
LEMMA SpanIsPicked ==
  ASSUME NEW M, NEW s \in Seq(M), NEW a \in DOMAIN s, NEW b \in DOMAIN s, a <= b
  PROVE  SubSeq(s, a, b) = Pick(s, a .. b)
<1>1. PICK n \in Nat : n = Len(s) /\ DOMAIN s = 1 .. n
  OBVIOUS
<1>2. PICK l \in Nat : l = b - a + 1
  BY <1>1
<1>. DEFINE v == SubSeq(s, a, b)
            f == [k \in 1 .. l |-> a + k - 1]
<1>3. \A i \in a .. b : i \in DOMAIN s /\ s[i] \in M /\ i - a + 1 \in 1 .. l /\ a + (i - a + 1) - 1 = i
  BY <1>1, <1>2
<1>4. v \in Seq(M) /\ Len(v) = l /\ \A k \in 1 .. l : v[k] = s[a + k - 1]
  <2>1. a \in Int /\ b \in Int /\ \A i \in a .. b : s[i] \in M
    BY <1>1, <1>3
  <2>2. /\ v \in Seq(M)
        /\ Len(v) = IF a <= b THEN b - a + 1 ELSE 0
        /\ \A k \in 1 .. b - a + 1 : v[k] = s[a + k - 1]
    BY ONLY <2>1, SubSeqProperties
  <2>. QED BY <1>2, <2>2
<1>. HIDE DEF v
<1>5. DOMAIN v = 1 .. l
  BY <1>4
<1>6. /\ f \in [1 .. l -> a .. b]
      /\ \A k \in 1 .. l : f[k] = a + k - 1
  BY <1>1, <1>2
<1>. HIDE DEF f
<1>7. \A k \in 1 .. l : v[k] = s[f[k]]
  BY <1>4, <1>6
<1>8. \A k, m \in 1 .. l : k < m => f[k] < f[m]
  BY <1>1, <1>6
<1>9. \A i \in a .. b : \E k \in 1 .. l : f[k] = i
  BY <1>3, <1>6
<1>10. InOrder(v, s, a .. b)
  <2>1. /\ f \in [DOMAIN v -> a .. b]
        /\ \A k \in DOMAIN v : v[k] = s[f[k]]
        /\ \A k, m \in DOMAIN v : k < m => f[k] < f[m]
        /\ \A i \in a .. b : \E k \in DOMAIN v : f[k] = i
    BY <1>5, <1>6, <1>7, <1>8, <1>9
  <2>. QED BY <2>1 DEF InOrder
<1>11. PICK S \in SUBSET DOMAIN s : S = a .. b
  BY <1>3
<1>12. InOrder(v, s, S)
  BY <1>10, <1>11
<1>13. v = Pick(s, S)
  BY <1>4, <1>12, InOrderIsPick
<1>. QED BY <1>11, <1>13 DEF v

\* The spans of gs are what s has at the sets of D, each behind the ones before
\* it, which X gathers.
InARow(X, D, gs, s) ==
  /\ X \in [0 .. Len(gs) -> SUBSET DOMAIN s]
  /\ D \in [1 .. Len(gs) -> SUBSET DOMAIN s]
  /\ X[0] = {}
  /\ \A k \in 1 .. Len(gs) : /\ gs[k] = Pick(s, D[k])
                             /\ X[k] = X[k - 1] \cup D[k]
                             /\ \A i \in X[k - 1], j \in D[k] : i < j

LEMMA FlattenPicks ==
  ASSUME NEW M, NEW s \in Seq(M), NEW N, NEW gs \in Seq(N), NEW X, NEW D, InARow(X, D, gs, s)
  PROVE  FlattenSeq(gs) = Pick(s, X[Len(gs)])
<1>. DEFINE n     == Len(gs)
            Is(f) == f = [i \in 1 .. Len(gs) |-> IF i = 1 THEN gs[i] ELSE f[i - 1] \o gs[i]]
            flat  == CHOOSE f : Is(f)
            f     == [i \in 1 .. Len(gs) |-> Pick(s, X[i])]
            Good  == {k \in 0 .. n : k = 0 \/ flat[k] = Pick(s, X[k])}
<1>1. /\ n \in Nat /\ X \in [0 .. n -> SUBSET DOMAIN s] /\ D \in [1 .. n -> SUBSET DOMAIN s]
      /\ X[0] = {} /\ n = Len(gs)
  BY DEF InARow
<1>2. \A k \in 1 .. n : /\ gs[k] = Pick(s, D[k])
                        /\ X[k] = X[k - 1] \cup D[k]
                        /\ \A i \in X[k - 1], j \in D[k] : i < j
  BY DEF InARow
<1>3. CASE n = 0
  <2>1. FlattenSeq(gs) = gs /\ gs = <<>>
    BY <1>3 DEF FlattenSeq
  <2>. QED BY <1>1, <1>3, <2>1, NothingPicked
<1>4. CASE n # 0
  <2>1. FlattenSeq(gs) = flat[n]
    BY <1>4 DEF FlattenSeq
  <2>. HIDE DEF n
  <2>2. \A k \in 1 .. n : k \in 0 .. n /\ k - 1 \in 0 .. n /\ k # 0 /\ (k # 1 => k - 1 \in 1 .. n)
    BY <1>1
  <2>3. ASSUME NEW k \in 1 .. n
        PROVE  Pick(s, X[k]) = IF k = 1 THEN gs[k] ELSE Pick(s, X[k - 1]) \o gs[k]
    <3>1. /\ X[k - 1] \in SUBSET DOMAIN s /\ D[k] \in SUBSET DOMAIN s
          /\ \A i \in X[k - 1], j \in D[k] : i < j
          /\ X[k] = X[k - 1] \cup D[k] /\ gs[k] = Pick(s, D[k])
      BY <1>1, <1>2, <2>2
    <3>2. CASE k = 1
      <4>1. X[k - 1] = {}
        BY <1>1, <3>2
      <4>2. X[k] = D[k]
        BY <3>1, <4>1
      <4>. QED BY <3>1, <3>2, <4>2
    <3>3. CASE k # 1
      <4>1. Pick(s, X[k - 1] \cup D[k]) = Pick(s, X[k - 1]) \o Pick(s, D[k])
        BY <3>1, PickedInARow
      <4>. QED BY <3>1, <3>3, <4>1
    <3>. QED BY <3>2, <3>3
  <2>4. Is(f)
    <3>1. \A k \in 1 .. n : f[k] = Pick(s, X[k])
      BY <1>1
    <3>2. \A k \in 1 .. n : f[k] = IF k = 1 THEN gs[k] ELSE f[k - 1] \o gs[k]
      <4>. HIDE DEF f
      <4>. QED BY <2>2, <2>3, <3>1
    <3>3. f = [k \in 1 .. Len(gs) |-> f[k]]
      OBVIOUS
    <3>. HIDE DEF f
    <3>. QED BY <1>1, <3>2, <3>3
  <2>. HIDE DEF f
  <2>5. Is(flat)
    <3>. HIDE DEF Is
    <3>. QED BY <2>4
  <2>. HIDE DEF flat
  <2>6. \A k \in 1 .. n : flat[k] = IF k = 1 THEN gs[k] ELSE flat[k - 1] \o gs[k]
    BY <1>1, <2>5
  <2>7. 0 \in Good
    BY <1>1
  <2>8. ASSUME NEW k \in 1 .. n, k - 1 \in Good PROVE k \in Good
    <3>1. k - 1 = 0 \/ flat[k - 1] = Pick(s, X[k - 1])
      BY <2>8
    <3>2. CASE k = 1
      BY <2>2, <2>3, <2>6, <3>2
    <3>3. CASE k # 1
      <4>1. k - 1 # 0
        BY <1>1, <3>3
      <4>. QED BY <2>2, <2>3, <2>6, <3>1, <3>3, <4>1
    <3>. QED BY <3>2, <3>3
  <2>9. \A k \in 0 .. n : k \in Good
    <3>. HIDE DEF Good
    <3>1. \A k \in 1 .. n : k - 1 \in Good => k \in Good
      BY <2>8
    <3>. QED BY <1>1, <2>7, <3>1, CountingUp
  <2>10. n \in 0 .. n
    BY <1>1
  <2>. QED BY <1>1, <1>4, <2>1, <2>9, <2>10
<1>. QED BY <1>3, <1>4

(* What a filter leaves of what is picked is picked too. *)
LEMMA FilteredPick ==
  ASSUME NEW M, NEW s \in Seq(M), NEW S \in SUBSET DOMAIN s, NEW G
  PROVE  Retain(Pick(s, S), Among(Pick(s, S), G)) = Pick(s, {i \in S : s[i] \in G})
<1>. DEFINE v == Pick(s, S)
            K == Among(v, G)
            T == {i \in S : s[i] \in G}
<1>1. /\ v \in Seq(M)
      /\ \A k \in DOMAIN v : Nth(S, k) \in S /\ v[k] = s[Nth(S, k)]
  BY Picked
<1>. HIDE DEF v
<1>2. K \in SUBSET DOMAIN v
  BY DEF Among
<1>3. \A k : k \in K <=> k \in DOMAIN v /\ Nth(S, k) \in T
  BY <1>1 DEF Among
<1>4. T \in SUBSET S
  OBVIOUS
<1>. HIDE DEF K, T
<1>5. Retain(v, K) = Pick(v, K)
  BY <1>1, <1>2, RetainPicks
<1>6. Pick(v, K) = Pick(s, T)
  <2>1. \A k : k \in K <=> k \in DOMAIN Pick(s, S) /\ Nth(S, k) \in T
    BY <1>3 DEF v
  <2>2. Pick(Pick(s, S), K) = Pick(s, T)
    BY <1>4, <2>1, PickedAgain
  <2>. QED BY <2>2 DEF v
<1>. QED BY <1>5, <1>6 DEF v, K, T

(* The loop that adds up what messages cost. *)
LEMMA TotalCostIsCost ==
  ASSUME NEW v \in Seq(Messages)
  PROVE  TotalCost(v) = Cost(v, DOMAIN v)
<1>. DEFINE n     == Len(v)
            Is(f) == f = [k \in 0 .. Len(v) |->
                            IF k = 0 THEN 0 ELSE f[k - 1] + TokenCost(v[k])]
            sum   == CHOOSE f : Is(f)
            Good(c) == {k \in 0 .. n : sum[k] = c[k]}
<1>1. n \in Nat /\ n = Len(v) /\ DOMAIN v = 1 .. n
  OBVIOUS
<1>2. TotalCost(v) = sum[n]
  BY DEF TotalCost
<1>. HIDE DEF n
<1>3. Costed(Messages)
  BY TranscriptAssumption DEF Costed
<1>4. PICK c : RunsUp(c, v, DOMAIN v) /\ Cost(v, DOMAIN v) = c[n]
  BY <1>1, <1>3, CostIsRunUp
<1>5. /\ c \in [0 .. n -> Nat] /\ c[0] = 0
      /\ \A k \in 1 .. n : c[k] = c[k - 1] + TokenCost(v[k])
  BY <1>1, <1>4 DEF RunsUp, AddedAt
<1>6. \A k \in 0 .. n : c[k] = IF k = 0 THEN 0 ELSE c[k - 1] + TokenCost(v[k])
  BY <1>1, <1>5
<1>7. Is(c)
  BY <1>1, <1>5, <1>6
<1>8. Is(sum)
  <2>. HIDE DEF Is
  <2>. QED BY <1>7
<1>. HIDE DEF sum
<1>9. \A k \in 0 .. n : sum[k] = IF k = 0 THEN 0 ELSE sum[k - 1] + TokenCost(v[k])
  BY <1>1, <1>8
<1>10. 0 \in Good(c)
  BY <1>1, <1>5, <1>9
<1>11. ASSUME NEW k \in 1 .. n, k - 1 \in Good(c) PROVE k \in Good(c)
  <2>1. k \in 0 .. n /\ k # 0
    BY <1>1
  <2>2. sum[k] = sum[k - 1] + TokenCost(v[k]) /\ c[k] = c[k - 1] + TokenCost(v[k])
    BY <1>6, <1>9, <2>1
  <2>. QED BY <1>11, <2>1, <2>2
<1>12. \A k \in 0 .. n : k \in Good(c)
  <2>. HIDE DEF Good
  <2>1. \A k \in 1 .. n : k - 1 \in Good(c) => k \in Good(c)
    BY <1>11
  <2>. QED BY <1>1, <1>10, <2>1, CountingUp
<1>13. n \in 0 .. n
  BY <1>1
<1>. QED BY <1>2, <1>4, <1>12, <1>13

-----------------------------------------------------------------------------
(* The loop of split *)

\* The positions of group g, counting from the oldest.
GroupOf(g) == {j \in DOMAIN h \ TopPinned(h) : UpTo(Starts(h), j) = g}

\* What split knows after i messages: what is open, what is pinned outside a
\* group, and the groups that are over; if start is set, the group it opened
\* holds everything since.
SplitUpTo(scan, i) ==
  LET begun == UpTo(Starts(h), i)
  IN /\ scan.open = OpenBefore(h, i + 1)
     /\ scan.pinned = Pick(h, {j \in TopPinned(h) : j <= i})
     /\ scan.start = 0 => scan.open = {} /\ Len(scan.groups) = begun
     /\ scan.start # 0 => /\ begun = Len(scan.groups) + 1
                          /\ scan.start \in 1 .. i
                          /\ {j \in GroupOf(begun) : j <= i} = scan.start .. i
     /\ {j \in GroupOf(0) : j <= i} = {}
     /\ \A g \in 1 .. Len(scan.groups) :
          scan.groups[g] = Pick(h, {j \in GroupOf(g) : j <= i})

SplitScans == [pinned : Seq(Messages), groups : Seq(Seq(Messages)),
               start : 0 .. Len(h), open : SUBSET CallId]

\* The groups once the one being built is closed before message i.
ClosedBefore(scan, i) ==
  IF scan.start # 0 THEN Append(scan.groups, SubSeq(h, scan.start, i - 1)) ELSE scan.groups

(* The three things an iteration of split may do. *)
LEMMA SplitScanDoes ==
  ASSUME h \in Seq(Messages), NEW i \in 1 .. Len(h), NEW scan \in SplitScans
  PROVE  /\ SplitScan(scan, i) \in SplitScans
         /\ scan.open = {} /\ Pinned(h[i]) =>
              SplitScan(scan, i) = [pinned |-> Append(scan.pinned, h[i]),
                                    groups |-> ClosedBefore(scan, i),
                                    start  |-> 0, open |-> {}]
         /\ scan.open = {} /\ ~Pinned(h[i]) =>
              SplitScan(scan, i) = [pinned |-> scan.pinned,
                                    groups |-> ClosedBefore(scan, i),
                                    start  |-> i, open |-> ScanParts(scan.open, h[i])]
         /\ scan.open # {} =>
              SplitScan(scan, i) = [pinned |-> scan.pinned, groups |-> scan.groups,
                                    start  |-> IF scan.start = 0 THEN i ELSE scan.start,
                                    open   |-> ScanParts(scan.open, h[i])]
<1>. DEFINE m     == h[i]
            after == SplitScan(scan, i)
            A     == [pinned |-> Append(scan.pinned, m), groups |-> ClosedBefore(scan, i),
                      start  |-> 0, open |-> {}]
            B     == [pinned |-> scan.pinned, groups |-> ClosedBefore(scan, i),
                      start  |-> i, open |-> ScanParts(scan.open, m)]
            C     == [pinned |-> scan.pinned, groups |-> scan.groups,
                      start  |-> IF scan.start = 0 THEN i ELSE scan.start,
                      open   |-> ScanParts(scan.open, m)]
<1>1. /\ Len(h) \in Nat /\ m \in Messages
      /\ scan.pinned \in Seq(Messages) /\ scan.groups \in Seq(Seq(Messages))
      /\ scan.start \in 0 .. Len(h) /\ scan.open \in SUBSET CallId
      /\ scan = [pinned |-> scan.pinned, groups |-> scan.groups,
                 start |-> scan.start, open |-> scan.open]
  BY DEF SplitScans
<1>2. ScanParts(scan.open, m) \in SUBSET CallId
  BY <1>1, ScanPartsTell
<1>3. ClosedBefore(scan, i) \in Seq(Seq(Messages))
  <2>1. CASE scan.start = 0
    BY <1>1, <2>1 DEF ClosedBefore
  <2>2. CASE scan.start # 0
    <3>1. scan.start \in Int /\ i - 1 \in Int /\ \A k \in scan.start .. i - 1 : h[k] \in Messages
      BY <1>1, <2>2
    <3>2. SubSeq(h, scan.start, i - 1) \in Seq(Messages)
      BY ONLY <3>1, SubSeqProperties
    <3>. QED BY <1>1, <2>2, <3>2 DEF ClosedBefore
  <2>. QED BY <2>1, <2>2
<1>4. Append(scan.pinned, m) \in Seq(Messages)
  BY <1>1
<1>5. i \in 0 .. Len(h) /\ 0 \in 0 .. Len(h)
  BY <1>1
<1>6. A \in SplitScans
  <2>. HIDE DEF m
  <2>. QED BY <1>3, <1>4, <1>5 DEF SplitScans
<1>7. B \in SplitScans /\ C \in SplitScans
  <2>. HIDE DEF m
  <2>. QED BY <1>1, <1>2, <1>3, <1>5 DEF SplitScans
<1>8. ASSUME scan.open = {} PROVE ~(\E id \in scan.open : HasResult(m, id))
  BY <1>8
<1>9. ASSUME scan.open = {}, Pinned(m) PROVE after = A
  <2>1. after = [scan EXCEPT !.groups = ClosedBefore(scan, i), !.start = 0,
                             !.pinned = Append(@, m)]
    BY <1>8, <1>9 DEF SplitScan, GroupClosed, ClosedBefore
  <2>. HIDE DEF after, m
  <2>. QED BY <1>1, <1>9, <2>1
<1>10. ASSUME scan.open = {}, ~Pinned(m) PROVE after = B
  <2>1. after = [scan EXCEPT !.groups = ClosedBefore(scan, i), !.start = i,
                             !.open = ScanParts(@, m)]
    BY <1>8, <1>10 DEF SplitScan, GroupClosed, ClosedBefore
  <2>. HIDE DEF after, m
  <2>. QED BY <1>1, <2>1
<1>11. ASSUME scan.open # {} PROVE after = C
  <2>1. after = [scan EXCEPT !.groups = scan.groups,
                             !.start = IF scan.start = 0 THEN i ELSE scan.start,
                             !.open = ScanParts(@, m)]
    BY <1>11 DEF SplitScan, GroupClosed
  <2>. HIDE DEF after, m
  <2>. QED BY <1>1, <2>1
<1>12. after \in SplitScans
  <2>. HIDE DEF A, B, C, after, m
  <2>. QED BY <1>6, <1>7, <1>9, <1>10, <1>11
<1>. QED BY <1>9, <1>10, <1>11, <1>12

(* Positions are counted up in order. *)
LEMMA GroupsAreCounted ==
  ASSUME h \in Seq(Messages), NEW i \in 1 .. Len(h)
  PROVE  /\ UpTo(Starts(h), i) \in Nat /\ UpTo(Starts(h), i - 1) \in Nat
         /\ UpTo(Starts(h), i) = UpTo(Starts(h), i - 1) + (IF i \in Starts(h) THEN 1 ELSE 0)
         /\ \A j \in DOMAIN h : j <= i - 1 => UpTo(Starts(h), j) <= UpTo(Starts(h), i - 1)
         /\ \A g \in Nat :
              {j \in GroupOf(g) : j <= i}
                = IF i \notin TopPinned(h) /\ UpTo(Starts(h), i) = g
                  THEN {j \in GroupOf(g) : j <= i - 1} \cup {i}
                  ELSE {j \in GroupOf(g) : j <= i - 1}
<1>1. PICK n \in Nat : n = Len(h) /\ DOMAIN h = 1 .. n
  OBVIOUS
<1>2. Starts(h) \in SUBSET (1 .. n)
  BY <1>1 DEF Starts, Boundaries
<1>3. /\ UpTo(Starts(h), i) \in Nat /\ UpTo(Starts(h), i - 1) \in Nat
      /\ UpTo(Starts(h), i) = UpTo(Starts(h), i - 1) + (IF i \in Starts(h) THEN 1 ELSE 0)
  <2>1. n \in Nat /\ i \in 1 .. n
    BY <1>1
  <2>2. PICK S \in SUBSET (1 .. n) : S = Starts(h)
    BY <1>2
  <2>3. \A k \in 1 .. n : UpTo(S, k) \in Nat /\ UpTo(S, k - 1) \in Nat
    BY UpToNext
  <2>4. \A k \in 1 .. n : k \in S => UpTo(S, k) = UpTo(S, k - 1) + 1
    BY UpToNext
  <2>5. ASSUME NEW k \in 1 .. n, k \notin S PROVE UpTo(S, k) = UpTo(S, k - 1)
    <3>1. \A j \in S : j # k
      BY <2>5
    <3>2. \A j \in S : j \in 1 .. n
      OBVIOUS
    <3>3. \A j \in S : j <= k <=> j <= k - 1
      BY <3>1, <3>2
    <3>4. {j \in S : j <= k} = {j \in S : j <= k - 1}
      BY <3>3
    <3>. QED BY <3>4, Zenon DEF UpTo
  <2>. QED BY <2>1, <2>2, <2>3, <2>4, <2>5
<1>4. ASSUME NEW j \in DOMAIN h, j <= i - 1
      PROVE  UpTo(Starts(h), j) <= UpTo(Starts(h), i - 1)
  <2>. DEFINE E == {s \in Starts(h) : s <= j}
              F == {s \in Starts(h) : s <= i - 1}
  <2>1. E \subseteq F
    BY <1>1, <1>2, <1>4
  <2>2. i - 1 \in Nat
    BY <1>1
  <2>3. IsFiniteSet(F)
    BY <2>2, StartsAreFinite
  <2>. HIDE DEF E, F
  <2>4. Cardinality(E) <= Cardinality(F)
    BY <2>1, <2>3, FS_Subset
  <2>. QED BY <2>4 DEF UpTo, E, F
<1>5. \A j \in DOMAIN h : j <= i <=> j <= i - 1 \/ j = i
  BY <1>1
<1>6. GroupOf(UpTo(Starts(h), i)) \subseteq DOMAIN h /\ i \in DOMAIN h
  BY <1>1 DEF GroupOf
<1>7. ASSUME NEW g \in Nat
      PROVE  {j \in GroupOf(g) : j <= i}
                = IF i \notin TopPinned(h) /\ UpTo(Starts(h), i) = g
                  THEN {j \in GroupOf(g) : j <= i - 1} \cup {i}
                  ELSE {j \in GroupOf(g) : j <= i - 1}
  <2>1. i \in GroupOf(g) <=> i \notin TopPinned(h) /\ UpTo(Starts(h), i) = g
    BY <1>6 DEF GroupOf
  <2>2. \A j \in GroupOf(g) : j \in DOMAIN h
    BY DEF GroupOf
  <2>3. CASE i \in GroupOf(g)
    <3>1. i <= i
      BY <1>1
    <3>2. {j \in GroupOf(g) : j <= i} = {j \in GroupOf(g) : j <= i - 1} \cup {i}
      BY <1>5, <2>2, <2>3
    <3>. QED BY <2>1, <2>3, <3>2
  <2>4. CASE i \notin GroupOf(g)
    <3>1. {j \in GroupOf(g) : j <= i} = {j \in GroupOf(g) : j <= i - 1}
      BY <1>5, <2>2, <2>4
    <3>. QED BY <2>1, <2>4, <3>1
  <2>. QED BY <2>3, <2>4
<1>. QED BY <1>3, <1>4, <1>7

(* No pinned message makes a call, so nothing is open behind one that arrives
   with nothing open. *)
LEMMA NothingOpenBehindPinned ==
  ASSUME h \in Seq(Messages), NEW i \in 1 .. Len(h), OpenBefore(h, i) = {}, Pinned(h[i])
  PROVE  OpenBefore(h, i + 1) = {}
<1>1. h[i] \in Messages /\ i \in Nat \ {0}
  OBVIOUS
<1>2. \A id \in CallId : ~HasCall(h[i], id)
  BY <1>1, MessagesAreBuilt DEF PinnedAreBare
<1>3. \A id \in CallId : ~LeavesOpen(h[i], id)
  BY <1>2 DEF LeavesOpen, HasCall
<1>4. \A id \in CallId : id \in OpenBefore(h, i + 1) <=>
        LeavesOpen(h[i], id) \/ (id \in OpenBefore(h, i) /\ ~HasResult(h[i], id))
  BY <1>1, OpenNext
<1>5. OpenBefore(h, i + 1) \subseteq CallId
  BY DEF OpenBefore
<1>. QED BY <1>3, <1>4, <1>5

(* An iteration of split. *)
LEMMA SplitScanTells ==
  ASSUME h \in Seq(Messages), NEW i \in 1 .. Len(h), NEW scan \in SplitScans,
         SplitUpTo(scan, i - 1)
  PROVE  SplitUpTo(SplitScan(scan, i), i)
<1>. DEFINE m     == h[i]
            S     == Starts(h)
            T     == TopPinned(h)
            after == SplitScan(scan, i)
            Had(g) == {j \in GroupOf(g) : j <= i - 1}
            Has(g) == {j \in GroupOf(g) : j <= i}
            over  == Len(scan.groups)
            closed == ClosedBefore(scan, i)
<1>1. /\ Len(h) \in Nat /\ m \in Messages /\ i \in Nat \ {0} /\ DOMAIN h = 1 .. Len(h)
      /\ i \in DOMAIN h
      /\ scan.pinned \in Seq(Messages) /\ scan.groups \in Seq(Seq(Messages))
      /\ scan.start \in 0 .. Len(h) /\ scan.open \in SUBSET CallId
      /\ over \in Nat
  BY DEF SplitScans
<1>2. PICK before \in Nat : before = UpTo(S, i - 1)
  BY GroupsAreCounted
<1>3. PICK begun \in Nat : begun = UpTo(S, i)
  BY GroupsAreCounted
<1>4. /\ i \in S => begun = before + 1
      /\ i \notin S => begun = before
  BY <1>2, <1>3, GroupsAreCounted
<1>5. \A g \in Nat : Has(g) = IF i \notin T /\ begun = g THEN Had(g) \cup {i} ELSE Had(g)
  BY <1>3, GroupsAreCounted
<1>6. \A g \in Nat : g > before => Had(g) = {}
  <2>1. \A j \in DOMAIN h : j <= i - 1 => UpTo(S, j) <= before
    BY <1>2, GroupsAreCounted
  <2>2. ASSUME NEW g \in Nat, g > before, NEW j \in GroupOf(g) PROVE ~(j <= i - 1)
    <3>1. j \in DOMAIN h /\ UpTo(S, j) = g
      BY DEF GroupOf
    <3>. QED BY <2>1, <2>2, <3>1
  <2>. QED BY <2>2
<1>7. /\ scan.open = OpenBefore(h, i)
      /\ scan.pinned = Pick(h, {j \in T : j <= i - 1})
      /\ scan.start = 0 => scan.open = {} /\ over = before
      /\ scan.start # 0 => /\ before = over + 1
                           /\ scan.start \in 1 .. i - 1
                           /\ Had(before) = scan.start .. i - 1
      /\ Had(0) = {}
      /\ \A g \in 1 .. over : scan.groups[g] = Pick(h, Had(g))
  <2>1. (i - 1) + 1 = i
    BY <1>1
  <2>. QED BY <1>2, <2>1 DEF SplitUpTo
<1>8. /\ i \in T <=> OpenBefore(h, i) = {} /\ Pinned(m)
      /\ i \in S <=> OpenBefore(h, i) = {} /\ ~Pinned(m)
  BY <1>1 DEF TopPinned, Starts, Boundaries
<1>9. \A j \in T : j \in DOMAIN h
  BY DEF TopPinned, Boundaries
<1>. HIDE DEF S, T, Had, Has
\* Closed, the group being built is one more that is over.
<1>10. /\ closed \in Seq(Seq(Messages)) /\ Len(closed) = before
       /\ \A g \in 1 .. before : closed[g] = Pick(h, Had(g))
  <2>1. CASE scan.start = 0
    <3>1. closed = scan.groups
      BY <2>1 DEF ClosedBefore
    <3>. HIDE DEF closed
    <3>. QED BY <1>1, <1>7, <2>1, <3>1
  <2>2. CASE scan.start # 0
    <3>. DEFINE span == SubSeq(h, scan.start, i - 1)
    <3>1. /\ before = over + 1 /\ Had(before) = scan.start .. i - 1
          /\ scan.start \in DOMAIN h /\ i - 1 \in DOMAIN h /\ scan.start <= i - 1
      BY <1>1, <1>7, <2>2
    <3>2. span = Pick(h, scan.start .. i - 1)
      BY <3>1, SpanIsPicked
    <3>3. span = Pick(h, Had(before))
      BY <3>1, <3>2
    <3>4. span \in Seq(Messages)
      <4>1. scan.start \in Int /\ i - 1 \in Int /\ \A k \in scan.start .. i - 1 : h[k] \in Messages
        BY <1>1, <3>1
      <4>. QED BY ONLY <4>1, SubSeqProperties
    <3>5. closed = Append(scan.groups, span)
      BY <2>2 DEF ClosedBefore
    <3>. HIDE DEF span, closed
    <3>6. /\ closed \in Seq(Seq(Messages)) /\ Len(closed) = before
          /\ \A g \in 1 .. over : closed[g] = scan.groups[g]
          /\ closed[over + 1] = span
      BY <1>1, <3>1, <3>4, <3>5
    <3>7. \A g \in 1 .. before : g \in 1 .. over \/ g = before
      BY <1>1, <3>1
    <3>. QED BY <1>7, <3>1, <3>3, <3>6, <3>7
  <2>. QED BY <2>1, <2>2
<1>11. ASSUME scan.open = {}, Pinned(m) PROVE SplitUpTo(after, i)
  <2>1. /\ after.pinned = Append(scan.pinned, m) /\ after.groups = closed
        /\ after.start = 0 /\ after.open = {}
    <3>1. after = [pinned |-> Append(scan.pinned, m), groups |-> closed, start |-> 0, open |-> {}]
      BY <1>11, SplitScanDoes
    <3>. HIDE DEF after, m, closed
    <3>. QED BY <3>1
  <2>2. i \in T /\ i \notin S
    BY <1>7, <1>8, <1>11
  <2>3. \A g \in Nat : Has(g) = Had(g)
    BY <1>5, <2>2
  <2>4. OpenBefore(h, i + 1) = {}
    BY <1>7, <1>11, NothingOpenBehindPinned
  <2>5. Append(scan.pinned, m) = Pick(h, {j \in T : j <= i})
    <3>1. PICK W \in SUBSET DOMAIN h : W = {j \in T : j <= i - 1}
      BY <1>9
    <3>2. \A j \in W : j < i
      BY <1>1, <3>1
    <3>3. Pick(h, W \cup {i}) = Append(Pick(h, W), h[i])
      BY <1>1, <3>2, PickedLast
    <3>4. {j \in T : j <= i} = W \cup {i}
      <4>1. \A j \in T : j <= i <=> j <= i - 1 \/ j = i
        BY <1>1, <1>9
      <4>. QED BY <2>2, <3>1, <4>1
    <3>. QED BY <1>7, <3>1, <3>3, <3>4
  <2>6. begun = before
    BY <1>4, <2>2
  <2>7. \A g \in 1 .. Len(after.groups) : after.groups[g] = Pick(h, Has(g))
    <3>1. \A g \in 1 .. before : g \in Nat
      OBVIOUS
    <3>. HIDE DEF after, closed
    <3>. QED BY <1>10, <2>1, <2>3, <3>1
  <2>8. Has(0) = {}
    BY <1>7, <2>3
  <2>9. Len(after.groups) = begun
    BY <1>10, <2>1, <2>6
  <2>. HIDE DEF after
  <2>. QED BY <1>3, <2>1, <2>4, <2>5, <2>7, <2>8, <2>9 DEF SplitUpTo, Has, S, T
<1>12. OpenBefore(h, i + 1) = ScanParts(scan.open, m)
  <2>1. /\ ScanParts(scan.open, m) \in SUBSET CallId
        /\ \A id \in CallId : id \in ScanParts(scan.open, m) <=>
             LeavesOpen(m, id) \/ (id \in scan.open /\ ~HasResult(m, id))
    BY <1>1, ScanPartsTell
  <2>2. \A id \in CallId : id \in OpenBefore(h, i + 1) <=>
          LeavesOpen(m, id) \/ (id \in OpenBefore(h, i) /\ ~HasResult(m, id))
    BY <1>1, OpenNext
  <2>3. OpenBefore(h, i + 1) \subseteq CallId
    BY DEF OpenBefore
  <2>. HIDE DEF m
  <2>. QED BY <1>7, <2>1, <2>2, <2>3
<1>13. i \notin T => {j \in T : j <= i} = {j \in T : j <= i - 1}
  <2>1. ASSUME i \notin T PROVE \A j \in T : j <= i <=> j <= i - 1
    BY <1>1, <1>9, <2>1
  <2>. QED BY <2>1
<1>14. ASSUME scan.open = {}, ~Pinned(m) PROVE SplitUpTo(after, i)
  <2>1. /\ after.pinned = scan.pinned /\ after.groups = closed
        /\ after.start = i /\ after.open = OpenBefore(h, i + 1)
    <3>1. after = [pinned |-> scan.pinned, groups |-> closed, start |-> i,
                   open |-> ScanParts(scan.open, m)]
      BY <1>14, SplitScanDoes
    <3>. HIDE DEF after, m, closed
    <3>. QED BY <1>12, <3>1
  <2>2. i \notin T /\ i \in S /\ begun = before + 1
    BY <1>4, <1>7, <1>8, <1>14
  <2>3. \A g \in 0 .. before : Has(g) = Had(g)
    <3>1. \A g \in 0 .. before : g \in Nat /\ begun # g
      BY <2>2
    <3>. QED BY <1>5, <3>1
  <2>4. Has(begun) = i .. i
    <3>1. Had(begun) = {}
      BY <1>6, <2>2
    <3>2. Has(begun) = Had(begun) \cup {i}
      BY <1>5, <2>2
    <3>3. i .. i = {i}
      BY <1>1
    <3>. QED BY <3>1, <3>2, <3>3
  <2>5. after.pinned = Pick(h, {j \in T : j <= i})
    BY <1>7, <1>13, <2>1, <2>2
  <2>6. \A g \in 1 .. Len(after.groups) : after.groups[g] = Pick(h, Has(g))
    <3>1. \A g \in 1 .. before : g \in 0 .. before
      OBVIOUS
    <3>. HIDE DEF after, closed
    <3>. QED BY <1>10, <2>1, <2>3, <3>1
  <2>7. Has(0) = {}
    <3>1. 0 \in 0 .. before
      OBVIOUS
    <3>. QED BY <1>7, <2>3, <3>1
  <2>8. begun = Len(after.groups) + 1 /\ after.start \in 1 .. i /\ after.start # 0
    BY <1>1, <1>10, <2>1, <2>2
  <2>9. Has(begun) = after.start .. i
    BY <2>1, <2>4
  <2>. HIDE DEF after
  <2>. QED BY <1>3, <2>1, <2>5, <2>6, <2>7, <2>8, <2>9 DEF SplitUpTo, Has, S, T
<1>15. ASSUME scan.open # {} PROVE SplitUpTo(after, i)
  <2>0. scan.start # 0
    BY <1>7, <1>15
  <2>1. /\ after.pinned = scan.pinned /\ after.groups = scan.groups
        /\ after.start = scan.start /\ after.open = OpenBefore(h, i + 1)
    <3>1. after = [pinned |-> scan.pinned, groups |-> scan.groups,
                   start |-> IF scan.start = 0 THEN i ELSE scan.start,
                   open |-> ScanParts(scan.open, m)]
      BY <1>15, SplitScanDoes
    <3>. HIDE DEF after, m
    <3>. QED BY <1>12, <2>0, <3>1
  <2>2. i \notin T /\ i \notin S /\ begun = before
    BY <1>4, <1>7, <1>8, <1>15
  <2>3. before = over + 1 /\ scan.start \in 1 .. i - 1 /\ Had(before) = scan.start .. i - 1
    BY <1>7, <2>0
  <2>4. \A g \in 0 .. over : Has(g) = Had(g)
    <3>1. \A g \in 0 .. over : g \in Nat /\ begun # g
      BY <1>1, <2>2, <2>3
    <3>. QED BY <1>5, <3>1
  <2>5. Has(begun) = scan.start .. i
    <3>1. Has(begun) = Had(begun) \cup {i}
      BY <1>5, <2>2
    <3>2. scan.start .. i = (scan.start .. i - 1) \cup {i}
      BY <1>1, <2>3
    <3>. QED BY <2>2, <2>3, <3>1, <3>2
  <2>6. after.pinned = Pick(h, {j \in T : j <= i})
    BY <1>7, <1>13, <2>1, <2>2
  <2>7. \A g \in 1 .. Len(after.groups) : after.groups[g] = Pick(h, Has(g))
    <3>1. \A g \in 1 .. over : g \in 0 .. over
      BY <1>1
    <3>. HIDE DEF after
    <3>. QED BY <1>7, <2>1, <2>4, <3>1
  <2>8. Has(0) = {}
    <3>1. 0 \in 0 .. over
      BY <1>1
    <3>. QED BY <1>7, <2>4, <3>1
  <2>9. begun = Len(after.groups) + 1 /\ after.start \in 1 .. i /\ after.start # 0
    BY <1>1, <2>0, <2>1, <2>2, <2>3
  <2>10. Has(begun) = after.start .. i
    BY <2>1, <2>5
  <2>. HIDE DEF after
  <2>. QED BY <1>3, <2>1, <2>6, <2>7, <2>8, <2>9, <2>10 DEF SplitUpTo, Has, S, T
<1>. QED BY <1>11, <1>14, <1>15

(* The loop of split: the locals behind the last message. *)
LEMMA SplitLoopTells ==
  ASSUME h \in Seq(Messages)
  PROVE  \E scan \in SplitScans :
           /\ SplitUpTo(scan, Len(h))
           /\ Split = [pinned |-> scan.pinned,
                       groups |-> IF scan.start = 0 THEN scan.groups
                                  ELSE Append(scan.groups, SubSeq(h, scan.start, Len(h)))]
<1>. DEFINE n     == Len(h)
            start == [pinned |-> <<>>, groups |-> <<>>, start |-> 0, open |-> {}]
            Is(f) == f = [i \in 0 .. Len(h) |-> IF i = 0 THEN start ELSE SplitScan(f[i - 1], i)]
            after == CHOOSE f : Is(f)
            turn  == [i \in 1 .. n |-> [x \in SplitScans |-> SplitScan(x, i)]]
            Good  == {i \in 0 .. n : after[i] \in SplitScans /\ SplitUpTo(after[i], i)}
<1>1. n \in Nat /\ n = Len(h) /\ DOMAIN h = 1 .. n
  OBVIOUS
<1>2. Split = [pinned |-> after[n].pinned,
               groups |-> IF after[n].start = 0 THEN after[n].groups
                          ELSE Append(after[n].groups, SubSeq(h, after[n].start, n))]
  BY DEF Split
<1>. HIDE DEF n
<1>3. start \in SplitScans
  <2>1. 0 \in 0 .. Len(h)
    BY <1>1
  <2>. QED BY <2>1 DEF SplitScans
<1>4. SplitUpTo(start, 0)
  <2>1. start.pinned = <<>> /\ start.groups = <<>> /\ start.start = 0 /\ start.open = {}
    OBVIOUS
  <2>2. OpenBefore(h, 0 + 1) = {}
    BY DEF OpenBefore
  <2>3. \A j \in DOMAIN h : ~(j <= 0)
    BY <1>1
  <2>4. /\ {j \in TopPinned(h) : j <= 0} = {} /\ {j \in Starts(h) : j <= 0} = {}
        /\ {j \in GroupOf(0) : j <= 0} = {}
    BY <2>3 DEF TopPinned, Starts, Boundaries, GroupOf
  <2>5. UpTo(Starts(h), 0) = 0
    BY <2>4, FS_EmptySet, Zenon DEF UpTo
  <2>6. Pick(h, {}) = <<>>
    BY NothingPicked
  <2>7. Len(start.groups) = 0 /\ 1 .. 0 = {}
    BY <2>1
  <2>. HIDE DEF start
  <2>. QED BY <2>1, <2>2, <2>4, <2>5, <2>6, <2>7 DEF SplitUpTo
<1>. HIDE DEF start
<1>5. \A i \in 1 .. n, x \in SplitScans :
        /\ SplitScan(x, i) \in SplitScans
        /\ SplitUpTo(x, i - 1) => SplitUpTo(SplitScan(x, i), i)
  BY <1>1, SplitScanDoes, SplitScanTells
<1>6. PICK Q : Q = SplitScans
  OBVIOUS
<1>7. start \in Q /\ turn \in [1 .. n -> [Q -> Q]]
  BY <1>3, <1>5, <1>6
<1>8. PICK f : StatesOf(f, n, Q, start, turn)
  <2>. HIDE DEF turn
  <2>. QED BY <1>1, <1>7, LoopHasStates
<1>9. \A i \in 1 .. n : i \in 0 .. n /\ i - 1 \in 0 .. n /\ i # 0
  BY <1>1
<1>10. Is(f)
  <2>1. f \in [0 .. n -> Q] /\ f[0] = start /\ \A i \in 1 .. n : f[i] = turn[i][f[i - 1]]
    BY <1>8 DEF StatesOf
  <2>2. \A i \in 1 .. n : f[i - 1] \in SplitScans
    BY <1>6, <1>9, <2>1
  <2>3. ASSUME NEW i \in 0 .. n
        PROVE  f[i] = IF i = 0 THEN start ELSE SplitScan(f[i - 1], i)
    <3>1. CASE i = 0
      BY <2>1, <3>1
    <3>2. CASE i # 0
      <4>1. i \in 1 .. n
        BY <1>1, <3>2
      <4>. QED BY <2>1, <2>2, <3>2, <4>1
    <3>. QED BY <3>1, <3>2
  <2>. QED BY <1>1, <2>1, <2>3
<1>11. Is(after)
  <2>. HIDE DEF Is
  <2>. QED BY <1>10
<1>. HIDE DEF after
<1>12. after[0] = start
  <2>1. 0 \in 0 .. n
    BY <1>1
  <2>. QED BY <1>1, <1>11, <2>1
<1>13. ASSUME NEW i \in 1 .. n PROVE after[i] = SplitScan(after[i - 1], i)
  <2>1. i \in 0 .. n /\ i # 0
    BY <1>9
  <2>. QED BY <1>1, <1>11, <2>1
<1>14. 0 \in Good
  <2>1. 0 \in 0 .. n
    BY <1>1
  <2>. QED BY <1>3, <1>4, <1>12, <2>1
<1>15. ASSUME NEW i \in 1 .. n, i - 1 \in Good PROVE i \in Good
  BY <1>5, <1>9, <1>13, <1>15
<1>16. \A i \in 0 .. n : i \in Good
  <2>. HIDE DEF Good
  <2>1. \A i \in 1 .. n : i - 1 \in Good => i \in Good
    BY <1>15
  <2>. QED BY <1>1, <1>14, <2>1, CountingUp
<1>17. n \in 0 .. n
  BY <1>1
<1>18. after[n] \in SplitScans /\ SplitUpTo(after[n], n)
  BY <1>16, <1>17
<1>. QED BY <1>1, <1>2, <1>18

(* What split returns: the turns pinned outside the groups, and the groups. *)
LEMMA SplitTells ==
  ASSUME h \in Seq(Messages)
  PROVE  /\ Split.pinned = Pick(h, TopPinned(h))
         /\ Split.groups \in Seq(Seq(Messages)) /\ Len(Split.groups) = GroupCount(h)
         /\ \A g \in 1 .. GroupCount(h) : Split.groups[g] = Pick(h, GroupOf(g))
         /\ GroupOf(0) = {}
<1>1. PICK n \in Nat : n = Len(h) /\ DOMAIN h = 1 .. n
  OBVIOUS
<1>2. PICK scan \in SplitScans :
        /\ SplitUpTo(scan, n)
        /\ Split = [pinned |-> scan.pinned,
                    groups |-> IF scan.start = 0 THEN scan.groups
                               ELSE Append(scan.groups, SubSeq(h, scan.start, n))]
  BY <1>1, SplitLoopTells
<1>. DEFINE over == Len(scan.groups)
            N    == GroupCount(h)
<1>3. /\ scan.groups \in Seq(Seq(Messages)) /\ scan.start \in 0 .. n /\ over \in Nat
  BY <1>1 DEF SplitScans
<1>4. \A j \in DOMAIN h : j <= n
  BY <1>1
<1>5. /\ {j \in TopPinned(h) : j <= n} = TopPinned(h)
      /\ {j \in Starts(h) : j <= n} = Starts(h)
      /\ \A g : {j \in GroupOf(g) : j <= n} = GroupOf(g)
  BY <1>4 DEF TopPinned, Starts, Boundaries, GroupOf
<1>6. UpTo(Starts(h), n) = N
  BY <1>5, Zenon DEF UpTo, GroupCount
<1>7. N \in Nat
  BY StartsAreFinite, 0 \in Nat
<1>. HIDE DEF N
<1>8. /\ scan.pinned = Pick(h, TopPinned(h))
      /\ scan.start = 0 => over = N
      /\ scan.start # 0 => /\ N = over + 1
                           /\ scan.start \in 1 .. n
                           /\ GroupOf(N) = scan.start .. n
      /\ GroupOf(0) = {}
      /\ \A g \in 1 .. over : scan.groups[g] = Pick(h, GroupOf(g))
  BY <1>2, <1>5, <1>6 DEF SplitUpTo
<1>9. /\ Split.pinned = scan.pinned
      /\ Split.groups = IF scan.start = 0 THEN scan.groups
                        ELSE Append(scan.groups, SubSeq(h, scan.start, n))
  BY <1>2
<1>10. /\ Split.groups \in Seq(Seq(Messages)) /\ Len(Split.groups) = N
       /\ \A g \in 1 .. N : Split.groups[g] = Pick(h, GroupOf(g))
  <2>1. CASE scan.start = 0
    BY <1>3, <1>8, <1>9, <2>1
  <2>2. CASE scan.start # 0
    <3>. DEFINE span == SubSeq(h, scan.start, n)
    <3>1. /\ N = over + 1 /\ GroupOf(N) = scan.start .. n
          /\ scan.start \in DOMAIN h /\ n \in DOMAIN h /\ scan.start <= n
      BY <1>1, <1>8, <2>2
    <3>2. span = Pick(h, GroupOf(N))
      BY <3>1, SpanIsPicked
    <3>3. span \in Seq(Messages)
      <4>1. scan.start \in Int /\ n \in Int /\ \A k \in scan.start .. n : h[k] \in Messages
        BY <1>1, <3>1
      <4>. QED BY ONLY <4>1, SubSeqProperties
    <3>4. Split.groups = Append(scan.groups, span)
      BY <1>9, <2>2
    <3>. HIDE DEF span
    <3>5. PICK gs : gs = Split.groups
      OBVIOUS
    <3>6. /\ gs \in Seq(Seq(Messages)) /\ Len(gs) = N
          /\ \A g \in 1 .. over : gs[g] = scan.groups[g]
          /\ gs[over + 1] = span
      BY <1>3, <3>1, <3>3, <3>4, <3>5
    <3>7. \A g \in 1 .. N : g \in 1 .. over \/ g = N
      BY <1>3, <3>1
    <3>8. \A g \in 1 .. N : gs[g] = Pick(h, GroupOf(g))
      BY <1>8, <3>1, <3>2, <3>6, <3>7
    <3>. QED BY <3>5, <3>6, <3>8
  <2>. QED BY <2>1, <2>2
<1>. QED BY <1>8, <1>9, <1>10 DEF N

LEMMA LaterCountsMore ==
  ASSUME h \in Seq(Messages), NEW i \in DOMAIN h, NEW j \in DOMAIN h
  PROVE  /\ UpTo(Starts(h), i) \in Nat /\ UpTo(Starts(h), i) <= GroupCount(h)
         /\ UpTo(Starts(h), i) < UpTo(Starts(h), j) => i < j
<1>1. \A k \in DOMAIN h : k \in Nat
  OBVIOUS
<1>2. IsFiniteSet(Starts(h)) /\ \A k \in DOMAIN h : IsFiniteSet({s \in Starts(h) : s <= k})
  BY <1>1, StartsAreFinite
<1>3. \A k \in DOMAIN h : UpTo(Starts(h), k) \in Nat
  BY <1>1, StartsAreFinite DEF UpTo
<1>4. UpTo(Starts(h), i) <= GroupCount(h)
  <2>. DEFINE E == {s \in Starts(h) : s <= i}
  <2>1. E \subseteq Starts(h)
    OBVIOUS
  <2>. HIDE DEF E
  <2>2. Cardinality(E) <= Cardinality(Starts(h))
    BY <1>2, <2>1, FS_Subset
  <2>. QED BY <2>2 DEF UpTo, GroupCount, E
<1>5. j <= i => UpTo(Starts(h), j) <= UpTo(Starts(h), i)
  <2>. SUFFICES ASSUME j <= i PROVE UpTo(Starts(h), j) <= UpTo(Starts(h), i)
    OBVIOUS
  <2>. DEFINE E == {s \in Starts(h) : s <= j}
              F == {s \in Starts(h) : s <= i}
  <2>1. \A s \in Starts(h) : s \in DOMAIN h
    BY DEF Starts, Boundaries
  <2>2. E \subseteq F
    BY <1>1, <2>1
  <2>3. IsFiniteSet(F)
    BY <1>2
  <2>. HIDE DEF E, F
  <2>4. Cardinality(E) <= Cardinality(F)
    BY <2>2, <2>3, FS_Subset
  <2>. QED BY <2>4 DEF UpTo, E, F
<1>. QED BY <1>1, <1>3, <1>4, <1>5

\* The positions of the groups above a and up to b.
GroupsIn(a, b) ==
  {j \in DOMAIN h \ TopPinned(h) : a < UpTo(Starts(h), j) /\ UpTo(Starts(h), j) <= b}

(* Flattened, the groups above one and up to another are what the transcript
   has of them. *)
LEMMA GroupsFlattened ==
  ASSUME h \in Seq(Messages), NEW a \in 0 .. GroupCount(h), NEW b \in 0 .. GroupCount(h), a <= b
  PROVE  FlattenSeq(SubSeq(Split.groups, a + 1, b)) = Pick(h, GroupsIn(a, b))
<1>. DEFINE gs == SubSeq(Split.groups, a + 1, b)
            X  == [k \in 0 .. Len(gs) |-> GroupsIn(a, a + k)]
            D  == [k \in 1 .. Len(gs) |-> GroupOf(a + k)]
<1>1. PICK n \in Nat : n = GroupCount(h)
  BY StartsAreFinite, 0 \in Nat
<1>2. PICK all \in Seq(Seq(Messages)) : all = Split.groups /\ Len(all) = n
  BY <1>1, SplitTells
<1>3. PICK l \in Nat : l = b - a
  BY <1>1
<1>4. gs \in Seq(Seq(Messages)) /\ Len(gs) = l /\ \A k \in 1 .. l : gs[k] = all[a + k]
  <2>1. PICK c \in Int : c = a + 1
    BY <1>1
  <2>2. c \in Int /\ b \in Int /\ \A k \in c .. b : all[k] \in Seq(Messages)
    BY <1>1, <1>2, <2>1
  <2>3. /\ SubSeq(all, c, b) \in Seq(Seq(Messages))
        /\ Len(SubSeq(all, c, b)) = IF c <= b THEN b - c + 1 ELSE 0
        /\ \A k \in 1 .. b - c + 1 : SubSeq(all, c, b)[k] = all[c + k - 1]
    BY ONLY <2>2, SubSeqProperties
  <2>4. /\ (IF c <= b THEN b - c + 1 ELSE 0) = l /\ b - c + 1 = l
        /\ \A k \in 1 .. l : c + k - 1 = a + k
    BY <1>1, <1>3, <2>1
  <2>. QED BY <1>2, <2>1, <2>3, <2>4
<1>. HIDE DEF gs
<1>5. \A k \in 1 .. l : a + k \in 1 .. n
  BY <1>1, <1>3
<1>6. \A k \in 1 .. l : gs[k] = Pick(h, GroupOf(a + k))
  BY <1>1, <1>2, <1>4, <1>5, SplitTells
<1>7. \A j \in DOMAIN h : UpTo(Starts(h), j) \in Nat
  BY LaterCountsMore
<1>8. \A k \in 1 .. l : k \in 0 .. l /\ k - 1 \in 0 .. l
  BY <1>3
<1>9. ASSUME NEW k \in 1 .. l
      PROVE  /\ GroupsIn(a, a + k) = GroupsIn(a, a + (k - 1)) \cup GroupOf(a + k)
             /\ \A i \in GroupsIn(a, a + (k - 1)), j \in GroupOf(a + k) : i < j
  <2>1. \A x \in Nat : a < x /\ x <= a + k <=> (a < x /\ x <= a + (k - 1)) \/ x = a + k
    BY <1>1, <1>3
  <2>2. GroupsIn(a, a + k) = GroupsIn(a, a + (k - 1)) \cup GroupOf(a + k)
    BY <1>7, <2>1 DEF GroupsIn, GroupOf
  <2>3. ASSUME NEW i \in GroupsIn(a, a + (k - 1)), NEW j \in GroupOf(a + k) PROVE i < j
    <3>1. i \in DOMAIN h /\ j \in DOMAIN h /\ UpTo(Starts(h), i) < UpTo(Starts(h), j)
      BY <1>1, <1>7 DEF GroupsIn, GroupOf
    <3>. QED BY <3>1, LaterCountsMore
  <2>. QED BY <2>2, <2>3
<1>10. GroupsIn(a, a + 0) = {}
  <2>1. \A x \in Nat : ~(a < x /\ x <= a + 0)
    BY <1>1
  <2>. QED BY <1>7, <2>1 DEF GroupsIn
<1>11. \A x, y : GroupsIn(x, y) \subseteq DOMAIN h /\ GroupOf(x) \subseteq DOMAIN h
  BY DEF GroupsIn, GroupOf
<1>12. /\ X \in [0 .. l -> SUBSET DOMAIN h] /\ D \in [1 .. l -> SUBSET DOMAIN h]
       /\ \A k \in 0 .. l : X[k] = GroupsIn(a, a + k)
       /\ \A k \in 1 .. l : D[k] = GroupOf(a + k)
  BY <1>4, <1>11
<1>. HIDE DEF X, D
<1>13. InARow(X, D, gs, h)
  <2>1. X[0] = {}
    <3>1. 0 \in 0 .. l
      BY <1>3
    <3>. QED BY <1>10, <1>12, <3>1
  <2>2. \A k \in 1 .. l : /\ gs[k] = Pick(h, D[k])
                          /\ X[k] = X[k - 1] \cup D[k]
                          /\ \A i \in X[k - 1], j \in D[k] : i < j
    BY <1>6, <1>8, <1>9, <1>12
  <2>. QED BY <1>4, <1>12, <2>1, <2>2 DEF InARow
<1>14. FlattenSeq(gs) = Pick(h, X[l])
  BY <1>4, <1>13, FlattenPicks
<1>15. X[l] = GroupsIn(a, b)
  <2>1. l \in 0 .. l /\ a + l = b
    BY <1>1, <1>3
  <2>. QED BY <1>12, <2>1
<1>. QED BY <1>14, <1>15 DEF gs

-----------------------------------------------------------------------------
(* The loop of reassemble *)

(* The groups in terms of what Transcript keeps and leaves out. *)
LEMMA GroupsAreSides ==
  ASSUME h \in Seq(Messages), NEW from \in 0 .. GroupCount(h)
  PROVE  /\ GroupsIn(0, from) = Oldest(h, from)
         /\ GroupsIn(from, GroupCount(h)) = Seen(h, from)
         /\ GroupCount(h) \in Nat
<1>1. PICK n \in Nat : n = GroupCount(h)
  BY StartsAreFinite, 0 \in Nat
<1>2. \A j \in DOMAIN h : /\ UpTo(Starts(h), j) \in Nat /\ UpTo(Starts(h), j) <= n
                          /\ UpTo(Starts(h), j) = Cardinality({s \in Starts(h) : s <= j})
  BY <1>1, LaterCountsMore DEF UpTo
<1>3. \A j \in DOMAIN h \ TopPinned(h) : 0 < UpTo(Starts(h), j)
  <2>1. GroupOf(0) = {}
    BY SplitTells
  <2>2. \A j \in DOMAIN h \ TopPinned(h) : UpTo(Starts(h), j) # 0
    BY <2>1 DEF GroupOf
  <2>3. \A x \in Nat : x # 0 => 0 < x
    OBVIOUS
  <2>4. \A j \in DOMAIN h \ TopPinned(h) : UpTo(Starts(h), j) \in Nat
    BY <1>2
  <2>. QED BY <2>2, <2>3, <2>4
<1>4. GroupsIn(0, from) = Oldest(h, from)
  BY <1>2, <1>3 DEF GroupsIn, Oldest
<1>5. \A j \in DOMAIN h \ TopPinned(h) :
        from < UpTo(Starts(h), j) <=> ~(UpTo(Starts(h), j) <= from)
  <2>1. \A x \in Nat : from < x <=> ~(x <= from)
    BY <1>1
  <2>2. \A j \in DOMAIN h \ TopPinned(h) : UpTo(Starts(h), j) \in Nat
    BY <1>2
  <2>. QED BY <2>1, <2>2
<1>6. GroupsIn(from, n) = {j \in DOMAIN h \ TopPinned(h) : ~(UpTo(Starts(h), j) <= from)}
  BY <1>2, <1>5 DEF GroupsIn
<1>7. Seen(h, from) = {j \in DOMAIN h \ TopPinned(h) : ~(UpTo(Starts(h), j) <= from)}
  BY <1>2 DEF Seen, Oldest
<1>. QED BY <1>1, <1>4, <1>6, <1>7

(* The pinned messages of the groups up to one, and of the newest. *)
LEMMA PinnedOfGroups ==
  ASSUME h \in Seq(Messages), NEW b \in 0 .. GroupCount(h)
  PROVE  PinnedOf(SubSeq(Split.groups, 1, b)) = Pick(h, {i \in Oldest(h, b) : Pinned(h[i])})
<1>1. GroupCount(h) \in Nat
  BY GroupsAreSides
<1>. DEFINE S == GroupsIn(0, b)
            G == {m \in Messages : Pinned(m)}
            v == Pick(h, S)
<1>2. FlattenSeq(SubSeq(Split.groups, 1, b)) = v
  <2>1. 0 \in 0 .. GroupCount(h) /\ b \in 0 .. GroupCount(h) /\ 0 <= b /\ 0 + 1 = 1
    BY <1>1
  <2>2. PICK a \in 0 .. GroupCount(h) : a = 0
    BY <2>1
  <2>3. FlattenSeq(SubSeq(Split.groups, a + 1, b)) = Pick(h, GroupsIn(a, b))
    BY <2>1, <2>2, GroupsFlattened
  <2>. QED BY <2>1, <2>2, <2>3
<1>3. S = Oldest(h, b) /\ S \in SUBSET DOMAIN h
  BY GroupsAreSides DEF GroupsIn
<1>4. v \in Seq(Messages)
  BY <1>3, Picked
<1>5. {k \in DOMAIN v : Pinned(v[k])} = Among(v, G)
  <2>. HIDE DEF v
  <2>1. \A k \in DOMAIN v : v[k] \in Messages
    BY <1>4
  <2>. QED BY <2>1 DEF Among
<1>6. {i \in S : h[i] \in G} = {i \in Oldest(h, b) : Pinned(h[i])}
  <2>1. \A i \in S : h[i] \in Messages
    BY <1>3
  <2>. QED BY <1>3, <2>1
<1>7. PinnedOf(SubSeq(Split.groups, 1, b)) = Retain(v, Among(v, G))
  <2>1. PinnedOf(SubSeq(Split.groups, 1, b)) = Retain(v, {k \in DOMAIN v : Pinned(v[k])})
    <3>. HIDE DEF v
    <3>. QED BY <1>2 DEF PinnedOf
  <2>. QED BY <1>5, <2>1
<1>. HIDE DEF G, S
<1>8. Retain(v, Among(v, G)) = Pick(h, {i \in S : h[i] \in G})
  BY <1>3, FilteredPick
<1>. QED BY <1>6, <1>7, <1>8

(* The loop of reassemble returns what Transcript defines. *)
THEOREM ReassembleLoopIsReassemble ==
  ASSUME h \in Seq(Messages), NEW from \in 0 .. GroupCount(h)
  PROVE  ReassembleLoop(Split, from) = Reassemble(h, from)
<1>1. PICK n \in Nat : n = GroupCount(h)
  BY GroupsAreSides
<1>2. Split.pinned = Pick(h, TopPinned(h)) /\ Len(Split.groups) = n
  BY <1>1, SplitTells
<1>3. PinnedOf(SubSeq(Split.groups, 1, from)) = Pick(h, {i \in Oldest(h, from) : Pinned(h[i])})
  BY PinnedOfGroups
<1>4. FlattenSeq(SubSeq(Split.groups, from + 1, n)) = Pick(h, Seen(h, from))
  <2>1. n \in 0 .. GroupCount(h) /\ from <= n /\ from \in 0 .. GroupCount(h)
    BY <1>1
  <2>2. FlattenSeq(SubSeq(Split.groups, from + 1, n)) = Pick(h, GroupsIn(from, n))
    BY <2>1, GroupsFlattened
  <2>3. GroupsIn(from, n) = Seen(h, from)
    BY <1>1, GroupsAreSides
  <2>. QED BY <2>2, <2>3
<1>5. Reassemble(h, from) =
        (Pick(h, TopPinned(h)) \o Pick(h, {i \in Oldest(h, from) : Pinned(h[i])}))
          \o Pick(h, Seen(h, from))
  BY DEF Reassemble, Preamble, InView, Seen
<1>6. PICK p : p = PinnedOf(SubSeq(Split.groups, 1, from))
  OBVIOUS
<1>7. ReassembleLoop(Split, from) =
        (Split.pinned \o PinnedOf(SubSeq(Split.groups, 1, from)))
          \o FlattenSeq(SubSeq(Split.groups, from + 1, n))
  BY <1>2 DEF ReassembleLoop
<1>. QED BY <1>2, <1>3, <1>4, <1>5, <1>7

-----------------------------------------------------------------------------
(* The newest-first loop of cut_by_tokens *)

(* What the pinned messages cost. *)
LEMMA PinnedCost ==
  ASSUME h \in Seq(Messages)
  PROVE  TotalCost(Split.pinned \o PinnedOf(Split.groups))
           = Cost(h, {i \in DOMAIN h : Pinned(h[i])})
<1>. DEFINE A == TopPinned(h)
            B == {i \in Oldest(h, GroupCount(h)) : Pinned(h[i])}
<1>1. PICK n \in Nat : n = GroupCount(h)
  BY GroupsAreSides, 0 \in Nat, StartsAreFinite
<1>2. Costed(Messages)
  BY TranscriptAssumption DEF Costed
<1>3. n \in 0 .. GroupCount(h)
  BY <1>1
<1>4. SubSeq(Split.groups, 1, n) = Split.groups
  <2>1. PICK all \in Seq(Seq(Messages)) : all = Split.groups /\ Len(all) = n
    BY <1>1, SplitTells
  <2>2. SubSeq(all, 1, Len(all)) = all
    OBVIOUS
  <2>. QED BY <2>1, <2>2
<1>5. PinnedOf(Split.groups) = Pick(h, B)
  BY <1>1, <1>3, <1>4, PinnedOfGroups
<1>6. Split.pinned = Pick(h, A)
  BY SplitTells
<1>7. A \cup B = {i \in DOMAIN h : Pinned(h[i])}
  <2>1. Seen(h, n) = {}
    <3>1. GroupsIn(n, n) = Seen(h, n)
      BY <1>1, <1>3, GroupsAreSides
    <3>2. \A j \in DOMAIN h : UpTo(Starts(h), j) \in Nat
      BY LaterCountsMore
    <3>3. \A x \in Nat : ~(n < x /\ x <= n)
      OBVIOUS
    <3>. QED BY <3>1, <3>2, <3>3 DEF GroupsIn
  <2>2. \A i \in DOMAIN h : i \in TopPinned(h) \/ i \in Oldest(h, n)
    BY <2>1 DEF Seen
  <2>3. /\ \A i \in TopPinned(h) : i \in DOMAIN h /\ Pinned(h[i])
        /\ \A i \in Oldest(h, n) : i \in DOMAIN h
    BY DEF TopPinned, Boundaries, Oldest
  <2>. QED BY <1>1, <2>2, <2>3
<1>8. A \cap B = {} /\ A \in SUBSET DOMAIN h /\ B \in SUBSET DOMAIN h
  BY DEF TopPinned, Boundaries, Oldest
<1>. HIDE DEF A, B
<1>9. PICK a \in Seq(Messages) : a = Pick(h, A)
  BY <1>8, Picked
<1>10. PICK b \in Seq(Messages) : b = Pick(h, B)
  BY <1>8, Picked
<1>11. PICK c \in Seq(Messages) : c = a \o b
  <2>1. a \o b \in Seq(Messages)
    OBVIOUS
  <2>. QED BY <2>1
<1>12. Cost(a, DOMAIN a) = Cost(h, A) /\ Cost(b, DOMAIN b) = Cost(h, B)
  BY <1>2, <1>8, <1>9, <1>10, PickCosts
<1>13. Cost(c, DOMAIN c) = Cost(a, DOMAIN a) + Cost(b, DOMAIN b)
  BY <1>2, <1>11, CostsInARow
<1>14. Cost(h, A \cup B) = Cost(h, A) + Cost(h, B)
  BY <1>2, <1>8, CostTogether
<1>15. TotalCost(c) = Cost(c, DOMAIN c)
  BY TotalCostIsCost
<1>16. TotalCost(c) = Cost(h, A \cup B)
  BY <1>12, <1>13, <1>14, <1>15
<1>. QED BY <1>5, <1>6, <1>7, <1>9, <1>10, <1>11, <1>16, Zenon

(* What a group costs without its pinned messages, which were paid for first. *)
LEMMA GroupCost ==
  ASSUME h \in Seq(Messages), NEW g \in 1 .. GroupCount(h)
  PROVE  TotalCost(OthersOf(Split.groups[g])) = Cost(h, Between(h, g - 1, g))
<1>. DEFINE S == GroupOf(g)
            G == {m \in Messages : ~Pinned(m)}
            v == Pick(h, S)
            T == {i \in S : h[i] \in G}
<1>1. PICK n \in Nat : n = GroupCount(h)
  BY StartsAreFinite, 0 \in Nat
<1>2. Costed(Messages)
  BY TranscriptAssumption DEF Costed
<1>3. Split.groups[g] = v
  BY SplitTells
<1>4. S \in SUBSET DOMAIN h
  BY DEF GroupOf
<1>5. v \in Seq(Messages)
  BY <1>4, Picked
<1>6. {k \in DOMAIN v : ~Pinned(v[k])} = Among(v, G)
  <2>. HIDE DEF v
  <2>1. \A k \in DOMAIN v : v[k] \in Messages
    BY <1>5
  <2>. QED BY <2>1 DEF Among
<1>7. OthersOf(Split.groups[g]) = Retain(v, Among(v, G))
  <2>1. OthersOf(Split.groups[g]) = Retain(v, {k \in DOMAIN v : ~Pinned(v[k])})
    <3>. HIDE DEF v
    <3>. QED BY <1>3 DEF OthersOf
  <2>. QED BY <1>6, <2>1
<1>8. T = Between(h, g - 1, g)
  <2>1. \A j \in DOMAIN h : /\ UpTo(Starts(h), j) \in Nat
                            /\ UpTo(Starts(h), j) = Cardinality({s \in Starts(h) : s <= j})
    BY LaterCountsMore DEF UpTo
  <2>2. \A x \in Nat : x = g <=> x <= g /\ ~(x <= g - 1)
    BY <1>1
  <2>3. \A j \in DOMAIN h : h[j] \in Messages
    OBVIOUS
  <2>4. S = Oldest(h, g) \ Oldest(h, g - 1)
    BY <2>1, <2>2 DEF GroupOf, Oldest
  <2>5. T = {i \in S : ~Pinned(h[i])}
    BY <1>4, <2>3
  <2>. HIDE DEF S, T
  <2>. QED BY <2>4, <2>5 DEF Between
<1>. HIDE DEF S, G
<1>9. Retain(v, Among(v, G)) = Pick(h, T)
  BY <1>4, FilteredPick
<1>10. PICK U \in SUBSET DOMAIN h : U = T
  BY <1>4
<1>11. PICK w \in Seq(Messages) : w = Pick(h, U)
  BY Picked
<1>12. TotalCost(w) = Cost(h, U)
  BY <1>2, <1>11, PickCosts, TotalCostIsCost
<1>. HIDE DEF T, v
<1>. QED BY <1>7, <1>8, <1>9, <1>10, <1>11, <1>12

(* The groups between two cuts are those on either side of a third. *)
LEMMA BetweenByWay ==
  ASSUME h \in Seq(Messages), NEW a \in Nat, NEW b \in Nat, NEW c \in Nat, a <= b, b <= c
  PROVE  /\ Between(h, a, b) \cap Between(h, b, c) = {}
         /\ Between(h, a, b) \cup Between(h, b, c) = Between(h, a, c)
<1>1. Oldest(h, a) \subseteq Oldest(h, b) /\ Oldest(h, b) \subseteq Oldest(h, c)
  BY OldestGrow
<1>. QED BY <1>1 DEF Between

LEMMA NothingCosts ==
  ASSUME h \in Seq(Messages), NEW a
  PROVE  Cost(h, Between(h, a, a)) = 0
<1>1. Costed(Messages)
  BY TranscriptAssumption DEF Costed
<1>2. Between(h, a, a) = {}
  BY DEF Between
<1>3. {} \cap {} = {} /\ {} \cup {} = {}
  OBVIOUS
<1>4. Cost(h, {}) \in Nat /\ Cost(h, {} \cup {}) = Cost(h, {}) + Cost(h, {})
  BY <1>1, <1>3, CostTogether
<1>5. Cost(h, {}) = Cost(h, {}) + Cost(h, {})
  BY <1>3, <1>4, Zenon
<1>6. Cost(h, {}) = 0
  BY <1>4, <1>5
<1>. QED BY <1>2, <1>6, Zenon

Cuts == [remaining : Nat, from : 0 .. GroupCount(h), stopped : BOOLEAN]

\* What the newest-first loop knows after k groups: how far it has come with what
\* is left, or where it stopped, at a group that fits before one that does not.
CutUpTo(cut, budget, k) ==
  LET n == GroupCount(h)
  IN /\ cut.from \in 0 .. n - 1
     /\ ~cut.stopped =>
          /\ cut.from = n - k
          /\ cut.remaining + Cost(h, Between(h, n - k, n - 1)) = Remaining(h, budget)
     /\ cut.stopped =>
          /\ FitsAt(h, budget, cut.from)
          /\ cut.from > 0 /\ ~FitsAt(h, budget, cut.from - 1)

\* What is left once the pinned turns are paid for.
ForGroups(budget) == SaturatingSub(budget, Cost(h, {i \in DOMAIN h : Pinned(h[i])}))

LEMMA CutScanDoes ==
  ASSUME h \in Seq(Messages), NEW k \in 1 .. GroupCount(h), NEW cut \in Cuts
  PROVE  LET n     == GroupCount(h)
             cost  == Cost(h, Between(h, n - k, n + 1 - k))
             after == CutScan(Split, cut, n + 1 - k)
         IN  /\ after \in Cuts /\ cost \in Nat
             /\ cut.stopped \/ (cost > cut.remaining /\ k # 1) =>
                  after.from = cut.from /\ after.stopped
             /\ ~cut.stopped /\ (cost <= cut.remaining \/ k = 1) =>
                  /\ after.from = n - k /\ ~after.stopped
                  /\ after.remaining = SaturatingSub(cut.remaining, cost)
<1>1. PICK n \in Nat : n = GroupCount(h)
  BY StartsAreFinite, 0 \in Nat
<1>2. PICK index \in 1 .. n : index = n + 1 - k
  BY <1>1
<1>3. index - 1 = n - k /\ index - 1 \in 0 .. n /\ (index = n <=> k = 1) /\ k \in Nat
  BY <1>1, <1>2
<1>4. PICK cost : cost = Cost(h, Between(h, n - k, n + 1 - k))
  OBVIOUS
<1>5. TotalCost(OthersOf(Split.groups[index])) = cost
  <2>1. TotalCost(OthersOf(Split.groups[index])) = Cost(h, Between(h, index - 1, index))
    BY <1>1, GroupCost
  <2>. QED BY <1>2, <1>3, <1>4, <2>1
<1>6. cost \in Nat
  <2>1. Costed(Messages)
    BY TranscriptAssumption DEF Costed
  <2>. QED BY <1>4, <2>1, MoreCostsMore
<1>7. /\ cut.remaining \in Nat /\ cut.from \in 0 .. n /\ cut.stopped \in BOOLEAN
      /\ cut = [remaining |-> cut.remaining, from |-> cut.from, stopped |-> cut.stopped]
  BY <1>1 DEF Cuts
<1>8. SaturatingSub(cut.remaining, cost) \in Nat
  BY <1>6, <1>7 DEF SaturatingSub
<1>9. Len(Split.groups) = n
  BY <1>1, SplitTells
<1>10. PICK after : after = CutScan(Split, cut, index)
  OBVIOUS
<1>11. after = IF cut.stopped \/ StopAt(cost, cut.remaining, index = n)
               THEN [cut EXCEPT !.stopped = TRUE]
               ELSE [cut EXCEPT !.remaining = SaturatingSub(@, cost), !.from = index - 1]
  BY <1>5, <1>9, <1>10 DEF CutScan
<1>12. ASSUME cut.stopped \/ (cost > cut.remaining /\ k # 1)
       PROVE  after \in Cuts /\ after.from = cut.from /\ after.stopped
  <2>1. cut.stopped \/ StopAt(cost, cut.remaining, index = n)
    BY <1>3, <1>12 DEF StopAt
  <2>2. after = [cut EXCEPT !.stopped = TRUE]
    BY <1>11, <2>1
  <2>3. after = [remaining |-> cut.remaining, from |-> cut.from, stopped |-> TRUE]
    BY <1>7, <2>2
  <2>. QED BY <1>1, <1>7, <2>3 DEF Cuts
<1>13. ASSUME ~cut.stopped, cost <= cut.remaining \/ k = 1
       PROVE  /\ after \in Cuts
              /\ after.from = n - k /\ ~after.stopped
              /\ after.remaining = SaturatingSub(cut.remaining, cost)
  <2>1. ~StopAt(cost, cut.remaining, index = n)
    BY <1>3, <1>6, <1>7, <1>13 DEF StopAt
  <2>2. after = [cut EXCEPT !.remaining = SaturatingSub(@, cost), !.from = index - 1]
    BY <1>11, <1>13, <2>1
  <2>3. after = [remaining |-> SaturatingSub(cut.remaining, cost), from |-> index - 1,
                 stopped |-> cut.stopped]
    BY <1>7, <2>2
  <2>. QED BY <1>1, <1>3, <1>7, <1>8, <1>13, <2>3 DEF Cuts
<1>14. after \in Cuts
  BY <1>6, <1>7, <1>12, <1>13
<1>. QED BY <1>1, <1>2, <1>4, <1>6, <1>10, <1>12, <1>13, <1>14

LEMMA CutScanTells ==
  ASSUME h \in Seq(Messages), NEW budget \in Nat, NEW k \in 1 .. GroupCount(h), NEW cut \in Cuts,
         IF k = 1 THEN cut.remaining = ForGroups(budget) /\ ~cut.stopped
                  ELSE CutUpTo(cut, budget, k - 1)
  PROVE  CutUpTo(CutScan(Split, cut, GroupCount(h) + 1 - k), budget, k)
<1>1. PICK n \in Nat : n = GroupCount(h)
  BY StartsAreFinite, 0 \in Nat
<1>2. PICK after : after = CutScan(Split, cut, n + 1 - k)
  OBVIOUS
<1>3. PICK cost : cost = Cost(h, Between(h, n - k, n + 1 - k))
  OBVIOUS
<1>4. /\ cost \in Nat
      /\ cut.stopped \/ (cost > cut.remaining /\ k # 1) =>
           after.from = cut.from /\ after.stopped
      /\ ~cut.stopped /\ (cost <= cut.remaining \/ k = 1) =>
           /\ after.from = n - k /\ ~after.stopped
           /\ after.remaining = SaturatingSub(cut.remaining, cost)
  BY <1>1, <1>2, <1>3, CutScanDoes
<1>5. cut.remaining \in Nat /\ cut.stopped \in BOOLEAN /\ k \in 1 .. n
  BY <1>1 DEF Cuts
<1>6. CASE k = 1
  <2>1. after.from = n - 1 /\ ~after.stopped /\ after.remaining = SaturatingSub(cut.remaining, cost)
    BY <1>4, <1>6
  <2>2. after.remaining = Remaining(h, budget) /\ Remaining(h, budget) \in Nat
    <3>1. cut.remaining = ForGroups(budget) /\ n + 1 - k = n
      BY <1>1, <1>6
    <3>2. Remaining(h, budget) = SaturatingSub(ForGroups(budget), Cost(h, Between(h, n - 1, n)))
      BY <1>1 DEF Remaining, ForGroups
    <3>3. SaturatingSub(cut.remaining, cost) = Remaining(h, budget)
      BY <1>3, <1>6, <3>1, <3>2
    <3>4. SaturatingSub(cut.remaining, cost) \in Nat
      BY <1>4, <1>5 DEF SaturatingSub
    <3>. QED BY <2>1, <3>3, <3>4
  <2>3. Cost(h, Between(h, n - k, n - 1)) = 0
    BY <1>6, NothingCosts
  <2>4. after.remaining + Cost(h, Between(h, n - k, n - 1)) = Remaining(h, budget)
    BY <2>2, <2>3
  <2>5. after.from \in 0 .. n - 1
    BY <1>5, <2>1
  <2>. QED BY <1>1, <1>2, <1>6, <2>1, <2>4, <2>5 DEF CutUpTo
<1>7. CASE k # 1
  <2>1. PICK p \in Nat : p = n - k /\ p + 1 = n + 1 - k /\ p + 1 <= n - 1 /\ n - (k - 1) = p + 1
    BY <1>5, <1>7
  <2>2. /\ cut.from \in 0 .. n - 1
        /\ ~cut.stopped =>
             /\ cut.from = p + 1
             /\ cut.remaining + Cost(h, Between(h, p + 1, n - 1)) = Remaining(h, budget)
        /\ cut.stopped =>
             /\ FitsAt(h, budget, cut.from)
             /\ cut.from > 0 /\ ~FitsAt(h, budget, cut.from - 1)
    BY <1>1, <1>7, <2>1 DEF CutUpTo
  <2>3. /\ Cost(h, Between(h, p + 1, n - 1)) \in Nat
        /\ Cost(h, Between(h, p, n - 1)) = cost + Cost(h, Between(h, p + 1, n - 1))
    <3>1. PICK q \in Nat : q = p + 1
      OBVIOUS
    <3>2. PICK t \in Nat : t = n - 1 /\ q <= t /\ p <= q
      BY <2>1, <3>1
    <3>3. /\ Cost(h, Between(h, q, t)) \in Nat
          /\ Cost(h, Between(h, p, t)) = Cost(h, Between(h, p, q)) + Cost(h, Between(h, q, t))
      <4>1. PICK S : S = Between(h, p, q)
        OBVIOUS
      <4>2. PICK T : T = Between(h, q, t)
        OBVIOUS
      <4>3. S \cap T = {} /\ S \cup T = Between(h, p, t)
        BY <3>2, <4>1, <4>2, BetweenByWay
      <4>4. Costed(Messages)
        BY TranscriptAssumption DEF Costed
      <4>5. Cost(h, T) \in Nat /\ Cost(h, S \cup T) = Cost(h, S) + Cost(h, T)
        BY <4>3, <4>4, CostTogether
      <4>. QED BY <4>1, <4>2, <4>3, <4>5
    <3>4. cost = Cost(h, Between(h, p, q))
      BY <1>3, <2>1, <3>1
    <3>. QED BY <3>1, <3>2, <3>3, <3>4
  <2>4. PICK rest \in Nat : rest = Cost(h, Between(h, p + 1, n - 1))
    BY <2>3
  <2>5. CASE cut.stopped
    <3>1. after.from = cut.from /\ after.stopped
      BY <1>4, <2>5
    <3>. QED BY <1>1, <1>2, <2>2, <2>5, <3>1 DEF CutUpTo
  <2>6. CASE ~cut.stopped /\ cost > cut.remaining
    <3>1. after.from = p + 1 /\ after.stopped
      BY <1>4, <1>7, <2>2, <2>6
    <3>2. Remaining(h, budget) = cut.remaining + rest
      BY <2>2, <2>4, <2>6
    <3>3. FitsAt(h, budget, p + 1)
      <4>1. rest <= Remaining(h, budget)
        BY <1>5, <3>2
      <4>. QED BY <1>1, <2>4, <4>1 DEF FitsAt
    <3>4. ~FitsAt(h, budget, (p + 1) - 1)
      <4>1. (p + 1) - 1 = p /\ p # n - 1
        BY <2>1
      <4>2. ~(cost + rest <= Remaining(h, budget))
        BY <1>4, <1>5, <2>6, <3>2
      <4>3. Cost(h, Between(h, p, n - 1)) = cost + rest
        BY <2>3, <2>4
      <4>. QED BY <1>1, <4>1, <4>2, <4>3 DEF FitsAt
    <3>5. p + 1 \in 0 .. n - 1 /\ p + 1 > 0
      BY <2>1
    <3>. QED BY <1>1, <1>2, <3>1, <3>3, <3>4, <3>5 DEF CutUpTo
  <2>7. CASE ~cut.stopped /\ cost <= cut.remaining
    <3>1. after.from = p /\ ~after.stopped /\ after.remaining = SaturatingSub(cut.remaining, cost)
      BY <1>4, <2>1, <2>7
    <3>2. SaturatingSub(cut.remaining, cost) = cut.remaining - cost
      BY <1>4, <1>5, <2>7 DEF SaturatingSub
    <3>3. Remaining(h, budget) = cut.remaining + rest
      BY <2>2, <2>4, <2>7
    <3>4. after.remaining + (cost + rest) = Remaining(h, budget)
      BY <1>4, <1>5, <3>1, <3>2, <3>3
    <3>5. Cost(h, Between(h, p, n - 1)) = cost + rest
      BY <2>3, <2>4
    <3>6. p \in 0 .. n - 1
      BY <2>1
    <3>. QED BY <1>1, <1>2, <2>1, <3>1, <3>4, <3>5, <3>6 DEF CutUpTo
  <2>. QED BY <1>4, <1>5, <2>5, <2>6, <2>7
<1>. QED BY <1>6, <1>7

(* The newest-first loop of cut_by_tokens stops at the cut Transcript defines. *)
THEOREM TokenLoopIsTheTokenCut ==
  ASSUME h \in Seq(Messages), NEW budget \in Nat
  PROVE  CutByTokensLoop(Split, budget) = CutByTokens(h, budget)
<1>. DEFINE n     == Len(Split.groups)
            start == [remaining |-> SaturatingSub(budget, TotalCost(Split.pinned \o PinnedOf(Split.groups))),
                      from |-> n, stopped |-> FALSE]
            Is(f) == f = [k \in 0 .. n |->
                            IF k = 0 THEN start ELSE CutScan(Split, f[k - 1], n + 1 - k)]
            after == CHOOSE f : Is(f)
            turn  == [k \in 1 .. n |-> [x \in Cuts |-> CutScan(Split, x, n + 1 - k)]]
            Good  == {k \in 0 .. n : after[k] \in Cuts /\ (k # 0 => CutUpTo(after[k], budget, k))}
<1>1. n = GroupCount(h) /\ n \in Nat
  BY SplitTells, StartsAreFinite, 0 \in Nat
<1>2. CutByTokensLoop(Split, budget) = after[n].from
  BY DEF CutByTokensLoop
<1>. HIDE DEF n
<1>3. start \in Cuts /\ start.remaining = ForGroups(budget) /\ ~start.stopped /\ start.from = n
  <2>1. SaturatingSub(budget, TotalCost(Split.pinned \o PinnedOf(Split.groups))) = ForGroups(budget)
    BY PinnedCost DEF ForGroups
  <2>2. ForGroups(budget) \in Nat
    <3>1. Costed(Messages)
      BY TranscriptAssumption DEF Costed
    <3>2. Cost(h, {i \in DOMAIN h : Pinned(h[i])}) \in Nat
      BY <3>1, MoreCostsMore
    <3>. QED BY <3>2 DEF ForGroups, SaturatingSub
  <2>3. n \in 0 .. GroupCount(h)
    BY <1>1
  <2>. QED BY <2>1, <2>2, <2>3 DEF Cuts
<1>. HIDE DEF start
<1>4. \A k \in 1 .. n, x \in Cuts : CutScan(Split, x, n + 1 - k) \in Cuts
  BY <1>1, CutScanDoes
<1>5. PICK Q : Q = Cuts
  OBVIOUS
<1>6. start \in Q /\ turn \in [1 .. n -> [Q -> Q]]
  BY <1>3, <1>4, <1>5
<1>7. PICK f : StatesOf(f, n, Q, start, turn)
  <2>. HIDE DEF turn
  <2>. QED BY <1>1, <1>6, LoopHasStates
<1>8. \A k \in 1 .. n : k \in 0 .. n /\ k - 1 \in 0 .. n /\ k # 0 /\ (k # 1 => k - 1 # 0) /\ 1 - 1 = 0
  BY <1>1
<1>9. Is(f)
  <2>1. f \in [0 .. n -> Q] /\ f[0] = start /\ \A k \in 1 .. n : f[k] = turn[k][f[k - 1]]
    BY <1>7 DEF StatesOf
  <2>2. \A k \in 1 .. n : f[k - 1] \in Cuts
    BY <1>5, <1>8, <2>1
  <2>3. ASSUME NEW k \in 0 .. n
        PROVE  f[k] = IF k = 0 THEN start ELSE CutScan(Split, f[k - 1], n + 1 - k)
    <3>1. CASE k = 0
      BY <2>1, <3>1
    <3>2. CASE k # 0
      <4>1. k \in 1 .. n
        BY <1>1, <3>2
      <4>. QED BY <2>1, <2>2, <3>2, <4>1
    <3>. QED BY <3>1, <3>2
  <2>. QED BY <2>1, <2>3
<1>10. Is(after)
  <2>. HIDE DEF Is
  <2>. QED BY <1>9
<1>. HIDE DEF after
<1>11. after[0] = start
  <2>1. 0 \in 0 .. n
    BY <1>1
  <2>. QED BY <1>10, <2>1
<1>12. ASSUME NEW k \in 1 .. n PROVE after[k] = CutScan(Split, after[k - 1], n + 1 - k)
  <2>1. k \in 0 .. n /\ k # 0
    BY <1>8
  <2>. QED BY <1>10, <2>1
<1>13. 0 \in Good
  <2>1. 0 \in 0 .. n
    BY <1>1
  <2>. QED BY <1>3, <1>11, <2>1
<1>14. ASSUME NEW k \in 1 .. n, k - 1 \in Good PROVE k \in Good
  <2>1. PICK x \in Cuts : x = after[k - 1]
    BY <1>14
  <2>2. k - 1 # 0 => CutUpTo(x, budget, k - 1)
    BY <1>14, <2>1
  <2>3. k = 1 => x.remaining = ForGroups(budget) /\ ~x.stopped
    BY <1>3, <1>8, <1>11, <2>1
  <2>4. k \in 1 .. GroupCount(h) /\ after[k] = CutScan(Split, x, GroupCount(h) + 1 - k)
    BY <1>1, <1>12, <2>1
  <2>5. IF k = 1 THEN x.remaining = ForGroups(budget) /\ ~x.stopped
                 ELSE CutUpTo(x, budget, k - 1)
    BY <1>8, <2>2, <2>3
  <2>6. CutUpTo(after[k], budget, k)
    BY <2>4, <2>5, CutScanTells
  <2>7. after[k] \in Cuts /\ k \in 0 .. n
    BY <1>1, <1>4, <1>8, <2>4
  <2>. QED BY <2>6, <2>7
<1>15. \A k \in 0 .. n : k \in Good
  <2>. HIDE DEF Good
  <2>1. \A k \in 1 .. n : k - 1 \in Good => k \in Good
    BY <1>14
  <2>. QED BY <1>1, <1>13, <2>1, CountingUp
<1>16. PICK cut : cut = after[n]
  OBVIOUS
<1>17. cut \in Cuts /\ (n # 0 => CutUpTo(cut, budget, n))
  <2>1. n \in 0 .. n
    BY <1>1
  <2>. QED BY <1>15, <1>16, <2>1
<1>18. CASE n = 0
  <2>1. cut.from = 0
    BY <1>1, <1>17, <1>18 DEF Cuts
  <2>. QED BY <1>1, <1>2, <1>16, <1>18, <2>1, TokenCutKeepsTheNewest
<1>19. CASE n # 0
  <2>1. PICK c \in 0 .. n - 1 : c = CutByTokens(h, budget)
                                /\ \A g \in 0 .. n - 1 : g >= c <=> FitsAt(h, budget, g)
    <3>0. Costed(Messages)
      BY TranscriptAssumption DEF Costed
    <3>1. Costed(Messages) /\ GroupCount(h) > 0
      BY <1>1, <1>19, <3>0
    <3>. QED BY <1>1, <3>1, TokenCutIsTheFirstThatFits
  <2>2. /\ cut.from \in 0 .. n - 1
        /\ ~cut.stopped =>
             /\ cut.from = n - n
             /\ cut.remaining + Cost(h, Between(h, n - n, n - 1)) = Remaining(h, budget)
        /\ cut.stopped =>
             /\ FitsAt(h, budget, cut.from)
             /\ cut.from > 0 /\ ~FitsAt(h, budget, cut.from - 1)
    BY <1>1, <1>17, <1>19 DEF CutUpTo
  <2>3. CASE cut.stopped
    <3>1. cut.from - 1 \in 0 .. n - 1
      BY <1>1, <2>2, <2>3
    <3>2. cut.from >= c /\ ~(cut.from - 1 >= c)
      BY <2>1, <2>2, <2>3, <3>1
    <3>3. cut.from = c
      BY <1>1, <2>2, <3>2
    <3>. QED BY <1>2, <1>16, <2>1, <3>3
  <2>4. CASE ~cut.stopped
    <3>1. cut.from = 0 /\ cut.remaining \in Nat
      BY <1>1, <1>17, <2>2, <2>4 DEF Cuts
    <3>2. PICK all \in Nat : all = Cost(h, Between(h, 0, n - 1))
      <4>1. Costed(Messages)
        BY TranscriptAssumption DEF Costed
      <4>. QED BY <4>1, MoreCostsMore
    <3>3. cut.remaining + all = Remaining(h, budget)
      <4>1. n - n = 0
        BY <1>1
      <4>. QED BY <2>2, <2>4, <3>2, <4>1
    <3>4. all <= Remaining(h, budget)
      BY <3>1, <3>3
    <3>5. FitsAt(h, budget, 0)
      BY <1>1, <3>2, <3>4 DEF FitsAt
    <3>6. 0 \in 0 .. n - 1
      BY <1>1, <1>19
    <3>7. c = 0
      BY <1>1, <2>1, <3>5, <3>6
    <3>. QED BY <1>2, <1>16, <2>1, <3>1, <3>7
  <2>. QED BY <2>3, <2>4
<1>. QED BY <1>18, <1>19

(* The loops of repair.rs and of helper/window.rs, with their drained sets,
   first-occurrence indexes and early exits, return what Transcript defines, of
   every transcript, at every window and every budget. *)
THEOREM LoopsAlwaysAgree == Spec => []LoopsAgree
<1>. DEFINE Inv == h \in Seq(Messages)
<1>1. Init => Inv
  BY DEF Init
<1>2. Inv /\ [Next]_h => Inv'
  BY DEF Next, AppendMessage
<1>3. Inv => LoopsAgree
  <2>. SUFFICES ASSUME Inv PROVE LoopsAgree
    OBVIOUS
  <2>1. RepairLoop = Repair(h)
    BY RepairLoopIsRepair
  <2>2. Len(Split.groups) = GroupCount(h)
    BY SplitTells
  <2>3. \A from \in 0 .. GroupCount(h) : ReassembleLoop(Split, from) = Reassemble(h, from)
    BY ReassembleLoopIsReassemble
  <2>4. \A budget \in Budgets : CutByTokensLoop(Split, budget) = CutByTokens(h, budget)
    BY TranscriptAssumption, TokenLoopIsTheTokenCut
  <2>. QED BY <2>1, <2>2, <2>3, <2>4 DEF LoopsAgree
<1>. QED BY <1>1, <1>2, <1>3, PTL DEF Spec

-----------------------------------------------------------------------------
(* Sequences put end to end *)

(* Sequences of which some have nothing in them come to the same without those. *)
LEMMA EmptyOnesDoNotShow ==
  ASSUME NEW S, NEW s \in Seq(Seq(S)), NEW T \in SUBSET DOMAIN s,
         \A k \in DOMAIN s : k \notin T => s[k] = <<>>
  PROVE  FlattenSeq(Pick(s, T)) = FlattenSeq(s)
<1>. DEFINE n       == Len(s)
            Upto(k) == {i \in T : i <= k}
<1>1. n \in Nat /\ DOMAIN s = 1 .. n /\ \A k \in 1 .. n : s[k] \in Seq(S)
  OBVIOUS
<1>2. PICK Q : Q = Seq(S)
  OBVIOUS
<1>3. s \in Seq(Q)
  BY <1>2
<1>4. PICK g : EndToEnd(g, s, S)
  BY FlattenRuns
<1>5. g \in [0 .. n -> Seq(S)] /\ g[0] = <<>> /\ \A k \in 1 .. n : g[k] = g[k - 1] \o s[k]
  BY <1>4 DEF EndToEnd
<1>6. FlattenSeq(s) = g[n]
  BY <1>4, FlattenIs
<1>. DEFINE Good == {k \in 0 .. n : FlattenSeq(Pick(s, Upto(k))) = g[k]}
<1>. HIDE DEF n
<1>7. \A k \in 1 .. n : k \in 0 .. n /\ k - 1 \in 0 .. n
  BY <1>1
<1>8. 0 \in Good
  <2>1. Upto(0) = {} /\ 0 \in 0 .. n
    BY <1>1
  <2>. HIDE DEF Upto
  <2>2. Pick(s, Upto(0)) = <<>>
    BY <2>1, NothingPicked
  <2>3. FlattenSeq(<<>>) = <<>>
    BY DEF FlattenSeq
  <2>. QED BY <1>5, <2>1, <2>2, <2>3
<1>9. ASSUME NEW k \in 1 .. n, k - 1 \in Good PROVE k \in Good
  <2>1. FlattenSeq(Pick(s, Upto(k - 1))) = g[k - 1] /\ k \in 0 .. n
    BY <1>7, <1>9
  <2>2. g[k] = g[k - 1] \o s[k]
    BY <1>5
  <2>3. CASE k \notin T
    <3>1. Upto(k) = Upto(k - 1)
      BY <1>1, <2>3
    <3>2. s[k] = <<>>
      BY <1>1, <2>3
    <3>3. g[k - 1] \in Seq(S)
      BY <1>5, <1>7
    <3>4. g[k] = g[k - 1]
      BY <2>2, <3>2, <3>3
    <3>. HIDE DEF Upto
    <3>. QED BY <2>1, <3>1, <3>4
  <2>4. CASE k \in T
    <3>1. Upto(k) = Upto(k - 1) \cup {k}
      BY <1>1, <2>4
    <3>2. Upto(k - 1) \in SUBSET DOMAIN s /\ k \in DOMAIN s /\ \A j \in Upto(k - 1) : j < k
      BY <1>1
    <3>. HIDE DEF Upto
    <3>3. Pick(s, Upto(k - 1) \cup {k}) = Append(Pick(s, Upto(k - 1)), s[k])
      BY <1>3, <3>2, PickedLast
    <3>4. PICK v : v = Pick(s, Upto(k - 1))
      OBVIOUS
    <3>5. v \in Seq(Seq(S))
      <4>1. v \in Seq(Q)
        BY <1>3, <3>2, <3>4, Picked
      <4>. QED BY <1>2, <4>1
    <3>6. s[k] \in Seq(S)
      BY <1>1
    <3>7. FlattenSeq(Append(v, s[k])) = FlattenSeq(v) \o s[k]
      BY ONLY <3>5, <3>6, FlattenAppended
    <3>. QED BY <2>1, <2>2, <3>1, <3>3, <3>4, <3>7
  <2>. QED BY <2>3, <2>4
<1>10. \A k \in 1 .. n : k - 1 \in Good => k \in Good
  BY <1>9
<1>11. \A k \in 0 .. n : k \in Good
  <2>. HIDE DEF Good
  <2>. QED BY <1>1, <1>8, <1>10, CountingUp
<1>12. FlattenSeq(Pick(s, Upto(n))) = g[n] /\ Upto(n) = T
  <2>1. n \in 0 .. n
    BY <1>1
  <2>. QED BY <1>1, <1>11, <2>1
<1>. QED BY <1>6, <1>12

-----------------------------------------------------------------------------
(* The parts of some kinds *)

\* The positions in parts of what is of one of kinds.
At(parts, kinds) == {k \in DOMAIN parts : parts[k].kind \in kinds}

LEMMA OfKindsPicks ==
  ASSUME NEW P, NEW s \in Seq(P), NEW K
  PROVE  /\ At(s, K) \in SUBSET DOMAIN s
         /\ OfKinds(s, K) = Pick(s, At(s, K))
         /\ OfKinds(s, K) \in Seq(P)
<1>1. At(s, K) \in SUBSET DOMAIN s
  BY DEF At
<1>2. OfKinds(s, K) = Retain(s, At(s, K))
  BY DEF OfKinds, At
<1>. QED BY <1>1, <1>2, RetainPicks, Picked

(* The parts of some kinds of two sequences end to end are those of the one and
   then those of the other. *)
LEMMA OfKindsInARow ==
  ASSUME NEW P, NEW s \in Seq(P), NEW x \in Seq(P), NEW K
  PROVE  OfKinds(s \o x, K) = OfKinds(s, K) \o OfKinds(x, K)
<1>. DEFINE u == s \o x
            n == Len(s)
            A == At(s, K)
            B == At(x, K)
            C == {n + k : k \in B}
            w == Pick(x, B)
<1>1. /\ n \in Nat /\ DOMAIN s = 1 .. n /\ Len(x) \in Nat /\ DOMAIN x = 1 .. Len(x)
      /\ u \in Seq(P) /\ DOMAIN u = 1 .. n + Len(x)
      /\ \A k \in 1 .. n : u[k] = s[k]
      /\ \A k \in 1 .. Len(x) : u[n + k] = x[k]
  OBVIOUS
<1>2. A \in SUBSET (1 .. n) /\ B \in SUBSET (1 .. Len(x))
  BY DEF At
<1>. HIDE DEF n, u
<1>3. At(u, K) = A \cup C
  <2>1. ASSUME NEW k \in At(u, K) PROVE k \in A \cup C
    <3>1. k \in 1 .. n + Len(x) /\ u[k].kind \in K
      BY <1>1 DEF At
    <3>2. CASE k \in 1 .. n
      BY <1>1, <3>1, <3>2 DEF At
    <3>3. CASE k \notin 1 .. n
      <4>1. k - n \in 1 .. Len(x) /\ k = n + (k - n)
        BY <1>1, <3>1, <3>3
      <4>2. k - n \in B
        BY <1>1, <3>1, <4>1 DEF At
      <4>. QED BY <4>1, <4>2
    <3>. QED BY <3>2, <3>3
  <2>2. ASSUME NEW k \in A PROVE k \in At(u, K)
    BY <1>1 DEF At
  <2>3. ASSUME NEW k \in B PROVE n + k \in At(u, K)
    <3>1. k \in 1 .. Len(x) /\ x[k].kind \in K
      BY <1>1 DEF At
    <3>2. n + k \in 1 .. n + Len(x)
      BY <1>1, <3>1
    <3>. QED BY <1>1, <3>1, <3>2 DEF At
  <2>. QED BY <2>1, <2>2, <2>3
<1>4. A \in SUBSET DOMAIN u /\ C \in SUBSET DOMAIN u /\ \A i \in A, j \in C : i < j
  <2>1. \A k \in B : n + k \in 1 .. n + Len(x) /\ \A i \in A : i < n + k
    BY <1>1, <1>2
  <2>2. A \subseteq 1 .. n + Len(x)
    BY <1>1, <1>2
  <2>. QED BY <1>1, <2>1, <2>2
<1>. HIDE DEF A, B
<1>5. Pick(u, A \cup C) = Pick(u, A) \o Pick(u, C)
  <2>. HIDE DEF C
  <2>. QED BY <1>1, <1>4, PickedInARow
<1>6. Pick(u, A) = Pick(s, A)
  <2>1. \A k \in 1 .. Cardinality(A) : Nth(A, k) \in A
    <3>1. IsFiniteSet(1 .. n)
      BY <1>1, FS_Interval
    <3>2. IsFiniteSet(A)
      BY <1>2, <3>1, FS_Subset
    <3>3. A \in SUBSET Int
      BY <1>1, <1>2
    <3>. QED BY <3>2, <3>3, NthIsThere
  <2>2. \A k \in 1 .. Cardinality(A) : u[Nth(A, k)] = s[Nth(A, k)]
    BY <1>1, <1>2, <2>1
  <2>. QED BY <2>2 DEF Pick
<1>7. w = Pick(u, C)
  <2>1. /\ w \in Seq(P) /\ DOMAIN w = 1 .. Len(w)
        /\ \A k \in DOMAIN w : Nth(B, k) \in B /\ w[k] = x[Nth(B, k)]
        /\ \A i \in B : \E k \in DOMAIN w : Nth(B, k) = i
        /\ \A k, l \in DOMAIN w : k < l <=> Nth(B, k) < Nth(B, l)
    <3>1. B \in SUBSET DOMAIN x
      BY <1>1, <1>2
    <3>. QED BY <3>1, Picked
  <2>. DEFINE to == [k \in DOMAIN w |-> n + Nth(B, k)]
  <2>. HIDE DEF w
  <2>2. to \in [DOMAIN w -> C]
    BY <2>1
  <2>3. \A k \in DOMAIN w : w[k] = u[to[k]]
    <3>1. \A k \in DOMAIN w : Nth(B, k) \in 1 .. Len(x)
      BY <1>2, <2>1
    <3>. QED BY <1>1, <2>1, <3>1
  <2>4. \A k, l \in DOMAIN w : k < l => to[k] < to[l]
    <3>1. \A i \in B : i \in Int
      BY <1>1, <1>2
    <3>2. \A k \in DOMAIN w : Nth(B, k) \in Int
      BY <2>1, <3>1
    <3>. QED BY <1>1, <2>1, <3>2
  <2>5. \A i \in C : \E k \in DOMAIN w : to[k] = i
    BY <2>1
  <2>6. InOrder(w, u, C)
    <3>. HIDE DEF to, C
    <3>. QED BY <2>2, <2>3, <2>4, <2>5 DEF InOrder
  <2>. HIDE DEF C
  <2>. QED BY <1>1, <1>4, <2>1, <2>6, InOrderIsPick
<1>8. OfKinds(u, K) = Pick(u, At(u, K))
  BY <1>1, OfKindsPicks
<1>9. OfKinds(s, K) = Pick(s, A) /\ OfKinds(x, K) = w
  BY OfKindsPicks DEF A, B
<1>. HIDE DEF w, C
<1>. QED BY <1>3, <1>5, <1>6, <1>7, <1>8, <1>9 DEF u

(* So they may be taken before flattening or after it. *)
LEMMA OfKindsFlattened ==
  ASSUME NEW P, NEW s \in Seq(Seq(P)), NEW K
  PROVE  LET some == [i \in DOMAIN s |-> OfKinds(s[i], K)]
         IN  some \in Seq(Seq(P)) /\ FlattenSeq(some) = OfKinds(FlattenSeq(s), K)
<1>. DEFINE n    == Len(s)
            some == [i \in DOMAIN s |-> OfKinds(s[i], K)]
<1>1. n \in Nat /\ DOMAIN s = 1 .. n /\ \A k \in 1 .. n : s[k] \in Seq(P)
  OBVIOUS
<1>2. PICK g : EndToEnd(g, s, P)
  BY FlattenRuns
<1>3. FlattenSeq(s) = g[n]
  BY <1>2, FlattenIs
<1>4. g \in [0 .. n -> Seq(P)] /\ g[0] = <<>> /\ \A k \in 1 .. n : g[k] = g[k - 1] \o s[k]
  BY <1>2 DEF EndToEnd
<1>. HIDE DEF n
<1>5. \A k \in 1 .. n : OfKinds(s[k], K) \in Seq(P)
  BY <1>1, OfKindsPicks
<1>6. some \in Seq(Seq(P)) /\ Len(some) = n /\ \A k \in 1 .. n : some[k] = OfKinds(s[k], K)
  <2>1. some \in [1 .. n -> Seq(P)]
    BY <1>1, <1>5
  <2>. QED BY <1>1, <2>1
<1>. DEFINE w == [k \in 0 .. n |-> OfKinds(g[k], K)]
<1>7. w \in [0 .. n -> Seq(P)]
  <2>1. \A k \in 0 .. n : OfKinds(g[k], K) \in Seq(P)
    BY <1>4, OfKindsPicks
  <2>. QED BY <2>1
<1>8. w[0] = <<>>
  <2>1. 0 \in 0 .. n
    BY <1>1
  <2>2. At(<<>>, K) = {} /\ <<>> \in Seq(P)
    BY DEF At
  <2>3. OfKinds(<<>>, K) = <<>>
    BY <2>2, OfKindsPicks, NothingPicked
  <2>. QED BY <1>4, <2>1, <2>3
<1>9. ASSUME NEW k \in 1 .. n PROVE w[k] = w[k - 1] \o some[k]
  <2>1. k \in 0 .. n /\ k - 1 \in 0 .. n
    BY <1>1
  <2>2. g[k - 1] \in Seq(P) /\ s[k] \in Seq(P) /\ g[k] = g[k - 1] \o s[k]
    BY <1>1, <1>4, <2>1
  <2>3. PICK a \in Seq(P) : a = g[k - 1]
    BY <2>2
  <2>4. PICK b \in Seq(P) : b = s[k]
    BY <2>2
  <2>5. OfKinds(a \o b, K) = OfKinds(a, K) \o OfKinds(b, K)
    BY ONLY OfKindsInARow
  <2>. QED BY <1>6, <2>1, <2>2, <2>3, <2>4, <2>5
<1>. HIDE DEF w, some
<1>10. EndToEnd(w, some, P)
  BY <1>6, <1>7, <1>8, <1>9 DEF EndToEnd
<1>11. FlattenSeq(some) = w[n]
  BY <1>6, <1>10, FlattenIs
<1>12. w[n] = OfKinds(g[n], K)
  <2>1. n \in 0 .. n
    BY <1>1
  <2>. QED BY <2>1 DEF w
<1>. QED BY <1>3, <1>6, <1>11, <1>12 DEF some

-----------------------------------------------------------------------------
(* Nothing is lost on the way *)

\* What has content of its own: messages and steps on the wire.
Wires(T, P) == \A x \in T : x.content \in Seq(P)

Contents(w) == [i \in DOMAIN w |-> w[i].content]

LEMMA ContentsAppended ==
  ASSUME NEW P, NEW T, Wires(T, P), NEW w \in Seq(T), NEW x \in T
  PROVE  /\ Contents(w) \in Seq(Seq(P)) /\ x.content \in Seq(P)
         /\ Contents(Append(w, x)) = Append(Contents(w), x.content)
         /\ FlattenSeq(Contents(w)) \in Seq(P)
         /\ FlattenSeq(Contents(Append(w, x))) = FlattenSeq(Contents(w)) \o x.content
<1>. DEFINE n == Len(w)
            c == Contents(w)
            d == Contents(Append(w, x))
<1>1. /\ n \in Nat /\ DOMAIN w = 1 .. n /\ \A k \in 1 .. n : w[k] \in T
      /\ Append(w, x) \in Seq(T) /\ DOMAIN Append(w, x) = 1 .. n + 1
      /\ \A k \in 1 .. n : Append(w, x)[k] = w[k]
      /\ Append(w, x)[n + 1] = x
  OBVIOUS
<1>. HIDE DEF n
<1>2. x.content \in Seq(P) /\ \A k \in 1 .. n : w[k].content \in Seq(P)
  BY <1>1 DEF Wires
<1>3. c \in [1 .. n -> Seq(P)] /\ \A k \in 1 .. n : c[k] = w[k].content
  BY <1>1, <1>2 DEF Contents
<1>4. c \in Seq(Seq(P)) /\ Len(c) = n
  BY <1>1, <1>3
<1>5. d = Append(c, x.content)
  <2>1. DOMAIN d = 1 .. n + 1 /\ \A k \in 1 .. n : d[k] = c[k]
    BY <1>1, <1>3 DEF Contents
  <2>2. d[n + 1] = x.content
    <3>1. n + 1 \in 1 .. n + 1
      BY <1>1
    <3>. QED BY <1>1, <3>1 DEF Contents
  <2>3. d = [k \in 1 .. n + 1 |-> IF k = n + 1 THEN x.content ELSE c[k]]
    <3>1. d = [k \in 1 .. n + 1 |-> d[k]]
      BY <1>1 DEF Contents
    <3>. HIDE DEF c, d
    <3>2. \A k \in 1 .. n + 1 : k = n + 1 \/ k \in 1 .. n
      BY <1>1
    <3>. QED BY <2>1, <2>2, <3>1, <3>2
  <2>. HIDE DEF c, d
  <2>. QED BY <1>4, <2>3
<1>6. FlattenSeq(c) \in Seq(P) /\ FlattenSeq(Append(c, x.content)) = FlattenSeq(c) \o x.content
  <2>. HIDE DEF c
  <2>1. PICK y \in Seq(P) : y = x.content
    BY <1>2
  <2>2. FlattenSeq(c) \in Seq(P) /\ FlattenSeq(Append(c, y)) = FlattenSeq(c) \o y
    BY ONLY <1>4, FlattenAppended
  <2>. QED BY <2>1, <2>2
<1>. QED BY <1>2, <1>4, <1>5, <1>6

LEMMA NothingFlattened == FlattenSeq(Contents(<<>>)) = <<>>
<1>1. Contents(<<>>) = <<>>
  BY DEF Contents
<1>2. FlattenSeq(<<>>) = <<>>
  BY DEF FlattenSeq
<1>. QED BY <1>1, <1>2

\* What Anthropic's messages are.
AnthropicWire(P) == [role : {"user", "assistant"}, content : Seq(P)]

LEMMA AnthropicWires == ASSUME NEW P PROVE Wires(AnthropicWire(P), P)
BY DEF Wires, AnthropicWire

\* wire has m in a message of its own behind those of w.
PushedApart(wire, w, m, P) ==
  LET next == [role |-> AnthropicRole(m), content |-> m.parts]
  IN next \in AnthropicWire(P) /\ wire = Append(w, next)

\* wire has m in the last message of w.
PushedInto(wire, w, m, P) ==
  LET last == w[Len(w)]
      more == [role |-> last.role, content |-> last.content \o m.parts]
  IN /\ Len(w) \in Nat \ {0} /\ Len(wire) = Len(w)
     /\ last \in AnthropicWire(P) /\ more \in AnthropicWire(P)
     /\ wire[Len(w)] = more
     /\ \A k \in 1 .. Len(w) - 1 : wire[k] = w[k]

(* A push leaves the messages before the last alone, and either adds to the last
   or comes after it. *)
LEMMA PushDoes ==
  ASSUME NEW P, NEW w \in Seq(AnthropicWire(P)), NEW m, m.parts \in Seq(P)
  PROVE  /\ AnthropicPush(w, m) \in Seq(AnthropicWire(P))
         /\ m.parts = <<>> => AnthropicPush(w, m) = w
         /\ m.parts # <<>> /\ ~Merges(w, m) => PushedApart(AnthropicPush(w, m), w, m, P)
         /\ m.parts # <<>> /\ Merges(w, m) => PushedInto(AnthropicPush(w, m), w, m, P)
<1>. DEFINE n    == Len(w)
            next == [role |-> AnthropicRole(m), content |-> m.parts]
            wire == AnthropicPush(w, m)
            last == w[n]
            more == [role |-> last.role, content |-> last.content \o m.parts]
<1>1. PICK T : T = AnthropicWire(P)
  OBVIOUS
<1>2. next \in T
  BY <1>1 DEF AnthropicRole, AnthropicWire
<1>3. w \in Seq(T) /\ n \in Nat /\ DOMAIN w = 1 .. n /\ \A k \in 1 .. n : w[k] \in T
  BY <1>1
<1>4. CASE m.parts = <<>>
  BY <1>1, <1>2, <1>4 DEF AnthropicPush
<1>5. CASE m.parts # <<>> /\ ~Merges(w, m)
  <2>1. wire = Append(w, next)
    BY <1>5 DEF AnthropicPush
  <2>2. Append(w, next) \in Seq(T)
    <3>. HIDE DEF next
    <3>. QED BY <1>2, <1>3
  <2>. HIDE DEF next, wire
  <2>3. /\ next \in AnthropicWire(P) /\ wire \in Seq(AnthropicWire(P))
    BY <1>1, <1>2, <2>1, <2>2
  <2>. QED BY <1>5, <2>1, <2>3 DEF next, wire, PushedApart
<1>6. CASE m.parts # <<>> /\ Merges(w, m)
  <2>1. wire = [w EXCEPT ![n].content = @ \o m.parts]
    BY <1>6 DEF AnthropicPush
  <2>2. n # 0
    BY <1>6 DEF Merges
  <2>3. last \in T
    BY <1>3, <2>2
  <2>4. PICK l \in T : l = last
    BY <2>3
  <2>5. l.role \in {"user", "assistant"} /\ l.content \in Seq(P)
        /\ l = [role |-> l.role, content |-> l.content]
    BY <1>1 DEF AnthropicWire
  <2>6. [role |-> l.role, content |-> l.content \o m.parts] \in T
    <3>1. l.content \o m.parts \in Seq(P)
      BY <2>5
    <3>. QED BY <1>1, <2>5, <3>1 DEF AnthropicWire
  <2>7. [l EXCEPT !.content = @ \o m.parts] = [role |-> l.role, content |-> l.content \o m.parts]
    <3>1. PICK r, c, x : r = l.role /\ c = l.content /\ x = c \o m.parts
      OBVIOUS
    <3>2. l = [role |-> r, content |-> c]
      BY <2>5, <3>1
    <3>3. [l EXCEPT !.content = x] = [role |-> r, content |-> x]
      BY <3>2
    <3>. QED BY <3>1, <3>3
  <2>8. more \in T /\ [last EXCEPT !.content = @ \o m.parts] = more
    BY <2>4, <2>6, <2>7
  <2>9. [w EXCEPT ![n].content = @ \o m.parts] = [w EXCEPT ![n] = [last EXCEPT !.content = @ \o m.parts]]
    OBVIOUS
  <2>10. wire = [w EXCEPT ![n] = more]
    <3>. HIDE DEF more, wire, last
    <3>. QED BY <2>1, <2>8, <2>9
  <2>. HIDE DEF more, wire, last, n
  <2>11. wire \in Seq(T)
    BY <1>3, <2>2, <2>8, <2>10
  <2>12. Len(wire) = n /\ wire[n] = more /\ \A k \in 1 .. n - 1 : wire[k] = w[k]
    BY <1>3, <2>2, <2>8, <2>10 DEF n
  <2>13. n \in Nat \ {0}
    BY <1>3, <2>2
  <2>14. next \in AnthropicWire(P) /\ wire \in Seq(AnthropicWire(P))
         /\ last \in AnthropicWire(P) /\ more \in AnthropicWire(P)
    BY <1>1, <1>2, <2>3, <2>8, <2>11
  <2>. QED BY <1>6, <2>12, <2>13, <2>14 DEF next, last, more, wire, n, PushedInto
<1>. QED BY <1>4, <1>5, <1>6

(* A push sends what the message says after what was sent before it. *)
LEMMA PushSends ==
  ASSUME NEW P, NEW w \in Seq(AnthropicWire(P)), NEW m, m.parts \in Seq(P)
  PROVE  FlattenSeq(Contents(AnthropicPush(w, m))) = FlattenSeq(Contents(w)) \o m.parts
<1>. DEFINE T    == AnthropicWire(P)
            n    == Len(w)
            next == [role |-> AnthropicRole(m), content |-> m.parts]
            wire == AnthropicPush(w, m)
            last == w[n]
            more == [role |-> last.role, content |-> last.content \o m.parts]
<1>1. /\ wire \in Seq(T) /\ (m.parts = <<>> => wire = w)
      /\ m.parts # <<>> /\ ~Merges(w, m) => next \in T /\ wire = Append(w, next)
      /\ m.parts # <<>> /\ Merges(w, m) =>
           /\ n \in Nat \ {0} /\ Len(wire) = n /\ last \in T /\ more \in T
           /\ wire[n] = more
           /\ \A k \in 1 .. n - 1 : wire[k] = w[k]
  <2>1. /\ wire \in Seq(T) /\ (m.parts = <<>> => wire = w)
        /\ m.parts # <<>> /\ ~Merges(w, m) => PushedApart(wire, w, m, P)
        /\ m.parts # <<>> /\ Merges(w, m) => PushedInto(wire, w, m, P)
    BY PushDoes
  <2>. HIDE DEF wire
  <2>2. PushedApart(wire, w, m, P) => next \in T /\ wire = Append(w, next)
    BY DEF PushedApart
  <2>3. PushedInto(wire, w, m, P) =>
           /\ n \in Nat \ {0} /\ Len(wire) = n /\ last \in T /\ more \in T
           /\ wire[n] = more
           /\ \A k \in 1 .. n - 1 : wire[k] = w[k]
    BY DEF PushedInto
  <2>. QED BY <2>1, <2>2, <2>3
<1>2. Wires(T, P)
  BY AnthropicWires
<1>3. next.content = m.parts /\ more.content = last.content \o m.parts
  OBVIOUS
<1>4. w \in Seq(T)
  OBVIOUS
<1>. HIDE DEF T, next, more, wire
<1>5. CASE m.parts = <<>>
  <2>1. FlattenSeq(Contents(w)) \in Seq(P)
    <3>1. CASE w = <<>>
      <4>1. FlattenSeq(Contents(w)) = <<>>
        BY <3>1, NothingFlattened
      <4>. QED BY <4>1
    <3>2. CASE w # <<>>
      <4>1. PICK x \in T : x = w[1]
        BY <1>4, <3>2
      <4>. QED BY ONLY <1>2, <1>4, <4>1, ContentsAppended
    <3>. QED BY <3>1, <3>2
  <2>. QED BY <1>1, <1>5, <2>1 DEF wire
<1>6. CASE m.parts # <<>> /\ ~Merges(w, m)
  <2>1. FlattenSeq(Contents(Append(w, next))) = FlattenSeq(Contents(w)) \o next.content
    BY ONLY <1>1, <1>2, <1>4, <1>6, ContentsAppended
  <2>. QED BY <1>1, <1>3, <1>6, <2>1 DEF wire
<1>7. CASE m.parts # <<>> /\ Merges(w, m)
  <2>1. /\ n \in Nat \ {0} /\ Len(wire) = n /\ last \in T /\ more \in T /\ wire \in Seq(T)
        /\ wire[n] = more
        /\ \A k \in 1 .. n - 1 : wire[k] = w[k]
    BY <1>1, <1>7
  <2>2. PICK u : u = SubSeq(w, 1, n - 1)
    OBVIOUS
  <2>. HIDE DEF last
  <2>3. u \in Seq(T) /\ w = Append(u, last) /\ wire = Append(u, more)
    <3>1. w[n] = last
      BY DEF last
    <3>2. u \in Seq(T) /\ Len(u) = n - 1 /\ \A k \in 1 .. n - 1 : u[k] = w[k]
      BY <1>4, <2>1, <2>2
    <3>3. w = Append(u, last)
      BY <1>4, <2>1, <3>1, <3>2
    <3>4. wire = Append(u, more)
      <4>. HIDE DEF n
      <4>. QED BY <2>1, <3>2
    <3>. QED BY <3>2, <3>3, <3>4
  <2>4. /\ FlattenSeq(Contents(u)) \in Seq(P) /\ last.content \in Seq(P)
        /\ FlattenSeq(Contents(Append(u, last))) = FlattenSeq(Contents(u)) \o last.content
    BY ONLY <1>2, <2>1, <2>3, ContentsAppended
  <2>5. FlattenSeq(Contents(Append(u, more))) = FlattenSeq(Contents(u)) \o more.content
    BY ONLY <1>2, <2>1, <2>3, ContentsAppended
  <2>6. more.content = last.content \o m.parts
    BY DEF more
  <2>7. PICK a \in Seq(P), b \in Seq(P), c \in Seq(P) :
          a = FlattenSeq(Contents(u)) /\ b = last.content /\ c = m.parts
    BY <2>4
  <2>8. a \o (b \o c) = (a \o b) \o c
    OBVIOUS
  <2>. QED BY <2>3, <2>4, <2>5, <2>6, <2>7, <2>8 DEF wire
<1>. QED BY <1>5, <1>6, <1>7

\* after[k] is what the loop has built of the first k of s.
AnthropicRuns(after, s, P) ==
  /\ after \in [0 .. Len(s) -> Seq(AnthropicWire(P))]
  /\ after[0] = <<>>
  /\ \A k \in 1 .. Len(s) : after[k] = AnthropicPush(after[k - 1], s[k])

LEMMA AnthropicRun ==
  ASSUME NEW R, NEW P, NEW s \in Seq(MessagesOf(R, P))
  PROVE  \E after : AnthropicRuns(after, s, P) /\ AnthropicMessages(s) = after[Len(s)]
<1>. DEFINE n     == Len(s)
            Is(f) == f = [i \in 0 .. n |-> IF i = 0 THEN <<>> ELSE AnthropicPush(f[i - 1], s[i])]
            after == CHOOSE f : Is(f)
            turn  == [k \in 1 .. n |-> [x \in Seq(AnthropicWire(P)) |-> AnthropicPush(x, s[k])]]
<1>1. n \in Nat /\ \A k \in 1 .. n : s[k].parts \in Seq(P)
  <2>1. n \in Nat /\ \A k \in 1 .. n : s[k] \in MessagesOf(R, P)
    OBVIOUS
  <2>2. \A m \in MessagesOf(R, P) : m.parts \in Seq(P)
    BY DEF MessagesOf
  <2>. QED BY <2>1, <2>2
<1>2. AnthropicMessages(s) = after[n]
  BY DEF AnthropicMessages
<1>. HIDE DEF n
<1>3. PICK Q : Q = Seq(AnthropicWire(P))
  OBVIOUS
<1>4. <<>> \in Q /\ turn \in [1 .. n -> [Q -> Q]]
  <2>1. ASSUME NEW k \in 1 .. n, NEW x \in Q PROVE AnthropicPush(x, s[k]) \in Q
    BY <1>1, <1>3, PushDoes
  <2>. QED BY <1>3, <2>1
<1>5. PICK f : StatesOf(f, n, Q, <<>>, turn)
  <2>. HIDE DEF turn
  <2>. QED BY <1>1, <1>4, LoopHasStates
<1>6. f \in [0 .. n -> Q] /\ f[0] = <<>> /\ \A k \in 1 .. n : f[k] = turn[k][f[k - 1]]
  BY <1>5 DEF StatesOf
<1>7. \A k \in 1 .. n : k \in 0 .. n /\ k - 1 \in 0 .. n /\ k # 0
  BY <1>1
<1>8. Is(f)
  <2>1. \A k \in 1 .. n : f[k] = AnthropicPush(f[k - 1], s[k])
    BY <1>3, <1>6, <1>7
  <2>2. \A k \in 0 .. n : f[k] = IF k = 0 THEN <<>> ELSE AnthropicPush(f[k - 1], s[k])
    <3>1. \A k \in 0 .. n : k = 0 \/ k \in 1 .. n
      BY <1>1
    <3>. QED BY <1>6, <2>1, <3>1
  <2>. QED BY <1>6, <2>2
<1>9. Is(after)
  <2>. HIDE DEF Is
  <2>. QED BY <1>8
<1>. HIDE DEF after
<1>10. after[0] = <<>> /\ \A k \in 1 .. n : after[k] = AnthropicPush(after[k - 1], s[k])
  <2>1. 0 \in 0 .. n
    BY <1>1
  <2>2. after[0] = <<>>
    BY <1>9, <2>1
  <2>3. \A k \in 1 .. n : after[k] = AnthropicPush(after[k - 1], s[k])
    BY <1>7, <1>9
  <2>. QED BY <2>2, <2>3
<1>. DEFINE Good == {k \in 0 .. n : after[k] \in Q}
<1>11. 0 \in Good
  BY <1>1, <1>4, <1>10
<1>12. \A k \in 1 .. n : k - 1 \in Good => k \in Good
  <2>1. ASSUME NEW k \in 1 .. n, after[k - 1] \in Q PROVE after[k] \in Q
    <3>1. PICK x \in Seq(AnthropicWire(P)) : x = after[k - 1]
      BY <1>3, <2>1
    <3>2. AnthropicPush(x, s[k]) \in Seq(AnthropicWire(P))
      BY <1>1, PushDoes
    <3>. QED BY <1>3, <1>10, <3>1, <3>2
  <2>. QED BY <1>7, <2>1
<1>13. \A k \in 0 .. n : k \in Good
  <2>. HIDE DEF Good
  <2>. QED BY <1>1, <1>11, <1>12, CountingUp
<1>14. after \in [0 .. n -> Q]
  <2>1. DOMAIN after = 0 .. n /\ after = [k \in 0 .. n |-> after[k]]
    BY <1>9
  <2>. QED BY <1>13, <2>1
<1>15. AnthropicRuns(after, s, P)
  BY <1>3, <1>10, <1>14 DEF AnthropicRuns, n
<1>. QED BY <1>2, <1>15 DEF n

\* The parts of each of s.
PartsEach(s) == [i \in DOMAIN s |-> s[i].parts]

LEMMA PartsEachTyped ==
  ASSUME NEW R, NEW P, NEW s \in Seq(MessagesOf(R, P))
  PROVE  /\ PartsEach(s) \in Seq(Seq(P)) /\ Len(PartsEach(s)) = Len(s)
         /\ \A k \in 1 .. Len(s) : PartsEach(s)[k] = s[k].parts /\ s[k].parts \in Seq(P)
         /\ PartsOf(s) = FlattenSeq(PartsEach(s))
<1>1. PartsOf(s) = FlattenSeq(PartsEach(s))
  BY DEF PartsOf, PartsEach
<1>2. PICK n \in Nat : n = Len(s) /\ DOMAIN s = 1 .. n
  OBVIOUS
<1>3. \A k \in 1 .. n : s[k].parts \in Seq(P)
  <2>1. \A k \in 1 .. n : s[k] \in MessagesOf(R, P)
    BY <1>2
  <2>2. \A m \in MessagesOf(R, P) : m.parts \in Seq(P)
    BY DEF MessagesOf
  <2>. QED BY <2>1, <2>2
<1>4. PICK Q : Q = Seq(P)
  OBVIOUS
<1>5. PartsEach(s) \in [1 .. n -> Q] /\ \A k \in 1 .. n : PartsEach(s)[k] = s[k].parts
  BY <1>2, <1>3, <1>4 DEF PartsEach
<1>6. PartsEach(s) \in Seq(Q) /\ Len(PartsEach(s)) = n
  BY <1>2, <1>5
<1>. QED BY <1>1, <1>2, <1>3, <1>4, <1>5, <1>6

LEMMA AnthropicSendsAll ==
  ASSUME NEW R, NEW P, NEW s \in Seq(MessagesOf(R, P))
  PROVE  FlattenSeq(Contents(AnthropicMessages(s))) = PartsOf(s)
<1>. DEFINE n == Len(s)
            c == PartsEach(s)
<1>1. /\ c \in Seq(Seq(P)) /\ Len(c) = n /\ PartsOf(s) = FlattenSeq(c) /\ n \in Nat
      /\ \A k \in 1 .. n : c[k] = s[k].parts /\ s[k].parts \in Seq(P)
  BY PartsEachTyped
<1>. HIDE DEF c
<1>2. PICK g : EndToEnd(g, c, P)
  BY <1>1, FlattenRuns
<1>3. FlattenSeq(c) = g[n]
  BY <1>1, <1>2, FlattenIs
<1>4. g[0] = <<>> /\ \A k \in 1 .. n : g[k] = g[k - 1] \o c[k]
  BY <1>1, <1>2 DEF EndToEnd
<1>5. PICK after : AnthropicRuns(after, s, P) /\ AnthropicMessages(s) = after[n]
  BY AnthropicRun
<1>6. /\ after \in [0 .. n -> Seq(AnthropicWire(P))] /\ after[0] = <<>>
      /\ \A k \in 1 .. n : after[k] = AnthropicPush(after[k - 1], s[k])
  BY <1>5 DEF AnthropicRuns
<1>. DEFINE Good == {k \in 0 .. n : FlattenSeq(Contents(after[k])) = g[k]}
<1>. HIDE DEF n
<1>7. 0 \in Good
  BY <1>1, <1>4, <1>6, NothingFlattened
<1>8. ASSUME NEW k \in 1 .. n, k - 1 \in Good PROVE k \in Good
  <2>1. k \in 0 .. n /\ k - 1 \in 0 .. n
    BY <1>1
  <2>2. PICK w \in Seq(AnthropicWire(P)) : w = after[k - 1]
    BY <1>6, <2>1
  <2>3. FlattenSeq(Contents(AnthropicPush(w, s[k]))) = FlattenSeq(Contents(w)) \o s[k].parts
    BY <1>1, PushSends
  <2>. QED BY <1>1, <1>4, <1>6, <1>8, <2>1, <2>2, <2>3
<1>9. \A k \in 1 .. n : k - 1 \in Good => k \in Good
  BY <1>8
<1>10. \A k \in 0 .. n : k \in Good
  <2>. HIDE DEF Good
  <2>. QED BY <1>1, <1>7, <1>9, CountingUp
<1>11. n \in 0 .. n
  BY <1>1
<1>. QED BY <1>1, <1>3, <1>5, <1>10, <1>11

\* What gathers, and the steps there are: some of what gathers, or one part.
Gathering(P) == {p \in P : p.kind \in {"text", "image"}}
Alone(P)     == {<<p>> : p \in P}
StepsIn(L, P) == [of : L, content : (Seq(Gathering(P)) \ {<<>>}) \cup Alone(P)]
Scanning(L, P) == [steps : Seq(StepsIn(L, P)), pending : Seq(Gathering(P))]

\* All that a scan has come by.
Said(scan) == FlattenSeq(Contents(scan.steps)) \o scan.pending

LEMMA StepsAreWires ==
  ASSUME NEW L, NEW P
  PROVE  /\ Wires(StepsIn(L, P), P)
         /\ \A v \in Seq(Gathering(P)) : v \in Seq(P)
<1>1. ASSUME NEW v \in Seq(Gathering(P)) PROVE v \in Seq(P)
  <2>1. Gathering(P) \subseteq P
    BY DEF Gathering
  <2>. QED BY <2>1
<1>2. ASSUME NEW v \in Alone(P) PROVE v \in Seq(P)
  <2>1. PICK p \in P : v = <<p>>
    BY DEF Alone
  <2>. QED BY <2>1
<1>3. \A x \in StepsIn(L, P) : x.content \in Seq(Gathering(P)) \/ x.content \in Alone(P)
  BY DEF StepsIn
<1>. QED BY <1>1, <1>2, <1>3 DEF Wires

LEMMA ContentsTyped ==
  ASSUME NEW P, NEW T, Wires(T, P), NEW w \in Seq(T)
  PROVE  FlattenSeq(Contents(w)) \in Seq(P)
<1>1. CASE w = <<>>
  <2>1. FlattenSeq(Contents(w)) = <<>>
    BY <1>1, NothingFlattened
  <2>. QED BY <2>1
<1>2. CASE w # <<>>
  <2>1. PICK x \in T : x = w[1]
    BY <1>2
  <2>. QED BY ONLY Wires(T, P), <2>1, ContentsAppended
<1>. QED BY <1>1, <1>2

LEMMA FlushedTells ==
  ASSUME NEW L, NEW P, NEW steps \in Seq(StepsIn(L, P)), NEW of \in L,
         NEW pending \in Seq(Gathering(P))
  PROVE  /\ Flushed(steps, of, pending) \in Seq(StepsIn(L, P))
         /\ FlattenSeq(Contents(Flushed(steps, of, pending)))
              = FlattenSeq(Contents(steps)) \o pending
<1>1. PICK T : T = StepsIn(L, P)
  OBVIOUS
<1>2. Wires(T, P) /\ steps \in Seq(T)
  BY <1>1, StepsAreWires
<1>3. FlattenSeq(Contents(steps)) \in Seq(P)
  BY <1>2, ContentsTyped
<1>4. CASE pending = <<>>
  BY <1>1, <1>2, <1>3, <1>4 DEF Flushed
<1>5. CASE pending # <<>>
  <2>1. PICK x : x = Step(of, pending)
    OBVIOUS
  <2>2. x \in T
    BY <1>1, <1>5, <2>1 DEF StepsIn, Step
  <2>3. FlattenSeq(Contents(Append(steps, x))) = FlattenSeq(Contents(steps)) \o pending
    <3>1. FlattenSeq(Contents(Append(steps, x))) = FlattenSeq(Contents(steps)) \o x.content
      BY ONLY <1>2, <2>2, ContentsAppended
    <3>2. x.content = pending
      BY <2>1 DEF Step
    <3>. QED BY <3>1, <3>2
  <2>4. Flushed(steps, of, pending) = Append(steps, x)
    BY <1>5, <2>1 DEF Flushed
  <2>5. Append(steps, x) \in Seq(T)
    BY <1>2, <2>2
  <2>. QED BY <1>1, <2>2, <2>3, <2>4, <2>5
<1>. QED BY <1>4, <1>5

(* A part is placed behind all that the scan has come by. *)
LEMMA PlacedTells ==
  ASSUME NEW L, NEW P, NEW scan \in Scanning(L, P), NEW of \in L, NEW p \in P, p.kind \in L
  PROVE  /\ Placed(scan, of, p) \in Scanning(L, P)
         /\ Said(Placed(scan, of, p)) = Append(Said(scan), p)
<1>1. PICK T : T = StepsIn(L, P)
  OBVIOUS
<1>2. PICK steps, pending : steps = scan.steps /\ pending = scan.pending
  OBVIOUS
<1>3. scan = [steps |-> steps, pending |-> pending]
      /\ steps \in Seq(T) /\ pending \in Seq(Gathering(P))
  BY <1>1, <1>2 DEF Scanning
<1>4. Wires(T, P)
  BY <1>1, StepsAreWires
<1>5. FlattenSeq(Contents(steps)) \in Seq(P) /\ pending \in Seq(P)
  BY <1>3, <1>4, ContentsTyped, StepsAreWires
<1>6. Said(scan) = FlattenSeq(Contents(steps)) \o pending
  BY <1>2 DEF Said
<1>7. CASE p.kind \in {"text", "image"}
  <2>1. Placed(scan, of, p) = [steps |-> steps, pending |-> Append(pending, p)]
    <3>1. Placed(scan, of, p) = [scan EXCEPT !.pending = Append(scan.pending, p)]
      BY <1>7 DEF Placed
    <3>2. PICK q : q = Append(pending, p)
      OBVIOUS
    <3>3. [scan EXCEPT !.pending = q] = [steps |-> steps, pending |-> q]
      BY <1>3
    <3>. QED BY <1>2, <3>1, <3>2, <3>3
  <2>2. p \in Gathering(P)
    BY <1>7 DEF Gathering
  <2>3. Append(pending, p) \in Seq(Gathering(P))
    BY <1>3, <2>2
  <2>4. Placed(scan, of, p) \in Scanning(L, P)
    BY <1>1, <1>3, <2>1, <2>3 DEF Scanning
  <2>5. Said(Placed(scan, of, p)) = FlattenSeq(Contents(steps)) \o Append(pending, p)
    <3>1. PICK z : z = Placed(scan, of, p)
      OBVIOUS
    <3>2. z.steps = steps /\ z.pending = Append(pending, p)
      BY <2>1, <3>1
    <3>3. Said(z) = FlattenSeq(Contents(steps)) \o Append(pending, p)
      BY <3>2 DEF Said
    <3>. QED BY <3>1, <3>3
  <2>6. PICK a \in Seq(P) : a = FlattenSeq(Contents(steps))
    BY <1>5
  <2>7. a \o Append(pending, p) = Append(a \o pending, p)
    BY <1>5
  <2>. QED BY <1>6, <2>4, <2>5, <2>6, <2>7
<1>8. CASE p.kind \notin {"text", "image"}
  <2>1. PICK over : over = Flushed(steps, of, pending)
    OBVIOUS
  <2>2. over \in Seq(T) /\ FlattenSeq(Contents(over)) = FlattenSeq(Contents(steps)) \o pending
    <3>1. PICK v \in Seq(StepsIn(L, P)) : v = steps
      BY <1>1, <1>3
    <3>2. /\ Flushed(v, of, pending) \in Seq(StepsIn(L, P))
          /\ FlattenSeq(Contents(Flushed(v, of, pending))) = FlattenSeq(Contents(v)) \o pending
      <4>1. pending \in Seq(Gathering(P))
        BY <1>3
      <4>2. v \in Seq(StepsIn(L, P)) /\ of \in L
        BY <3>1
      <4>. QED BY ONLY <4>1, <4>2, FlushedTells
    <3>. QED BY <1>1, <2>1, <3>1, <3>2
  <2>3. PICK x : x = Step(p.kind, <<p>>)
    OBVIOUS
  <2>4. x \in T
    <3>1. <<p>> \in Alone(P)
      BY DEF Alone
    <3>. QED BY <1>1, <2>3, <3>1 DEF StepsIn, Step
  <2>5. Placed(scan, of, p) = [steps |-> Append(over, x), pending |-> <<>>]
    BY <1>2, <1>8, <2>1, <2>3 DEF Placed
  <2>6. Append(over, x) \in Seq(T) /\ <<>> \in Seq(Gathering(P))
    BY <2>2, <2>4
  <2>7. Placed(scan, of, p) \in Scanning(L, P)
    BY <1>1, <2>5, <2>6 DEF Scanning
  <2>8. FlattenSeq(Contents(Append(over, x))) = FlattenSeq(Contents(over)) \o <<p>>
    <3>1. over \in Seq(T)
      BY <2>2
    <3>2. FlattenSeq(Contents(Append(over, x))) = FlattenSeq(Contents(over)) \o x.content
      BY ONLY <1>4, <2>4, <3>1, ContentsAppended
    <3>3. x.content = <<p>>
      BY <2>3 DEF Step
    <3>. QED BY <3>2, <3>3
  <2>9. Said(Placed(scan, of, p)) = FlattenSeq(Contents(Append(over, x))) \o <<>>
    <3>1. PICK z : z = Placed(scan, of, p)
      OBVIOUS
    <3>2. z.steps = Append(over, x) /\ z.pending = <<>>
      BY <2>5, <3>1
    <3>3. Said(z) = FlattenSeq(Contents(Append(over, x))) \o <<>>
      BY <3>2 DEF Said
    <3>. QED BY <3>1, <3>3
  <2>10. PICK a \in Seq(P) : a = FlattenSeq(Contents(steps)) \o pending
    <3>1. PICK b \in Seq(P), c \in Seq(P) : b = FlattenSeq(Contents(steps)) /\ c = pending
      BY <1>5
    <3>2. b \o c \in Seq(P)
      OBVIOUS
    <3>. QED BY <3>1, <3>2
  <2>11. (a \o <<p>>) \o <<>> = Append(a, p)
    OBVIOUS
  <2>. QED BY <1>6, <2>2, <2>7, <2>8, <2>9, <2>10, <2>11
<1>. QED BY <1>7, <1>8

AppendsBehind(b, u, p) == Append(b \o u, p) = b \o Append(u, p)

LEMMA AppendedBehind ==
  ASSUME NEW P, NEW b \in Seq(P), NEW u \in Seq(P), NEW p \in P
  PROVE  AppendsBehind(b, u, p)
BY DEF AppendsBehind

(* A turn says its parts after what was said before. *)
LEMMA StepsOfTells ==
  ASSUME NEW L, NEW P, \A p \in P : p.kind \in L,
         NEW steps \in Seq(StepsIn(L, P)), NEW of \in L, NEW m, m.parts \in Seq(P)
  PROVE  /\ StepsOf(steps, of, m) \in Seq(StepsIn(L, P))
         /\ FlattenSeq(Contents(StepsOf(steps, of, m)))
              = FlattenSeq(Contents(steps)) \o m.parts
<1>1. PICK parts \in Seq(P) : parts = m.parts
  OBVIOUS
<1>. DEFINE n     == Len(parts)
            start == [steps |-> steps, pending |-> <<>>]
            Is(f) == f = [k \in 0 .. n |-> IF k = 0 THEN start ELSE Placed(f[k - 1], of, parts[k])]
            after == CHOOSE f : Is(f)
            turn  == [k \in 1 .. n |-> [x \in Scanning(L, P) |-> Placed(x, of, parts[k])]]
<1>2. n \in Nat /\ \A k \in 1 .. n : parts[k] \in P
  OBVIOUS
<1>3. StepsOf(steps, of, m) = Flushed(after[n].steps, of, after[n].pending)
  BY <1>1 DEF StepsOf
<1>4. PICK T : T = StepsIn(L, P)
  OBVIOUS
<1>5. Wires(T, P) /\ steps \in Seq(T)
  BY <1>4, StepsAreWires
<1>6. PICK Q : Q = Scanning(L, P)
  OBVIOUS
<1>7. start \in Q
  <2>1. <<>> \in Seq(Gathering(P))
    OBVIOUS
  <2>. QED BY <1>4, <1>5, <1>6, <2>1 DEF Scanning
<1>8. ASSUME NEW k \in 1 .. n, NEW x \in Q
      PROVE  /\ Placed(x, of, parts[k]) \in Q
             /\ Said(Placed(x, of, parts[k])) = Append(Said(x), parts[k])
  <2>1. PICK p \in P : p = parts[k]
    BY <1>2
  <2>2. x \in Scanning(L, P) /\ p.kind \in L
    BY <1>6
  <2>3. Placed(x, of, p) \in Scanning(L, P) /\ Said(Placed(x, of, p)) = Append(Said(x), p)
    BY <2>2, PlacedTells
  <2>. QED BY <1>6, <2>1, <2>3
<1>9. Said(start) = FlattenSeq(Contents(steps)) \o <<>>
  <2>1. PICK z : z = start
    OBVIOUS
  <2>2. z.steps = steps /\ z.pending = <<>>
    BY <2>1
  <2>3. Said(z) = FlattenSeq(Contents(steps)) \o <<>>
    BY <2>2 DEF Said
  <2>. QED BY <2>1, <2>3
<1>. HIDE DEF n, start
<1>10. turn \in [1 .. n -> [Q -> Q]]
  BY <1>6, <1>8
<1>11. PICK f : StatesOf(f, n, Q, start, turn)
  <2>. HIDE DEF turn
  <2>. QED BY <1>2, <1>7, <1>10, LoopHasStates
<1>12. f \in [0 .. n -> Q] /\ f[0] = start /\ \A k \in 1 .. n : f[k] = turn[k][f[k - 1]]
  BY <1>11 DEF StatesOf
<1>13. \A k \in 1 .. n : k \in 0 .. n /\ k - 1 \in 0 .. n /\ k # 0
  BY <1>2
<1>14. Is(f)
  <2>1. \A k \in 1 .. n : f[k] = Placed(f[k - 1], of, parts[k])
    BY <1>6, <1>12, <1>13
  <2>2. \A k \in 0 .. n : f[k] = IF k = 0 THEN start ELSE Placed(f[k - 1], of, parts[k])
    <3>1. \A k \in 0 .. n : k = 0 \/ k \in 1 .. n
      BY <1>2
    <3>. QED BY <1>12, <2>1, <3>1
  <2>. QED BY <1>12, <2>2
<1>15. Is(after)
  <2>. HIDE DEF Is
  <2>. QED BY <1>14
<1>. HIDE DEF after
<1>16. after[0] = start /\ \A k \in 1 .. n : after[k] = Placed(after[k - 1], of, parts[k])
  <2>1. 0 \in 0 .. n
    BY <1>2
  <2>2. after[0] = start
    BY <1>15, <2>1
  <2>3. \A k \in 1 .. n : after[k] = Placed(after[k - 1], of, parts[k])
    BY <1>13, <1>15
  <2>. QED BY <2>2, <2>3
<1>17. PICK before \in Seq(P) : before = FlattenSeq(Contents(steps))
  BY <1>5, ContentsTyped
<1>. DEFINE Upto(k) == SubSeq(parts, 1, k)
            Good == {k \in 0 .. n : after[k] \in Q /\ Said(after[k]) = before \o Upto(k)}
<1>18. 0 \in Good
  <2>1. Upto(0) = <<>> /\ before \o <<>> = before /\ 0 \in 0 .. n
    BY <1>2
  <2>. QED BY <1>7, <1>9, <1>16, <1>17, <2>1
<1>19. ASSUME NEW k \in 1 .. n, k - 1 \in Good PROVE k \in Good
  <2>1. PICK x \in Q : x = after[k - 1]
    BY <1>19
  <2>2. Said(x) = before \o Upto(k - 1)
    BY <1>19, <2>1
  <2>3. after[k] = Placed(x, of, parts[k])
    BY <1>16, <2>1
  <2>4. Placed(x, of, parts[k]) \in Q /\ Said(Placed(x, of, parts[k])) = Append(Said(x), parts[k])
    BY <1>8
  <2>5. Append(before \o Upto(k - 1), parts[k]) = before \o Upto(k)
    <3>1. Upto(k - 1) \in Seq(P) /\ parts[k] \in P /\ Upto(k) = Append(Upto(k - 1), parts[k])
      BY <1>2 DEF n
    <3>2. PICK u \in Seq(P), p \in P : u = Upto(k - 1) /\ p = parts[k]
      BY <3>1
    <3>3. Append(before \o u, p) = before \o Append(u, p)
      <4>1. before \in Seq(P) /\ u \in Seq(P) /\ p \in P
        OBVIOUS
      <4>2. AppendsBehind(before, u, p)
        BY ONLY <4>1, AppendedBehind
      <4>. QED BY ONLY <4>2 DEF AppendsBehind
    <3>. HIDE DEF Upto
    <3>. QED BY <3>1, <3>2, <3>3
  <2>. HIDE DEF Upto
  <2>. QED BY <1>13, <2>2, <2>3, <2>4, <2>5
<1>20. \A k \in 1 .. n : k - 1 \in Good => k \in Good
  BY <1>19
<1>21. \A k \in 0 .. n : k \in Good
  <2>. HIDE DEF Good
  <2>. QED BY <1>2, <1>18, <1>20, CountingUp
<1>22. after[n] \in Q /\ Said(after[n]) = before \o parts
  <2>1. n \in 0 .. n /\ Upto(n) = parts
    BY <1>2 DEF n
  <2>. QED BY <1>21, <2>1
<1>23. PICK last \in Scanning(L, P) : last = after[n]
  BY <1>6, <1>22
<1>24. last.steps \in Seq(StepsIn(L, P)) /\ last.pending \in Seq(Gathering(P))
  BY DEF Scanning
<1>25. PICK over \in Seq(StepsIn(L, P)), rest \in Seq(Gathering(P)) :
         over = last.steps /\ rest = last.pending
  BY <1>24
<1>26. /\ Flushed(over, of, rest) \in Seq(StepsIn(L, P))
       /\ FlattenSeq(Contents(Flushed(over, of, rest))) = FlattenSeq(Contents(over)) \o rest
  BY ONLY of \in L, FlushedTells
<1>27. Said(last) = FlattenSeq(Contents(over)) \o rest
  BY <1>25 DEF Said
<1>. QED BY <1>1, <1>3, <1>17, <1>22, <1>23, <1>25, <1>26, <1>27

LEMMA AllStepsTell ==
  ASSUME NEW R, NEW P, NEW s \in Seq(MessagesOf(R, P)),
         NEW L, \A p \in P : p.kind \in L, NEW of, \A i \in 1 .. Len(s) : of[i] \in L
  PROVE  /\ AllSteps(s, of) \in Seq(StepsIn(L, P))
         /\ FlattenSeq(Contents(AllSteps(s, of))) = PartsOf(s)
<1>. DEFINE n     == Len(s)
            Is(f) == f = [i \in 0 .. n |-> IF i = 0 THEN <<>> ELSE StepsOf(f[i - 1], of[i], s[i])]
            after == CHOOSE f : Is(f)
            turn  == [k \in 1 .. n |-> [x \in Seq(StepsIn(L, P)) |-> StepsOf(x, of[k], s[k])]]
            c     == PartsEach(s)
<1>1. /\ c \in Seq(Seq(P)) /\ Len(c) = n /\ PartsOf(s) = FlattenSeq(c) /\ n \in Nat
      /\ \A k \in 1 .. n : c[k] = s[k].parts /\ s[k].parts \in Seq(P)
  BY PartsEachTyped
<1>2. AllSteps(s, of) = after[n]
  BY DEF AllSteps
<1>3. \A k \in 1 .. n : of[k] \in L
  OBVIOUS
<1>. HIDE DEF n, c
<1>4. PICK g : EndToEnd(g, c, P)
  BY <1>1, FlattenRuns
<1>5. FlattenSeq(c) = g[n]
  BY <1>1, <1>4, FlattenIs
<1>6. g[0] = <<>> /\ \A k \in 1 .. n : g[k] = g[k - 1] \o c[k]
  BY <1>1, <1>4 DEF EndToEnd
<1>7. PICK Q : Q = Seq(StepsIn(L, P))
  OBVIOUS
<1>8. ASSUME NEW k \in 1 .. n, NEW x \in Q
      PROVE  /\ StepsOf(x, of[k], s[k]) \in Q
             /\ FlattenSeq(Contents(StepsOf(x, of[k], s[k])))
                  = FlattenSeq(Contents(x)) \o s[k].parts
  <2>1. PICK l \in L : l = of[k]
    BY <1>3
  <2>2. PICK m : m = s[k] /\ m.parts \in Seq(P)
    BY <1>1
  <2>3. x \in Seq(StepsIn(L, P))
    BY <1>7
  <2>4. /\ StepsOf(x, l, m) \in Seq(StepsIn(L, P))
        /\ FlattenSeq(Contents(StepsOf(x, l, m))) = FlattenSeq(Contents(x)) \o m.parts
    <3>1. m.parts \in Seq(P) /\ l \in L
      BY <2>2
    <3>. QED BY ONLY \A p \in P : p.kind \in L, <2>3, <3>1, StepsOfTells
  <2>. QED BY <1>7, <2>1, <2>2, <2>4
<1>9. <<>> \in Q /\ turn \in [1 .. n -> [Q -> Q]]
  <2>1. <<>> \in Q
    BY <1>7
  <2>2. turn = [k \in 1 .. n |-> [x \in Q |-> StepsOf(x, of[k], s[k])]]
    BY <1>7
  <2>3. \A k \in 1 .. n, x \in Q : StepsOf(x, of[k], s[k]) \in Q
    BY <1>8
  <2>4. [k \in 1 .. n |-> [x \in Q |-> StepsOf(x, of[k], s[k])]] \in [1 .. n -> [Q -> Q]]
    BY <2>3
  <2>. HIDE DEF turn
  <2>. QED BY <2>1, <2>2, <2>4
<1>10. PICK f : StatesOf(f, n, Q, <<>>, turn)
  <2>. HIDE DEF turn
  <2>. QED BY <1>1, <1>9, LoopHasStates
<1>11. f \in [0 .. n -> Q] /\ f[0] = <<>> /\ \A k \in 1 .. n : f[k] = turn[k][f[k - 1]]
  BY <1>10 DEF StatesOf
<1>12. \A k \in 1 .. n : k \in 0 .. n /\ k - 1 \in 0 .. n /\ k # 0
  BY <1>1
<1>13. Is(f)
  <2>1. \A k \in 1 .. n : f[k] = StepsOf(f[k - 1], of[k], s[k])
    BY <1>7, <1>11, <1>12
  <2>2. \A k \in 0 .. n : f[k] = IF k = 0 THEN <<>> ELSE StepsOf(f[k - 1], of[k], s[k])
    <3>1. \A k \in 0 .. n : k = 0 \/ k \in 1 .. n
      BY <1>1
    <3>. QED BY <1>11, <2>1, <3>1
  <2>. QED BY <1>11, <2>2
<1>14. Is(after)
  <2>. HIDE DEF Is
  <2>. QED BY <1>13
<1>. HIDE DEF after
<1>15. after[0] = <<>> /\ \A k \in 1 .. n : after[k] = StepsOf(after[k - 1], of[k], s[k])
  <2>1. 0 \in 0 .. n
    BY <1>1
  <2>2. after[0] = <<>>
    BY <1>14, <2>1
  <2>3. \A k \in 1 .. n : after[k] = StepsOf(after[k - 1], of[k], s[k])
    BY <1>12, <1>14
  <2>. QED BY <2>2, <2>3
<1>. DEFINE Good == {k \in 0 .. n : after[k] \in Q /\ FlattenSeq(Contents(after[k])) = g[k]}
<1>16. 0 \in Good
  BY <1>1, <1>6, <1>9, <1>15, NothingFlattened
<1>17. ASSUME NEW k \in 1 .. n, k - 1 \in Good PROVE k \in Good
  <2>1. PICK x \in Q : x = after[k - 1]
    BY <1>17
  <2>2. /\ StepsOf(x, of[k], s[k]) \in Q
        /\ FlattenSeq(Contents(StepsOf(x, of[k], s[k]))) = FlattenSeq(Contents(x)) \o s[k].parts
    BY <1>8
  <2>. QED BY <1>1, <1>6, <1>12, <1>15, <1>17, <2>1, <2>2
<1>18. \A k \in 1 .. n : k - 1 \in Good => k \in Good
  BY <1>17
<1>19. \A k \in 0 .. n : k \in Good
  <2>. HIDE DEF Good
  <2>. QED BY <1>1, <1>16, <1>18, CountingUp
<1>20. n \in 0 .. n
  BY <1>1
<1>. QED BY <1>1, <1>2, <1>5, <1>7, <1>19, <1>20

\* What a build that does not refuse sends of s.
Whole(built, s) ==
  \/ built.refused
  \/ /\ built.system = Hoisted(s)
     /\ FlattenSeq(Contents(built.turns)) = PartsOf(Turns(s))

LEMMA TurnsTyped ==
  ASSUME NEW R, NEW P, NEW s \in Seq(MessagesOf(R, P))
  PROVE  /\ Turns(s) \in Seq(MessagesOf(R, P))
         /\ Turns(s) = Pick(s, {i \in DOMAIN s : ~Pinned(s[i])})
<1>1. PICK S \in SUBSET DOMAIN s : S = {i \in DOMAIN s : ~Pinned(s[i])}
  OBVIOUS
<1>2. Turns(s) = Retain(s, S)
  BY <1>1 DEF Turns
<1>3. PICK M : M = MessagesOf(R, P)
  OBVIOUS
<1>4. s \in Seq(M)
  BY <1>3
<1>5. Retain(s, S) = Pick(s, S) /\ Pick(s, S) \in Seq(M)
  BY ONLY <1>1, <1>4, RetainPicks, Picked
<1>. QED BY <1>1, <1>2, <1>3, <1>5

\* The labels steps go by.
Labels(R, P) == {"model_output", "user_input"} \cup R \cup {p.kind : p \in P}

LEMMA BuildsAreWhole ==
  ASSUME NEW R, NEW P, NEW s \in Seq(MessagesOf(R, P))
  PROVE  Whole(AnthropicBuild(s), s) /\ Whole(GeminiBuild(s), s) /\ Whole(ResponsesBuild(s), s)
<1>1. PICK u \in Seq(MessagesOf(R, P)) : u = Turns(s)
  BY TurnsTyped
<1>2. Whole(AnthropicBuild(s), s)
  <2>1. FlattenSeq(Contents(AnthropicMessages(u))) = PartsOf(u)
    BY AnthropicSendsAll
  <2>2. \/ AnthropicBuild(s) = Refused
        \/ AnthropicBuild(s) = Built(Hoisted(s), AnthropicMessages(u))
    BY <1>1 DEF AnthropicBuild
  <2>. QED BY <1>1, <2>1, <2>2 DEF Whole, Refused, Built
<1>3. ASSUME NEW of, \A i \in 1 .. Len(u) : of[i] \in Labels(R, P)
      PROVE  FlattenSeq(Contents(AllSteps(u, of))) = PartsOf(u)
  <2>1. PICK L : L = Labels(R, P)
    OBVIOUS
  <2>2. \A p \in P : p.kind \in L
    BY <2>1 DEF Labels
  <2>3. \A i \in 1 .. Len(u) : of[i] \in L
    BY <1>3, <2>1
  <2>. QED BY ONLY <2>2, <2>3, u \in Seq(MessagesOf(R, P)), AllStepsTell
<1>4. Whole(GeminiBuild(s), s)
  <2>1. PICK of : of = [i \in DOMAIN u |-> GeminiStep(u[i])]
    OBVIOUS
  <2>2. \A i \in 1 .. Len(u) : of[i] \in Labels(R, P)
    BY <2>1 DEF GeminiStep, Labels
  <2>3. FlattenSeq(Contents(AllSteps(u, of))) = PartsOf(u)
    BY <1>3, <2>2
  <2>4. \/ GeminiBuild(s) = Refused
        \/ GeminiBuild(s) = Built(Hoisted(s), AllSteps(u, of))
    BY <1>1, <2>1 DEF GeminiBuild
  <2>. QED BY <1>1, <2>3, <2>4 DEF Whole, Refused, Built
<1>5. Whole(ResponsesBuild(s), s)
  <2>1. PICK of : of = [i \in DOMAIN u |-> u[i].role]
    OBVIOUS
  <2>2. \A i \in 1 .. Len(u) : of[i] \in Labels(R, P)
    <3>1. \A i \in 1 .. Len(u) : u[i] \in MessagesOf(R, P) /\ i \in DOMAIN u
      OBVIOUS
    <3>2. \A m \in MessagesOf(R, P) : m.role \in R
      BY DEF MessagesOf
    <3>. QED BY <2>1, <3>1, <3>2 DEF Labels
  <2>3. FlattenSeq(Contents(AllSteps(u, of))) = PartsOf(u)
    BY <1>3, <2>2
  <2>4. \/ ResponsesBuild(s) = Refused
        \/ ResponsesBuild(s) = Built(Hoisted(s), AllSteps(u, of))
    BY <1>1, <2>1 DEF ResponsesBuild
  <2>. QED BY <1>1, <2>3, <2>4 DEF Whole, Refused, Built
<1>. QED BY <1>2, <1>4, <1>5

\* The messages of Chat Completions before those that say nothing are left out.
ChatAll(s) == [i \in DOMAIN s |-> ChatMessage(s[i])]
Saying(s)  == {i \in DOMAIN s : ChatAll(s)[i].content # <<>> \/ ChatAll(s)[i].calls # <<>>}

LEMMA ChatBuilds ==
  ASSUME NEW R, NEW P, NEW s \in Seq(MessagesOf(R, P))
  PROVE  /\ \/ ChatBuild(s) = Refused
            \/ ChatBuild(s) = Built(<<>>, Pick(ChatAll(s), Saying(s)))
         /\ (\A i \in DOMAIN s : Len(ChatAll(s)[i].answers) \in {0, 1}) =>
              ChatBuild(s) = Built(<<>>, Pick(ChatAll(s), Saying(s)))
<1>1. PICK all, S : all = ChatAll(s) /\ S = Saying(s)
  OBVIOUS
<1>2. \/ ChatBuild(s) = Refused
      \/ ChatBuild(s) = Built(<<>>, Retain(all, S))
  BY <1>1 DEF ChatBuild, ChatAll, Saying
<1>3. (\A i \in DOMAIN s : Len(all[i].answers) \in {0, 1}) => ChatBuild(s) = Built(<<>>, Retain(all, S))
  <2>. SUFFICES ASSUME \A i \in DOMAIN s : Len(all[i].answers) \in {0, 1}
                PROVE  ChatBuild(s) = Built(<<>>, Retain(all, S))
    OBVIOUS
  <2>1. ~ \E i \in DOMAIN s : Len(all[i].answers) > 1
    <3>1. \A l \in {0, 1} : ~(l > 1)
      OBVIOUS
    <3>. QED BY <3>1, Zenon
  <2>2. all = [i \in DOMAIN s |-> ChatMessage(s[i])] /\ S = Saying(s)
    BY <1>1 DEF ChatAll
  <2>. QED BY <1>1, <2>1, <2>2 DEF ChatBuild, ChatAll, Saying
<1>4. PICK M : M = {all[i] : i \in DOMAIN s}
  OBVIOUS
<1>5. all \in Seq(M) /\ S \in SUBSET DOMAIN all
  <2>1. DOMAIN all = DOMAIN s /\ DOMAIN s = 1 .. Len(s) /\ Len(s) \in Nat
    BY <1>1 DEF ChatAll
  <2>2. \A i \in DOMAIN s : all[i] \in M
    BY <1>4
  <2>3. all = [i \in DOMAIN s |-> all[i]]
    BY <1>1 DEF ChatAll
  <2>4. all \in [1 .. Len(s) -> M]
    BY <2>1, <2>2, <2>3
  <2>. QED BY <1>1, <2>1, <2>4 DEF Saying
<1>6. Retain(all, S) = Pick(all, S)
  BY ONLY <1>5, RetainPicks
<1>. QED BY <1>1, <1>2, <1>3, <1>6

LEMMA ChatSendsAll ==
  ASSUME NEW R, NEW P, NEW s \in Seq(MessagesOf(R, P)), NEW K, NEW says,
         says = [i \in DOMAIN s |-> OfKinds(s[i].parts, K)],
         NEW S \in SUBSET DOMAIN s, \A i \in DOMAIN s : i \notin S => says[i] = <<>>
  PROVE  FlattenSeq(Pick(says, S)) = OfKinds(PartsOf(s), K)
<1>1. PICK c \in Seq(Seq(P)) : c = PartsEach(s)
  BY PartsEachTyped
<1>2. PartsOf(s) = FlattenSeq(c) /\ DOMAIN c = DOMAIN s /\ \A i \in DOMAIN s : c[i] = s[i].parts
  BY <1>1, PartsEachTyped DEF PartsEach
<1>3. says = [i \in DOMAIN c |-> OfKinds(c[i], K)]
  BY <1>2
<1>4. says \in Seq(Seq(P)) /\ FlattenSeq(says) = OfKinds(FlattenSeq(c), K)
  BY <1>3, OfKindsFlattened
<1>5. DOMAIN says = DOMAIN s
  OBVIOUS
<1>6. S \in SUBSET DOMAIN says /\ \A i \in DOMAIN says : i \notin S => says[i] = <<>>
  BY <1>5
<1>7. says \in Seq(Seq(P))
  BY <1>4
<1>8. FlattenSeq(Pick(says, S)) = FlattenSeq(says)
  BY ONLY <1>6, <1>7, EmptyOnesDoNotShow
<1>. QED BY <1>2, <1>4, <1>8

(* What is sent of messages that were picked is what is picked of what they say. *)
LEMMA PickedContents ==
  ASSUME NEW M, NEW s \in Seq(M), NEW S \in SUBSET DOMAIN s
  PROVE  /\ [k \in DOMAIN Pick(s, S) |-> Pick(s, S)[k].content]
              = Pick([i \in DOMAIN s |-> s[i].content], S)
         /\ [k \in DOMAIN Pick(s, S) |-> Pick(s, S)[k].calls]
              = Pick([i \in DOMAIN s |-> s[i].calls], S)
<1>1. DOMAIN Pick(s, S) = 1 .. Cardinality(S)
  BY DEF Pick
<1>2. \A k \in 1 .. Cardinality(S) : Nth(S, k) \in DOMAIN s /\ Pick(s, S)[k] = s[Nth(S, k)]
  <2>1. \A k \in DOMAIN Pick(s, S) : Nth(S, k) \in S /\ Pick(s, S)[k] = s[Nth(S, k)]
    BY Picked
  <2>. QED BY <1>1, <2>1
<1>. QED BY <1>1, <1>2 DEF Pick

LEMMA ChatIsWhole ==
  ASSUME NEW R, NEW P, NEW s \in Seq(MessagesOf(R, P)), ~ChatBuild(s).refused
  PROVE  LET turns == ChatBuild(s).turns
         IN  /\ FlattenSeq([i \in DOMAIN turns |-> turns[i].content])
                  = OfKinds(PartsOf(s), {"text", "image", "result"})
             /\ FlattenSeq([i \in DOMAIN turns |-> turns[i].calls])
                  = OfKinds(PartsOf(s), {"call"})
<1>1. PICK all, S : all = ChatAll(s) /\ S = Saying(s)
  OBVIOUS
<1>2. ChatBuild(s).turns = Pick(all, S)
  BY <1>1, ChatBuilds DEF Refused, Built
<1>3. PICK M : M = {all[i] : i \in DOMAIN s}
  OBVIOUS
<1>4. all \in Seq(M) /\ S \in SUBSET DOMAIN all /\ S \in SUBSET DOMAIN s /\ DOMAIN all = DOMAIN s
  <2>1. DOMAIN all = DOMAIN s /\ DOMAIN s = 1 .. Len(s) /\ Len(s) \in Nat
    BY <1>1 DEF ChatAll
  <2>2. \A i \in DOMAIN s : all[i] \in M
    BY <1>3
  <2>3. all = [i \in DOMAIN s |-> all[i]]
    BY <1>1 DEF ChatAll
  <2>4. all \in [1 .. Len(s) -> M]
    BY <2>1, <2>2, <2>3
  <2>. QED BY <1>1, <2>1, <2>4 DEF Saying
<1>5. PICK content, calls : /\ content = [i \in DOMAIN all |-> all[i].content]
                            /\ calls = [i \in DOMAIN all |-> all[i].calls]
  OBVIOUS
<1>6. /\ [k \in DOMAIN Pick(all, S) |-> Pick(all, S)[k].content] = Pick(content, S)
      /\ [k \in DOMAIN Pick(all, S) |-> Pick(all, S)[k].calls] = Pick(calls, S)
  BY <1>4, <1>5, PickedContents
<1>7. PICK K, C : K = {"text", "image", "result"} /\ C = {"call"}
  OBVIOUS
<1>8. content = [i \in DOMAIN s |-> OfKinds(s[i].parts, K)]
  BY <1>1, <1>4, <1>5, <1>7 DEF ChatAll, ChatMessage
<1>9. calls = [i \in DOMAIN s |-> OfKinds(s[i].parts, C)]
  BY <1>1, <1>4, <1>5, <1>7 DEF ChatAll, ChatMessage
<1>10. \A i \in DOMAIN s : i \notin S => content[i] = <<>> /\ calls[i] = <<>>
  BY <1>1, <1>4, <1>5 DEF Saying
<1>11. S \in SUBSET DOMAIN s
  BY <1>4
<1>12. FlattenSeq(Pick(content, S)) = OfKinds(PartsOf(s), K)
  BY ONLY s \in Seq(MessagesOf(R, P)), <1>8, <1>10, <1>11, ChatSendsAll
<1>13. FlattenSeq(Pick(calls, S)) = OfKinds(PartsOf(s), C)
  BY ONLY s \in Seq(MessagesOf(R, P)), <1>9, <1>10, <1>11, ChatSendsAll
<1>. QED BY <1>2, <1>6, <1>7, <1>12, <1>13

LEMMA TranscriptIsOfMessages == Spec => [](h \in Seq(Messages))
<1>1. Init => h \in Seq(Messages)
  BY DEF Init
<1>2. h \in Seq(Messages) /\ [Next]_h => (h \in Seq(Messages))'
  BY DEF Next, AppendMessage
<1>. QED BY <1>1, <1>2, PTL DEF Spec

(* Whatever is in a transcript and however long it is, each dialect sends all of
   it or refuses it (dialect/*/request.rs, build). *)
THEOREM TranscriptsAreSentWhole == Spec => []TranscriptIsSentWhole
<1>1. h \in Seq(Messages) => TranscriptIsSentWhole
  <2>. SUFFICES ASSUME h \in Seq(Messages) PROVE TranscriptIsSentWhole
    OBVIOUS
  <2>1. h \in Seq(MessagesOf(Roles, Kinds))
    BY MessagesAreBuilt
  <2>2. Whole(AnthropicBuild(h), h) /\ Whole(GeminiBuild(h), h) /\ Whole(ResponsesBuild(h), h)
    BY <2>1, BuildsAreWhole
  <2>3. ~ChatBuild(h).refused =>
          LET turns == ChatBuild(h).turns
          IN  /\ FlattenSeq([i \in DOMAIN turns |-> turns[i].content])
                   = OfKinds(PartsOf(h), {"text", "image", "result"})
              /\ FlattenSeq([i \in DOMAIN turns |-> turns[i].calls])
                   = OfKinds(PartsOf(h), {"call"})
    BY <2>1, ChatIsWhole
  <2>. QED BY <2>2, <2>3 DEF TranscriptIsSentWhole, Whole, Contents
<1>. QED BY <1>1, TranscriptIsOfMessages, PTL

-----------------------------------------------------------------------------
(* Where parts are when sequences of them are put end to end *)

\* Sequence i of c is in s from behind position at[i].
Places(at, c, s) ==
  /\ at \in [1 .. Len(c) -> Nat]
  /\ \A i \in 1 .. Len(c) : \A k \in 1 .. Len(c[i]) :
       at[i] + k \in 1 .. Len(s) /\ s[at[i] + k] = c[i][k]
  /\ \A x \in 1 .. Len(s) : \E i \in 1 .. Len(c) : \E k \in 1 .. Len(c[i]) : x = at[i] + k
  /\ \A i, j \in 1 .. Len(c) : i < j => at[i] + Len(c[i]) <= at[j]

\* The same of the first m sequences.
PlacesUpTo(at, c, s, m) ==
  /\ \A i \in 1 .. m : \A k \in 1 .. Len(c[i]) :
       at[i] + k \in 1 .. Len(s) /\ s[at[i] + k] = c[i][k]
  /\ \A x \in 1 .. Len(s) : \E i \in 1 .. m : \E k \in 1 .. Len(c[i]) : x = at[i] + k
  /\ \A i \in 1 .. m : at[i] + Len(c[i]) <= Len(s)

LEMMA OneMorePlaced ==
  ASSUME NEW S, NEW c \in Seq(Seq(S)), NEW at \in [1 .. Len(c) -> Nat], NEW m \in 1 .. Len(c),
         NEW s \in Seq(S), PlacesUpTo(at, c, s, m - 1), at[m] = Len(s)
  PROVE  PlacesUpTo(at, c, s \o c[m], m)
<1>. DEFINE u == s \o c[m]
<1>1. PICK x \in Seq(S) : x = c[m]
  OBVIOUS
<1>2. /\ Len(s) \in Nat /\ Len(x) \in Nat /\ Len(u) = Len(s) + Len(x)
      /\ \A k \in 1 .. Len(s) : u[k] = s[k]
      /\ \A k \in 1 .. Len(x) : u[Len(s) + k] = x[k]
  BY <1>1
<1>3. m \in Nat /\ Len(c) \in Nat /\ \A i \in 1 .. m : i = m \/ i \in 1 .. m - 1
  OBVIOUS
<1>4. \A i \in 1 .. m : at[i] \in Nat /\ Len(c[i]) \in Nat
  BY <1>3
<1>. HIDE DEF u
<1>5. ASSUME NEW i \in 1 .. m, NEW k \in 1 .. Len(c[i])
      PROVE  at[i] + k \in 1 .. Len(u) /\ u[at[i] + k] = c[i][k]
  <2>1. CASE i = m
    <3>1. k \in 1 .. Len(x) /\ at[i] = Len(s) /\ c[i] = x
      BY <1>1, <2>1
    <3>2. Len(s) + k \in 1 .. Len(u)
      BY <1>2, <3>1
    <3>. QED BY <1>2, <3>1, <3>2
  <2>2. CASE i # m
    <3>1. i \in 1 .. m - 1
      BY <1>3, <2>2
    <3>2. at[i] + k \in 1 .. Len(s) /\ s[at[i] + k] = c[i][k]
      BY <3>1 DEF PlacesUpTo
    <3>3. at[i] + k \in 1 .. Len(u)
      BY <1>2, <3>2
    <3>. QED BY <1>2, <3>2, <3>3
  <2>. QED BY <2>1, <2>2
<1>6. ASSUME NEW y \in 1 .. Len(u)
      PROVE  \E i \in 1 .. m : \E k \in 1 .. Len(c[i]) : y = at[i] + k
  <2>1. CASE y <= Len(s)
    <3>1. y \in 1 .. Len(s)
      BY <1>2, <2>1
    <3>2. PICK i \in 1 .. m - 1 : \E k \in 1 .. Len(c[i]) : y = at[i] + k
      BY <3>1 DEF PlacesUpTo
    <3>3. i \in 1 .. m
      BY <1>3
    <3>. QED BY <3>2, <3>3
  <2>2. CASE ~(y <= Len(s))
    <3>1. y - Len(s) \in 1 .. Len(x) /\ y = Len(s) + (y - Len(s))
      BY <1>2, <2>2
    <3>2. m \in 1 .. m
      BY <1>3
    <3>. QED BY <1>1, <3>1, <3>2
  <2>. QED BY <2>1, <2>2
<1>7. ASSUME NEW i \in 1 .. m PROVE at[i] + Len(c[i]) <= Len(u)
  <2>1. CASE i = m
    BY <1>1, <1>2, <2>1
  <2>2. CASE i # m
    <3>1. at[i] + Len(c[i]) <= Len(s)
      BY <1>3, <2>2 DEF PlacesUpTo
    <3>. QED BY <1>2, <1>4, <3>1
  <2>. QED BY <2>1, <2>2
<1>. QED BY <1>5, <1>6, <1>7 DEF PlacesUpTo, u

LEMMA FlattenPlaces ==
  ASSUME NEW S, NEW c \in Seq(Seq(S))
  PROVE  FlattenSeq(c) \in Seq(S) /\ \E at : Places(at, c, FlattenSeq(c))
<1>. DEFINE n == Len(c)
<1>1. PICK g : EndToEnd(g, c, S)
  BY FlattenRuns
<1>2. FlattenSeq(c) = g[n]
  BY <1>1, FlattenIs
<1>3. g \in [0 .. n -> Seq(S)] /\ g[0] = <<>> /\ \A k \in 1 .. n : g[k] = g[k - 1] \o c[k]
  BY <1>1 DEF EndToEnd
<1>4. n \in Nat
  OBVIOUS
<1>5. \A k \in 1 .. n : k - 1 \in 0 .. n /\ k \in 0 .. n
  BY <1>4
<1>. DEFINE at   == [i \in 1 .. n |-> Len(g[i - 1])]
            Good == {m \in 0 .. n : PlacesUpTo(at, c, g[m], m)}
<1>6. at \in [1 .. n -> Nat]
  <2>1. \A k \in 0 .. n : Len(g[k]) \in Nat
    BY <1>3
  <2>. QED BY <1>5, <2>1
<1>7. \A i \in 1 .. n : at[i] = Len(g[i - 1])
  OBVIOUS
<1>. HIDE DEF at
<1>8. 0 \in Good
  <2>1. 1 .. 0 = {} /\ Len(<<>>) = 0 /\ 0 \in 0 .. n
    BY <1>4
  <2>2. PlacesUpTo(at, c, <<>>, 0)
    BY <2>1 DEF PlacesUpTo
  <2>. QED BY <1>3, <2>1, <2>2
<1>9. ASSUME NEW m \in 1 .. n, m - 1 \in Good PROVE m \in Good
  <2>1. PICK s \in Seq(S) : s = g[m - 1]
    BY <1>3, <1>5
  <2>2. PlacesUpTo(at, c, s, m - 1) /\ at[m] = Len(s)
    BY <1>7, <1>9, <2>1
  <2>3. PlacesUpTo(at, c, s \o c[m], m)
    BY <1>6, <2>2, OneMorePlaced
  <2>. QED BY <1>3, <1>5, <2>1, <2>3
<1>10. \A k \in 1 .. n : k - 1 \in Good => k \in Good
  BY <1>9
<1>11. \A m \in 0 .. n : PlacesUpTo(at, c, g[m], m)
  <2>1. \A k \in 0 .. n : k \in Good
    <3>. HIDE DEF Good
    <3>. QED BY <1>4, <1>8, <1>10, CountingUp
  <2>. QED BY <2>1
<1>12. n \in 0 .. n
  BY <1>4
<1>13. ASSUME NEW i \in 1 .. n, NEW j \in 1 .. n, i < j PROVE at[i] + Len(c[i]) <= at[j]
  <2>1. PICK m \in 0 .. n : m = j - 1
    BY <1>5
  <2>2. i \in 1 .. m /\ PlacesUpTo(at, c, g[m], m)
    BY <1>11, <1>13, <2>1
  <2>3. at[i] + Len(c[i]) <= Len(g[m])
    BY <2>2 DEF PlacesUpTo
  <2>. QED BY <1>7, <2>1, <2>3
<1>14. Places(at, c, g[n])
  <2>1. PlacesUpTo(at, c, g[n], n)
    BY <1>11, <1>12
  <2>. QED BY <1>6, <1>13, <2>1 DEF Places, PlacesUpTo
<1>. QED BY <1>2, <1>3, <1>12, <1>14

-----------------------------------------------------------------------------
(* Calls and results in the order of their parts *)

\* In s every call is answered later and every result answers an earlier call.
AnsweredLater(s) ==
  \A id \in CallId, x \in 1 .. Len(s) :
    /\ s[x] = Call(id)   => \E y \in x + 1 .. Len(s) : s[y] = Result(id)
    /\ s[x] = Result(id) => \E y \in 1 .. x - 1 : s[y] = Call(id)

LEMMA PartsAnsweredLater ==
  ASSUME NEW R, NEW P, NEW s \in Seq(MessagesOf(R, P)), Sendable(s)
  PROVE  PartsOf(s) \in Seq(P) /\ AnsweredLater(PartsOf(s))
<1>1. PICK c \in Seq(Seq(P)) : c = PartsEach(s)
  BY PartsEachTyped
<1>2. PICK n \in Nat : n = Len(s)
  OBVIOUS
<1>3. Len(c) = n /\ DOMAIN s = 1 .. n /\ \A i \in 1 .. n : c[i] = s[i].parts
  BY <1>1, <1>2, PartsEachTyped
<1>4. PICK F \in Seq(P) : F = FlattenSeq(c)
  BY FlattenPlaces
<1>5. PartsOf(s) = F
  BY <1>1, <1>4, PartsEachTyped
<1>6. PICK at : Places(at, c, F)
  BY <1>4, FlattenPlaces
<1>7. /\ \A i \in 1 .. n : at[i] \in Nat
      /\ \A i \in 1 .. n : \A k \in 1 .. Len(c[i]) :
           at[i] + k \in 1 .. Len(F) /\ F[at[i] + k] = c[i][k]
      /\ \A x \in 1 .. Len(F) : \E i \in 1 .. n : \E k \in 1 .. Len(c[i]) : x = at[i] + k
      /\ \A i, j \in 1 .. n : i < j => at[i] + Len(c[i]) <= at[j]
  BY <1>3, <1>6 DEF Places
<1>8. \A i \in 1 .. n : Len(c[i]) \in Nat /\ DOMAIN s[i].parts = 1 .. Len(c[i])
  <2>1. \A i \in 1 .. n : c[i] \in Seq(P)
    BY <1>3
  <2>. QED BY <1>3, <2>1
<1>9. ASSUME NEW x \in 1 .. Len(F), NEW p, F[x] = p
      PROVE  \E i \in 1 .. n : \E k \in DOMAIN s[i].parts : s[i].parts[k] = p /\ x = at[i] + k
  <2>1. PICK i \in 1 .. n : \E k \in 1 .. Len(c[i]) : x = at[i] + k
    BY <1>7
  <2>2. PICK k \in 1 .. Len(c[i]) : x = at[i] + k
    BY <2>1
  <2>3. F[at[i] + k] = c[i][k]
    BY <1>7
  <2>4. k \in DOMAIN s[i].parts /\ s[i].parts[k] = p
    BY <1>3, <1>8, <1>9, <2>2, <2>3
  <2>. QED BY <2>2, <2>4
<1>10. ASSUME NEW i \in 1 .. n, NEW k \in DOMAIN s[i].parts
       PROVE  at[i] + k \in 1 .. Len(F) /\ F[at[i] + k] = s[i].parts[k] /\ k \in Nat
              /\ 1 <= k /\ k <= Len(c[i])
  <2>1. k \in 1 .. Len(c[i]) /\ Len(c[i]) \in Nat
    BY <1>8
  <2>2. at[i] + k \in 1 .. Len(F) /\ F[at[i] + k] = c[i][k]
    BY <1>7, <2>1
  <2>3. c[i][k] = s[i].parts[k]
    BY <1>3
  <2>4. k \in Nat /\ 1 <= k /\ k <= Len(c[i])
    BY <2>1
  <2>. QED BY <2>2, <2>3, <2>4
<1>11. ASSUME NEW i \in 1 .. n, NEW j \in 1 .. n, i < j,
              NEW k \in DOMAIN s[i].parts, NEW l \in DOMAIN s[j].parts
       PROVE  at[i] + k < at[j] + l
  <2>1. at[i] + Len(c[i]) <= at[j] /\ at[i] \in Nat /\ at[j] \in Nat /\ Len(c[i]) \in Nat
    BY <1>7, <1>8, <1>11
  <2>2. k \in Nat /\ l \in Nat /\ k <= Len(c[i]) /\ 1 <= l
    BY <1>10
  <2>3. \A a, b, w, x, y \in Nat : a + w <= b /\ x <= w /\ 1 <= y => a + x < b + y
    OBVIOUS
  <2>. QED BY ONLY <2>1, <2>2, <2>3
<1>12. ASSUME NEW id \in CallId, NEW x \in 1 .. Len(F), F[x] = Call(id)
       PROVE  \E y \in x + 1 .. Len(F) : F[y] = Result(id)
  <2>1. PICK i \in 1 .. n : \E k \in DOMAIN s[i].parts : s[i].parts[k] = Call(id) /\ x = at[i] + k
    BY <1>9, <1>12
  <2>2. PICK k \in DOMAIN s[i].parts : s[i].parts[k] = Call(id) /\ x = at[i] + k
    BY <2>1
  <2>3. HasCall(s[i], id)
    BY <2>2 DEF HasCall
  <2>4. PICK j \in 1 .. n : Answers(s, i, j, id)
    BY <1>3, <2>3 DEF Sendable
  <2>5. i < j /\ HasResult(s[j], id)
    BY <2>4 DEF Answers
  <2>6. PICK l \in DOMAIN s[j].parts : s[j].parts[l] = Result(id)
    BY <2>5 DEF HasResult
  <2>7. x < at[j] + l /\ at[j] + l \in 1 .. Len(F) /\ F[at[j] + l] = Result(id)
    BY <1>10, <1>11, <2>2, <2>5, <2>6
  <2>8. at[j] + l \in x + 1 .. Len(F)
    BY <2>7
  <2>. QED BY <2>7, <2>8
<1>13. ASSUME NEW id \in CallId, NEW x \in 1 .. Len(F), F[x] = Result(id)
       PROVE  \E y \in 1 .. x - 1 : F[y] = Call(id)
  <2>1. PICK i \in 1 .. n : \E k \in DOMAIN s[i].parts : s[i].parts[k] = Result(id) /\ x = at[i] + k
    BY <1>9, <1>13
  <2>2. PICK k \in DOMAIN s[i].parts : s[i].parts[k] = Result(id) /\ x = at[i] + k
    BY <2>1
  <2>3. HasResult(s[i], id)
    BY <2>2 DEF HasResult
  <2>4. PICK j \in 1 .. n : Answers(s, j, i, id)
    BY <1>3, <2>3 DEF Sendable
  <2>5. j < i /\ HasCall(s[j], id)
    BY <2>4 DEF Answers
  <2>6. PICK l \in DOMAIN s[j].parts : s[j].parts[l] = Call(id)
    BY <2>5 DEF HasCall
  <2>7. at[j] + l < x /\ at[j] + l \in 1 .. Len(F) /\ F[at[j] + l] = Call(id)
    BY <1>10, <1>11, <2>2, <2>5, <2>6
  <2>8. at[j] + l \in 1 .. x - 1
    BY <2>7
  <2>. QED BY <2>7, <2>8
<1>. QED BY <1>4, <1>5, <1>12, <1>13 DEF AnsweredLater

(* What a step holds is more than one part only if all of them gather. *)
LEMMA StepsHold ==
  ASSUME NEW L, NEW P, NEW step \in StepsIn(L, P)
  PROVE  /\ step.content \in Seq(P) /\ 1 \in 1 .. Len(step.content)
         /\ \A k \in 1 .. Len(step.content) :
              step.content[k].kind \notin {"text", "image"} =>
                k = 1 /\ step.content = <<step.content[k]>>
<1>1. step.content \in Seq(Gathering(P)) \ {<<>>} \/ step.content \in Alone(P)
  BY DEF StepsIn
<1>2. CASE step.content \in Seq(Gathering(P)) \ {<<>>}
  <2>1. PICK v \in Seq(Gathering(P)) : v = step.content /\ v # <<>>
    BY <1>2
  <2>2. v \in Seq(P) /\ 1 \in 1 .. Len(v) /\ \A k \in 1 .. Len(v) : v[k] \in Gathering(P)
    BY <2>1, StepsAreWires
  <2>. QED BY <2>1, <2>2 DEF Gathering
<1>3. CASE step.content \in Alone(P)
  <2>1. PICK p \in P : step.content = <<p>>
    BY <1>3 DEF Alone
  <2>. QED BY <2>1
<1>. QED BY <1>1, <1>2, <1>3

LEMMA StepsAreAccepted ==
  ASSUME NEW L, NEW P, ToolParts(P), NEW w \in Seq(StepsIn(L, P)),
         AnsweredLater(FlattenSeq(Contents(w)))
  PROVE  StepsAccepted(w)
<1>1. PICK T : T = StepsIn(L, P)
  OBVIOUS
<1>2. PICK n \in Nat : n = Len(w) /\ DOMAIN w = 1 .. n
  OBVIOUS
<1>3. w \in Seq(T) /\ Wires(T, P)
  BY <1>1, StepsAreWires
<1>4. PICK c : c = Contents(w)
  OBVIOUS
<1>5. \A i \in 1 .. n : w[i] \in StepsIn(L, P) /\ c[i] = w[i].content
  BY <1>2, <1>4 DEF Contents
<1>6. c \in Seq(Seq(P)) /\ Len(c) = n
  <2>1. PICK Q : Q = Seq(P)
    OBVIOUS
  <2>2. \A i \in 1 .. n : c[i] \in Q
    BY <1>5, <2>1, StepsHold
  <2>3. c = [i \in 1 .. n |-> c[i]]
    BY <1>2, <1>4 DEF Contents
  <2>4. c \in [1 .. n -> Q]
    BY <2>2, <2>3
  <2>5. c \in Seq(Q) /\ Len(c) = n
    BY <1>2, <2>4
  <2>. QED BY <2>1, <2>5
<1>7. PICK F \in Seq(P) : F = FlattenSeq(c)
  BY <1>6, FlattenPlaces
<1>8. PICK at : Places(at, c, F)
  BY <1>6, <1>7, FlattenPlaces
<1>9. /\ \A i \in 1 .. n : at[i] \in Nat
      /\ \A i \in 1 .. n : \A k \in 1 .. Len(c[i]) :
           at[i] + k \in 1 .. Len(F) /\ F[at[i] + k] = c[i][k]
      /\ \A x \in 1 .. Len(F) : \E i \in 1 .. n : \E k \in 1 .. Len(c[i]) : x = at[i] + k
      /\ \A i, j \in 1 .. n : i < j => at[i] + Len(c[i]) <= at[j]
  BY <1>6, <1>8 DEF Places
<1>10. AnsweredLater(F)
  BY <1>4, <1>7
<1>11. \A i \in 1 .. n : /\ c[i] \in Seq(P) /\ Len(c[i]) \in Nat /\ 1 \in 1 .. Len(c[i])
                         /\ \A k \in 1 .. Len(c[i]) :
                              c[i][k].kind \notin {"text", "image"} => k = 1 /\ c[i] = <<c[i][k]>>
  BY <1>5, StepsHold
\* A tool part is a step, the only one that begins at its place.
<1>12. ASSUME NEW x \in 1 .. Len(F), NEW p, F[x] = p, p.kind \in {"call", "result"}
       PROVE  \E i \in 1 .. n : c[i] = <<p>> /\ x = at[i] + 1
  <2>1. PICK i \in 1 .. n : \E k \in 1 .. Len(c[i]) : x = at[i] + k
    BY <1>9
  <2>2. PICK k \in 1 .. Len(c[i]) : x = at[i] + k
    BY <2>1
  <2>3. c[i][k] = p
    BY <1>9, <1>12, <2>2
  <2>4. p.kind \notin {"text", "image"}
    BY <1>12
  <2>5. k = 1 /\ c[i] = <<c[i][k]>>
    BY <1>11, <2>3, <2>4
  <2>. QED BY <2>2, <2>3, <2>5
<1>13. ASSUME NEW i \in 1 .. n, NEW j \in 1 .. n, at[i] + 1 < at[j] + 1 PROVE i < j
  <2>1. at[i] \in Nat /\ at[j] \in Nat /\ Len(c[j]) \in Nat
    BY <1>9, <1>11
  <2>2. CASE i = j
    BY <1>13, <2>1, <2>2
  <2>3. CASE j < i
    <3>1. at[j] + Len(c[j]) <= at[i]
      BY <1>9, <2>3
    <3>. QED BY <1>13, <2>1, <3>1
  <2>. QED BY <1>2, <2>2, <2>3
<1>14. ASSUME NEW i \in 1 .. n
       PROVE  LET p == w[i].content[1]
              IN /\ p.kind = "call"   => \E j \in i + 1 .. Len(w) : w[j].content = <<Result(p.id)>>
                 /\ p.kind = "result" => \E j \in 1 .. i - 1 : w[j].content = <<Call(p.id)>>
  <2>1. PICK p : p = w[i].content[1]
    OBVIOUS
  <2>2. c[i][1] = p /\ p \in P /\ at[i] + 1 \in 1 .. Len(F) /\ F[at[i] + 1] = p
    BY <1>5, <1>9, <1>11, <2>1
  <2>3. PICK x \in 1 .. Len(F) : x = at[i] + 1
    BY <2>2
  <2>4. ASSUME p.kind = "call" PROVE \E j \in i + 1 .. Len(w) : w[j].content = <<Result(p.id)>>
    <3>1. PICK id \in CallId : p = Call(id)
      BY <2>2, <2>4 DEF ToolParts
    <3>2. p.id = id
      BY <3>1 DEF Call
    <3>3. F[x] = Call(id)
      BY <2>2, <2>3, <3>1
    <3>4. PICK y \in x + 1 .. Len(F) : F[y] = Result(id)
      BY <1>10, <3>3 DEF AnsweredLater
    <3>5. y \in 1 .. Len(F) /\ x < y
      BY <2>3
    <3>6. Result(id).kind = "result"
      BY DEF Result
    <3>7. PICK j \in 1 .. n : c[j] = <<Result(id)>> /\ y = at[j] + 1
      BY <1>12, <3>4, <3>5, <3>6
    <3>8. i < j
      BY <1>13, <2>3, <3>5, <3>7
    <3>9. j \in i + 1 .. Len(w)
      BY <1>2, <3>8
    <3>. QED BY <1>5, <3>2, <3>7, <3>9
  <2>5. ASSUME p.kind = "result" PROVE \E j \in 1 .. i - 1 : w[j].content = <<Call(p.id)>>
    <3>1. PICK id \in CallId : p = Result(id)
      BY <2>2, <2>5 DEF ToolParts
    <3>2. p.id = id
      BY <3>1 DEF Result
    <3>3. F[x] = Result(id)
      BY <2>2, <2>3, <3>1
    <3>4. PICK y \in 1 .. x - 1 : F[y] = Call(id)
      BY <1>10, <3>3 DEF AnsweredLater
    <3>5. y \in 1 .. Len(F) /\ y < x
      BY <2>3
    <3>6. Call(id).kind = "call"
      BY DEF Call
    <3>7. PICK j \in 1 .. n : c[j] = <<Call(id)>> /\ y = at[j] + 1
      BY <1>12, <3>4, <3>5, <3>6
    <3>8. j < i
      BY <1>13, <2>3, <3>5, <3>7
    <3>9. j \in 1 .. i - 1
      BY <1>2, <3>8
    <3>. QED BY <1>5, <3>2, <3>7, <3>9
  <2>. QED BY <2>1, <2>4, <2>5
<1>. QED BY <1>2, <1>14 DEF StepsAccepted

-----------------------------------------------------------------------------
(* What the dialects take *)

\* A transcript of ordinary messages that every provider accepts.
Fit(s) == Sendable(s) /\ \A i \in DOMAIN s : Ordinary(s[i]) /\ s[i].parts # <<>>

\* What tells one kind of part from another.
LEMMA KindsDiffer ==
  ASSUME NEW id
  PROVE  Call(id).kind = "call" /\ Result(id).kind = "result"
BY DEF Call, Result

(* Hoisting parts no call from its results. *)
LEMMA TurnsAreFit ==
  ASSUME NEW R, NEW P, NEW s \in Seq(MessagesOf(R, P)), Fit(s)
  PROVE  /\ Turns(s) \in Seq(MessagesOf(R, P))
         /\ Fit(Turns(s))
         /\ \A i \in DOMAIN Turns(s) :
              ~Pinned(Turns(s)[i]) /\ \E j \in DOMAIN s : Turns(s)[i] = s[j]
<1>1. PICK S \in SUBSET DOMAIN s : S = {i \in DOMAIN s : ~Pinned(s[i])}
  OBVIOUS
<1>2. PICK u \in Seq(MessagesOf(R, P)) : u = Turns(s) /\ u = Pick(s, S)
  BY <1>1, TurnsTyped
<1>. DEFINE at(k) == Nth(S, k)
<1>3. /\ DOMAIN u = 1 .. Len(u)
      /\ \A k \in DOMAIN u : at(k) \in S /\ u[k] = s[at(k)]
      /\ \A i \in S : \E k \in DOMAIN u : at(k) = i
      /\ \A k, l \in DOMAIN u : k < l <=> at(k) < at(l)
  BY <1>2, Picked
<1>4. DOMAIN s = 1 .. Len(s) /\ Len(s) \in Nat /\ Len(u) \in Nat
  OBVIOUS
<1>. HIDE DEF at
<1>5. \A i \in S : i \in DOMAIN s /\ i \in Nat /\ ~Pinned(s[i])
  BY <1>1, <1>4
\* A message with a call or a result in it is no instruction.
<1>6. ASSUME NEW j \in DOMAIN s, NEW id \in CallId, HasCall(s[j], id) \/ HasResult(s[j], id)
      PROVE  j \in S
  <2>1. PICK k \in DOMAIN s[j].parts : s[j].parts[k] \in {Call(id), Result(id)}
    BY <1>6 DEF HasCall, HasResult
  <2>2. s[j].parts[k].kind # "text"
    BY <2>1, KindsDiffer
  <2>3. Ordinary(s[j])
    BY DEF Fit
  <2>4. ~Pinned(s[j])
    BY <2>2, <2>3 DEF Ordinary
  <2>. QED BY <1>1, <2>4
<1>7. ASSUME NEW a \in DOMAIN u, NEW b \in DOMAIN u, NEW id \in CallId,
             Answers(s, at(a), at(b), id)
      PROVE  Answers(u, a, b, id)
  <2>1. /\ at(a) < at(b) /\ HasCall(s[at(a)], id) /\ HasResult(s[at(b)], id)
        /\ \A l \in at(a) + 1 .. at(b) : OnlyResults(s[l])
    BY <1>7 DEF Answers
  <2>2. a < b /\ HasCall(u[a], id) /\ HasResult(u[b], id)
    BY <1>3, <2>1
  <2>3. ASSUME NEW l \in a + 1 .. b PROVE OnlyResults(u[l])
    <3>1. l \in DOMAIN u /\ a < l /\ (l < b \/ l = b)
      BY <1>3, <1>4
    <3>2. at(a) < at(l) /\ (at(l) < at(b) \/ at(l) = at(b))
      BY <1>3, <3>1
    <3>3. at(a) \in Nat /\ at(b) \in Nat /\ at(l) \in Nat
      BY <1>3, <1>5, <3>1
    <3>4. at(l) \in at(a) + 1 .. at(b)
      BY <3>2, <3>3
    <3>. QED BY <1>3, <2>1, <3>1, <3>4
  <2>. QED BY <2>2, <2>3 DEF Answers
<1>8. Sendable(u)
  <2>. SUFFICES ASSUME NEW a \in DOMAIN u, NEW id \in CallId
                PROVE  /\ HasCall(u[a], id)   => \E b \in DOMAIN u : Answers(u, a, b, id)
                       /\ HasResult(u[a], id) => \E b \in DOMAIN u : Answers(u, b, a, id)
    BY DEF Sendable
  <2>1. at(a) \in DOMAIN s /\ u[a] = s[at(a)]
    BY <1>3, <1>5
  <2>2. ASSUME HasCall(u[a], id) PROVE \E b \in DOMAIN u : Answers(u, a, b, id)
    <3>1. PICK j \in DOMAIN s : Answers(s, at(a), j, id)
      BY <2>1, <2>2 DEF Fit, Sendable
    <3>2. j \in S
      BY <1>6, <3>1 DEF Answers
    <3>3. PICK b \in DOMAIN u : at(b) = j
      BY <1>3, <3>2
    <3>. QED BY <1>7, <3>1, <3>3
  <2>3. ASSUME HasResult(u[a], id) PROVE \E b \in DOMAIN u : Answers(u, b, a, id)
    <3>1. PICK j \in DOMAIN s : Answers(s, j, at(a), id)
      BY <2>1, <2>3 DEF Fit, Sendable
    <3>2. j \in S
      BY <1>6, <3>1 DEF Answers
    <3>3. PICK b \in DOMAIN u : at(b) = j
      BY <1>3, <3>2
    <3>. QED BY <1>7, <3>1, <3>3
  <2>. QED BY <2>2, <2>3
<1>9. \A i \in DOMAIN u : ~Pinned(u[i]) /\ (\E j \in DOMAIN s : u[i] = s[j])
                          /\ Ordinary(u[i]) /\ u[i].parts # <<>>
  BY <1>3, <1>5 DEF Fit
<1>. QED BY <1>2, <1>8, <1>9 DEF Fit

(* A flattened part is a part of one that was flattened. *)
LEMMA PartsOfAreParts ==
  ASSUME NEW R, NEW P, NEW s \in Seq(MessagesOf(R, P)), NEW x \in DOMAIN PartsOf(s)
  PROVE  \E i \in DOMAIN s : \E k \in DOMAIN s[i].parts : PartsOf(s)[x] = s[i].parts[k]
<1>1. PICK c \in Seq(Seq(P)) : c = PartsEach(s)
  BY PartsEachTyped
<1>2. PICK n \in Nat : n = Len(s) /\ DOMAIN s = 1 .. n
  OBVIOUS
<1>3. Len(c) = n /\ \A i \in 1 .. n : c[i] = s[i].parts
  BY <1>1, <1>2, PartsEachTyped
<1>4. PICK F \in Seq(P) : F = FlattenSeq(c)
  BY FlattenPlaces
<1>5. PartsOf(s) = F
  BY <1>1, <1>4, PartsEachTyped
<1>6. PICK at : Places(at, c, F)
  BY <1>4, FlattenPlaces
<1>7. x \in 1 .. Len(F)
  BY <1>5
<1>8. PICK i \in 1 .. n : \E k \in 1 .. Len(c[i]) : x = at[i] + k
  BY <1>3, <1>6, <1>7 DEF Places
<1>9. PICK k \in 1 .. Len(c[i]) : x = at[i] + k
  BY <1>8
<1>10. F[at[i] + k] = c[i][k]
  BY <1>3, <1>6 DEF Places
<1>11. c[i] \in Seq(P)
  BY <1>3
<1>12. k \in DOMAIN c[i]
  BY <1>11
<1>. QED BY <1>2, <1>3, <1>5, <1>9, <1>10, <1>12

LEMMA InstructionsAreHoisted ==
  ASSUME NEW R, NEW P, NEW s \in Seq(MessagesOf(R, P)), Fit(s)
  PROVE  ~HoistRefuses(s)
<1>1. PICK S \in SUBSET DOMAIN s : S = {i \in DOMAIN s : Pinned(s[i])}
  OBVIOUS
<1>2. PICK M : M = MessagesOf(R, P)
  OBVIOUS
<1>3. s \in Seq(M)
  BY <1>2
<1>4. Retain(s, S) = Pick(s, S) /\ Pick(s, S) \in Seq(M)
  BY ONLY <1>1, <1>3, RetainPicks, Picked
<1>5. PICK u \in Seq(MessagesOf(R, P)) : u = Pick(s, S)
  BY <1>2, <1>4
<1>6. Hoisted(s) = PartsOf(u)
  BY <1>1, <1>4, <1>5 DEF Hoisted
<1>7. ASSUME NEW x \in DOMAIN PartsOf(u) PROVE PartsOf(u)[x].kind = "text"
  <2>1. PICK i \in DOMAIN u : \E k \in DOMAIN u[i].parts : PartsOf(u)[x] = u[i].parts[k]
    BY PartsOfAreParts
  <2>2. Nth(S, i) \in S /\ u[i] = s[Nth(S, i)]
    BY <1>5, Picked
  <2>3. Ordinary(u[i]) /\ Pinned(u[i])
    BY <1>1, <2>2 DEF Fit
  <2>. QED BY <2>1, <2>3 DEF Ordinary
<1>. QED BY <1>6, <1>7 DEF HoistRefuses

LEMMA ResultsAreNamed ==
  ASSUME NEW P, ToolParts(P), NEW s \in Seq(P), AnsweredLater(s)
  PROVE  ~Nameless(s)
<1>. SUFFICES ASSUME NEW k \in DOMAIN s, s[k].kind = "result"
              PROVE  \E l \in 1 .. k - 1 : s[l] = Call(s[k].id)
  BY DEF Nameless
<1>1. k \in 1 .. Len(s) /\ s[k] \in P
  OBVIOUS
<1>2. PICK id \in CallId : s[k] = Result(id)
  BY <1>1 DEF ToolParts
<1>3. s[k].id = id
  BY <1>2 DEF Result
<1>. QED BY <1>1, <1>2, <1>3 DEF AnsweredLater

(* Gemini and Responses take what repair leaves. *)
LEMMA StepDialectsTake ==
  ASSUME NEW R, NEW P, ToolParts(P), NEW s \in Seq(MessagesOf(R, P)), Fit(s)
  PROVE  /\ ~GeminiBuild(s).refused    /\ StepsAccepted(GeminiBuild(s).turns)
         /\ ~ResponsesBuild(s).refused /\ StepsAccepted(ResponsesBuild(s).turns)
<1>1. PICK u \in Seq(MessagesOf(R, P)) : u = Turns(s)
  BY TurnsAreFit
<1>2. Fit(u) /\ \A i \in DOMAIN u : ~Pinned(u[i])
  BY <1>1, TurnsAreFit
<1>3. ~HoistRefuses(s)
  BY InstructionsAreHoisted
<1>4. PartsOf(u) \in Seq(P) /\ AnsweredLater(PartsOf(u))
  BY <1>2, PartsAnsweredLater DEF Fit
<1>5. ~Nameless(PartsOf(u))
  BY <1>4, ResultsAreNamed
<1>6. \A i \in DOMAIN s : s[i].role = "tool" =>
        \A k \in DOMAIN s[i].parts : s[i].parts[k].kind = "result"
  BY DEF Fit, Ordinary
<1>7. ~ \E i \in DOMAIN s : s[i].role = "tool" /\ Carries(s[i], {"text", "image"})
  BY <1>6 DEF Carries
<1>8. ~ \E i \in DOMAIN u : u[i].role # "user" /\ Carries(u[i], {"image"})
  BY <1>2 DEF Fit, Ordinary, Carries
<1>9. ~ \E i \in DOMAIN s : /\ s[i].role = "tool" /\ s[i].parts # <<>>
                            /\ Last(s[i].parts).kind = "text"
  <2>. SUFFICES ASSUME NEW i \in DOMAIN s, s[i].role = "tool", s[i].parts # <<>>
                PROVE  Last(s[i].parts).kind # "text"
    OBVIOUS
  <2>1. s[i] \in MessagesOf(R, P)
    OBVIOUS
  <2>2. PICK v \in Seq(P) : v = s[i].parts
    <3>1. \A m \in MessagesOf(R, P) : m.parts \in Seq(P)
      BY DEF MessagesOf
    <3>. QED BY <2>1, <3>1
  <2>3. Len(v) \in DOMAIN v
    BY <2>2
  <2>4. v[Len(v)].kind = "result"
    BY <1>6, <2>2, <2>3
  <2>. QED BY <2>2, <2>4 DEF Last
<1>10. PICK L : L = Labels(R, P)
  OBVIOUS
<1>11. \A p \in P : p.kind \in L
  BY <1>10 DEF Labels
<1>12. ASSUME NEW of, \A i \in 1 .. Len(u) : of[i] \in L
       PROVE  StepsAccepted(AllSteps(u, of))
  <2>1. /\ AllSteps(u, of) \in Seq(StepsIn(L, P))
        /\ FlattenSeq(Contents(AllSteps(u, of))) = PartsOf(u)
    BY ONLY <1>11, <1>12, u \in Seq(MessagesOf(R, P)), AllStepsTell
  <2>2. PICK w \in Seq(StepsIn(L, P)) : w = AllSteps(u, of)
    BY <2>1
  <2>3. AnsweredLater(FlattenSeq(Contents(w)))
    BY <1>4, <2>1, <2>2
  <2>. QED BY <2>2, <2>3, StepsAreAccepted
<1>13. /\ GeminiBuild(s) = Built(Hoisted(s), AllSteps(u, [i \in DOMAIN u |-> GeminiStep(u[i])]))
       /\ StepsAccepted(AllSteps(u, [i \in DOMAIN u |-> GeminiStep(u[i])]))
  <2>1. PICK of : of = [i \in DOMAIN u |-> GeminiStep(u[i])]
    OBVIOUS
  <2>2. \A i \in 1 .. Len(u) : of[i] \in L
    BY <1>10, <2>1 DEF GeminiStep, Labels
  <2>3. StepsAccepted(AllSteps(u, of))
    BY <1>12, <2>2
  <2>. QED BY <1>1, <1>3, <1>5, <1>7, <2>1, <2>3 DEF GeminiBuild
<1>14. /\ ResponsesBuild(s) = Built(Hoisted(s), AllSteps(u, [i \in DOMAIN u |-> u[i].role]))
       /\ StepsAccepted(AllSteps(u, [i \in DOMAIN u |-> u[i].role]))
  <2>1. PICK of : of = [i \in DOMAIN u |-> u[i].role]
    OBVIOUS
  <2>2. \A i \in 1 .. Len(u) : of[i] \in L
    <3>1. \A i \in 1 .. Len(u) : u[i] \in MessagesOf(R, P) /\ i \in DOMAIN u
      OBVIOUS
    <3>2. \A m \in MessagesOf(R, P) : m.role \in R
      BY DEF MessagesOf
    <3>. QED BY <1>10, <2>1, <3>1, <3>2 DEF Labels
  <2>3. StepsAccepted(AllSteps(u, of))
    BY <1>12, <2>2
  <2>. QED BY <1>1, <1>3, <1>8, <1>9, <2>1, <2>3 DEF ResponsesBuild
<1>. QED BY <1>13, <1>14 DEF Built

\* w holds the first k of s, each in the message that at gives for it.
BuiltUpTo(w, at, s, k) ==
  /\ k = 0 => w = <<>>
  /\ k # 0 => /\ Len(w) # 0 /\ at[k] = Len(w)
              /\ w[Len(w)].role = AnthropicRole(s[k])
              /\ OnlyToolResults(w[Len(w)].content) <=> OnlyResults(s[k])
  /\ \A j \in 1 .. k : at[j] \in 1 .. Len(w) /\ w[at[j]].role = AnthropicRole(s[j])
  /\ \A x \in 1 .. Len(w) : \A p :
       Contains(w[x].content, p) <=> \E j \in 1 .. k : at[j] = x /\ Contains(s[j].parts, p)

\* Turn k shares a message with the turn before it.
Shares(s, k) ==
  /\ k # 1 /\ AnthropicRole(s[k - 1]) = AnthropicRole(s[k])
  /\ OnlyResults(s[k - 1]) /\ OnlyResults(s[k])

LEMMA MergesTells ==
  ASSUME NEW P, NEW w \in Seq(AnthropicWire(P)), NEW s, NEW at, NEW k \in Nat \ {0},
         BuiltUpTo(w, at, s, k - 1)
  PROVE  Merges(w, s[k]) <=> Shares(s, k)
<1>1. OnlyToolResults(s[k].parts) <=> OnlyResults(s[k])
  BY DEF OnlyToolResults, OnlyResults
<1>2. CASE k = 1
  <2>1. w = <<>>
    BY <1>2 DEF BuiltUpTo
  <2>. QED BY <1>2, <2>1 DEF Merges, Shares
<1>3. CASE k # 1
  <2>1. k - 1 # 0
    BY <1>3
  <2>2. /\ Len(w) # 0 /\ w[Len(w)].role = AnthropicRole(s[k - 1])
        /\ OnlyToolResults(w[Len(w)].content) <=> OnlyResults(s[k - 1])
    BY <2>1 DEF BuiltUpTo
  <2>3. w # <<>>
    BY <2>2
  <2>. QED BY <1>1, <1>3, <2>2, <2>3 DEF Merges, Shares, Last
<1>. QED BY <1>2, <1>3

LEMMA ContainsInARow ==
  ASSUME NEW P, NEW v \in Seq(P), NEW u \in Seq(P), NEW all, all = v \o u, NEW p
  PROVE  Contains(all, p) <=> Contains(v, p) \/ Contains(u, p)
<1>1. /\ Len(v) \in Nat /\ Len(u) \in Nat /\ Len(v \o u) = Len(v) + Len(u)
      /\ \A i \in 1 .. Len(v) : (v \o u)[i] = v[i]
      /\ \A i \in 1 .. Len(u) : (v \o u)[Len(v) + i] = u[i]
  OBVIOUS
<1>. DEFINE w == v \o u
<1>. HIDE DEF w
<1>2. ASSUME Contains(w, p) PROVE Contains(v, p) \/ Contains(u, p)
  <2>1. PICK i \in 1 .. Len(v) + Len(u) : w[i] = p
    BY <1>1, <1>2 DEF Contains, w
  <2>2. CASE i <= Len(v)
    BY <1>1, <2>1, <2>2 DEF Contains, w
  <2>3. CASE ~(i <= Len(v))
    <3>1. i - Len(v) \in 1 .. Len(u) /\ i = Len(v) + (i - Len(v))
      BY <1>1, <2>3
    <3>2. u[i - Len(v)] = p
      BY <1>1, <2>1, <3>1 DEF w
    <3>. QED BY <3>1, <3>2 DEF Contains
  <2>. QED BY <2>2, <2>3
<1>3. ASSUME Contains(v, p) PROVE Contains(w, p)
  <2>1. PICK i \in 1 .. Len(v) : v[i] = p
    BY <1>3 DEF Contains
  <2>2. i \in 1 .. Len(v) + Len(u)
    BY <1>1
  <2>. QED BY <1>1, <2>1, <2>2 DEF Contains, w
<1>4. ASSUME Contains(u, p) PROVE Contains(w, p)
  <2>1. PICK i \in 1 .. Len(u) : u[i] = p
    BY <1>4 DEF Contains
  <2>2. Len(v) + i \in 1 .. Len(v) + Len(u)
    BY <1>1
  <2>3. w[Len(v) + i] = p
    BY <1>1, <2>1 DEF w
  <2>. QED BY <1>1, <2>2, <2>3 DEF Contains, w
<1>. QED BY <1>2, <1>3, <1>4 DEF w

LEMMA OnlyResultsInARow ==
  ASSUME NEW P, NEW v \in Seq(P), NEW u \in Seq(P), OnlyToolResults(v), OnlyToolResults(u)
  PROVE  OnlyToolResults(v \o u)
<1>1. /\ Len(v) \in Nat /\ Len(u) \in Nat /\ DOMAIN (v \o u) = 1 .. Len(v) + Len(u)
      /\ DOMAIN v = 1 .. Len(v) /\ DOMAIN u = 1 .. Len(u)
      /\ \A i \in 1 .. Len(v) : (v \o u)[i] = v[i]
      /\ \A i \in 1 .. Len(u) : (v \o u)[Len(v) + i] = u[i]
  OBVIOUS
<1>. DEFINE w == v \o u
<1>. HIDE DEF w
<1>2. ASSUME NEW i \in DOMAIN w PROVE w[i].kind = "result"
  <2>1. i \in 1 .. Len(v) + Len(u)
    BY <1>1 DEF w
  <2>2. CASE i <= Len(v)
    <3>1. i \in 1 .. Len(v) /\ w[i] = v[i]
      BY <1>1, <2>1, <2>2 DEF w
    <3>. QED BY <1>1, <3>1 DEF OnlyToolResults
  <2>3. CASE ~(i <= Len(v))
    <3>1. i - Len(v) \in 1 .. Len(u) /\ i = Len(v) + (i - Len(v))
      BY <1>1, <2>1, <2>3
    <3>2. w[i] = u[i - Len(v)]
      BY <1>1, <3>1 DEF w
    <3>. QED BY <1>1, <3>1, <3>2 DEF OnlyToolResults
  <2>. QED BY <2>2, <2>3
<1>3. w # <<>>
  <2>1. v # <<>>
    BY DEF OnlyToolResults
  <2>. QED BY <2>1 DEF w
<1>. QED BY <1>2, <1>3 DEF OnlyToolResults, w

(* A push puts a turn in the last message or in one of its own, as Shares says. *)
LEMMA PushBuilds ==
  ASSUME NEW P, NEW w \in Seq(AnthropicWire(P)), NEW s, NEW at, NEW k \in Nat \ {0},
         BuiltUpTo(w, at, s, k - 1), s[k].parts \in Seq(P), s[k].parts # <<>>,
         at[k] = Len(AnthropicPush(w, s[k]))
  PROVE  /\ BuiltUpTo(AnthropicPush(w, s[k]), at, s, k)
         /\ Shares(s, k) => at[k] = Len(w)
         /\ ~Shares(s, k) => at[k] = Len(w) + 1
<1>. DEFINE m    == s[k]
            wire == AnthropicPush(w, m)
            n    == Len(w)
<1>1. n \in Nat /\ DOMAIN w = 1 .. n /\ \A x \in 1 .. n : w[x] \in AnthropicWire(P)
  OBVIOUS
<1>2. /\ \A j \in 1 .. k - 1 : at[j] \in 1 .. n /\ w[at[j]].role = AnthropicRole(s[j])
      /\ \A x \in 1 .. n : \A p :
           Contains(w[x].content, p) <=> \E j \in 1 .. k - 1 : at[j] = x /\ Contains(s[j].parts, p)
  BY DEF BuiltUpTo
<1>3. \A j \in 1 .. k : j = k \/ j \in 1 .. k - 1
  OBVIOUS
<1>4. k \in 1 .. k /\ \A j \in 1 .. k - 1 : j \in 1 .. k
  OBVIOUS
<1>5. Merges(w, m) <=> Shares(s, k)
  BY MergesTells
<1>6. OnlyToolResults(m.parts) <=> OnlyResults(m)
  BY DEF OnlyToolResults, OnlyResults
<1>7. CASE ~Shares(s, k)
  <2>. DEFINE next == [role |-> AnthropicRole(m), content |-> m.parts]
  <2>1. PushedApart(wire, w, m, P)
    BY <1>5, <1>7, PushDoes
  <2>2. next \in AnthropicWire(P) /\ wire = Append(w, next)
    BY <2>1 DEF PushedApart
  <2>. HIDE DEF next, wire, n
  <2>3. Len(wire) = n + 1 /\ wire[n + 1] = next /\ \A x \in 1 .. n : wire[x] = w[x]
    BY <1>1, <2>2 DEF n
  <2>4. next.role = AnthropicRole(m) /\ next.content = m.parts
    BY DEF next
  <2>. HIDE DEF m
  <2>5. at[k] = n + 1
    BY <2>3 DEF wire, m
  <2>6. ASSUME NEW j \in 1 .. k
        PROVE  at[j] \in 1 .. n + 1 /\ wire[at[j]].role = AnthropicRole(s[j])
    <3>1. CASE j = k
      BY <1>1, <2>3, <2>4, <2>5, <3>1 DEF m
    <3>2. CASE j # k
      <4>1. at[j] \in 1 .. n /\ w[at[j]].role = AnthropicRole(s[j])
        BY <1>2, <1>3, <3>2
      <4>2. at[j] \in 1 .. n + 1
        BY <1>1, <4>1
      <4>. QED BY <2>3, <4>1, <4>2
    <3>. QED BY <3>1, <3>2
  <2>7. ASSUME NEW x \in 1 .. n + 1, NEW p
        PROVE  Contains(wire[x].content, p) <=> \E j \in 1 .. k : at[j] = x /\ Contains(s[j].parts, p)
    <3>1. CASE x = n + 1
      <4>1. \A j \in 1 .. k : at[j] = x <=> j = k
        <5>1. \A j \in 1 .. k - 1 : at[j] # n + 1
          BY <1>1, <1>2
        <5>. QED BY <1>3, <2>5, <3>1, <5>1
      <4>2. wire[x].content = s[k].parts
        BY <2>3, <2>4, <3>1 DEF m
      <4>. QED BY <1>4, <4>1, <4>2
    <3>2. CASE x # n + 1
      <4>1. x \in 1 .. n
        BY <1>1, <3>2
      <4>2. at[k] # x
        BY <2>5, <3>2
      <4>3. wire[x] = w[x]
        BY <2>3, <4>1
      <4>. QED BY <1>2, <1>3, <1>4, <4>1, <4>2, <4>3
    <3>. QED BY <3>1, <3>2
  <2>8. /\ Len(wire) # 0 /\ at[k] = Len(wire)
        /\ wire[Len(wire)].role = AnthropicRole(s[k])
        /\ OnlyToolResults(wire[Len(wire)].content) <=> OnlyResults(s[k])
    BY <1>1, <1>6, <2>3, <2>4, <2>5 DEF m
  <2>9. BuiltUpTo(wire, at, s, k)
    BY <2>3, <2>6, <2>7, <2>8 DEF BuiltUpTo
  <2>. QED BY <1>7, <2>5, <2>9 DEF wire, m, n
<1>8. CASE Shares(s, k)
  <2>. DEFINE last == w[n]
              more == [role |-> last.role, content |-> last.content \o m.parts]
  <2>1. PushedInto(wire, w, m, P)
    BY <1>5, <1>8, PushDoes
  <2>2. /\ n \in Nat \ {0} /\ Len(wire) = n /\ last \in AnthropicWire(P)
        /\ wire[n] = more
        /\ \A x \in 1 .. n - 1 : wire[x] = w[x]
    BY <2>1 DEF PushedInto
  <2>3. PICK old \in Seq(P) : old = last.content
    <3>1. last.content \in Seq(P)
      BY <2>2 DEF AnthropicWire
    <3>. QED BY <3>1
  <2>4. PICK new \in Seq(P) : new = m.parts
    OBVIOUS
  <2>5. more.role = last.role /\ more.content = old \o new
    BY <2>3, <2>4
  <2>6. k # 1 /\ AnthropicRole(s[k - 1]) = AnthropicRole(m) /\ OnlyResults(s[k - 1]) /\ OnlyResults(m)
    BY <1>8 DEF Shares
  <2>7. k - 1 # 0 /\ k - 1 \in 1 .. k - 1
    BY <2>6
  <2>8. /\ last.role = AnthropicRole(s[k - 1]) /\ OnlyToolResults(last.content)
        /\ at[k - 1] = n
    BY <2>6, <2>7 DEF BuiltUpTo
  <2>9. OnlyToolResults(old \o new)
    <3>1. OnlyToolResults(old) /\ OnlyToolResults(new)
      BY <1>6, <2>3, <2>4, <2>6, <2>8
    <3>. QED BY <3>1, OnlyResultsInARow
  <2>10. at[k] = n
    BY <2>2
  <2>. HIDE DEF more, wire, n, last, m
  <2>11. wire[n].role = AnthropicRole(m) /\ wire[n].content = old \o new
    BY <2>2, <2>5, <2>6, <2>8
  <2>12. ASSUME NEW j \in 1 .. k
         PROVE  at[j] \in 1 .. n /\ wire[at[j]].role = AnthropicRole(s[j])
    <3>1. CASE j = k
      BY <2>2, <2>10, <2>11, <3>1 DEF m
    <3>2. CASE j # k
      <4>1. at[j] \in 1 .. n /\ w[at[j]].role = AnthropicRole(s[j])
        BY <1>2, <1>3, <3>2
      <4>2. CASE at[j] = n
        BY <2>6, <2>8, <2>11, <4>1, <4>2 DEF last
      <4>3. CASE at[j] # n
        <5>1. at[j] \in 1 .. n - 1
          BY <2>2, <4>1, <4>3
        <5>. QED BY <2>2, <4>1, <5>1
      <4>. QED BY <4>2, <4>3
    <3>. QED BY <3>1, <3>2
  <2>13. ASSUME NEW x \in 1 .. n, NEW p
         PROVE  Contains(wire[x].content, p) <=> \E j \in 1 .. k : at[j] = x /\ Contains(s[j].parts, p)
    <3>1. CASE x = n
      <4>0. PICK all : all = wire[x].content
        OBVIOUS
      <4>4. all = old \o new
        BY <2>11, <3>1, <4>0
      <4>5. Contains(all, p) <=> Contains(old, p) \/ Contains(new, p)
        BY ONLY old \in Seq(P), new \in Seq(P), <4>4, ContainsInARow
      <4>1. Contains(wire[x].content, p) <=> Contains(old, p) \/ Contains(new, p)
        BY <4>0, <4>5
      <4>2. Contains(old, p) <=> \E j \in 1 .. k - 1 : at[j] = x /\ Contains(s[j].parts, p)
        BY <1>2, <2>3, <3>1 DEF last
      <4>3. Contains(new, p) <=> Contains(s[k].parts, p)
        BY <2>4 DEF m
      <4>. QED BY <1>3, <1>4, <2>10, <3>1, <4>1, <4>2, <4>3
    <3>2. CASE x # n
      <4>1. x \in 1 .. n - 1
        BY <2>2, <3>2
      <4>2. at[k] # x
        BY <2>10, <3>2
      <4>3. wire[x] = w[x]
        BY <2>2, <4>1
      <4>. QED BY <1>2, <1>3, <1>4, <4>2, <4>3
    <3>. QED BY <3>1, <3>2
  <2>14. /\ Len(wire) # 0 /\ at[k] = Len(wire)
         /\ wire[Len(wire)].role = AnthropicRole(s[k])
         /\ OnlyToolResults(wire[Len(wire)].content) <=> OnlyResults(s[k])
    BY <2>2, <2>6, <2>9, <2>10, <2>11 DEF m
  <2>15. BuiltUpTo(wire, at, s, k)
    BY <2>2, <2>12, <2>13, <2>14 DEF BuiltUpTo
  <2>. QED BY <1>8, <2>10, <2>15 DEF wire, m, n
<1>. QED BY <1>7, <1>8

\* at goes up by one with every turn that shares no message.
GoesUp(at, s) ==
  \A k \in 1 .. Len(s) : /\ Shares(s, k)  => at[k] = at[k - 1]
                         /\ ~Shares(s, k) => at[k] = at[k - 1] + 1

LEMMA AnthropicRunBuilds ==
  ASSUME NEW R, NEW P, NEW s \in Seq(MessagesOf(R, P)), \A i \in DOMAIN s : s[i].parts # <<>>
  PROVE  /\ AnthropicMessages(s) \in Seq(AnthropicWire(P))
         /\ \E at \in [0 .. Len(s) -> Nat] :
              BuiltUpTo(AnthropicMessages(s), at, s, Len(s)) /\ GoesUp(at, s)
<1>1. PICK n \in Nat : n = Len(s) /\ DOMAIN s = 1 .. n
  OBVIOUS
<1>2. PICK after : AnthropicRuns(after, s, P) /\ AnthropicMessages(s) = after[n]
  BY <1>1, AnthropicRun
<1>3. /\ after \in [0 .. n -> Seq(AnthropicWire(P))] /\ after[0] = <<>>
      /\ \A k \in 1 .. n : after[k] = AnthropicPush(after[k - 1], s[k])
  BY <1>1, <1>2 DEF AnthropicRuns
<1>4. PICK Q : Q = AnthropicWire(P)
  OBVIOUS
<1>5. \A k \in 0 .. n : after[k] \in Seq(Q) /\ Len(after[k]) \in Nat
  <2>1. \A k \in 0 .. n : after[k] \in Seq(Q)
    BY <1>3, <1>4
  <2>. QED BY <2>1
<1>6. PICK at : at = [k \in 0 .. n |-> Len(after[k])]
  OBVIOUS
<1>7. at \in [0 .. n -> Nat] /\ \A k \in 0 .. n : at[k] = Len(after[k])
  BY <1>5, <1>6
<1>8. \A k \in 1 .. n : /\ k \in 0 .. n /\ k - 1 \in 0 .. n /\ k \in Nat \ {0}
                        /\ s[k].parts \in Seq(P) /\ s[k].parts # <<>>
  <2>1. \A k \in 1 .. n : s[k] \in MessagesOf(R, P)
    BY <1>1
  <2>2. \A m \in MessagesOf(R, P) : m.parts \in Seq(P)
    BY DEF MessagesOf
  <2>. QED BY <1>1, <2>1, <2>2
<1>9. ASSUME NEW k \in 1 .. n, BuiltUpTo(after[k - 1], at, s, k - 1)
      PROVE  /\ BuiltUpTo(after[k], at, s, k)
             /\ Shares(s, k) => at[k] = at[k - 1]
             /\ ~Shares(s, k) => at[k] = at[k - 1] + 1
  <2>1. PICK w \in Seq(AnthropicWire(P)) : w = after[k - 1]
    BY <1>4, <1>5, <1>8
  <2>2. after[k] = AnthropicPush(w, s[k])
    BY <1>3, <2>1
  <2>3. at[k] = Len(AnthropicPush(w, s[k])) /\ at[k - 1] = Len(w)
    BY <1>7, <1>8, <2>1, <2>2
  <2>4. BuiltUpTo(w, at, s, k - 1)
    BY <1>9, <2>1
  <2>5. k \in Nat \ {0} /\ s[k].parts \in Seq(P) /\ s[k].parts # <<>>
    BY <1>8
  <2>6. /\ BuiltUpTo(AnthropicPush(w, s[k]), at, s, k)
        /\ Shares(s, k) => at[k] = Len(w)
        /\ ~Shares(s, k) => at[k] = Len(w) + 1
    BY ONLY w \in Seq(AnthropicWire(P)), <2>3, <2>4, <2>5, PushBuilds
  <2>. QED BY <2>2, <2>3, <2>6
<1>. DEFINE Good == {k \in 0 .. n : BuiltUpTo(after[k], at, s, k)}
<1>10. 0 \in Good
  <2>1. BuiltUpTo(<<>>, at, s, 0)
    BY DEF BuiltUpTo
  <2>. QED BY <1>3, <2>1
<1>11. \A k \in 1 .. n : k - 1 \in Good => k \in Good
  BY <1>8, <1>9
<1>12. \A k \in 0 .. n : k \in Good
  <2>. HIDE DEF Good
  <2>. QED BY <1>10, <1>11, CountingUp
<1>13. GoesUp(at, s)
  <2>1. \A k \in 1 .. n : BuiltUpTo(after[k - 1], at, s, k - 1)
    BY <1>8, <1>12
  <2>. QED BY <1>1, <1>9, <2>1 DEF GoesUp
<1>14. n \in 0 .. n
  OBVIOUS
<1>15. BuiltUpTo(after[n], at, s, n) /\ after[n] \in Seq(AnthropicWire(P))
  BY <1>4, <1>5, <1>12, <1>14
<1>. QED BY <1>1, <1>2, <1>7, <1>13, <1>15

(* The results of a turn of calls are all in the message after it. *)
LEMMA AnswersComeNext ==
  ASSUME NEW R, NEW P, NEW s \in Seq(MessagesOf(R, P)), \A i \in DOMAIN s : Ordinary(s[i]),
         NEW at \in [0 .. Len(s) -> Nat], GoesUp(at, s),
         NEW j \in DOMAIN s, NEW l \in DOMAIN s, NEW id \in CallId, Answers(s, j, l, id)
  PROVE  at[l] = at[j] + 1 /\ AnthropicRole(s[j]) = "assistant" /\ AnthropicRole(s[l]) = "user"
<1>1. PICK n \in Nat : n = Len(s) /\ DOMAIN s = 1 .. n
  OBVIOUS
<1>2. /\ j < l /\ HasCall(s[j], id) /\ HasResult(s[l], id)
      /\ \A x \in j + 1 .. l : OnlyResults(s[x])
  BY DEF Answers
<1>3. j \in 1 .. n /\ l \in 1 .. n /\ \A x \in j + 1 .. l : x \in 1 .. n
  BY <1>1
<1>4. PICK k \in DOMAIN s[j].parts : s[j].parts[k] = Call(id)
  BY <1>2 DEF HasCall
<1>5. s[j].role = "assistant"
  BY <1>4, KindsDiffer DEF Ordinary
<1>6. ~OnlyResults(s[j])
  BY <1>4, KindsDiffer DEF OnlyResults
<1>7. \A x \in j + 1 .. l : AnthropicRole(s[x]) = "user"
  <2>. SUFFICES ASSUME NEW x \in j + 1 .. l PROVE AnthropicRole(s[x]) = "user"
    OBVIOUS
  <2>1. OnlyResults(s[x]) /\ Ordinary(s[x])
    BY <1>1, <1>2, <1>3
  <2>2. s[x] \in MessagesOf(R, P)
    BY <1>1, <1>3
  <2>3. PICK v \in Seq(P) : v = s[x].parts
    <3>1. \A m \in MessagesOf(R, P) : m.parts \in Seq(P)
      BY DEF MessagesOf
    <3>. QED BY <2>2, <3>1
  <2>4. v # <<>>
    BY <2>1, <2>3 DEF OnlyResults
  <2>5. 1 \in DOMAIN v
    BY <2>4
  <2>6. s[x].parts[1].kind = "result" /\ 1 \in DOMAIN s[x].parts
    BY <2>1, <2>3, <2>5 DEF OnlyResults
  <2>7. s[x].role # "assistant"
    BY <2>1, <2>6 DEF Ordinary
  <2>. QED BY <2>7 DEF AnthropicRole
<1>8. \A k1 \in 1 .. n : /\ Shares(s, k1)  => at[k1] = at[k1 - 1]
                         /\ ~Shares(s, k1) => at[k1] = at[k1 - 1] + 1
  BY <1>1 DEF GoesUp
<1>9. at[j + 1] = at[j] + 1
  <2>1. j + 1 \in 1 .. n /\ (j + 1) - 1 = j
    BY <1>2, <1>3
  <2>2. ~Shares(s, j + 1)
    BY <1>6, <2>1 DEF Shares
  <2>. QED BY <1>8, <2>1, <2>2
<1>. DEFINE d    == l - (j + 1)
            Good == {x \in 0 .. d : at[j + 1 + x] = at[j] + 1}
<1>10. d \in Nat /\ j + 1 + d = l
  BY <1>2, <1>3
<1>11. 0 \in Good
  <2>1. j + 1 + 0 = j + 1 /\ 0 \in 0 .. d
    BY <1>3, <1>10
  <2>2. at[j + 1 + 0] = at[j] + 1
    BY <1>9, <2>1
  <2>. QED BY <2>1, <2>2
<1>12. ASSUME NEW x \in 1 .. d, x - 1 \in Good PROVE x \in Good
  <2>. DEFINE y == j + 1 + x
  <2>1. y - 1 \in j + 1 .. l /\ y \in j + 1 .. l /\ y # 1 /\ j + 1 + (x - 1) = y - 1
    BY <1>2, <1>3
  <2>. HIDE DEF y
  <2>2. OnlyResults(s[y]) /\ OnlyResults(s[y - 1]) /\ AnthropicRole(s[y]) = AnthropicRole(s[y - 1])
    BY <1>2, <1>7, <2>1
  <2>3. Shares(s, y)
    BY <2>1, <2>2 DEF Shares
  <2>4. at[y] = at[y - 1]
    BY <1>3, <1>8, <2>1, <2>3
  <2>5. at[y - 1] = at[j] + 1
    BY <1>12, <2>1
  <2>. QED BY <1>10, <2>4, <2>5 DEF y
<1>13. \A x \in 0 .. d : x \in Good
  <2>1. \A x \in 1 .. d : x - 1 \in Good => x \in Good
    BY <1>12
  <2>. HIDE DEF Good, d
  <2>. QED BY <1>10, <1>11, <2>1, CountingUp
<1>14. at[l] = at[j] + 1
  <2>1. d \in 0 .. d
    BY <1>10
  <2>2. at[j + 1 + d] = at[j] + 1
    BY <1>13, <2>1
  <2>. QED BY <1>10, <2>2
<1>15. l \in j + 1 .. l
  BY <1>2, <1>3
<1>. QED BY <1>5, <1>7, <1>14, <1>15 DEF AnthropicRole

(* Anthropic takes what repair leaves. *)
LEMMA AnthropicTakes ==
  ASSUME NEW R, NEW P, ToolParts(P), NEW s \in Seq(MessagesOf(R, P)), Fit(s)
  PROVE  ~AnthropicBuild(s).refused /\ AnthropicAccepts(AnthropicBuild(s).turns)
<1>1. PICK u \in Seq(MessagesOf(R, P)) : u = Turns(s)
  BY TurnsAreFit
<1>2. Fit(u)
  BY <1>1, TurnsAreFit
<1>3. ~HoistRefuses(s)
  BY InstructionsAreHoisted
<1>4. ~ \E i \in DOMAIN u : u[i].role # "user" /\ Carries(u[i], {"image"})
  BY <1>2 DEF Fit, Ordinary, Carries
<1>5. AnthropicBuild(s) = Built(Hoisted(s), AnthropicMessages(u))
  BY <1>1, <1>3, <1>4 DEF AnthropicBuild
<1>6. PICK n \in Nat : n = Len(u) /\ DOMAIN u = 1 .. n
  OBVIOUS
<1>7. \A i \in DOMAIN u : Ordinary(u[i]) /\ u[i].parts # <<>>
  BY <1>2 DEF Fit
<1>8. PICK w \in Seq(AnthropicWire(P)) : w = AnthropicMessages(u)
  BY <1>7, AnthropicRunBuilds
<1>9. PICK at \in [0 .. n -> Nat] : BuiltUpTo(w, at, u, n) /\ GoesUp(at, u)
  BY <1>6, <1>7, <1>8, AnthropicRunBuilds
<1>10. /\ \A j \in 1 .. n : at[j] \in 1 .. Len(w) /\ w[at[j]].role = AnthropicRole(u[j])
       /\ \A x \in 1 .. Len(w) : \A p :
            Contains(w[x].content, p) <=> \E j \in 1 .. n : at[j] = x /\ Contains(u[j].parts, p)
  BY <1>9 DEF BuiltUpTo
<1>11. \A j \in 1 .. n : DOMAIN u[j].parts = 1 .. Len(u[j].parts)
  <2>1. \A j \in 1 .. n : u[j] \in MessagesOf(R, P)
    BY <1>6
  <2>2. \A m \in MessagesOf(R, P) : m.parts \in Seq(P)
    BY DEF MessagesOf
  <2>3. \A j \in 1 .. n : u[j].parts \in Seq(P)
    BY <2>1, <2>2
  <2>. QED BY <2>3
<1>12. \A j \in 1 .. n, id \in CallId :
         /\ Contains(u[j].parts, Call(id)) <=> HasCall(u[j], id)
         /\ Contains(u[j].parts, Result(id)) <=> HasResult(u[j], id)
  BY <1>11 DEF Contains, HasCall, HasResult
<1>13. ASSUME NEW j \in 1 .. n, NEW l \in 1 .. n, NEW id \in CallId, Answers(u, j, l, id)
       PROVE  /\ at[l] = at[j] + 1
              /\ w[at[j]].role = "assistant" /\ Contains(w[at[j]].content, Call(id))
              /\ w[at[l]].role = "user" /\ Contains(w[at[l]].content, Result(id))
  <2>1. at[l] = at[j] + 1 /\ AnthropicRole(u[j]) = "assistant" /\ AnthropicRole(u[l]) = "user"
    BY <1>6, <1>7, <1>9, <1>13, AnswersComeNext
  <2>2. HasCall(u[j], id) /\ HasResult(u[l], id)
    BY <1>13 DEF Answers
  <2>3. Contains(w[at[j]].content, Call(id)) /\ Contains(w[at[l]].content, Result(id))
    BY <1>10, <1>12, <2>2
  <2>. QED BY <1>10, <2>1, <2>3
<1>14. ASSUME NEW i \in DOMAIN w, NEW id \in CallId, Contains(w[i].content, Call(id))
       PROVE  /\ i < Len(w) /\ w[i + 1].role = "user"
              /\ Contains(w[i + 1].content, Result(id))
  <2>1. i \in 1 .. Len(w)
    OBVIOUS
  <2>2. PICK j \in 1 .. n : at[j] = i /\ HasCall(u[j], id)
    BY <1>10, <1>12, <1>14, <2>1
  <2>3. PICK l \in DOMAIN u : Answers(u, j, l, id)
    BY <1>2, <1>6, <2>2 DEF Fit, Sendable
  <2>4. at[l] = i + 1 /\ at[l] \in 1 .. Len(w)
    BY <1>6, <1>10, <1>13, <2>2, <2>3
  <2>. QED BY <1>6, <1>13, <2>1, <2>3, <2>4
<1>15. ASSUME NEW i \in DOMAIN w, NEW id \in CallId, Contains(w[i].content, Result(id))
       PROVE  /\ i > 1 /\ w[i - 1].role = "assistant"
              /\ Contains(w[i - 1].content, Call(id))
  <2>1. i \in 1 .. Len(w)
    OBVIOUS
  <2>2. PICK l \in 1 .. n : at[l] = i /\ HasResult(u[l], id)
    BY <1>10, <1>12, <1>15, <2>1
  <2>3. PICK j \in DOMAIN u : Answers(u, j, l, id)
    BY <1>2, <1>6, <2>2 DEF Fit, Sendable
  <2>4. i = at[j] + 1 /\ at[j] \in 1 .. Len(w)
    BY <1>6, <1>10, <1>13, <2>2, <2>3
  <2>5. i - 1 = at[j] /\ i > 1
    BY <2>4
  <2>. QED BY <1>6, <1>13, <2>3, <2>5
<1>16. AnthropicAccepts(w)
  BY <1>14, <1>15 DEF AnthropicAccepts
<1>. QED BY <1>5, <1>8, <1>16 DEF Built

\* some has what of s is of one of kinds K, and nothing else.
HasThose(some, s, K) ==
  /\ \A k \in DOMAIN some : \E l \in DOMAIN s : some[k] = s[l] /\ s[l].kind \in K
  /\ \A l \in DOMAIN s : s[l].kind \in K => \E k \in DOMAIN some : some[k] = s[l]

LEMMA OfKindsHas ==
  ASSUME NEW P, NEW s \in Seq(P), NEW K
  PROVE  OfKinds(s, K) \in Seq(P) /\ HasThose(OfKinds(s, K), s, K)
<1>1. PICK S \in SUBSET DOMAIN s : S = At(s, K)
  BY OfKindsPicks
<1>2. OfKinds(s, K) = Pick(s, S) /\ OfKinds(s, K) \in Seq(P)
  BY <1>1, OfKindsPicks
<1>3. /\ \A k \in DOMAIN Pick(s, S) : Nth(S, k) \in S /\ Pick(s, S)[k] = s[Nth(S, k)]
      /\ \A i \in S : \E k \in DOMAIN Pick(s, S) : Nth(S, k) = i
  BY Picked
<1>4. \A i \in DOMAIN s : i \in S <=> s[i].kind \in K
  BY <1>1 DEF At
<1>. QED BY <1>2, <1>3, <1>4 DEF HasThose

LEMMA NothingInIt ==
  ASSUME NEW P, NEW w \in Seq(P), \A k \in DOMAIN w : FALSE
  PROVE  w = <<>>
<1>1. Len(w) \in Nat /\ DOMAIN w = 1 .. Len(w)
  OBVIOUS
<1>2. Len(w) = 0
  <2>1. Len(w) # 0 => 1 \in 1 .. Len(w)
    BY <1>1
  <2>. QED BY <1>1, <2>1
<1>. QED BY <1>2

(* Of one part there is all or nothing. *)
LEMMA OfOneKind ==
  ASSUME NEW P, NEW p \in P, NEW K
  PROVE  /\ p.kind \in K => OfKinds(<<p>>, K) = <<p>>
         /\ p.kind \notin K => OfKinds(<<p>>, K) = <<>>
<1>1. PICK s \in Seq(P) : s = <<p>> /\ DOMAIN s = {1} /\ s[1] = p
  <2>1. <<p>> \in Seq(P) /\ DOMAIN <<p>> = {1} /\ <<p>>[1] = p
    OBVIOUS
  <2>. QED BY <2>1
<1>2. OfKinds(s, K) = Pick(s, At(s, K))
  BY OfKindsPicks
<1>3. ASSUME p.kind \in K PROVE OfKinds(s, K) = s
  <2>1. At(s, K) = DOMAIN s
    BY <1>1, <1>3 DEF At
  <2>2. Pick(s, DOMAIN s) = s
    BY PickedWhole
  <2>. QED BY <1>2, <2>1, <2>2
<1>4. ASSUME p.kind \notin K PROVE OfKinds(s, K) = <<>>
  <2>1. PICK w \in Seq(P) : w = OfKinds(s, K)
    BY OfKindsPicks
  <2>2. \A k \in DOMAIN w : FALSE
    <3>1. HasThose(w, s, K)
      BY <2>1, OfKindsHas
    <3>. QED BY <1>1, <1>4, <3>1 DEF HasThose
  <2>3. w = <<>>
    BY <2>2, NothingInIt
  <2>. QED BY <2>1, <2>3
<1>. QED BY <1>1, <1>3, <1>4

\* What a tool turn of one result is, and what a turn of another role is.
OneAnswer(m, id) ==
  /\ m.role = "tool" /\ m.parts = <<Result(id)>>
  /\ ChatMessage(m).content = <<Result(id)>> /\ ChatMessage(m).answers = <<Result(id)>>
  /\ ChatMessage(m).calls = <<>> /\ ChatMessage(m).role = "tool"

NoAnswer(m) ==
  /\ m.role # "tool" /\ ~Carries(m, {"result"})
  /\ ChatMessage(m).answers = <<>> /\ ChatMessage(m).role # "tool"

LEMMA ChatMessageIs ==
  ASSUME NEW R, NEW P, ToolParts(P), NEW m \in MessagesOf(R, P),
         m.role = "tool" \/ Carries(m, {"result"})
           => m.role = "tool" /\ Len(m.parts) = 1 /\ m.parts[1].kind = "result"
  PROVE  /\ NoAnswer(m) \/ \E id \in CallId : OneAnswer(m, id)
         /\ \A k \in DOMAIN ChatMessage(m).calls :
              \E id \in CallId : ChatMessage(m).calls[k] = Call(id) /\ HasCall(m, id)
         /\ \A id \in CallId : HasCall(m, id) => Contains(ChatMessage(m).calls, Call(id))
<1>1. PICK v \in Seq(P) : v = m.parts
  <2>1. \A x \in MessagesOf(R, P) : x.parts \in Seq(P)
    BY DEF MessagesOf
  <2>. QED BY <2>1
<1>2. PICK K, C, A : K = {"text", "image", "result"} /\ C = {"call"} /\ A = {"result"}
  OBVIOUS
<1>3. /\ ChatMessage(m).role = ChatRole(m) /\ ChatMessage(m).content = OfKinds(v, K)
      /\ ChatMessage(m).calls = OfKinds(v, C) /\ ChatMessage(m).answers = OfKinds(v, A)
  BY <1>1, <1>2 DEF ChatMessage
<1>4. ChatRole(m) = "tool" <=> m.role = "tool"
  BY DEF ChatRole
<1>5. ASSUME m.role = "tool" \/ Carries(m, {"result"})
      PROVE  \E id \in CallId : OneAnswer(m, id)
  <2>1. m.role = "tool" /\ Len(v) = 1 /\ v[1].kind = "result"
    BY <1>1, <1>5
  <2>2. PICK p \in P : v = <<p>> /\ p.kind = "result"
    <3>1. v[1] \in P /\ v = <<v[1]>>
      BY <2>1
    <3>. QED BY <2>1, <3>1
  <2>3. PICK id \in CallId : p = Result(id)
    BY <2>2 DEF ToolParts
  <2>4. OfKinds(<<p>>, K) = <<p>> /\ OfKinds(<<p>>, A) = <<p>> /\ OfKinds(<<p>>, C) = <<>>
    BY <1>2, <2>2, OfOneKind
  <2>5. OneAnswer(m, id)
    BY <1>1, <1>3, <1>4, <2>1, <2>2, <2>3, <2>4 DEF OneAnswer
  <2>. QED BY <2>5
<1>6. ASSUME ~(m.role = "tool" \/ Carries(m, {"result"}))
      PROVE  NoAnswer(m)
  <2>1. \A k \in DOMAIN v : v[k].kind # "result"
    BY <1>1, <1>6 DEF Carries
  <2>2. PICK w \in Seq(P) : w = OfKinds(v, A)
    BY OfKindsPicks
  <2>3. \A k \in DOMAIN w : FALSE
    <3>1. HasThose(w, v, A)
      BY <2>2, OfKindsHas
    <3>. QED BY <1>2, <2>1, <3>1 DEF HasThose
  <2>4. w = <<>>
    BY <2>3, NothingInIt
  <2>5. NoAnswer(m)
    BY <1>3, <1>4, <1>6, <2>2, <2>4 DEF NoAnswer
  <2>. QED BY <2>5
<1>7. PICK calls \in Seq(P) : calls = OfKinds(v, C)
  BY OfKindsPicks
<1>8. /\ \A k \in DOMAIN calls : \E l \in DOMAIN v : calls[k] = v[l] /\ v[l].kind \in C
      /\ \A l \in DOMAIN v : v[l].kind \in C => \E k \in DOMAIN calls : calls[k] = v[l]
  BY <1>7, OfKindsHas DEF HasThose
<1>9. ASSUME NEW k \in DOMAIN calls
      PROVE  \E id \in CallId : calls[k] = Call(id) /\ HasCall(m, id)
  <2>1. PICK l \in DOMAIN v : calls[k] = v[l] /\ v[l].kind \in C
    BY <1>8
  <2>2. v[l] \in P /\ v[l].kind = "call"
    BY <1>2, <2>1
  <2>3. PICK id \in CallId : v[l] = Call(id)
    BY <2>2 DEF ToolParts
  <2>. QED BY <1>1, <2>1, <2>3 DEF HasCall
<1>10. ASSUME NEW id \in CallId, HasCall(m, id) PROVE Contains(calls, Call(id))
  <2>1. PICK l \in DOMAIN v : v[l] = Call(id)
    BY <1>1, <1>10 DEF HasCall
  <2>2. v[l].kind \in C
    BY <1>2, <2>1, KindsDiffer
  <2>3. PICK k \in DOMAIN calls : calls[k] = v[l]
    BY <1>8, <2>2
  <2>4. k \in 1 .. Len(calls)
    OBVIOUS
  <2>. QED BY <2>1, <2>3, <2>4 DEF Contains
<1>. QED BY <1>3, <1>5, <1>6, <1>7, <1>9, <1>10

(* Chat Completions takes what repair leaves, when every result has a turn of its own. *)
LEMMA ChatTakes ==
  ASSUME NEW R, NEW P, ToolParts(P), NEW s \in Seq(MessagesOf(R, P)), Fit(s), OneResultEach(s)
  PROVE  ~ChatBuild(s).refused /\ ChatAccepts(ChatBuild(s).turns)
<1>1. PICK n \in Nat : n = Len(s) /\ DOMAIN s = 1 .. n
  OBVIOUS
<1>2. PICK all : all = ChatAll(s)
  OBVIOUS
<1>3. DOMAIN all = 1 .. n /\ \A i \in 1 .. n : all[i] = ChatMessage(s[i])
  BY <1>1, <1>2 DEF ChatAll
<1>4. ASSUME NEW i \in 1 .. n
      PROVE  /\ NoAnswer(s[i]) \/ \E id \in CallId : OneAnswer(s[i], id)
             /\ \A k \in DOMAIN all[i].calls :
                  \E id \in CallId : all[i].calls[k] = Call(id) /\ HasCall(s[i], id)
             /\ \A id \in CallId : HasCall(s[i], id) => Contains(all[i].calls, Call(id))
  <2>1. PICK m \in MessagesOf(R, P) : m = s[i]
    BY <1>1
  <2>2. m.role = "tool" \/ Carries(m, {"result"})
           => m.role = "tool" /\ Len(m.parts) = 1 /\ m.parts[1].kind = "result"
    BY <1>1, <2>1 DEF OneResultEach
  <2>3. /\ NoAnswer(m) \/ \E id \in CallId : OneAnswer(m, id)
        /\ \A k \in DOMAIN ChatMessage(m).calls :
             \E id \in CallId : ChatMessage(m).calls[k] = Call(id) /\ HasCall(m, id)
        /\ \A id \in CallId : HasCall(m, id) => Contains(ChatMessage(m).calls, Call(id))
    BY <2>2, ChatMessageIs
  <2>4. all[i] = ChatMessage(m)
    BY <1>3, <2>1
  <2>. QED BY <2>1, <2>3, <2>4
<1>5. \A i \in DOMAIN s : Len(all[i].answers) \in {0, 1}
  <2>. SUFFICES ASSUME NEW i \in 1 .. n PROVE Len(all[i].answers) \in {0, 1}
    BY <1>1
  <2>1. all[i].answers = <<>> \/ \E id \in CallId : all[i].answers = <<Result(id)>>
    BY <1>3, <1>4 DEF NoAnswer, OneAnswer
  <2>2. Len(<<>>) = 0 /\ \A p : Len(<<p>>) = 1
    OBVIOUS
  <2>3. CASE all[i].answers = <<>>
    BY <2>2, <2>3
  <2>4. CASE all[i].answers # <<>>
    <3>1. PICK id \in CallId : all[i].answers = <<Result(id)>>
      BY <2>1, <2>4
    <3>. QED BY <2>2, <3>1
  <2>. QED BY <2>3, <2>4
<1>6. PICK S : S = Saying(s)
  OBVIOUS
<1>7. ChatBuild(s) = Built(<<>>, Pick(all, S))
  BY <1>2, <1>5, <1>6, ChatBuilds
<1>8. PICK M : M = {all[i] : i \in DOMAIN s}
  OBVIOUS
<1>9. all \in Seq(M) /\ S \in SUBSET DOMAIN all
  <2>1. \A i \in 1 .. n : all[i] \in M
    BY <1>1, <1>8
  <2>2. all = [i \in 1 .. n |-> all[i]]
    BY <1>1, <1>2 DEF ChatAll
  <2>3. all \in [1 .. n -> M]
    BY <2>1, <2>2
  <2>. QED BY <1>1, <1>3, <1>6, <2>3 DEF Saying
<1>10. \A i \in 1 .. n : i \in S <=> all[i].content # <<>> \/ all[i].calls # <<>>
  BY <1>1, <1>2, <1>6 DEF Saying
<1>11. PICK w \in Seq(M) : w = Pick(all, S)
  BY <1>9, Picked
<1>. DEFINE at(k) == Nth(S, k)
<1>12. /\ DOMAIN w = 1 .. Len(w)
       /\ \A k \in DOMAIN w : at(k) \in S /\ w[k] = all[at(k)]
       /\ \A i \in S : \E k \in DOMAIN w : at(k) = i
       /\ \A k, l \in DOMAIN w : k < l <=> at(k) < at(l)
  BY <1>9, <1>11, Picked
<1>. HIDE DEF at
<1>13. /\ \A i \in S : i \in 1 .. n
       /\ \A k \in DOMAIN w : at(k) \in 1 .. n /\ w[k] = all[at(k)] /\ k \in Nat
       /\ Len(w) \in Nat
  <2>1. \A i \in S : i \in 1 .. n
    BY <1>3, <1>9
  <2>. QED BY <1>12, <2>1
\* What a turn of one result or with a call says is not nothing.
<1>14. ASSUME NEW i \in 1 .. n, NEW id \in CallId, OneAnswer(s[i], id) \/ HasCall(s[i], id)
       PROVE  i \in S
  <2>1. CASE OneAnswer(s[i], id)
    <3>1. all[i].content = <<Result(id)>>
      BY <1>3, <2>1 DEF OneAnswer
    <3>2. <<Result(id)>> # <<>>
      OBVIOUS
    <3>. QED BY <1>10, <3>1, <3>2
  <2>2. CASE HasCall(s[i], id)
    <3>1. Contains(all[i].calls, Call(id))
      BY <1>4, <2>2
    <3>2. all[i].calls # <<>>
      <4>1. ~Contains(<<>>, Call(id))
        BY DEF Contains
      <4>. QED BY <3>1, <4>1
    <3>. QED BY <1>10, <3>2
  <2>. QED BY <1>14, <2>1, <2>2
<1>15. ASSUME NEW i \in 1 .. n, NEW id \in CallId, HasResult(s[i], id)
       PROVE  OneAnswer(s[i], id)
  <2>1. PICK k \in DOMAIN s[i].parts : s[i].parts[k] = Result(id)
    BY <1>15 DEF HasResult
  <2>2. Carries(s[i], {"result"})
    BY <2>1, KindsDiffer DEF Carries
  <2>3. PICK id1 \in CallId : OneAnswer(s[i], id1)
    BY <1>4, <2>2 DEF NoAnswer
  <2>4. s[i].parts = <<Result(id1)>>
    BY <2>3 DEF OneAnswer
  <2>5. Result(id) = Result(id1)
    BY <2>1, <2>4
  <2>6. Result(id).id = id /\ Result(id1).id = id1
    BY DEF Result
  <2>. QED BY <2>3, <2>5, <2>6
<1>. DEFINE Paired(a, b, id) == /\ a < b /\ Contains(w[a].calls, Call(id))
                                /\ w[b].answers = <<Result(id)>>
                                /\ \A l \in a + 1 .. b : w[l].role = "tool"
<1>16. ASSUME NEW a \in DOMAIN w, NEW b \in DOMAIN w, NEW id \in CallId,
              Answers(s, at(a), at(b), id)
       PROVE  Paired(a, b, id)
  <2>1. /\ at(a) < at(b) /\ HasCall(s[at(a)], id) /\ HasResult(s[at(b)], id)
        /\ \A x \in at(a) + 1 .. at(b) : OnlyResults(s[x])
    BY <1>16 DEF Answers
  <2>2. a < b
    BY <1>12, <2>1
  <2>3. Contains(w[a].calls, Call(id))
    BY <1>4, <1>13, <2>1
  <2>4. w[b].answers = <<Result(id)>>
    BY <1>3, <1>13, <1>15, <2>1 DEF OneAnswer
  <2>5. ASSUME NEW l \in a + 1 .. b PROVE w[l].role = "tool"
    <3>1. l \in DOMAIN w /\ a < l /\ (l < b \/ l = b)
      BY <1>12, <1>13
    <3>2. at(a) < at(l) /\ (at(l) < at(b) \/ at(l) = at(b))
      BY <1>12, <3>1
    <3>3. at(a) \in Nat /\ at(b) \in Nat /\ at(l) \in Nat
      BY <1>13, <3>1
    <3>4. at(l) \in at(a) + 1 .. at(b)
      BY <3>2, <3>3
    <3>5. OnlyResults(s[at(l)]) /\ at(l) \in 1 .. n
      BY <1>13, <2>1, <3>1, <3>4
    <3>6. Carries(s[at(l)], {"result"})
      <4>1. s[at(l)] \in MessagesOf(R, P)
        BY <1>1, <3>5
      <4>2. PICK v \in Seq(P) : v = s[at(l)].parts
        <5>1. \A m \in MessagesOf(R, P) : m.parts \in Seq(P)
          BY DEF MessagesOf
        <5>. QED BY <4>1, <5>1
      <4>3. v # <<>> /\ \A k \in DOMAIN v : v[k].kind = "result"
        BY <3>5, <4>2 DEF OnlyResults
      <4>4. 1 \in DOMAIN v
        BY <4>3
      <4>. QED BY <4>2, <4>3, <4>4 DEF Carries
    <3>7. PICK id1 \in CallId : OneAnswer(s[at(l)], id1)
      BY <1>4, <3>5, <3>6 DEF NoAnswer
    <3>. QED BY <1>3, <1>13, <3>1, <3>7 DEF OneAnswer
  <2>. QED BY <2>2, <2>3, <2>4, <2>5
<1>17. ASSUME NEW a \in DOMAIN w, NEW id \in CallId, HasCall(s[at(a)], id)
       PROVE  \E b \in DOMAIN w : Paired(a, b, id)
  <2>1. PICK j \in DOMAIN s : Answers(s, at(a), j, id)
    BY <1>1, <1>13, <1>17 DEF Fit, Sendable
  <2>2. j \in S
    BY <1>1, <1>14, <1>15, <2>1 DEF Answers
  <2>3. PICK b \in DOMAIN w : at(b) = j
    BY <1>12, <2>2
  <2>. QED BY <1>16, <2>1, <2>3
<1>18. ASSUME NEW a \in DOMAIN w, NEW id \in CallId, HasResult(s[at(a)], id)
       PROVE  \E b \in DOMAIN w : Paired(b, a, id)
  <2>1. PICK j \in DOMAIN s : Answers(s, j, at(a), id)
    BY <1>1, <1>13, <1>18 DEF Fit, Sendable
  <2>2. j \in S
    BY <1>1, <1>14, <2>1 DEF Answers
  <2>3. PICK b \in DOMAIN w : at(b) = j
    BY <1>12, <2>2
  <2>. QED BY <1>16, <2>1, <2>3
<1>19. ASSUME NEW a \in DOMAIN w, NEW k \in DOMAIN w[a].calls
       PROVE  \E b \in DOMAIN w : Paired(a, b, w[a].calls[k].id)
  <2>1. PICK id \in CallId : w[a].calls[k] = Call(id) /\ HasCall(s[at(a)], id)
    BY <1>4, <1>13, <1>19
  <2>2. w[a].calls[k].id = id
    BY <2>1 DEF Call
  <2>. HIDE DEF Paired
  <2>. QED BY <1>17, <2>1, <2>2
<1>20. ASSUME NEW a \in DOMAIN w, w[a].role = "tool"
       PROVE  \E b \in DOMAIN w : Paired(b, a, w[a].answers[1].id)
  <2>1. PICK id \in CallId : OneAnswer(s[at(a)], id)
    BY <1>3, <1>4, <1>13, <1>20 DEF NoAnswer
  <2>2. w[a].answers = <<Result(id)>> /\ HasResult(s[at(a)], id)
    BY <1>3, <1>13, <2>1 DEF OneAnswer, HasResult
  <2>3. w[a].answers[1].id = id
    BY <2>2 DEF Result
  <2>. HIDE DEF Paired
  <2>. QED BY <1>18, <2>2, <2>3
<1>21. ASSUME NEW a \in DOMAIN w, w[a].role # "tool"
       PROVE  w[a].answers = <<>>
  <2>1. NoAnswer(s[at(a)])
    BY <1>3, <1>4, <1>13, <1>21 DEF OneAnswer
  <2>. QED BY <1>3, <1>13, <2>1 DEF NoAnswer
<1>22. ChatAccepts(w)
  BY <1>19, <1>20, <1>21 DEF ChatAccepts
<1>. QED BY <1>7, <1>11, <1>22 DEF Built

(* What repair leaves of ordinary messages are ordinary messages. *)
LEMMA RepairedAreOrdinary ==
  ASSUME NEW R, NEW P, NEW s \in Seq(MessagesOf(R, P)), \A i \in DOMAIN s : Ordinary(s[i])
  PROVE  \A k \in DOMAIN Repair(s) : Ordinary(Repair(s)[k]) /\ Repair(s)[k].parts # <<>>
<1>. SUFFICES ASSUME NEW k \in DOMAIN Repair(s)
              PROVE  Ordinary(Repair(s)[k]) /\ Repair(s)[k].parts # <<>>
  OBVIOUS
<1>1. PICK i \in DOMAIN s : i = Nth(Left(s), k)
  BY Repaired
<1>2. PICK m : m = Trimmed(s, Broken(s), i)
  OBVIOUS
<1>3. Repair(s)[k] = m /\ m.parts # <<>>
  BY <1>1, <1>2, Repaired
<1>4. m.role = s[i].role /\ \A l \in DOMAIN m.parts : \E j \in DOMAIN s[i].parts : s[i].parts[j] = m.parts[l]
  <2>1. /\ m.role = s[i].role
        /\ \A p : (\E l \in DOMAIN m.parts : m.parts[l] = p)
                    <=> /\ \E j \in DOMAIN s[i].parts : s[i].parts[j] = p
                        /\ PartKept(s, Broken(s), i, p)
    <3>1. PICK broken : broken = Broken(s)
      OBVIOUS
    <3>2. LET x == Trimmed(s, broken, i)
          IN  /\ x \in MessagesOf(R, P) /\ x.role = s[i].role
              /\ \A p : (\E l \in DOMAIN x.parts : x.parts[l] = p)
                          <=> /\ \E l \in DOMAIN s[i].parts : s[i].parts[l] = p
                              /\ PartKept(s, broken, i, p)
      BY ONLY s \in Seq(MessagesOf(R, P)), TrimmedParts
    <3>. QED BY <1>2, <3>1, <3>2
  <2>. QED BY <2>1
<1>5. Ordinary(s[i])
  OBVIOUS
<1>6. Ordinary(m)
  BY <1>4, <1>5 DEF Ordinary, Pinned
<1>. QED BY <1>3, <1>6

(* A transcript of ordinary messages in which no id is used twice, however a
   backend cuts it, is one that every dialect takes and every endpoint accepts
   once repair has passed over it; Chat Completions where each result is a turn
   of its own, as it refuses a turn of several (repair.rs; dialect/*/request.rs,
   build). *)
THEOREM RepairedIsAlwaysAccepted ==
  ASSUME ~ReusedIds, \A m \in Messages : Ordinary(m)
  PROVE  Spec => []RepairedIsAccepted
<1>1. OnceInv => RepairedIsAccepted
  <2>. SUFFICES ASSUME OnceInv PROVE RepairedIsAccepted
    OBVIOUS
  <2>1. h \in Seq(Messages) /\ h \in Seq(MessagesOf(Roles, Kinds)) /\ AnsweredOnce(h) /\ ToolParts(Kinds)
    <3>1. h \in Seq(Messages) /\ Messages \subseteq MessagesOf(Roles, Kinds)
      BY MessagesAreBuilt DEF OnceInv
    <3>2. h \in Seq(MessagesOf(Roles, Kinds))
      BY <3>1
    <3>. QED BY <3>1, <3>2, MessagesAreBuilt DEF OnceInv, Once
  <2>2. RepairLoop = Repair(h)
    BY <2>1, RepairLoopIsRepair
  <2>3. Sendable(Repair(h))
    BY ONLY <2>1, RepairIsSendable
  <2>4. \A i \in DOMAIN h : Ordinary(h[i])
    <3>1. \A i \in DOMAIN h : h[i] \in Messages
      BY <2>1
    <3>. QED BY <3>1
  <2>5. Repair(h) \in Seq(MessagesOf(Roles, Kinds))
    BY <2>1, Repaired
  <2>6. PICK t \in Seq(MessagesOf(Roles, Kinds)) : t = RepairLoop
    BY <2>2, <2>5
  <2>7. Fit(t)
    BY <2>1, <2>2, <2>3, <2>4, <2>6, RepairedAreOrdinary DEF Fit
  <2>8. ~AnthropicBuild(t).refused /\ AnthropicAccepts(AnthropicBuild(t).turns)
    BY <2>1, <2>7, AnthropicTakes
  <2>9. /\ ~GeminiBuild(t).refused    /\ StepsAccepted(GeminiBuild(t).turns)
        /\ ~ResponsesBuild(t).refused /\ StepsAccepted(ResponsesBuild(t).turns)
    BY <2>1, <2>7, StepDialectsTake
  <2>10. OneResultEach(t) => ~ChatBuild(t).refused /\ ChatAccepts(ChatBuild(t).turns)
    BY <2>1, <2>7, ChatTakes
  <2>. QED BY <2>6, <2>8, <2>9, <2>10 DEF RepairedIsAccepted
<1>2. Spec => []OnceInv
  BY OnceIsInvariant
<1>. QED BY <1>1, <1>2, PTL

=============================================================================
