-------------------------- MODULE Transcript_proofs --------------------------
(***************************************************************************)
(* What is computed from a transcript, for transcripts of every length.    *)
(*                                                                         *)
(* What a summary relies on: the groups that precede the newest one are    *)
(* settled.  A scan's open calls at a position depend on the messages      *)
(* before it alone, so the boundaries of the longer transcript within the  *)
(* shorter one are its own; and a message beyond it has all of its starts  *)
(* behind it, so it is in none of its settled groups.                      *)
(*                                                                         *)
(* What a provider relies on: a repaired transcript is one it accepts.     *)
(* The pass picks messages and parts, and the order among those picked is  *)
(* that of the transcript.  A call and its result that are both kept have  *)
(* nothing but results between them, or the call would be broken; and      *)
(* where no call is answered twice, one is kept exactly if the other is.   *)
(*                                                                         *)
(* What a window promises: it is drawn from the transcript, each turn once *)
(* and in order but for the pinned ones that are rescued; a call and its   *)
(* result are in one group, so both are drawn or neither; and it costs     *)
(* what the turns drawn cost, so the deepest cut that fits a budget is     *)
(* found among the costs of the groups.                                    *)
(***************************************************************************)
EXTENDS Transcript, Counting

-----------------------------------------------------------------------------
(* Transcripts that grow *)

(* A transcript and what a longer one has at the same places. *)
LEMMA Appended ==
  ASSUME NEW M, NEW h \in Seq(M), NEW t \in Seq(M)
  PROVE  /\ h \o t \in Seq(M)
         /\ DOMAIN h = 1 .. Len(h) /\ Len(h) \in Nat
         /\ DOMAIN (h \o t) = 1 .. Len(h) + Len(t) /\ Len(t) \in Nat
         /\ \A i \in DOMAIN h : (h \o t)[i] = h[i]
OBVIOUS

(* What is open at a position depends on the messages before it alone. *)
LEMMA OpenBeforeIsSettled ==
  ASSUME NEW M, NEW h \in Seq(M), NEW t \in Seq(M), NEW i \in DOMAIN h
  PROVE  OpenBefore(h \o t, i) = OpenBefore(h, i)
<1>1. \A j \in 1 .. i - 1 : (h \o t)[j] = h[j]
  BY Appended
<1>2. \A j \in 1 .. i - 1 : j + 1 .. i - 1 \subseteq 1 .. i - 1
  BY Appended
<1>. QED BY <1>1, <1>2 DEF OpenBefore

(* So the starts and the pinned turns among the older messages stay so. *)
LEMMA BoundariesAreSettled ==
  ASSUME NEW M, NEW h \in Seq(M), NEW t \in Seq(M), NEW i \in DOMAIN h
  PROVE  /\ i \in Starts(h \o t) <=> i \in Starts(h)
         /\ i \in TopPinned(h \o t) <=> i \in TopPinned(h)
<1>1. i \in DOMAIN (h \o t) /\ (h \o t)[i] = h[i]
  BY Appended
<1>. QED BY <1>1, OpenBeforeIsSettled DEF Starts, TopPinned, Boundaries

(* The starts of a transcript are finitely many. *)
LEMMA StartsAreFinite ==
  ASSUME NEW M, NEW h \in Seq(M), NEW i \in Nat
  PROVE  /\ IsFiniteSet(Starts(h)) /\ GroupCount(h) \in Nat
         /\ IsFiniteSet({s \in Starts(h) : s <= i})
         /\ Cardinality({s \in Starts(h) : s <= i}) \in Nat
         /\ Starts(h) \subseteq DOMAIN h /\ Starts(h) \subseteq Nat
<1>1. Starts(h) \subseteq 1 .. Len(h) /\ Len(h) \in Nat /\ DOMAIN h = 1 .. Len(h)
  BY DEF Starts, Boundaries
<1>2. IsFiniteSet(1 .. Len(h))
  BY <1>1, FS_Interval
<1>3. IsFiniteSet(Starts(h))
  BY <1>1, <1>2, FS_Subset
<1>4. IsFiniteSet({s \in Starts(h) : s <= i})
  BY <1>3, FS_Subset
<1>. QED BY <1>1, <1>3, <1>4, FS_CardinalityType DEF GroupCount

(* No start is lost as a transcript grows. *)
LEMMA GroupsOnlyGrow ==
  ASSUME NEW M, NEW h \in Seq(M), NEW t \in Seq(M)
  PROVE  GroupCount(h) <= GroupCount(h \o t)
<1>1. ASSUME NEW s \in Starts(h) PROVE s \in Starts(h \o t)
  <2>1. s \in DOMAIN h
    BY DEF Starts, Boundaries
  <2>. QED BY <2>1, BoundariesAreSettled
<1>2. IsFiniteSet(Starts(h \o t))
  BY Appended, StartsAreFinite
<1>. QED BY <1>1, <1>2, FS_Subset DEF GroupCount

(* The messages of the settled groups are the same messages. *)
LEMMA OldestAreSettled ==
  ASSUME NEW M, NEW h \in Seq(M), NEW t \in Seq(M),
         NEW from \in Nat, from < GroupCount(h)
  PROVE  Oldest(h \o t, from) = Oldest(h, from)
<1>. DEFINE g == h \o t
            Behind(x, i) == {s \in Starts(x) : s <= i}
<1>1. g \in Seq(M) /\ DOMAIN h \subseteq DOMAIN g
  BY Appended
<1>2. ASSUME NEW i \in DOMAIN h PROVE i \in Oldest(g, from) <=> i \in Oldest(h, from)
  <2>1. ASSUME NEW s \in Nat, s <= i PROVE s \in Starts(g) <=> s \in Starts(h)
    <3>1. CASE s \in DOMAIN h
      BY <3>1, BoundariesAreSettled
    <3>2. CASE s \notin DOMAIN h
      <4>1. s = 0
        BY <2>1, <3>2, Appended
      <4>2. 0 \notin DOMAIN g /\ 0 \notin DOMAIN h
        BY Appended
      <4>. QED BY <4>1, <4>2 DEF Starts, Boundaries
    <3>. QED BY <3>1, <3>2
  <2>2. Starts(g) \subseteq Nat /\ Starts(h) \subseteq Nat
    BY <1>1, StartsAreFinite, 0 \in Nat
  <2>3. Behind(g, i) = Behind(h, i)
    BY <2>1, <2>2
  <2>4. i \in TopPinned(g) <=> i \in TopPinned(h)
    BY BoundariesAreSettled
  <2>. QED BY <1>1, <2>3, <2>4 DEF Oldest
<1>3. ASSUME NEW i \in DOMAIN g, i \notin DOMAIN h PROVE i \notin Oldest(g, from)
  <2>1. i \in Nat /\ i > Len(h)
    BY <1>3, Appended
  <2>2. ASSUME NEW s \in Starts(h) PROVE s \in Behind(g, i)
    <3>1. s \in DOMAIN h
      BY DEF Starts, Boundaries
    <3>2. s \in Starts(g)
      BY <3>1, BoundariesAreSettled
    <3>3. s \in Nat /\ s <= Len(h) /\ Len(h) \in Nat
      BY <3>1, Appended
    <3>. QED BY <2>1, <3>2, <3>3
  <2>3. IsFiniteSet(Behind(g, i)) /\ Cardinality(Behind(g, i)) \in Nat
    BY <1>1, <2>1, StartsAreFinite
  <2>4. GroupCount(h) <= Cardinality(Behind(g, i))
    BY <2>2, <2>3, FS_Subset DEF GroupCount
  <2>5. GroupCount(h) \in Nat
    BY StartsAreFinite
  <2>6. ~(Cardinality(Behind(g, i)) <= from)
    BY <2>3, <2>4, <2>5
  <2>. QED BY <2>6 DEF Oldest
<1>4. Oldest(g, from) \subseteq DOMAIN g /\ Oldest(h, from) \subseteq DOMAIN h
  BY DEF Oldest
<1>. QED BY <1>1, <1>2, <1>3, <1>4

(* A token cut keeps the newest group whatever it costs. *)
LEMMA TokenCutKeepsTheNewest ==
  ASSUME NEW M, NEW h \in Seq(M), NEW budget
  PROVE  /\ CutByTokens(h, budget) \in Nat
         /\ GroupCount(h) > 0 => CutByTokens(h, budget) < GroupCount(h)
         /\ GroupCount(h) = 0 => CutByTokens(h, budget) = 0
<1>. DEFINE n         == GroupCount(h)
            forGroups == SaturatingSub(budget, Cost(h, {i \in DOMAIN h : Pinned(h[i])}))
            remaining == SaturatingSub(forGroups, Cost(h, Between(h, n - 1, n)))
            Fits(f)   == f = n - 1 \/ Cost(h, Between(h, f, n - 1)) <= remaining
            fitting   == {f \in 0 .. n - 1 : Fits(f)}
<1>1. CutByTokens(h, budget) = n - Cardinality(fitting)
  BY DEF CutByTokens
<1>. HIDE DEF Fits
<1>2. n \in Nat
  BY StartsAreFinite
<1>3. IsFiniteSet(0 .. n - 1) /\ Cardinality(0 .. n - 1) = n
  <2>. HIDE DEF n
  <2>1. 0 \in Int /\ n - 1 \in Int
    BY <1>2
  <2>2. /\ IsFiniteSet(0 .. n - 1)
        /\ Cardinality(0 .. n - 1) = IF 0 > n - 1 THEN 0 ELSE (n - 1) - 0 + 1
    BY ONLY <2>1, FS_Interval
  <2>. QED BY <1>2, <2>2
<1>4. /\ IsFiniteSet(fitting) /\ Cardinality(fitting) \in Nat
      /\ Cardinality(fitting) <= n
  BY <1>3, FS_Subset, FS_CardinalityType
<1>5. ASSUME n > 0 PROVE Cardinality(fitting) > 0
  <2>1. n - 1 \in fitting
    BY <1>2, <1>5 DEF Fits
  <2>. QED BY <1>4, <2>1, FS_EmptySet
<1>. HIDE DEF n, fitting
<1>6. CutByTokens(h, budget) \in Nat /\ (n > 0 => CutByTokens(h, budget) < n)
  BY <1>1, <1>2, <1>4, <1>5
<1>7. n = 0 => CutByTokens(h, budget) = 0
  BY <1>1, <1>2, <1>4
<1>. QED BY <1>6, <1>7 DEF n

-----------------------------------------------------------------------------
(* Repair *)

MessagesOf(R, P) == [role : R, parts : Seq(P)]

\* No call is answered by two messages.
AnsweredOnce(h) ==
  \A i, j \in DOMAIN h, id \in CallId :
    HasResult(h[i], id) /\ HasResult(h[j], id) => i = j

\* The messages that the pass leaves a part of.
Left(h) == {i \in DOMAIN h : Trimmed(h, Broken(h), i).parts # <<>>}

(* The parts that the pass leaves are those it keeps. *)
LEMMA TrimmedParts ==
  ASSUME NEW R, NEW P, NEW h \in Seq(MessagesOf(R, P)), NEW i \in DOMAIN h, NEW broken
  PROVE  LET m == Trimmed(h, broken, i)
         IN  /\ m \in MessagesOf(R, P) /\ m.role = h[i].role
             /\ \A p : (\E k \in DOMAIN m.parts : m.parts[k] = p)
                         <=> /\ \E k \in DOMAIN h[i].parts : h[i].parts[k] = p
                             /\ PartKept(h, broken, i, p)
<1>. DEFINE parts == h[i].parts
            S     == {k \in DOMAIN parts : PartKept(h, broken, i, parts[k])}
<1>1. h[i] \in MessagesOf(R, P) /\ parts \in Seq(P)
  <2>1. h[i] \in MessagesOf(R, P)
    OBVIOUS
  <2>. QED BY <2>1 DEF MessagesOf
<1>2. Trimmed(h, broken, i) = [h[i] EXCEPT !.parts = Pick(parts, S)]
  BY DEF Trimmed
<1>3. S \in SUBSET DOMAIN parts /\ \A k \in S : PartKept(h, broken, i, parts[k])
  OBVIOUS
<1>4. \A k \in DOMAIN parts : PartKept(h, broken, i, parts[k]) => k \in S
  OBVIOUS
<1>. HIDE DEF S, parts
<1>5. /\ Pick(parts, S) \in Seq(P)
      /\ \A k \in DOMAIN Pick(parts, S) : Nth(S, k) \in S /\ Pick(parts, S)[k] = parts[Nth(S, k)]
      /\ \A k \in S : \E l \in DOMAIN Pick(parts, S) : Nth(S, l) = k
  BY <1>1, <1>3, Picked
<1>6. /\ Trimmed(h, broken, i) \in MessagesOf(R, P)
      /\ Trimmed(h, broken, i).role = h[i].role
      /\ Trimmed(h, broken, i).parts = Pick(parts, S)
  BY <1>1, <1>2, <1>5 DEF MessagesOf
<1>7. ASSUME NEW k \in DOMAIN Pick(parts, S)
      PROVE  /\ \E l \in DOMAIN parts : parts[l] = Pick(parts, S)[k]
             /\ PartKept(h, broken, i, Pick(parts, S)[k])
  BY <1>3, <1>5
<1>8. ASSUME NEW k \in DOMAIN parts, PartKept(h, broken, i, parts[k])
      PROVE  \E l \in DOMAIN Pick(parts, S) : Pick(parts, S)[l] = parts[k]
  BY <1>4, <1>5, <1>8
<1>. QED BY <1>6, <1>7, <1>8 DEF parts

(* What repair returns are the messages it leaves a part of, in order. *)
LEMMA Repaired ==
  ASSUME NEW R, NEW P, NEW h \in Seq(MessagesOf(R, P))
  PROVE  /\ Repair(h) \in Seq(MessagesOf(R, P))
         /\ DOMAIN Repair(h) = 1 .. Len(Repair(h)) /\ Len(Repair(h)) \in Nat
         /\ \A k \in DOMAIN Repair(h) :
              /\ Nth(Left(h), k) \in DOMAIN h
              /\ Repair(h)[k] = Trimmed(h, Broken(h), Nth(Left(h), k))
              /\ Repair(h)[k].parts # <<>>
         /\ \A i \in Left(h) : \E k \in DOMAIN Repair(h) : Nth(Left(h), k) = i
         /\ \A k, l \in DOMAIN Repair(h) : k < l <=> Nth(Left(h), k) < Nth(Left(h), l)
<1>. DEFINE trimmed == [i \in DOMAIN h |-> Trimmed(h, Broken(h), i)]
            M == MessagesOf(R, P)
<1>1. \A i \in DOMAIN h : Trimmed(h, Broken(h), i) \in M
  BY TrimmedParts
<1>2. trimmed \in Seq(M) /\ DOMAIN trimmed = DOMAIN h
  <2>1. DOMAIN h = 1 .. Len(h) /\ Len(h) \in Nat
    OBVIOUS
  <2>2. trimmed \in [1 .. Len(h) -> M]
    BY <1>1, <2>1
  <2>. QED BY <2>1, <2>2
<1>3. Left(h) = {i \in DOMAIN h : trimmed[i].parts # <<>>}
  BY DEF Left
<1>4. Repair(h) = Pick(trimmed, Left(h))
  BY <1>3 DEF Repair
<1>5. Left(h) \in SUBSET DOMAIN trimmed /\ Left(h) \subseteq DOMAIN h
  BY <1>2, <1>3
<1>6. \A i \in DOMAIN h : trimmed[i] = Trimmed(h, Broken(h), i)
  OBVIOUS
<1>. HIDE DEF trimmed, M
<1>7. /\ Repair(h) \in Seq(M) /\ DOMAIN Repair(h) = 1 .. Len(Repair(h))
      /\ \A k \in DOMAIN Repair(h) :
           Nth(Left(h), k) \in Left(h) /\ Repair(h)[k] = trimmed[Nth(Left(h), k)]
      /\ \A i \in Left(h) : \E k \in DOMAIN Repair(h) : Nth(Left(h), k) = i
      /\ \A k, l \in DOMAIN Repair(h) : k < l <=> Nth(Left(h), k) < Nth(Left(h), l)
  BY <1>2, <1>4, <1>5, Picked
<1>8. ASSUME NEW k \in DOMAIN Repair(h)
      PROVE  /\ Nth(Left(h), k) \in DOMAIN h
             /\ Repair(h)[k] = Trimmed(h, Broken(h), Nth(Left(h), k))
             /\ Repair(h)[k].parts # <<>>
  BY <1>5, <1>6, <1>7 DEF Left
<1>. QED BY <1>7, <1>8 DEF M

(* A call stays where it is kept, a result likewise, and nothing else comes to
   be between two messages. *)
LEMMA RepairedParts ==
  ASSUME NEW R, NEW P, NEW h \in Seq(MessagesOf(R, P)), NEW id \in CallId
  PROVE  /\ \A k \in DOMAIN Repair(h) :
              /\ HasCall(Repair(h)[k], id) <=>
                   /\ HasCall(h[Nth(Left(h), k)], id)
                   /\ CallKept(h, Broken(h), Nth(Left(h), k), id)
              /\ HasResult(Repair(h)[k], id) <=>
                   /\ HasResult(h[Nth(Left(h), k)], id)
                   /\ ResultKept(h, Broken(h), Nth(Left(h), k), id)
         /\ \A i \in DOMAIN h :
              \/ HasCall(h[i], id) /\ CallKept(h, Broken(h), i, id)
              \/ HasResult(h[i], id) /\ ResultKept(h, Broken(h), i, id)
              => i \in Left(h)
<1>. DEFINE broken == Broken(h)
<1>1. /\ Call(id).kind = "call" /\ Call(id).id = id
      /\ Result(id).kind = "result" /\ Result(id).id = id
  BY DEF Call, Result
<1>2. ASSUME NEW i \in DOMAIN h
      PROVE  /\ PartKept(h, broken, i, Call(id)) <=> CallKept(h, broken, i, id)
             /\ PartKept(h, broken, i, Result(id)) <=> ResultKept(h, broken, i, id)
  BY <1>1 DEF PartKept
<1>. HIDE DEF broken
<1>3. ASSUME NEW i \in DOMAIN h
      PROVE  /\ HasCall(Trimmed(h, broken, i), id)
                  <=> HasCall(h[i], id) /\ CallKept(h, broken, i, id)
             /\ HasResult(Trimmed(h, broken, i), id)
                  <=> HasResult(h[i], id) /\ ResultKept(h, broken, i, id)
  BY <1>2, TrimmedParts DEF HasCall, HasResult
<1>4. ASSUME NEW i \in DOMAIN h,
             HasCall(Trimmed(h, broken, i), id) \/ HasResult(Trimmed(h, broken, i), id)
      PROVE  i \in Left(h)
  <2>1. Trimmed(h, broken, i).parts # <<>>
    BY <1>4 DEF HasCall, HasResult
  <2>. QED BY <2>1 DEF Left, broken
<1>5. \A k \in DOMAIN Repair(h) :
        /\ Nth(Left(h), k) \in DOMAIN h
        /\ Repair(h)[k] = Trimmed(h, broken, Nth(Left(h), k))
  BY Repaired DEF broken
<1>. QED BY <1>3, <1>4, <1>5 DEF broken

(* A message of results alone stays one. *)
LEMMA RepairedResults ==
  ASSUME NEW R, NEW P, NEW h \in Seq(MessagesOf(R, P)), NEW k \in DOMAIN Repair(h),
         OnlyResults(h[Nth(Left(h), k)])
  PROVE  OnlyResults(Repair(h)[k])
<1>. DEFINE i == Nth(Left(h), k)
            m == Trimmed(h, Broken(h), i)
<1>1. i \in DOMAIN h /\ Repair(h)[k] = m /\ m.parts # <<>>
  BY Repaired
<1>2. \A l \in DOMAIN m.parts : \E n \in DOMAIN h[i].parts : h[i].parts[n] = m.parts[l]
  <2>. HIDE DEF i
  <2>1. \A p : (\E l \in DOMAIN m.parts : m.parts[l] = p)
                 => \E n \in DOMAIN h[i].parts : h[i].parts[n] = p
    BY <1>1, TrimmedParts
  <2>. QED BY <2>1
<1>. QED BY <1>1, <1>2 DEF OnlyResults

(* Nothing but results comes between a call that is not broken and its result. *)
LEMMA NothingBetween ==
  ASSUME NEW M, NEW h \in Seq(M), AnsweredOnce(h),
         NEW i \in DOMAIN h, NEW j \in DOMAIN h, i < j, NEW id \in CallId,
         id \notin Broken(h), HasCall(h[i], id), HasResult(h[j], id)
  PROVE  \A l \in i + 1 .. j : OnlyResults(h[l])
<1>. SUFFICES ASSUME NEW l \in i + 1 .. j PROVE OnlyResults(h[l])
  OBVIOUS
<1>1. DOMAIN h = 1 .. Len(h) /\ Len(h) \in Nat
  OBVIOUS
<1>2. i \in 1 .. l - 1 /\ l \in DOMAIN h /\ i \in Int
  BY <1>1
<1>3. \A n \in DOMAIN h : HasResult(h[n], id) => n = j
  BY DEF AnsweredOnce
<1>4. LeavesOpen(h[i], id)
  <2>1. ~HasResult(h[i], id)
    BY <1>1, <1>3
  <2>. QED BY <2>1 DEF LeavesOpen, HasCall, HasResult
<1>5. \A n \in i + 1 .. l - 1 : ~HasResult(h[n], id)
  <2>1. \A n \in i + 1 .. l - 1 : n \in DOMAIN h /\ n # j
    BY <1>1
  <2>. QED BY <1>3, <2>1
<1>6. id \in OpenBefore(h, l)
  BY <1>2, <1>4, <1>5 DEF OpenBefore
<1>. QED BY <1>2, <1>6 DEF Broken

(* However a backend cut it, a transcript that answers no call twice is one that
   every provider accepts once the pass has seen it (repair.rs). *)
THEOREM RepairIsSendable ==
  ASSUME NEW R, NEW P, NEW h \in Seq(MessagesOf(R, P)), AnsweredOnce(h)
  PROVE  Sendable(Repair(h))
<1>. DEFINE t     == Repair(h)
            at(k) == Nth(Left(h), k)
<1>1. /\ DOMAIN h = 1 .. Len(h) /\ Len(h) \in Nat
      /\ DOMAIN t = 1 .. Len(t) /\ Len(t) \in Nat
      /\ \A k \in DOMAIN t : at(k) \in DOMAIN h
      /\ \A i \in Left(h) : \E k \in DOMAIN t : at(k) = i
      /\ \A k, l \in DOMAIN t : k < l <=> at(k) < at(l)
  BY Repaired
<1>2. ASSUME NEW k \in DOMAIN t, OnlyResults(h[at(k)]) PROVE OnlyResults(t[k])
  BY <1>2, RepairedResults
<1>3. \A id \in CallId : \A k \in DOMAIN t :
        /\ HasCall(t[k], id) <=> HasCall(h[at(k)], id) /\ CallKept(h, Broken(h), at(k), id)
        /\ HasResult(t[k], id) <=> HasResult(h[at(k)], id) /\ ResultKept(h, Broken(h), at(k), id)
  BY RepairedParts
<1>4. \A id \in CallId, i \in DOMAIN h :
        \/ HasCall(h[i], id) /\ CallKept(h, Broken(h), i, id)
        \/ HasResult(h[i], id) /\ ResultKept(h, Broken(h), i, id)
        => i \in Left(h)
  BY RepairedParts
<1>. HIDE DEF at, t
\* A call and its result that are both kept answer one another.
<1>5. ASSUME NEW k \in DOMAIN t, NEW l \in DOMAIN t, k < l, NEW id \in CallId,
             HasCall(t[k], id), HasResult(t[l], id)
      PROVE  Answers(t, k, l, id)
  <2>1. /\ at(k) \in DOMAIN h /\ at(l) \in DOMAIN h /\ at(k) < at(l)
        /\ HasCall(h[at(k)], id) /\ HasResult(h[at(l)], id) /\ id \notin Broken(h)
    BY <1>1, <1>3, <1>5 DEF CallKept
  <2>2. \A n \in at(k) + 1 .. at(l) : OnlyResults(h[n])
    BY <2>1, NothingBetween
  <2>3. ASSUME NEW n \in k + 1 .. l PROVE OnlyResults(t[n])
    <3>1. n \in DOMAIN t /\ k < n /\ (n < l \/ n = l)
      BY <1>1
    <3>2. at(k) < at(n) /\ (at(n) < at(l) \/ at(n) = at(l)) /\ at(n) \in DOMAIN h
      BY <1>1, <3>1
    <3>3. at(n) \in at(k) + 1 .. at(l)
      BY <1>1, <2>1, <3>2
    <3>. QED BY <1>2, <2>2, <3>1, <3>3
  <2>. QED BY <1>5, <2>3 DEF Answers
<1>6. ASSUME NEW k \in DOMAIN t, NEW id \in CallId, HasCall(t[k], id)
      PROVE  \E l \in DOMAIN t : Answers(t, k, l, id)
  <2>1. HasCall(h[at(k)], id) /\ CallKept(h, Broken(h), at(k), id) /\ at(k) \in DOMAIN h
    BY <1>1, <1>3, <1>6
  <2>2. PICK j \in DOMAIN h : HasResult(h[j], id) /\ j > at(k)
    BY <2>1 DEF CallKept
  <2>3. ResultKept(h, Broken(h), j, id)
    <3>1. at(k) \in 1 .. j - 1
      BY <1>1, <2>1, <2>2
    <3>. QED BY <2>1, <3>1 DEF ResultKept, CallKept
  <2>4. PICK l \in DOMAIN t : at(l) = j
    BY <1>1, <1>4, <2>2, <2>3
  <2>5. HasResult(t[l], id) /\ k < l
    <3>1. at(k) < at(l)
      BY <1>1, <2>1, <2>2, <2>4
    <3>. QED BY <1>1, <1>3, <2>2, <2>3, <2>4, <3>1
  <2>. QED BY <1>5, <1>6, <2>5
<1>7. ASSUME NEW l \in DOMAIN t, NEW id \in CallId, HasResult(t[l], id)
      PROVE  \E k \in DOMAIN t : Answers(t, k, l, id)
  <2>1. HasResult(h[at(l)], id) /\ ResultKept(h, Broken(h), at(l), id) /\ at(l) \in DOMAIN h
    BY <1>1, <1>3, <1>7
  <2>2. PICK i \in 1 .. at(l) - 1 : HasCall(h[i], id)
    BY <2>1 DEF ResultKept
  <2>3. i \in DOMAIN h /\ i < at(l)
    BY <1>1, <2>1, <2>2
  <2>4. CallKept(h, Broken(h), i, id)
    <3>1. \A j \in DOMAIN h : HasResult(h[j], id) => j = at(l)
      BY <2>1 DEF AnsweredOnce
    <3>. QED BY <2>1, <2>3, <3>1 DEF CallKept, ResultKept
  <2>5. PICK k \in DOMAIN t : at(k) = i
    BY <1>1, <1>4, <2>2, <2>3, <2>4
  <2>6. HasCall(t[k], id) /\ k < l
    BY <1>1, <1>3, <2>2, <2>3, <2>4, <2>5
  <2>. QED BY <1>5, <1>7, <2>6
<1>. QED BY <1>6, <1>7 DEF Sendable, t

\* Parts of which only calls and results are of those kinds.
ToolParts(P) ==
  \A p \in P : /\ p.kind = "call" => \E id \in CallId : p = Call(id)
               /\ p.kind = "result" => \E id \in CallId : p = Result(id)

(* A transcript that every provider accepts passes through untouched. *)
THEOREM SendablePassesThrough ==
  ASSUME NEW R, NEW P, ToolParts(P),
         NEW h \in Seq(MessagesOf(R, P)), AnsweredOnce(h), Sendable(h),
         \A i \in DOMAIN h : h[i].parts # <<>>
  PROVE  Repair(h) = h
<1>1. DOMAIN h = 1 .. Len(h) /\ Len(h) \in Nat
  OBVIOUS
\* Nothing comes between a call and the result it is still to get.
<1>2. Broken(h) = {}
  <2>. SUFFICES ASSUME NEW id \in CallId, NEW i \in DOMAIN h, id \in OpenBefore(h, i),
                       ~OnlyResults(h[i])
                PROVE  FALSE
    BY DEF Broken
  <2>1. PICK j \in 1 .. i - 1 :
          LeavesOpen(h[j], id) /\ \A l \in j + 1 .. i - 1 : ~HasResult(h[l], id)
    BY DEF OpenBefore
  <2>2. j \in DOMAIN h /\ HasCall(h[j], id)
    BY <1>1, <2>1 DEF LeavesOpen, HasCall
  <2>3. PICK l \in DOMAIN h : Answers(h, j, l, id)
    BY <2>2 DEF Sendable
  <2>4. j < l /\ HasResult(h[l], id) /\ \A k \in j + 1 .. l : OnlyResults(h[k])
    BY <2>3 DEF Answers
  <2>5. l \notin j + 1 .. i - 1
    BY <2>1, <2>4
  <2>6. i \in j + 1 .. l
    BY <1>1, <2>1, <2>4, <2>5
  <2>. QED BY <2>4, <2>6
\* Every call has its answer, and every result its call.
<1>3. ASSUME NEW i \in DOMAIN h, NEW k \in DOMAIN h[i].parts
      PROVE  PartKept(h, {}, i, h[i].parts[k])
  <2>1. h[i] \in MessagesOf(R, P)
    OBVIOUS
  <2>2. h[i].parts \in Seq(P)
    BY <2>1 DEF MessagesOf
  <2>3. PICK p \in P : p = h[i].parts[k]
    BY <2>2
  <2>4. CASE p.kind = "result"
    <3>1. PICK id \in CallId : p = Result(id)
      BY <2>4 DEF ToolParts
    <3>2. HasResult(h[i], id)
      BY <2>3, <3>1 DEF HasResult
    <3>3. PICK j \in DOMAIN h : Answers(h, j, i, id)
      BY <3>2 DEF Sendable
    <3>4. j \in 1 .. i - 1 /\ HasCall(h[j], id)
      BY <1>1, <3>3 DEF Answers
    <3>5. p.id = id
      BY <3>1 DEF Result
    <3>. QED BY <2>3, <2>4, <3>4, <3>5 DEF PartKept, ResultKept
  <2>5. CASE p.kind = "call"
    <3>1. PICK id \in CallId : p = Call(id)
      BY <2>5 DEF ToolParts
    <3>2. HasCall(h[i], id)
      BY <2>3, <3>1 DEF HasCall
    <3>3. PICK j \in DOMAIN h : Answers(h, i, j, id)
      BY <3>2 DEF Sendable
    <3>4. i < j /\ HasResult(h[j], id)
      BY <3>3 DEF Answers
    <3>5. \A l \in DOMAIN h : HasResult(h[l], id) => l > i
      BY <1>1, <3>4 DEF AnsweredOnce
    <3>6. p.id = id
      BY <3>1 DEF Call
    <3>7. CallKept(h, {}, i, id)
      BY <3>4, <3>5 DEF CallKept
    <3>. QED BY <2>3, <2>5, <3>6, <3>7 DEF PartKept
  <2>6. CASE p.kind \notin {"result", "call"}
    BY <2>3, <2>6 DEF PartKept
  <2>. QED BY <2>4, <2>5, <2>6
<1>4. ASSUME NEW i \in DOMAIN h
      PROVE  Trimmed(h, Broken(h), i) = h[i]
  <2>1. h[i] \in MessagesOf(R, P)
    OBVIOUS
  <2>2. h[i].parts \in Seq(P) /\ h[i] = [h[i] EXCEPT !.parts = h[i].parts]
    BY <2>1 DEF MessagesOf
  <2>3. {k \in DOMAIN h[i].parts : PartKept(h, Broken(h), i, h[i].parts[k])} = DOMAIN h[i].parts
    BY <1>2, <1>3
  <2>4. Pick(h[i].parts, DOMAIN h[i].parts) = h[i].parts
    BY <2>2, PickedWhole
  <2>5. Trimmed(h, Broken(h), i) = [h[i] EXCEPT !.parts = Pick(h[i].parts, DOMAIN h[i].parts)]
    BY <2>3 DEF Trimmed
  <2>. QED BY <2>2, <2>4, <2>5
<1>. DEFINE trimmed == [i \in DOMAIN h |-> Trimmed(h, Broken(h), i)]
<1>5. trimmed = h
  BY <1>1, <1>4
<1>6. {i \in DOMAIN h : trimmed[i].parts # <<>>} = DOMAIN h
  BY <1>5
<1>7. Pick(h, DOMAIN h) = h
  BY PickedWhole
<1>. QED BY <1>5, <1>6, <1>7 DEF Repair

-----------------------------------------------------------------------------
(* Views of a transcript *)

\* v holds messages of s at positions in S, each at most once.
Drawn(v, s, S) ==
  \E from \in [DOMAIN v -> S] :
    /\ \A k \in DOMAIN v : v[k] = s[from[k]]
    /\ \A k, l \in DOMAIN v : from[k] = from[l] => k = l

\* v holds every message of s at a position in S, once.
DrawnWhole(v, s, S) ==
  \E from \in [DOMAIN v -> S] :
    /\ \A k \in DOMAIN v : v[k] = s[from[k]]
    /\ \A k, l \in DOMAIN v : from[k] = from[l] => k = l
    /\ \A i \in S : \E k \in DOMAIN v : from[k] = i

LEMMA PickIsDrawn ==
  ASSUME NEW M, NEW s \in Seq(M), NEW S \in SUBSET DOMAIN s
  PROVE  DrawnWhole(Pick(s, S), s, S)
<1>. DEFINE v    == Pick(s, S)
            from == [k \in DOMAIN v |-> Nth(S, k)]
<1>1. /\ DOMAIN v = 1 .. Len(v)
      /\ \A k \in DOMAIN v : Nth(S, k) \in S /\ v[k] = s[Nth(S, k)]
      /\ \A k, l \in DOMAIN v : k < l <=> Nth(S, k) < Nth(S, l)
      /\ \A i \in S : \E k \in DOMAIN v : Nth(S, k) = i
  BY Picked
<1>2. DOMAIN s \subseteq Int
  OBVIOUS
<1>. HIDE DEF v
<1>3. ASSUME NEW k \in DOMAIN v, NEW l \in DOMAIN v, Nth(S, k) = Nth(S, l) PROVE k = l
  <2>1. Nth(S, k) \in Int
    BY <1>1, <1>2
  <2>2. ~(k < l) /\ ~(l < k)
    BY <1>1, <1>3, <2>1
  <2>3. k \in Int /\ l \in Int
    BY <1>1
  <2>. QED BY <2>2, <2>3
<1>4. from \in [DOMAIN v -> S]
  BY <1>1
<1>5. \A i \in S : \E k \in DOMAIN v : from[k] = i
  BY <1>1
<1>6. \A k \in DOMAIN v : v[k] = s[from[k]]
  BY <1>1
<1>7. \A k, l \in DOMAIN v : from[k] = from[l] => k = l
  BY <1>3
<1>. HIDE DEF from
<1>. QED BY <1>4, <1>5, <1>6, <1>7 DEF DrawnWhole, v

LEMMA DrawnTogether ==
  ASSUME NEW M, NEW s \in Seq(M), NEW v \in Seq(M), NEW w \in Seq(M),
         NEW S, NEW T, S \cap T = {}, DrawnWhole(v, s, S), DrawnWhole(w, s, T)
  PROVE  DrawnWhole(v \o w, s, S \cup T)
<1>1. PICK f \in [DOMAIN v -> S] :
        /\ \A k \in DOMAIN v : v[k] = s[f[k]]
        /\ \A k, l \in DOMAIN v : f[k] = f[l] => k = l
        /\ \A i \in S : \E k \in DOMAIN v : f[k] = i
  BY DEF DrawnWhole
<1>2. PICK g \in [DOMAIN w -> T] :
        /\ \A k \in DOMAIN w : w[k] = s[g[k]]
        /\ \A k, l \in DOMAIN w : g[k] = g[l] => k = l
        /\ \A i \in T : \E k \in DOMAIN w : g[k] = i
  BY DEF DrawnWhole
<1>3. /\ DOMAIN v = 1 .. Len(v) /\ Len(v) \in Nat
      /\ DOMAIN w = 1 .. Len(w) /\ Len(w) \in Nat
      /\ DOMAIN (v \o w) = 1 .. Len(v) + Len(w)
      /\ \A k \in DOMAIN (v \o w) : (v \o w)[k] = IF k <= Len(v) THEN v[k] ELSE w[k - Len(v)]
  OBVIOUS
<1>. DEFINE n    == Len(v)
            D    == DOMAIN (v \o w)
            from == [k \in D |-> IF k <= n THEN f[k] ELSE g[k - n]]
<1>4. \A k \in D : \/ k <= n /\ k \in DOMAIN v
                   \/ ~(k <= n) /\ k - n \in DOMAIN w
  BY <1>3
<1>5. \A k \in D : /\ k <= n => f[k] \in S
                   /\ ~(k <= n) => g[k - n] \in T
  BY <1>4
<1>6. from \in [D -> S \cup T]
  BY <1>5
<1>7. \A k \in D : (v \o w)[k] = s[from[k]]
  <2>. SUFFICES ASSUME NEW k \in D PROVE (v \o w)[k] = s[from[k]]
    OBVIOUS
  <2>1. CASE k <= n
    BY <1>1, <1>3, <1>4, <2>1
  <2>2. CASE ~(k <= n)
    BY <1>2, <1>3, <1>4, <2>2
  <2>. QED BY <2>1, <2>2
<1>8. ASSUME NEW k \in D, NEW l \in D, from[k] = from[l] PROVE k = l
  <2>1. CASE k <= n /\ l <= n
    BY <1>1, <1>4, <1>8, <2>1
  <2>2. CASE ~(k <= n) /\ ~(l <= n)
    <3>1. k - n \in DOMAIN w /\ l - n \in DOMAIN w /\ g[k - n] = g[l - n]
      BY <1>4, <1>8, <2>2
    <3>2. k - n = l - n
      BY <1>2, <3>1
    <3>3. k \in Int /\ l \in Int /\ n \in Int
      BY <1>3
    <3>. QED BY <3>2, <3>3
  <2>3. CASE k <= n /\ ~(l <= n)
    BY <1>5, <1>8, <2>3
  <2>4. CASE ~(k <= n) /\ l <= n
    BY <1>5, <1>8, <2>4
  <2>. QED BY <2>1, <2>2, <2>3, <2>4
<1>9. ASSUME NEW i \in S \cup T
      PROVE  \E k \in D : from[k] = i
  <2>1. CASE i \in S
    <3>1. PICK k \in DOMAIN v : f[k] = i
      BY <1>1, <2>1
    <3>2. k \in D /\ k <= n
      BY <1>3
    <3>. QED BY <3>1, <3>2
  <2>2. CASE i \in T
    <3>1. PICK k \in DOMAIN w : g[k] = i
      BY <1>2, <2>2
    <3>2. k + n \in D /\ ~(k + n <= n) /\ (k + n) - n = k
      BY <1>3
    <3>. QED BY <3>1, <3>2
  <2>. QED BY <2>1, <2>2
<1>. HIDE DEF D, from
<1>. QED BY <1>6, <1>7, <1>8, <1>9 DEF DrawnWhole, D

\* The positions of the groups in view.
Seen(h, from) == DOMAIN h \ (TopPinned(h) \cup Oldest(h, from))

(* A window holds messages of the transcript, none of them twice: the pinned
   turns, those rescued from the groups dropped, and the groups in view. *)
LEMMA ReassembledIsDrawn ==
  ASSUME NEW M, NEW h \in Seq(M), NEW from
  PROVE  /\ Reassemble(h, from) \in Seq(M)
         /\ Drawn(Reassemble(h, from), h, DOMAIN h)
         /\ DrawnWhole(Reassemble(h, from), h,
                       Seen(h, from) \cup {i \in DOMAIN h : Pinned(h[i])})
<1>. DEFINE A == TopPinned(h)
            B == {i \in Oldest(h, from) : Pinned(h[i])}
            C == Seen(h, from)
<1>1. /\ A \in SUBSET DOMAIN h /\ B \in SUBSET DOMAIN h /\ C \in SUBSET DOMAIN h
      /\ A \cap B = {} /\ (A \cup B) \cap C = {}
  BY DEF TopPinned, Boundaries, Oldest, Seen
<1>2. Reassemble(h, from) = (Pick(h, A) \o Pick(h, B)) \o Pick(h, C)
  BY DEF Reassemble, Preamble, InView, Seen
<1>3. Seen(h, from) \cup {i \in DOMAIN h : Pinned(h[i])} = (A \cup B) \cup C
  <2>1. \A i \in A \cup B : i \in DOMAIN h /\ Pinned(h[i])
    BY <1>1 DEF TopPinned
  <2>2. \A i \in DOMAIN h : Pinned(h[i]) => i \in (A \cup B) \cup C
    BY DEF Seen
  <2>. HIDE DEF A, B
  <2>. QED BY <2>1, <2>2
<1>. HIDE DEF A, B, C
<1>4. Pick(h, A) \in Seq(M) /\ Pick(h, B) \in Seq(M) /\ Pick(h, C) \in Seq(M)
  BY <1>1, Picked
<1>5. DrawnWhole(Pick(h, A), h, A) /\ DrawnWhole(Pick(h, B), h, B) /\ DrawnWhole(Pick(h, C), h, C)
  BY <1>1, PickIsDrawn
<1>6. PICK a \in Seq(M) : a = Pick(h, A) \o Pick(h, B)
  <2>1. Pick(h, A) \o Pick(h, B) \in Seq(M)
    BY <1>4
  <2>. QED BY <2>1
<1>7. DrawnWhole(a, h, A \cup B)
  BY <1>1, <1>4, <1>5, <1>6, DrawnTogether
<1>8. DrawnWhole(a \o Pick(h, C), h, (A \cup B) \cup C)
  BY <1>1, <1>4, <1>5, <1>7, DrawnTogether
<1>9. a \o Pick(h, C) \in Seq(M)
  BY <1>4
<1>10. Drawn(a \o Pick(h, C), h, DOMAIN h)
  <2>. DEFINE v == a \o Pick(h, C)
              S == (A \cup B) \cup C
  <2>1. DrawnWhole(v, h, S) /\ S \subseteq DOMAIN h
    BY <1>1, <1>8
  <2>. HIDE DEF v, S
  <2>2. PICK f \in [DOMAIN v -> S] :
          /\ \A k \in DOMAIN v : v[k] = h[f[k]]
          /\ \A k, l \in DOMAIN v : f[k] = f[l] => k = l
    BY <2>1 DEF DrawnWhole
  <2>3. f \in [DOMAIN v -> DOMAIN h]
    BY <2>1
  <2>4. Drawn(v, h, DOMAIN h)
    BY <2>2, <2>3 DEF Drawn
  <2>. QED BY <2>4 DEF v
<1>. QED BY <1>2, <1>3, <1>6, <1>8, <1>9, <1>10

\* Pinned messages are instructions, which call no tool and answer no call.
PinnedAreBare(M) ==
  \A m \in M, id \in CallId : Pinned(m) => ~HasCall(m, id) /\ ~HasResult(m, id)

(* An exchange is in one group, so a window has the whole of it or nothing. *)
LEMMA ExchangeIsInOneGroup ==
  ASSUME NEW M, NEW h \in Seq(M), PinnedAreBare(M), AnsweredOnce(h), NEW from \in Nat,
         NEW i \in DOMAIN h, NEW j \in DOMAIN h, NEW id \in CallId, Answers(h, i, j, id)
  PROVE  i \in Seen(h, from) <=> j \in Seen(h, from)
<1>1. /\ DOMAIN h = 1 .. Len(h) /\ Len(h) \in Nat
      /\ i < j /\ HasCall(h[i], id) /\ HasResult(h[j], id)
  BY DEF Answers
\* The call is open at the result, and everywhere between the two.
<1>2. ASSUME NEW l \in i + 1 .. j
      PROVE  l \notin Starts(h)
  <2>1. \A k \in DOMAIN h : HasResult(h[k], id) => k = j
    BY <1>1 DEF AnsweredOnce
  <2>2. LeavesOpen(h[i], id)
    <3>1. ~HasResult(h[i], id)
      BY <1>1, <2>1
    <3>. QED BY <1>1, <3>1 DEF LeavesOpen, HasCall, HasResult
  <2>3. \A k \in i + 1 .. l - 1 : ~HasResult(h[k], id)
    BY <1>1, <2>1
  <2>4. id \in OpenBefore(h, l)
    BY <1>1, <2>2, <2>3 DEF OpenBefore
  <2>. QED BY <2>4 DEF Starts, Boundaries
<1>3. {s \in Starts(h) : s <= i} = {s \in Starts(h) : s <= j}
  <2>1. Starts(h) \subseteq DOMAIN h
    BY DEF Starts, Boundaries
  <2>2. ASSUME NEW s \in Starts(h)
        PROVE  s <= i <=> s <= j
    <3>1. s \in 1 .. Len(h)
      BY <1>1, <2>1
    <3>2. s \notin i + 1 .. j
      BY <1>2
    <3>. QED BY <1>1, <3>1, <3>2
  <2>. QED BY <2>2
<1>4. h[i] \in M /\ h[j] \in M
  OBVIOUS
<1>5. i \notin TopPinned(h) /\ j \notin TopPinned(h)
  BY <1>1, <1>4 DEF PinnedAreBare, TopPinned
<1>6. i \in Oldest(h, from) <=> j \in Oldest(h, from)
  BY <1>3, <1>5 DEF Oldest
<1>. QED BY <1>5, <1>6 DEF Seen

(* What a window has before the groups in view is pinned. *)
LEMMA Reassembled ==
  ASSUME NEW M, NEW h \in Seq(M), NEW from
  PROVE  LET v   == InView(h, from)
             S   == Seen(h, from)
             pre == Preamble(h, from)
         IN  /\ pre \in Seq(M) /\ v \in Seq(M)
             /\ \A k \in DOMAIN pre : Pinned(pre[k])
             /\ DOMAIN v = 1 .. Len(v) /\ Len(v) \in Nat
             /\ \A k \in DOMAIN v : Nth(S, k) \in S /\ v[k] = h[Nth(S, k)]
             /\ \A i \in S : \E k \in DOMAIN v : Nth(S, k) = i
             /\ \A k, l \in DOMAIN v : k < l <=> Nth(S, k) < Nth(S, l)
<1>. DEFINE A == TopPinned(h)
            B == {i \in Oldest(h, from) : Pinned(h[i])}
            p == Pick(h, A)
            r == Pick(h, B)
<1>1. A \subseteq DOMAIN h /\ B \subseteq DOMAIN h
  BY DEF TopPinned, Boundaries, Oldest
<1>2. /\ p \in Seq(M) /\ DOMAIN p = 1 .. Len(p)
      /\ \A k \in DOMAIN p : Nth(A, k) \in A /\ p[k] = h[Nth(A, k)]
  <2>. HIDE DEF A
  <2>. QED BY <1>1, Picked
<1>3. /\ r \in Seq(M) /\ DOMAIN r = 1 .. Len(r)
      /\ \A k \in DOMAIN r : Nth(B, k) \in B /\ r[k] = h[Nth(B, k)]
  <2>. HIDE DEF B
  <2>. QED BY <1>1, Picked
<1>4. \A i \in A : Pinned(h[i])
  BY DEF TopPinned
<1>5. \A i \in B : Pinned(h[i])
  OBVIOUS
<1>6. Preamble(h, from) = p \o r
  BY DEF Preamble
<1>7. (\A k \in DOMAIN p : Pinned(p[k])) /\ (\A k \in DOMAIN r : Pinned(r[k]))
  <2>. HIDE DEF A, B, p, r
  <2>. QED BY <1>2, <1>3, <1>4, <1>5
<1>. HIDE DEF A, B, p, r
<1>8. /\ p \o r \in Seq(M) /\ DOMAIN (p \o r) = 1 .. Len(p) + Len(r)
      /\ Len(p) \in Nat /\ Len(r) \in Nat
  BY <1>2, <1>3
<1>9. \A k \in DOMAIN (p \o r) : Pinned((p \o r)[k])
  <2>. SUFFICES ASSUME NEW k \in DOMAIN (p \o r)
                PROVE  Pinned((p \o r)[k])
    OBVIOUS
  <2>1. CASE k <= Len(p)
    <3>1. k \in DOMAIN p /\ (p \o r)[k] = p[k]
      BY <1>2, <1>3, <1>8, <2>1
    <3>. QED BY <1>7, <3>1
  <2>2. CASE ~(k <= Len(p))
    <3>1. k - Len(p) \in DOMAIN r /\ (p \o r)[k] = r[k - Len(p)]
      BY <1>2, <1>3, <1>8, <2>2
    <3>. QED BY <1>7, <3>1
  <2>. QED BY <2>1, <2>2
<1>. DEFINE S == Seen(h, from)
            v == Pick(h, S)
<1>10. S \subseteq DOMAIN h
  BY DEF Seen
<1>11. InView(h, from) = v
  BY DEF InView, Seen
<1>. HIDE DEF S
<1>12. /\ v \in Seq(M) /\ DOMAIN v = 1 .. Len(v)
       /\ \A k \in DOMAIN v : Nth(S, k) \in S /\ v[k] = h[Nth(S, k)]
       /\ \A i \in S : \E k \in DOMAIN v : Nth(S, k) = i
       /\ \A k, l \in DOMAIN v : k < l <=> Nth(S, k) < Nth(S, l)
  BY <1>10, Picked
<1>. HIDE DEF v
<1>13. Len(v) \in Nat
  BY <1>12
<1>. QED BY <1>6, <1>8, <1>9, <1>11, <1>12, <1>13 DEF S

(* The deeper a cut, the less lies above it. *)
LEMMA OldestGrow ==
  ASSUME NEW M, NEW h \in Seq(M), NEW f \in Nat, NEW g \in Nat, f <= g
  PROVE  Oldest(h, f) \subseteq Oldest(h, g)
<1>. SUFFICES ASSUME NEW i \in Oldest(h, f) PROVE i \in Oldest(h, g)
  OBVIOUS
<1>1. i \in DOMAIN h \ TopPinned(h) /\ Cardinality({s \in Starts(h) : s <= i}) <= f
  BY DEF Oldest
<1>2. i \in Nat
  BY <1>1
<1>3. PICK k \in Nat : k = Cardinality({s \in Starts(h) : s <= i})
  BY <1>2, StartsAreFinite
<1>4. k <= g
  BY <1>1, <1>3
<1>. QED BY <1>1, <1>3, <1>4 DEF Oldest

\* Where t has one of the messages in G.
Among(t, G) == {i \in DOMAIN t : t[i] \in G}

\* A request: what is put first, and what h has at the positions in S.
Before(pre, h, S) == pre \o Pick(h, S)

(* What is put before a pick of h is passed over when what it may hold is. *)
LEMMA PicksAfter ==
  ASSUME NEW M, NEW h \in Seq(M), NEW S \in SUBSET DOMAIN h, NEW G,
         NEW pre \in Seq(M), \A k \in DOMAIN pre : pre[k] \notin G,
         NEW C \in SUBSET DOMAIN h, \A i \in DOMAIN h : i \in C <=> i \in S /\ h[i] \in G
  PROVE  /\ Before(pre, h, S) \in Seq(M)
         /\ Pick(Before(pre, h, S), Among(Before(pre, h, S), G)) = Pick(h, C)
<1>. DEFINE t     == Before(pre, h, S)
            w     == Pick(h, S)
            n     == Len(pre)
            at(k) == Nth(S, k)
            K     == Among(t, G)
<1>1. /\ w \in Seq(M) /\ DOMAIN w = 1 .. Len(w) /\ Len(w) \in Nat
      /\ \A k \in DOMAIN w : at(k) \in S /\ w[k] = h[at(k)]
      /\ \A i \in S : \E k \in DOMAIN w : at(k) = i
      /\ \A k, l \in DOMAIN w : k < l <=> at(k) < at(l)
  <2>1. w \in Seq(M) => Len(w) \in Nat
    OBVIOUS
  <2>. QED BY <2>1, Picked
<1>0. t = pre \o w
  BY DEF Before
<1>. HIDE DEF w, t
<1>2. t \in Seq(M)
  BY <1>0, <1>1
<1>3. S \subseteq DOMAIN h /\ C \subseteq DOMAIN h /\ K \subseteq DOMAIN t
  BY DEF Among
<1>4. \A k \in K : k \in DOMAIN t /\ t[k] \in G
  BY DEF Among
<1>5. \A k \in DOMAIN t : t[k] \in G => k \in K
  BY DEF Among
<1>8. \A i \in C : i \in S /\ h[i] \in G
  OBVIOUS
<1>9. \A i \in S : h[i] \in G => i \in C
  OBVIOUS
<1>10. /\ DOMAIN t = 1 .. n + Len(w) /\ n \in Nat /\ DOMAIN pre = 1 .. n
       /\ \A k \in DOMAIN t : k <= n => t[k] = pre[k]
       /\ \A k \in DOMAIN t : k > n => t[k] = w[k - n] /\ k - n \in DOMAIN w
       /\ \A k \in DOMAIN w : k + n \in DOMAIN t /\ t[k + n] = w[k]
  BY <1>0, <1>1, <1>2
<1>. HIDE DEF n, at, K
\* The window is read from its own positions or from those of the transcript.
<1>11. PICK c \in Nat : c = Cardinality(K)
  <2>1. PICK top \in Nat : DOMAIN t = 1 .. top
    BY <1>2
  <2>2. IsFiniteSet(1 .. top)
    BY <2>1, FS_Interval
  <2>3. IsFiniteSet(K)
    BY <1>3, <2>1, <2>2, FS_Subset
  <2>. QED BY <2>3, FS_CardinalityType
<1>12. /\ Pick(t, K) \in Seq(M)
       /\ DOMAIN Pick(t, K) = 1 .. c
       /\ \A k \in 1 .. c : Nth(K, k) \in K /\ Pick(t, K)[k] = t[Nth(K, k)]
       /\ \A i \in K : \E k \in 1 .. c : Nth(K, k) = i
       /\ \A k, l \in 1 .. c : k < l <=> Nth(K, k) < Nth(K, l)
  <2>1. DOMAIN Pick(t, K) = 1 .. c
    BY <1>11 DEF Pick
  <2>2. /\ Pick(t, K) \in Seq(M)
        /\ \A k \in DOMAIN Pick(t, K) : Nth(K, k) \in K /\ Pick(t, K)[k] = t[Nth(K, k)]
        /\ \A i \in K : \E k \in DOMAIN Pick(t, K) : Nth(K, k) = i
        /\ \A k, l \in DOMAIN Pick(t, K) : k < l <=> Nth(K, k) < Nth(K, l)
    <3>1. t \in Seq(M) /\ K \in SUBSET DOMAIN t
      BY <1>2, <1>3
    <3>. QED BY ONLY <3>1, Picked
  <2>. QED BY <2>1, <2>2
<1>. DEFINE f == [k \in 1 .. c |-> at(Nth(K, k) - n)]
<1>13. ASSUME NEW i \in K
       PROVE  i - n \in DOMAIN w /\ at(i - n) \in C /\ t[i] = h[at(i - n)]
  <2>1. i \in DOMAIN t /\ t[i] \in G
    BY <1>4
  <2>2. i > n
    <3>. SUFFICES ASSUME ~(i > n) PROVE FALSE
      OBVIOUS
    <3>1. i \in DOMAIN pre /\ t[i] = pre[i]
      BY <1>10, <2>1
    <3>. QED BY <1>1, <2>1, <3>1
  <2>3. i - n \in DOMAIN w /\ t[i] = w[i - n]
    BY <1>10, <2>1, <2>2
  <2>4. at(i - n) \in S /\ w[i - n] = h[at(i - n)]
    BY <1>1, <2>3
  <2>. QED BY <1>9, <2>1, <2>3, <2>4
<1>14. f \in [1 .. c -> C]
  BY <1>12, <1>13
<1>15. \A k, l \in 1 .. c : k < l => f[k] < f[l]
  <2>. SUFFICES ASSUME NEW k \in 1 .. c, NEW l \in 1 .. c, k < l
                PROVE  f[k] < f[l]
    OBVIOUS
  <2>1. Nth(K, k) \in K /\ Nth(K, l) \in K /\ Nth(K, k) < Nth(K, l)
    BY <1>12
  <2>2. PICK x \in K, y \in K : x = Nth(K, k) /\ y = Nth(K, l) /\ x < y
    BY <2>1
  <2>3. x \in 1 .. n + Len(w) /\ y \in 1 .. n + Len(w)
    BY <1>3, <1>10
  <2>4. x - n \in DOMAIN w /\ y - n \in DOMAIN w
    BY <1>13
  <2>5. x - n < y - n
    BY <1>1, <1>10, <2>2, <2>3
  <2>6. at(x - n) < at(y - n)
    BY <1>1, <2>4, <2>5
  <2>. QED BY <2>2, <2>6
<1>16. \A i \in C : \E k \in 1 .. c : f[k] = i
  <2>. SUFFICES ASSUME NEW i \in C PROVE \E k \in 1 .. c : f[k] = i
    OBVIOUS
  <2>1. i \in S /\ h[i] \in G
    BY <1>8
  <2>2. PICK k \in DOMAIN w : at(k) = i
    BY <1>1, <2>1
  <2>3. k + n \in DOMAIN t /\ t[k + n] = w[k] /\ w[k] = h[at(k)]
    BY <1>1, <1>10
  <2>4. k + n \in K
    BY <1>5, <2>1, <2>2, <2>3
  <2>5. PICK y \in 1 .. c : Nth(K, y) = k + n
    BY <1>12, <2>4
  <2>6. (k + n) - n = k
    BY <1>1, <1>10
  <2>7. f[y] = at((k + n) - n)
    BY <2>5
  <2>. QED BY <2>2, <2>6, <2>7
<1>17. C \subseteq Int
  BY <1>3, <1>8
<1>18. \A k \in 1 .. c : f[k] = at(Nth(K, k) - n)
  OBVIOUS
<1>. HIDE DEF f
<1>19. /\ Cardinality(C) = c
       /\ \A k \in 1 .. c : Nth(C, k) = f[k]
  <2>1. C \in SUBSET Int /\ c \in Nat
    BY <1>17
  <2>. QED BY ONLY <1>14, <1>15, <1>16, <2>1, NthInOrder
<1>20. ASSUME NEW k \in 1 .. c
       PROVE  t[Nth(K, k)] = h[Nth(C, k)]
  <2>1. PICK i \in K : i = Nth(K, k)
    BY <1>12
  <2>2. t[i] = h[at(i - n)]
    BY <1>13
  <2>3. Nth(C, k) = at(i - n)
    BY <1>18, <1>19, <2>1
  <2>. QED BY <2>1, <2>2, <2>3
<1>21. DOMAIN Pick(h, C) = 1 .. c
  BY <1>19 DEF Pick
<1>22. /\ Pick(t, K) = [k \in 1 .. c |-> t[Nth(K, k)]]
       /\ Pick(h, C) = [k \in 1 .. c |-> h[Nth(C, k)]]
  BY <1>11, <1>19 DEF Pick
<1>23. Pick(t, K) = Pick(h, C)
  BY <1>20, <1>22
<1>. QED BY <1>2, <1>23 DEF t, w, K

\* A view with the message m on top of the groups in view.
Topped(h, from, m) == (Preamble(h, from) \o <<m>>) \o InView(h, from)

(* What is counted is as if m were not there, and no turn in view or pinned is
   missing. *)
LEMMA ToppedTells ==
  ASSUME NEW M, NEW h \in Seq(M), NEW from \in Nat, NEW m \in M,
         NEW G, m \notin G, \A x \in G : ~Pinned(x),
         NEW C \in SUBSET DOMAIN h,
         \A i \in DOMAIN h : i \in C <=> i \in Seen(h, from) /\ h[i] \in G
  PROVE  /\ Topped(h, from, m) \in Seq(M)
         /\ Pick(Topped(h, from, m), Among(Topped(h, from, m), G)) = Pick(h, C)
         /\ \A i \in DOMAIN h :
              i \in Seen(h, from) \/ Pinned(h[i]) =>
                \E k \in DOMAIN Topped(h, from, m) : Topped(h, from, m)[k] = h[i]
<1>. DEFINE S    == Seen(h, from)
            pre  == Preamble(h, from)
            w    == InView(h, from)
            top  == pre \o <<m>>
            v    == Topped(h, from, m)
<1>1. /\ pre \in Seq(M) /\ w \in Seq(M) /\ \A k \in DOMAIN pre : Pinned(pre[k])
      /\ S \in SUBSET DOMAIN h
  BY Reassembled DEF Seen
<1>2. v = top \o w /\ w = Pick(h, S)
  BY DEF Topped, InView, Seen
<1>. HIDE DEF w, pre, v, S
<1>3. /\ top \in Seq(M) /\ DOMAIN top = 1 .. Len(pre) + 1 /\ Len(pre) \in Nat
      /\ Len(top) = Len(pre) + 1
      /\ \A k \in 1 .. Len(pre) : top[k] = pre[k]
      /\ top[Len(pre) + 1] = m
  BY <1>1
<1>4. \A k \in DOMAIN top : top[k] \notin G
  <2>. SUFFICES ASSUME NEW k \in DOMAIN top PROVE top[k] \notin G
    OBVIOUS
  <2>1. CASE k = Len(pre) + 1
    BY <1>3, <2>1
  <2>2. CASE k # Len(pre) + 1
    <3>1. k \in 1 .. Len(pre)
      BY <1>3, <2>2
    <3>2. k \in DOMAIN pre /\ top[k] = pre[k]
      BY <1>1, <1>3, <3>1
    <3>. QED BY <1>1, <3>2
  <2>. QED BY <2>1, <2>2
<1>. HIDE DEF top
<1>5. v \in Seq(M) /\ Pick(v, Among(v, G)) = Pick(h, C)
  <2>1. v = Before(top, h, S)
    BY <1>2 DEF Before
  <2>2. \A i \in DOMAIN h : i \in C <=> i \in S /\ h[i] \in G
    BY DEF S
  <2>3. S \in SUBSET DOMAIN h /\ h \in Seq(M) /\ top \in Seq(M)
    BY <1>1, <1>3
  <2>4. C \in SUBSET DOMAIN h
    OBVIOUS
  <2>5. /\ Before(top, h, S) \in Seq(M)
        /\ Pick(Before(top, h, S), Among(Before(top, h, S), G)) = Pick(h, C)
    BY ONLY <1>4, <2>2, <2>3, <2>4, PicksAfter, SMTT(60)
  <2>. QED BY <2>1, <2>5
<1>6. ASSUME NEW i \in DOMAIN h, i \in S \/ Pinned(h[i])
      PROVE  \E k \in DOMAIN v : v[k] = h[i]
  <2>. DEFINE r == Reassemble(h, from)
              A == S \cup {j \in DOMAIN h : Pinned(h[j])}
  <2>1. DrawnWhole(r, h, A)
    BY ReassembledIsDrawn DEF S
  <2>2. i \in A
    BY <1>6
  <2>3. \E k \in DOMAIN r : r[k] = h[i]
    <3>. HIDE DEF r, A
    <3>. QED BY <2>1, <2>2 DEF DrawnWhole
  <2>4. r = pre \o w
    BY DEF Reassemble, pre, w
  <2>. HIDE DEF r
  <2>5. PICK k \in DOMAIN r : r[k] = h[i]
    BY <2>3
  <2>6. /\ DOMAIN r = 1 .. Len(pre) + Len(w) /\ Len(w) \in Nat
        /\ k <= Len(pre) => r[k] = pre[k]
        /\ k > Len(pre) => r[k] = w[k - Len(pre)]
    BY <1>1, <2>4
  <2>7. /\ DOMAIN v = 1 .. (Len(pre) + 1) + Len(w)
        /\ \A l \in DOMAIN v : l <= Len(pre) + 1 => v[l] = top[l]
        /\ \A l \in DOMAIN v : l > Len(pre) + 1 => v[l] = w[l - (Len(pre) + 1)]
    <3>1. /\ DOMAIN v = 1 .. Len(top) + Len(w)
          /\ \A l \in DOMAIN v : l <= Len(top) => v[l] = top[l]
          /\ \A l \in DOMAIN v : l > Len(top) => v[l] = w[l - Len(top)]
      <4>1. top \in Seq(M) /\ w \in Seq(M) /\ v = top \o w
        BY <1>1, <1>2, <1>3
      <4>. QED BY ONLY <4>1
    <3>. QED BY <1>3, <3>1
  <2>8. CASE k <= Len(pre)
    <3>1. k \in DOMAIN v /\ k <= Len(pre) + 1 /\ k \in 1 .. Len(pre)
      BY <1>3, <2>6, <2>7, <2>8
    <3>2. v[k] = top[k] /\ top[k] = pre[k] /\ r[k] = pre[k]
      BY <1>3, <2>6, <2>7, <2>8, <3>1
    <3>. QED BY <2>5, <3>1, <3>2
  <2>9. CASE k > Len(pre)
    <3>1. k + 1 \in DOMAIN v /\ k + 1 > Len(pre) + 1
      BY <1>3, <2>6, <2>7, <2>9
    <3>2. PICK l \in DOMAIN v : l = k + 1 /\ l > Len(pre) + 1
      BY <3>1
    <3>3. l - (Len(pre) + 1) = k - Len(pre)
      BY <1>3, <2>6, <3>2
    <3>4. v[l] = w[k - Len(pre)]
      BY <2>7, <3>2, <3>3
    <3>. QED BY <2>5, <2>6, <2>9, <3>4
  <2>10. k \in Nat
    BY <1>3, <2>6
  <2>. QED BY <1>3, <2>8, <2>9, <2>10
<1>. QED BY <1>5, <1>6 DEF v, S

(* A turn that is in no preamble is in view when an earlier such turn is. *)
LEMMA LaterIsSeen ==
  ASSUME NEW M, NEW h \in Seq(M), NEW from \in Nat,
         NEW i \in Seen(h, from), NEW j \in DOMAIN h, i < j,
         ~Pinned(h[i]), ~Pinned(h[j])
  PROVE  j \in Seen(h, from)
<1>1. i \in DOMAIN h /\ i \notin Oldest(h, from) /\ i \notin TopPinned(h)
  BY DEF Seen
<1>2. j \notin TopPinned(h)
  BY DEF TopPinned
<1>3. DOMAIN h \subseteq Nat /\ i \in Nat /\ j \in Nat
  BY <1>1
<1>. DEFINE E == {s \in Starts(h) : s <= i}
            F == {s \in Starts(h) : s <= j}
<1>4. IsFiniteSet(F) /\ Cardinality(E) \in Nat /\ Cardinality(F) \in Nat
      /\ Starts(h) \subseteq Nat
  BY <1>3, StartsAreFinite
<1>5. E \subseteq F
  BY <1>3, <1>4
<1>6. ~(Cardinality(E) <= from)
  BY <1>1 DEF Oldest
<1>7. j \in Oldest(h, from) => Cardinality(F) <= from
  BY DEF Oldest
<1>. HIDE DEF E, F
<1>8. Cardinality(E) <= Cardinality(F)
  BY <1>4, <1>5, FS_Subset
<1>9. j \notin Oldest(h, from)
  BY <1>4, <1>6, <1>7, <1>8
<1>. QED BY <1>2, <1>9 DEF Seen

(* A deeper cut sees less. *)
LEMMA DeeperSeesLess ==
  ASSUME NEW M, NEW h \in Seq(M), NEW from \in Nat, NEW to \in Nat, from <= to
  PROVE  Seen(h, to) \subseteq Seen(h, from)
BY OldestGrow DEF Seen

\* v is the last elements of u.
EndsWith(u, v) ==
  \E d \in Nat : /\ Len(u) = d + Len(v)
                 /\ \A k \in DOMAIN v : v[k] = u[d + k]

\* Where a cut leaves messages of G in view.
SeenOf(h, from, G) == {i \in Seen(h, from) : h[i] \in G}

(* The turns of a kind that is never pinned which a cut leaves in view are the
   last of those which a shallower cut leaves. *)
LEMMA DeeperSeesTheLast ==
  ASSUME NEW M, NEW h \in Seq(M), NEW from \in Nat, NEW to \in Nat, from <= to,
         NEW G, \A m \in G : ~Pinned(m)
  PROVE  LET u == Pick(h, SeenOf(h, from, G))
             v == Pick(h, SeenOf(h, to, G))
         IN  u \in Seq(M) /\ v \in Seq(M) /\ EndsWith(u, v)
<1>. DEFINE U == SeenOf(h, from, G)
            V == SeenOf(h, to, G)
<1>1. U \subseteq DOMAIN h /\ V \subseteq U
  BY DeeperSeesLess DEF Seen, SeenOf
<1>2. ASSUME NEW i \in V, NEW j \in U, i < j PROVE j \in V
  <2>1. j \in DOMAIN h /\ h[i] \in G /\ h[j] \in G
    BY <1>1 DEF SeenOf
  <2>2. i \in Seen(h, to)
    BY DEF SeenOf
  <2>3. j \in Seen(h, to)
    BY <1>2, <2>1, <2>2, LaterIsSeen
  <2>. QED BY <2>1, <2>3 DEF SeenOf
<1>3. V \in SUBSET DOMAIN h
  BY <1>1
<1>. HIDE DEF U, V
<1>4. Pick(h, U) \in Seq(M) /\ Pick(h, V) \in Seq(M)
  BY <1>1, <1>3, Picked
<1>5. \E d \in Nat : /\ Len(Pick(h, U)) = d + Len(Pick(h, V))
                     /\ \A k \in DOMAIN Pick(h, V) : Pick(h, V)[k] = Pick(h, U)[d + k]
  BY <1>1, <1>2, LastPicks
<1>. QED BY <1>4, <1>5 DEF U, V, EndsWith

(* A window over a transcript that needs no repair needs none either. *)
THEOREM WindowIsSendable ==
  ASSUME NEW M, NEW h \in Seq(M), PinnedAreBare(M), AnsweredOnce(h), Sendable(h),
         NEW from \in Nat
  PROVE  Sendable(Reassemble(h, from))
<1>. DEFINE v     == InView(h, from)
            S     == Seen(h, from)
            pre   == Preamble(h, from)
            n     == Len(pre)
            t     == pre \o v
            at(k) == Nth(S, k)
<1>1. /\ pre \in Seq(M) /\ v \in Seq(M)
      /\ \A k \in DOMAIN pre : Pinned(pre[k])
      /\ DOMAIN v = 1 .. Len(v) /\ Len(v) \in Nat
      /\ \A k \in DOMAIN v : at(k) \in S /\ v[k] = h[at(k)]
      /\ \A i \in S : \E k \in DOMAIN v : at(k) = i
      /\ \A k, l \in DOMAIN v : k < l <=> at(k) < at(l)
  BY Reassembled
<1>2. S \subseteq DOMAIN h
  BY DEF Seen
<1>3. \A i, j \in DOMAIN h, id \in CallId : Answers(h, i, j, id) => (i \in S <=> j \in S)
  BY ExchangeIsInOneGroup
<1>4. Reassemble(h, from) = t
  BY DEF Reassemble
<1>. HIDE DEF v, S, pre, at
<1>5. /\ DOMAIN t = 1 .. n + Len(v) /\ n \in Nat /\ DOMAIN pre = 1 .. n
      /\ \A k \in DOMAIN t : k <= n => t[k] = pre[k]
      /\ \A k \in DOMAIN t : k > n => t[k] = v[k - n] /\ k - n \in DOMAIN v
      /\ \A k \in DOMAIN v : k + n \in DOMAIN t /\ t[k + n] = v[k]
  BY <1>1
<1>6. \A k \in DOMAIN pre : pre[k] \in M
  BY <1>1
\* What calls or answers is in view.
<1>7. ASSUME NEW k \in DOMAIN t, NEW id \in CallId, HasCall(t[k], id) \/ HasResult(t[k], id)
      PROVE  k > n
  <2>. SUFFICES ASSUME ~(k > n) PROVE FALSE
    OBVIOUS
  <2>1. k \in DOMAIN pre /\ t[k] = pre[k]
    BY <1>5
  <2>. QED BY <1>1, <1>6, <1>7, <2>1 DEF PinnedAreBare
<1>. HIDE DEF t, n
\* Two messages in view stand to each other as they did.
<1>8. ASSUME NEW k \in DOMAIN v, NEW l \in DOMAIN v, NEW id \in CallId,
             Answers(h, at(k), at(l), id)
      PROVE  Answers(t, k + n, l + n, id)
  <2>1. /\ at(k) < at(l) /\ HasCall(h[at(k)], id) /\ HasResult(h[at(l)], id)
        /\ \A x \in at(k) + 1 .. at(l) : OnlyResults(h[x])
    BY <1>8 DEF Answers
  <2>2. k + n < l + n /\ HasCall(t[k + n], id) /\ HasResult(t[l + n], id)
    BY <1>1, <1>5, <2>1
  <2>3. ASSUME NEW x \in k + n + 1 .. l + n
        PROVE  OnlyResults(t[x])
    <3>1. k \in 1 .. Len(v) /\ l \in 1 .. Len(v) /\ n \in Nat /\ Len(v) \in Nat
      BY <1>1, <1>5
    <3>2. PICK y \in 1 .. Len(v) : x = y + n /\ k < y /\ y <= l
      <4>1. x - n \in 1 .. Len(v) /\ x = (x - n) + n /\ k < x - n /\ x - n <= l
        BY <3>1
      <4>. QED BY <4>1
    <3>3. y \in DOMAIN v /\ t[x] = v[y]
      BY <1>1, <1>5, <3>2
    <3>4. at(y) \in 1 .. Len(h) /\ at(k) \in 1 .. Len(h) /\ at(l) \in 1 .. Len(h)
      BY <1>1, <1>2, <3>3
    <3>5. at(k) < at(y)
      BY <1>1, <3>2, <3>3
    <3>6. ~(at(l) < at(y))
      <4>1. ~(l < y)
        BY <3>1, <3>2
      <4>. QED BY <1>1, <3>3, <4>1
    <3>7. at(y) \in at(k) + 1 .. at(l)
      BY <3>4, <3>5, <3>6
    <3>. QED BY <1>1, <2>1, <3>3, <3>7
  <2>. QED BY <2>2, <2>3 DEF Answers
<1>9. ASSUME NEW k \in DOMAIN t, NEW id \in CallId, HasCall(t[k], id)
      PROVE  \E l \in DOMAIN t : Answers(t, k, l, id)
  <2>1. k > n
    BY <1>7, <1>9
  <2>2. PICK y \in DOMAIN v : k = y + n /\ t[k] = v[y]
    BY <1>5, <2>1
  <2>3. at(y) \in S /\ at(y) \in DOMAIN h /\ HasCall(h[at(y)], id)
    BY <1>1, <1>2, <1>9, <2>2
  <2>4. PICK b \in DOMAIN h : Answers(h, at(y), b, id)
    BY <2>3 DEF Sendable
  <2>5. b \in S
    BY <1>3, <2>3, <2>4
  <2>6. PICK z \in DOMAIN v : at(z) = b
    BY <1>1, <2>5
  <2>7. Answers(t, y + n, z + n, id)
    BY <1>8, <2>4, <2>6
  <2>. QED BY <1>5, <2>2, <2>7
<1>10. ASSUME NEW k \in DOMAIN t, NEW id \in CallId, HasResult(t[k], id)
       PROVE  \E l \in DOMAIN t : Answers(t, l, k, id)
  <2>1. k > n
    BY <1>7, <1>10
  <2>2. PICK y \in DOMAIN v : k = y + n /\ t[k] = v[y]
    BY <1>5, <2>1
  <2>3. at(y) \in S /\ at(y) \in DOMAIN h /\ HasResult(h[at(y)], id)
    BY <1>1, <1>2, <1>10, <2>2
  <2>4. PICK b \in DOMAIN h : Answers(h, b, at(y), id)
    BY <2>3 DEF Sendable
  <2>5. b \in S
    BY <1>3, <2>3, <2>4
  <2>6. PICK z \in DOMAIN v : at(z) = b
    BY <1>1, <2>5
  <2>7. Answers(t, z + n, y + n, id)
    BY <1>8, <2>4, <2>6
  <2>. QED BY <1>5, <2>2, <2>7
<1>. QED BY <1>4, <1>9, <1>10 DEF Sendable

-----------------------------------------------------------------------------
(* What a transcript costs, and the cut by tokens *)

\* Every message of M has a cost.
Costed(M) == \A m \in M : TokenCost(m) \in Nat

\* What position i adds to the cost of S.
AddedAt(h, S, i) == IF i \in S THEN TokenCost(h[i]) ELSE 0

\* c runs up the cost of S in h.
RunsUp(c, h, S) ==
  /\ c \in [0 .. Len(h) -> Nat]
  /\ c[0] = 0
  /\ \A i \in 1 .. Len(h) : c[i] = c[i - 1] + AddedAt(h, S, i)

(* The cost of some messages is what is run up by the last of the transcript. *)
LEMMA CostIsRunUp ==
  ASSUME NEW M, Costed(M), NEW h \in Seq(M), NEW S
  PROVE  \E c : RunsUp(c, h, S) /\ Cost(h, S) = c[Len(h)]
<1>. DEFINE n    == Len(h)
            w    == [i \in 1 .. n |-> AddedAt(h, S, i)]
            Is(c) == c = [i \in 0 .. n |->
                            IF i = 0 THEN 0
                            ELSE c[i - 1] + (IF i \in S THEN TokenCost(h[i]) ELSE 0)]
            sum  == CHOOSE c : Is(c)
<1>1. n \in Nat /\ DOMAIN h = 1 .. n
  OBVIOUS
<1>2. w \in [1 .. n -> Nat]
  <2>1. \A i \in 1 .. n : h[i] \in M
    BY <1>1
  <2>2. \A i \in 1 .. n : AddedAt(h, S, i) \in Nat
    BY <2>1 DEF Costed, AddedAt
  <2>. QED BY <2>2
<1>. HIDE DEF n
<1>3. PICK c \in [0 .. n -> Nat] : c[0] = 0 /\ \A i \in 1 .. n : c[i] = c[i - 1] + w[i]
  <2>. HIDE DEF w
  <2>. QED BY <1>1, <1>2, SumsExist
<1>4. Is(c)
  <2>1. \A i \in 0 .. n :
          c[i] = IF i = 0 THEN 0 ELSE c[i - 1] + (IF i \in S THEN TokenCost(h[i]) ELSE 0)
    <3>. SUFFICES ASSUME NEW i \in 0 .. n, i # 0
                  PROVE  c[i] = c[i - 1] + (IF i \in S THEN TokenCost(h[i]) ELSE 0)
      BY <1>3
    <3>1. i \in 1 .. n
      BY <1>1
    <3>. QED BY <1>3, <3>1 DEF AddedAt
  <2>. QED BY <2>1
<1>5. Is(sum)
  <2>. HIDE DEF Is
  <2>. QED BY <1>4
<1>6. Cost(h, S) = sum[n]
  BY DEF Cost, n
<1>. HIDE DEF sum
\* What is run up is determined, so it is c.
<1>7. \A i \in 0 .. n : sum[i] = c[i]
  <2>. DEFINE Off == {i \in 0 .. n : sum[i] # c[i]}
  <2>. SUFFICES ASSUME Off # {} PROVE FALSE
    OBVIOUS
  <2>1. PICK k \in Off : \A l \in Off : k <= l
    <3>1. Off \in SUBSET (0 .. n)
      OBVIOUS
    <3>. HIDE DEF Off
    <3>. QED BY <1>1, <3>1, BoundedSetHasALeast
  <2>2. k \in 0 .. n /\ sum[k] # c[k]
    OBVIOUS
  <2>3. k # 0
    BY <1>3, <1>5, <2>2
  <2>4. k - 1 \in 0 .. n /\ ~(k <= k - 1)
    BY <1>1, <2>2, <2>3
  <2>5. sum[k - 1] = c[k - 1]
    BY <2>1, <2>4
  <2>6. sum[k] = sum[k - 1] + (IF k \in S THEN TokenCost(h[k]) ELSE 0)
    BY <1>5, <2>2, <2>3
  <2>7. c[k] = c[k - 1] + (IF k \in S THEN TokenCost(h[k]) ELSE 0)
    BY <1>4, <2>2, <2>3
  <2>. QED BY <2>2, <2>5, <2>6, <2>7
<1>8. RunsUp(c, h, S) /\ Cost(h, S) = c[Len(h)]
  <2>1. \A i \in 1 .. n : c[i] = c[i - 1] + AddedAt(h, S, i)
    BY <1>3
  <2>2. n \in 0 .. n
    BY <1>1
  <2>. QED BY <1>3, <1>6, <1>7, <2>1, <2>2 DEF RunsUp, n
<1>. QED BY <1>8

(* Apart, some messages cost what they cost together. *)
LEMMA CostTogether ==
  ASSUME NEW M, Costed(M), NEW h \in Seq(M), NEW S, NEW T, S \cap T = {}
  PROVE  /\ Cost(h, S) \in Nat /\ Cost(h, T) \in Nat
         /\ Cost(h, S \cup T) = Cost(h, S) + Cost(h, T)
<1>1. PICK a : RunsUp(a, h, S) /\ Cost(h, S) = a[Len(h)]
  BY CostIsRunUp
<1>2. PICK b : RunsUp(b, h, T) /\ Cost(h, T) = b[Len(h)]
  BY CostIsRunUp
<1>3. PICK c : RunsUp(c, h, S \cup T) /\ Cost(h, S \cup T) = c[Len(h)]
  BY CostIsRunUp
<1>. DEFINE n   == Len(h)
            Off == {i \in 0 .. n : c[i] # a[i] + b[i]}
<1>4. n \in Nat /\ DOMAIN h = 1 .. n
  OBVIOUS
<1>5. \A i \in 0 .. n : a[i] \in Nat /\ b[i] \in Nat /\ c[i] \in Nat
  BY <1>1, <1>2, <1>3 DEF RunsUp
<1>6. a[0] = 0 /\ b[0] = 0 /\ c[0] = 0
  BY <1>1, <1>2, <1>3 DEF RunsUp
<1>7. \A i \in 1 .. n : /\ a[i] = a[i - 1] + AddedAt(h, S, i)
                        /\ b[i] = b[i - 1] + AddedAt(h, T, i)
                        /\ c[i] = c[i - 1] + AddedAt(h, S \cup T, i)
  BY <1>1, <1>2, <1>3 DEF RunsUp
<1>8. \A i \in 1 .. n : /\ AddedAt(h, S, i) \in Nat /\ AddedAt(h, T, i) \in Nat
                        /\ AddedAt(h, S \cup T, i) = AddedAt(h, S, i) + AddedAt(h, T, i)
  <2>. SUFFICES ASSUME NEW i \in 1 .. n
                PROVE  /\ AddedAt(h, S, i) \in Nat /\ AddedAt(h, T, i) \in Nat
                       /\ AddedAt(h, S \cup T, i) = AddedAt(h, S, i) + AddedAt(h, T, i)
    OBVIOUS
  <2>1. h[i] \in M
    BY <1>4
  <2>2. TokenCost(h[i]) \in Nat
    BY <2>1 DEF Costed
  <2>3. CASE i \in S
    BY <2>2, <2>3 DEF AddedAt
  <2>4. CASE i \in T
    BY <2>2, <2>4 DEF AddedAt
  <2>5. CASE i \notin S \cup T
    BY <2>5 DEF AddedAt
  <2>. QED BY <2>3, <2>4, <2>5
<1>. HIDE DEF n
<1>9. Off = {}
  <2>. SUFFICES ASSUME Off # {} PROVE FALSE
    OBVIOUS
  <2>1. PICK k \in Off : \A l \in Off : k <= l
    <3>1. Off \in SUBSET (0 .. n)
      OBVIOUS
    <3>. HIDE DEF Off
    <3>. QED BY <1>4, <3>1, BoundedSetHasALeast
  <2>2. k \in 0 .. n /\ c[k] # a[k] + b[k]
    OBVIOUS
  <2>3. k # 0
    BY <1>6, <2>2
  <2>4. k - 1 \in 0 .. n /\ ~(k <= k - 1) /\ k \in 1 .. n
    BY <1>4, <2>2, <2>3
  <2>5. c[k - 1] = a[k - 1] + b[k - 1]
    BY <2>1, <2>4
  <2>. HIDE DEF Off
  <2>6. /\ a[k] = a[k - 1] + AddedAt(h, S, k) /\ b[k] = b[k - 1] + AddedAt(h, T, k)
        /\ c[k] = c[k - 1] + AddedAt(h, S \cup T, k)
    BY <1>7, <2>4
  <2>7. a[k - 1] \in Nat /\ b[k - 1] \in Nat /\ AddedAt(h, S, k) \in Nat /\ AddedAt(h, T, k) \in Nat
    BY <1>5, <1>8, <2>4
  <2>8. AddedAt(h, S \cup T, k) = AddedAt(h, S, k) + AddedAt(h, T, k)
    BY <1>8, <2>4
  <2>. QED BY <2>2, <2>5, <2>6, <2>7, <2>8
<1>10. n \in 0 .. n
  BY <1>4
<1>11. c[n] = a[n] + b[n]
  BY <1>9, <1>10
<1>. QED BY <1>1, <1>2, <1>3, <1>5, <1>10, <1>11 DEF n

LEMMA MoreCostsMore ==
  ASSUME NEW M, Costed(M), NEW h \in Seq(M), NEW T, NEW S \in SUBSET T
  PROVE  Cost(h, S) \in Nat /\ Cost(h, T) \in Nat /\ Cost(h, S) <= Cost(h, T)
<1>. DEFINE R == T \ S
<1>1. S \cap R = {} /\ S \cup R = T
  OBVIOUS
<1>. HIDE DEF R
<1>2. /\ Cost(h, S) \in Nat /\ Cost(h, R) \in Nat
      /\ Cost(h, S \cup R) = Cost(h, S) + Cost(h, R)
  BY <1>1, CostTogether
<1>3. Cost(h, T) = Cost(h, S) + Cost(h, R)
  BY <1>1, <1>2, Zenon
<1>. QED BY <1>2, <1>3

(* The count of the positions up to one is one more where that is counted. *)
LEMMA UpToNext ==
  ASSUME NEW n \in Nat, NEW S \in SUBSET (1 .. n), NEW i \in 1 .. n
  PROVE  /\ UpTo(S, 0) = 0 /\ UpTo(S, n) = Cardinality(S)
         /\ UpTo(S, i) \in Nat /\ UpTo(S, i - 1) \in Nat
         /\ UpTo(S, i) = UpTo(S, i - 1) + (IF i \in S THEN 1 ELSE 0)
<1>. DEFINE E == {j \in S : j <= i - 1}
            F == {j \in S : j <= i}
<1>1. IsFiniteSet(S)
  <2>1. 1 \in Int /\ n \in Int
    OBVIOUS
  <2>2. IsFiniteSet(1 .. n)
    BY <2>1, FS_Interval
  <2>. QED BY <2>2, FS_Subset
<1>2. {j \in S : j <= 0} = {} /\ {j \in S : j <= n} = S
  <2>1. \A j \in S : ~(j <= 0) /\ j <= n
    OBVIOUS
  <2>. QED BY <2>1
<1>3. E \subseteq S /\ i \notin E
  OBVIOUS
<1>4. F = IF i \in S THEN E \cup {i} ELSE E
  <2>1. \A j \in S : j <= i <=> j <= i - 1 \/ j = i
    OBVIOUS
  <2>. QED BY <2>1
<1>. HIDE DEF E, F
<1>5. IsFiniteSet(E) /\ Cardinality(E) \in Nat
  BY <1>1, <1>3, FS_Subset, FS_CardinalityType
<1>6. Cardinality(E \cup {i}) = Cardinality(E) + 1
  BY <1>3, <1>5, FS_AddElement
<1>7. Cardinality(F) = Cardinality(E) + (IF i \in S THEN 1 ELSE 0)
  <2>1. CASE i \in S
    <3>1. Cardinality(F) = Cardinality(E \cup {i})
      BY <1>4, <2>1, Zenon
    <3>. QED BY <1>6, <2>1, <3>1
  <2>2. CASE i \notin S
    <3>1. Cardinality(F) = Cardinality(E)
      BY <1>4, <2>2, Zenon
    <3>. QED BY <1>5, <2>2, <3>1
  <2>. QED BY <2>1, <2>2
<1>8. UpTo(S, i) = Cardinality(F) /\ UpTo(S, i - 1) = Cardinality(E)
  BY DEF UpTo, E, F
<1>9. UpTo(S, 0) = 0 /\ UpTo(S, n) = Cardinality(S)
  <2>1. Cardinality({}) = 0
    BY FS_EmptySet
  <2>. QED BY <1>2, <2>1, Zenon DEF UpTo
<1>10. Cardinality(F) \in Nat
  BY <1>5, <1>7
<1>. QED BY <1>5, <1>7, <1>8, <1>9, <1>10

(* What is picked costs what it cost. *)
LEMMA PickCosts ==
  ASSUME NEW M, Costed(M), NEW h \in Seq(M), NEW S \in SUBSET DOMAIN h
  PROVE  Cost(Pick(h, S), DOMAIN Pick(h, S)) = Cost(h, S)
<1>. DEFINE v == Pick(h, S)
            n == Len(h)
            m == Len(v)
<1>1. /\ n \in Nat /\ DOMAIN h = 1 .. n
  OBVIOUS
<1>2. v \in Seq(M) /\ m \in Nat /\ DOMAIN v = 1 .. m
  <2>1. v \in Seq(M)
    BY Picked
  <2>. HIDE DEF v
  <2>. QED BY <2>1
<1>3. IsFiniteSet(S) /\ S \subseteq Int
  <2>1. 1 \in Int /\ n \in Int
    BY <1>1
  <2>2. IsFiniteSet(1 .. n)
    BY ONLY <2>1, FS_Interval
  <2>. QED BY <1>1, <2>2, FS_Subset
<1>4. m = Cardinality(S)
  <2>1. DOMAIN v = 1 .. Cardinality(S) /\ Cardinality(S) \in Nat
    BY <1>3, FS_CardinalityType DEF Pick
  <2>. HIDE DEF m, v
  <2>2. 1 .. m = 1 .. Cardinality(S) /\ m \in Nat
    BY <1>2, <2>1
  <2>. QED BY <2>1, <2>2
<1>5. \A i \in S : UpTo(S, i) \in 1 .. m /\ v[UpTo(S, i)] = h[i]
  <2>1. \A i \in S : UpTo(S, i) \in 1 .. Cardinality(S)
    BY <1>3, CountsGrow
  <2>2. \A i \in S : Nth(S, UpTo(S, i)) = i
    BY <1>3, NthIsThere
  <2>3. \A k \in 1 .. Cardinality(S) : v[k] = h[Nth(S, k)]
    BY DEF Pick
  <2>. HIDE DEF v, m
  <2>. QED BY <1>4, <2>1, <2>2, <2>3
<1>. HIDE DEF v
<1>6. PICK a : RunsUp(a, h, S) /\ Cost(h, S) = a[n]
  BY CostIsRunUp
<1>7. PICK b : RunsUp(b, v, DOMAIN v) /\ Cost(v, DOMAIN v) = b[m]
  BY <1>2, CostIsRunUp
<1>. HIDE DEF n, m
<1>8. /\ a[0] = 0 /\ \A i \in 1 .. n : a[i] = a[i - 1] + AddedAt(h, S, i)
      /\ \A i \in 0 .. n : a[i] \in Nat
  BY <1>6 DEF RunsUp, n
<1>9. /\ b[0] = 0 /\ \A i \in 1 .. m : b[i] = b[i - 1] + AddedAt(v, DOMAIN v, i)
      /\ \A i \in 0 .. m : b[i] \in Nat
  BY <1>7 DEF RunsUp, m
<1>10. /\ UpTo(S, 0) = 0 /\ UpTo(S, n) = m
       /\ \A i \in 1 .. n : /\ UpTo(S, i) \in Nat /\ UpTo(S, i - 1) \in Nat
                            /\ UpTo(S, i) = UpTo(S, i - 1) + (IF i \in S THEN 1 ELSE 0)
  <2>1. S \in SUBSET (1 .. n)
    BY <1>1
  <2>2. \A i \in 1 .. n : /\ UpTo(S, i) \in Nat /\ UpTo(S, i - 1) \in Nat
                          /\ UpTo(S, i) = UpTo(S, i - 1) + (IF i \in S THEN 1 ELSE 0)
    BY <1>1, <2>1, UpToNext
  <2>3. {j \in S : j <= 0} = {} /\ {j \in S : j <= n} = S
    BY <1>1, <2>1
  <2>4. Cardinality({}) = 0
    BY FS_EmptySet
  <2>5. UpTo(S, 0) = 0 /\ UpTo(S, n) = Cardinality(S)
    BY <2>3, <2>4, Zenon DEF UpTo
  <2>. QED BY <1>4, <2>2, <2>5
<1>. DEFINE Off == {i \in 0 .. n : b[UpTo(S, i)] # a[i]}
<1>11. Off = {}
  <2>. SUFFICES ASSUME Off # {} PROVE FALSE
    OBVIOUS
  <2>1. PICK k \in Off : \A l \in Off : k <= l
    <3>1. Off \in SUBSET (0 .. n)
      OBVIOUS
    <3>. HIDE DEF Off
    <3>. QED BY <1>1, <3>1, BoundedSetHasALeast
  <2>2. k \in 0 .. n /\ b[UpTo(S, k)] # a[k]
    OBVIOUS
  <2>3. k # 0
    BY <1>8, <1>9, <1>10, <2>2
  <2>4. k - 1 \in 0 .. n /\ ~(k <= k - 1) /\ k \in 1 .. n
    BY <1>1, <2>2, <2>3
  <2>5. b[UpTo(S, k - 1)] = a[k - 1]
    BY <2>1, <2>4
  <2>. HIDE DEF Off
  <2>6. a[k] = a[k - 1] + AddedAt(h, S, k) /\ a[k - 1] \in Nat
    BY <1>8, <2>4
  <2>7. UpTo(S, k) = UpTo(S, k - 1) + (IF k \in S THEN 1 ELSE 0)
        /\ UpTo(S, k) \in Nat /\ UpTo(S, k - 1) \in Nat
    BY <1>10, <2>4
  <2>8. CASE k \notin S
    <3>1. UpTo(S, k) = UpTo(S, k - 1)
      BY <2>7, <2>8
    <3>2. a[k] = a[k - 1]
      BY <2>6, <2>8 DEF AddedAt
    <3>. QED BY <2>2, <2>5, <3>1, <3>2
  <2>9. CASE k \in S
    <3>1. PICK x \in 1 .. m : x = UpTo(S, k) /\ v[x] = h[k]
      BY <1>5, <2>9
    <3>2. x - 1 = UpTo(S, k - 1)
      BY <2>7, <2>9, <3>1
    <3>3. b[x] = b[x - 1] + AddedAt(v, DOMAIN v, x)
      BY <1>9
    <3>4. AddedAt(v, DOMAIN v, x) = AddedAt(h, S, k)
      BY <1>2, <2>9, <3>1 DEF AddedAt
    <3>. QED BY <2>2, <2>5, <2>6, <3>1, <3>2, <3>3, <3>4
  <2>. QED BY <2>8, <2>9
<1>12. n \in 0 .. n
  BY <1>1
<1>13. b[UpTo(S, n)] = a[n]
  BY <1>11, <1>12
<1>. QED BY <1>6, <1>7, <1>10, <1>13 DEF v

(* One after the other, two transcripts cost what they cost apart. *)
LEMMA CostsInARow ==
  ASSUME NEW M, Costed(M), NEW s \in Seq(M), NEW t \in Seq(M)
  PROVE  /\ Cost(s, DOMAIN s) \in Nat /\ Cost(t, DOMAIN t) \in Nat
         /\ Cost(s \o t, DOMAIN (s \o t)) = Cost(s, DOMAIN s) + Cost(t, DOMAIN t)
<1>. DEFINE u == s \o t
            n == Len(s)
            m == Len(t)
<1>1. /\ n \in Nat /\ m \in Nat /\ DOMAIN s = 1 .. n /\ DOMAIN t = 1 .. m
      /\ u \in Seq(M) /\ DOMAIN u = 1 .. n + m /\ Len(u) = n + m
      /\ \A i \in 1 .. n : u[i] = s[i]
      /\ \A i \in 1 .. m : u[n + i] = t[i]
  OBVIOUS
<1>. HIDE DEF u
<1>2. PICK a : RunsUp(a, s, DOMAIN s) /\ Cost(s, DOMAIN s) = a[n]
  BY CostIsRunUp
<1>3. PICK b : RunsUp(b, t, DOMAIN t) /\ Cost(t, DOMAIN t) = b[m]
  BY CostIsRunUp
<1>4. PICK c : RunsUp(c, u, DOMAIN u) /\ Cost(u, DOMAIN u) = c[Len(u)]
  BY <1>1, CostIsRunUp
<1>5. /\ a[0] = 0 /\ \A i \in 1 .. n : a[i] = a[i - 1] + AddedAt(s, DOMAIN s, i)
      /\ \A i \in 0 .. n : a[i] \in Nat
  BY <1>2 DEF RunsUp
<1>6. /\ b[0] = 0 /\ \A i \in 1 .. m : b[i] = b[i - 1] + AddedAt(t, DOMAIN t, i)
      /\ \A i \in 0 .. m : b[i] \in Nat
  BY <1>3 DEF RunsUp
<1>7. /\ c[0] = 0 /\ \A i \in 1 .. n + m : c[i] = c[i - 1] + AddedAt(u, DOMAIN u, i)
      /\ \A i \in 0 .. n + m : c[i] \in Nat
  BY <1>1, <1>4 DEF RunsUp
<1>. HIDE DEF n, m
<1>8. \A i \in 1 .. n : AddedAt(u, DOMAIN u, i) = AddedAt(s, DOMAIN s, i) /\ i \in 1 .. n + m
  BY <1>1 DEF AddedAt
<1>9. \A i \in 1 .. m : AddedAt(u, DOMAIN u, n + i) = AddedAt(t, DOMAIN t, i) /\ n + i \in 1 .. n + m
  BY <1>1 DEF AddedAt
<1>. DEFINE Off1 == {i \in 0 .. n : c[i] # a[i]}
            Off2 == {i \in 0 .. m : c[n + i] # c[n] + b[i]}
<1>10. Off1 = {}
  <2>. SUFFICES ASSUME Off1 # {} PROVE FALSE
    OBVIOUS
  <2>1. PICK k \in Off1 : \A l \in Off1 : k <= l
    <3>1. Off1 \in SUBSET (0 .. n)
      OBVIOUS
    <3>. HIDE DEF Off1
    <3>. QED BY <1>1, <3>1, BoundedSetHasALeast
  <2>2. k \in 0 .. n /\ c[k] # a[k]
    OBVIOUS
  <2>3. k # 0
    BY <1>5, <1>7, <2>2
  <2>4. k - 1 \in 0 .. n /\ ~(k <= k - 1) /\ k \in 1 .. n
    BY <1>1, <2>2, <2>3
  <2>5. c[k - 1] = a[k - 1]
    BY <2>1, <2>4
  <2>. HIDE DEF Off1
  <2>6. c[k] = c[k - 1] + AddedAt(u, DOMAIN u, k)
    BY <1>7, <1>8, <2>4
  <2>7. a[k] = a[k - 1] + AddedAt(s, DOMAIN s, k)
    BY <1>5, <2>4
  <2>. QED BY <1>8, <2>2, <2>4, <2>5, <2>6, <2>7
<1>11. n \in 0 .. n /\ n \in 0 .. n + m /\ m \in 0 .. m
  BY <1>1
<1>12. c[n] = a[n] /\ c[n] \in Nat
  BY <1>7, <1>10, <1>11
<1>13. Off2 = {}
  <2>. SUFFICES ASSUME Off2 # {} PROVE FALSE
    OBVIOUS
  <2>1. PICK k \in Off2 : \A l \in Off2 : k <= l
    <3>1. Off2 \in SUBSET (0 .. m)
      OBVIOUS
    <3>. HIDE DEF Off2
    <3>. QED BY <1>1, <3>1, BoundedSetHasALeast
  <2>2. k \in 0 .. m /\ c[n + k] # c[n] + b[k]
    OBVIOUS
  <2>3. k # 0
    <3>. SUFFICES ASSUME k = 0 PROVE FALSE
      OBVIOUS
    <3>1. n + k = n
      BY <1>1
    <3>. QED BY <1>6, <1>12, <2>2, <3>1
  <2>4. k - 1 \in 0 .. m /\ ~(k <= k - 1) /\ k \in 1 .. m
    BY <1>1, <2>2, <2>3
  <2>5. c[n + (k - 1)] = c[n] + b[k - 1]
    BY <2>1, <2>4
  <2>. HIDE DEF Off2
  <2>6. c[n + k] = c[(n + k) - 1] + AddedAt(u, DOMAIN u, n + k)
    BY <1>7, <1>9, <2>4
  <2>7. (n + k) - 1 = n + (k - 1)
    BY <1>1, <2>4
  <2>8. b[k] = b[k - 1] + AddedAt(t, DOMAIN t, k) /\ b[k - 1] \in Nat /\ b[k] \in Nat
    BY <1>6, <2>4
  <2>9. AddedAt(u, DOMAIN u, n + k) = AddedAt(t, DOMAIN t, k)
    BY <1>9, <2>4
  <2>10. AddedAt(t, DOMAIN t, k) \in Nat
    <3>1. t[k] \in M
      BY <1>1, <2>4
    <3>. QED BY <3>1 DEF AddedAt, Costed
  <2>. QED BY <1>12, <2>2, <2>5, <2>6, <2>7, <2>8, <2>9, <2>10
<1>14. c[n + m] = c[n] + b[m]
  BY <1>11, <1>13
<1>15. Cost(u, DOMAIN u) = c[n + m]
  BY <1>1, <1>4
<1>. QED BY <1>2, <1>3, <1>5, <1>6, <1>11, <1>12, <1>14, <1>15 DEF u

\* What a window keeps of the transcript.
StaysIn(h, from) == {i \in DOMAIN h : Pinned(h[i])} \cup Seen(h, from)

(* A window costs what it keeps cost. *)
LEMMA WindowCosts ==
  ASSUME NEW M, Costed(M), NEW h \in Seq(M), NEW from
  PROVE  LET w == Reassemble(h, from)
         IN  Cost(w, DOMAIN w) = Cost(h, StaysIn(h, from))
<1>. DEFINE A == TopPinned(h)
            B == {i \in Oldest(h, from) : Pinned(h[i])}
            C == Seen(h, from)
<1>1. /\ A \in SUBSET DOMAIN h /\ B \in SUBSET DOMAIN h /\ C \in SUBSET DOMAIN h
      /\ A \cap B = {} /\ (A \cup B) \cap C = {}
  BY DEF TopPinned, Boundaries, Oldest, Seen
<1>2. Reassemble(h, from) = (Pick(h, A) \o Pick(h, B)) \o Pick(h, C)
  BY DEF Reassemble, Preamble, InView, Seen
<1>3. StaysIn(h, from) = (A \cup B) \cup C
  <2>1. \A i \in A \cup B : i \in DOMAIN h /\ Pinned(h[i])
    BY <1>1 DEF TopPinned
  <2>2. \A i \in DOMAIN h : Pinned(h[i]) => i \in (A \cup B) \cup C
    BY DEF Seen
  <2>. HIDE DEF A, B
  <2>. QED BY <2>1, <2>2 DEF StaysIn
<1>. HIDE DEF A, B, C
<1>4. PICK a \in Seq(M) : a = Pick(h, A)
  BY <1>1, Picked
<1>5. PICK b \in Seq(M) : b = Pick(h, B)
  BY <1>1, Picked
<1>6. PICK c \in Seq(M) : c = Pick(h, C)
  BY <1>1, Picked
<1>7. /\ Cost(a, DOMAIN a) = Cost(h, A)
      /\ Cost(b, DOMAIN b) = Cost(h, B)
      /\ Cost(c, DOMAIN c) = Cost(h, C)
  BY <1>1, <1>4, <1>5, <1>6, PickCosts
<1>8. PICK d \in Seq(M) : d = a \o b
  <2>1. a \o b \in Seq(M)
    OBVIOUS
  <2>. QED BY <2>1
<1>9. Cost(d, DOMAIN d) = Cost(a, DOMAIN a) + Cost(b, DOMAIN b)
  BY <1>8, CostsInARow
<1>10. PICK e \in Seq(M) : e = d \o c
  <2>1. d \o c \in Seq(M)
    OBVIOUS
  <2>. QED BY <2>1
<1>11. Cost(e, DOMAIN e) = Cost(d, DOMAIN d) + Cost(c, DOMAIN c)
  BY <1>10, CostsInARow
<1>12. Cost(h, A \cup B) = Cost(h, A) + Cost(h, B)
  BY <1>1, CostTogether
<1>13. Cost(h, (A \cup B) \cup C) = Cost(h, A \cup B) + Cost(h, C)
  BY <1>1, CostTogether
<1>14. Reassemble(h, from) = e
  BY <1>2, <1>4, <1>5, <1>6, <1>8, <1>10
<1>15. Cost(e, DOMAIN e) = Cost(h, (A \cup B) \cup C)
  BY <1>7, <1>9, <1>11, <1>12, <1>13
<1>. HIDE DEF Cost
<1>. QED BY <1>3, <1>14, <1>15, Zenon

\* What is left for groups once the pinned turns and the newest group are paid for.
Remaining(h, budget) ==
  SaturatingSub(SaturatingSub(budget, Cost(h, {i \in DOMAIN h : Pinned(h[i])})),
                Cost(h, Between(h, GroupCount(h) - 1, GroupCount(h))))

\* The groups above cut f fit in what is left.
FitsAt(h, budget, f) ==
  \/ f = GroupCount(h) - 1
  \/ Cost(h, Between(h, f, GroupCount(h) - 1)) <= Remaining(h, budget)

(* The cut by tokens is the shallowest that fits: what fits at a cut fits at
   every deeper one. *)
LEMMA TokenCutIsTheFirstThatFits ==
  ASSUME NEW M, Costed(M), NEW h \in Seq(M), NEW budget \in Nat, GroupCount(h) > 0
  PROVE  /\ CutByTokens(h, budget) \in 0 .. GroupCount(h) - 1
         /\ \A f \in 0 .. GroupCount(h) - 1 :
              f >= CutByTokens(h, budget) <=> FitsAt(h, budget, f)
<1>. DEFINE n       == GroupCount(h)
            fitting == {f \in 0 .. n - 1 : FitsAt(h, budget, f)}
<1>1. n \in Nat /\ n > 0
  BY StartsAreFinite
<1>2. CutByTokens(h, budget) = n - Cardinality(fitting)
  BY DEF CutByTokens, FitsAt, Remaining
<1>3. ASSUME NEW f \in 0 .. n - 1, NEW g \in 0 .. n - 1, f <= g, f \in fitting
      PROVE  g \in fitting
  <2>1. CASE f = g
    BY <1>3, <2>1
  <2>2. CASE g = n - 1
    BY <2>2 DEF FitsAt
  <2>3. CASE f # g /\ g # n - 1
    <3>1. f # n - 1
      BY <1>1, <1>3, <2>3
    <3>2. Cost(h, Between(h, f, n - 1)) <= Remaining(h, budget)
      BY <1>3, <3>1 DEF FitsAt
    <3>3. f \in Nat /\ g \in Nat
      BY <1>1
    <3>4. Between(h, g, n - 1) \subseteq Between(h, f, n - 1)
      BY <1>3, <3>3, OldestGrow DEF Between
    <3>5. /\ Cost(h, Between(h, g, n - 1)) <= Cost(h, Between(h, f, n - 1))
          /\ Cost(h, Between(h, g, n - 1)) \in Nat /\ Cost(h, Between(h, f, n - 1)) \in Nat
      BY <3>4, MoreCostsMore
    <3>6. Remaining(h, budget) \in Int
      <4>1. /\ Cost(h, {i \in DOMAIN h : Pinned(h[i])}) \in Nat
            /\ Cost(h, Between(h, GroupCount(h) - 1, GroupCount(h))) \in Nat
        BY MoreCostsMore
      <4>. QED BY <4>1 DEF Remaining, SaturatingSub
    <3>7. Cost(h, Between(h, g, n - 1)) <= Remaining(h, budget)
      BY <3>2, <3>5, <3>6
    <3>. QED BY <3>7 DEF FitsAt
  <2>. QED BY <2>1, <2>2, <2>3
<1>4. n - 1 \in fitting
  BY <1>1 DEF FitsAt
<1>5. \A f \in 0 .. n - 1 : f \in fitting <=> FitsAt(h, budget, f)
  OBVIOUS
<1>6. fitting \subseteq 0 .. n - 1
  OBVIOUS
<1>. HIDE DEF n, fitting
<1>7. PICK first \in fitting : \A f \in fitting : first <= f
  <2>1. fitting \in SUBSET (0 .. n) /\ fitting # {}
    BY <1>1, <1>4, <1>6
  <2>. QED BY <1>1, <2>1, BoundedSetHasALeast
<1>8. first \in 0 .. n - 1
  BY <1>6
<1>9. fitting = first .. n - 1
  <2>1. \A f \in fitting : f \in first .. n - 1
    BY <1>1, <1>6, <1>7, <1>8
  <2>2. \A f \in first .. n - 1 : f \in fitting
    <3>. SUFFICES ASSUME NEW f \in first .. n - 1 PROVE f \in fitting
      OBVIOUS
    <3>1. f \in 0 .. n - 1 /\ first <= f
      BY <1>1, <1>8
    <3>. QED BY <1>3, <1>8, <3>1
  <2>. QED BY <2>1, <2>2
<1>10. Cardinality(fitting) = n - first
  <2>1. PICK top \in Int : top = n - 1
    BY <1>1
  <2>2. first \in Int
    BY <1>8
  <2>3. Cardinality(first .. top) = IF first > top THEN 0 ELSE top - first + 1
    BY <2>1, <2>2, FS_Interval
  <2>4. Cardinality(first .. top) = n - first
    BY <1>1, <1>8, <2>1, <2>3
  <2>. QED BY <1>9, <2>1, <2>4
<1>11. CutByTokens(h, budget) = first
  BY <1>1, <1>2, <1>8, <1>10
<1>12. \A f \in 0 .. n - 1 : f >= first <=> f \in fitting
  BY <1>1, <1>8, <1>9
<1>. QED BY <1>5, <1>8, <1>11, <1>12 DEF n

(* What a cut keeps is the pinned turns and the rest of the groups above it. *)
LEMMA KeptIsPaid ==
  ASSUME NEW M, Costed(M), NEW h \in Seq(M), NEW f \in 0 .. GroupCount(h) - 1,
         GroupCount(h) > 0
  PROVE  LET n      == GroupCount(h)
             pinned == Cost(h, {i \in DOMAIN h : Pinned(h[i])})
             newest == Cost(h, Between(h, n - 1, n))
             others == Cost(h, Between(h, f, n - 1))
         IN  /\ pinned \in Nat /\ newest \in Nat /\ others \in Nat
             /\ Cost(h, StaysIn(h, f)) = (pinned + others) + newest
             /\ f = n - 1 => others = 0
<1>. DEFINE n == GroupCount(h)
            P == {i \in DOMAIN h : Pinned(h[i])}
            N == Between(h, n - 1, n)
            O == Between(h, f, n - 1)
<1>1. n \in Nat /\ n > 0 /\ f \in Nat /\ f <= n - 1 /\ n - 1 \in Nat
  <2>1. n \in Nat
    BY StartsAreFinite
  <2>2. f \in 0 .. n - 1 /\ n > 0
    OBVIOUS
  <2>. HIDE DEF n
  <2>. QED BY <2>1, <2>2
<1>2. DOMAIN h \subseteq Nat
  OBVIOUS
\* Every message but the pinned ones outside is in one of the groups.
<1>3. \A i \in DOMAIN h \ TopPinned(h) : i \in Oldest(h, n)
  <2>. SUFFICES ASSUME NEW i \in DOMAIN h \ TopPinned(h)
                PROVE  Cardinality({s \in Starts(h) : s <= i}) <= n
    BY DEF Oldest
  <2>. DEFINE E == {s \in Starts(h) : s <= i}
  <2>1. IsFiniteSet(Starts(h)) /\ E \subseteq Starts(h)
    BY <1>2, StartsAreFinite
  <2>. HIDE DEF E
  <2>2. Cardinality(E) <= Cardinality(Starts(h))
    BY <2>1, FS_Subset
  <2>. QED BY <2>2 DEF E, GroupCount
<1>4. Oldest(h, f) \subseteq Oldest(h, n - 1) /\ Oldest(h, n - 1) \subseteq Oldest(h, n)
  <2>. HIDE DEF n
  <2>1. n - 1 <= n
    BY <1>1
  <2>. QED BY <1>1, <2>1, OldestGrow
<1>5. \A i \in TopPinned(h) : Pinned(h[i]) /\ i \in DOMAIN h
  BY DEF TopPinned, Boundaries
<1>6. Oldest(h, n) \subseteq DOMAIN h
  BY DEF Oldest
<1>7. P \cap O = {} /\ (P \cup O) \cap N = {}
  BY DEF Between
<1>8. StaysIn(h, f) = (P \cup O) \cup N
  <2>1. StaysIn(h, f) = P \cup (DOMAIN h \ (TopPinned(h) \cup Oldest(h, f)))
    BY DEF StaysIn, Seen
  <2>2. O = {i \in Oldest(h, n - 1) \ Oldest(h, f) : ~Pinned(h[i])}
    BY DEF Between
  <2>3. N = {i \in Oldest(h, n) \ Oldest(h, n - 1) : ~Pinned(h[i])}
    BY DEF Between
  <2>. HIDE DEF O, N, n
  <2>4. ASSUME NEW i \in StaysIn(h, f) PROVE i \in (P \cup O) \cup N
    <3>1. CASE Pinned(h[i])
      BY <2>1, <2>4, <3>1
    <3>2. CASE ~Pinned(h[i])
      <4>1. i \in DOMAIN h \ TopPinned(h) /\ i \notin Oldest(h, f)
        BY <2>1, <2>4, <3>2
      <4>2. i \in Oldest(h, n)
        BY <1>3, <4>1
      <4>. QED BY <2>2, <2>3, <3>2, <4>1, <4>2
    <3>. QED BY <3>1, <3>2
  <2>5. ASSUME NEW i \in (P \cup O) \cup N PROVE i \in StaysIn(h, f)
    <3>1. CASE i \in P
      BY <2>1, <3>1
    <3>2. CASE i \in O \cup N
      <4>1. ~Pinned(h[i]) /\ i \notin Oldest(h, f) /\ i \in Oldest(h, n)
        BY <1>4, <2>2, <2>3, <3>2
      <4>2. i \notin TopPinned(h) /\ i \in DOMAIN h
        BY <1>5, <1>6, <4>1
      <4>. QED BY <2>1, <4>1, <4>2
    <3>. QED BY <2>5, <3>1, <3>2
  <2>. QED BY <2>4, <2>5
<1>9. f = n - 1 => O = {}
  BY DEF Between
<1>. HIDE DEF n, P, N, O
<1>10. /\ Cost(h, P) \in Nat /\ Cost(h, O) \in Nat
       /\ Cost(h, P \cup O) = Cost(h, P) + Cost(h, O)
  BY <1>7, CostTogether
<1>11. /\ Cost(h, N) \in Nat
       /\ Cost(h, (P \cup O) \cup N) = Cost(h, P \cup O) + Cost(h, N)
  BY <1>7, CostTogether
<1>12. Cost(h, StaysIn(h, f)) = (Cost(h, P) + Cost(h, O)) + Cost(h, N)
  BY <1>8, <1>10, <1>11
<1>13. Cost(h, {}) = 0
  <2>1. {} \cap {} = {} /\ {} \cup {} = {}
    OBVIOUS
  <2>2. Cost(h, {}) \in Nat /\ Cost(h, {} \cup {}) = Cost(h, {}) + Cost(h, {})
    BY <2>1, CostTogether
  <2>3. Cost(h, {}) = Cost(h, {}) + Cost(h, {})
    BY <2>1, <2>2, Zenon
  <2>. QED BY <2>2, <2>3
<1>14. f = n - 1 => Cost(h, O) = 0
  BY <1>9, <1>13, Zenon
<1>. QED BY <1>10, <1>11, <1>12, <1>14 DEF n, P, N, O

(* A token window keeps the newest group, stays within its budget when more than
   that group is kept, and stops only where one more group would not fit. *)
THEOREM TokenCutIsTight ==
  ASSUME NEW M, Costed(M), NEW h \in Seq(M), NEW budget \in Nat, GroupCount(h) > 0
  PROVE  LET n      == GroupCount(h)
             from   == CutByTokens(h, budget)
             pay(f) == Cost(h, StaysIn(h, f))
         IN  /\ from \in 0 .. n - 1
             /\ pay(from) <= budget \/ pay(from) = pay(n - 1)
             /\ from > 0 => pay(from - 1) > budget
<1>. DEFINE n      == GroupCount(h)
            from   == CutByTokens(h, budget)
            pay(f) == Cost(h, StaysIn(h, f))
            pinned == Cost(h, {i \in DOMAIN h : Pinned(h[i])})
            newest == Cost(h, Between(h, n - 1, n))
            others(f) == Cost(h, Between(h, f, n - 1))
            left   == Remaining(h, budget)
<1>1. n \in Nat /\ n > 0
  BY StartsAreFinite
<1>2. /\ from \in 0 .. n - 1
      /\ \A f \in 0 .. n - 1 : f >= from <=> FitsAt(h, budget, f)
  BY TokenCutIsTheFirstThatFits
<1>3. \A f \in 0 .. n - 1 : /\ pinned \in Nat /\ newest \in Nat /\ others(f) \in Nat
                            /\ pay(f) = (pinned + others(f)) + newest
                            /\ f = n - 1 => others(f) = 0
  BY KeptIsPaid
<1>4. \A f \in 0 .. n - 1 : FitsAt(h, budget, f) <=> f = n - 1 \/ others(f) <= left
  BY DEF FitsAt
<1>5. left = SaturatingSub(SaturatingSub(budget, pinned), newest)
  BY DEF Remaining
<1>. HIDE DEF n, from, pay, pinned, newest, others, left
<1>6. n - 1 \in 0 .. n - 1 /\ from >= from
  BY <1>1, <1>2
<1>7. pay(n - 1) = pinned + newest /\ pinned \in Nat /\ newest \in Nat
  BY <1>3, <1>6
\* What is left and what was paid for first is the budget, or nothing is left.
<1>8. left \in Nat /\ (left > 0 => left + pinned + newest = budget)
      /\ (pinned + newest <= budget => left + pinned + newest = budget)
  BY <1>5, <1>7 DEF SaturatingSub
<1>9. pay(from) <= budget \/ pay(from) = pay(n - 1)
  <2>1. FitsAt(h, budget, from)
    BY <1>2, <1>6
  <2>2. CASE from = n - 1
    BY <2>2
  <2>3. CASE others(from) <= left
    <3>1. others(from) \in Nat /\ pay(from) = (pinned + others(from)) + newest
      BY <1>2, <1>3
    <3>2. CASE left > 0
      BY <1>7, <1>8, <2>3, <3>1, <3>2
    <3>3. CASE ~(left > 0)
      <4>1. others(from) = 0
        BY <1>8, <2>3, <3>1, <3>3
      <4>. QED BY <1>7, <3>1, <4>1
    <3>. QED BY <3>2, <3>3
  <2>. QED BY <1>2, <1>4, <2>1, <2>2, <2>3
<1>10. ASSUME from > 0 PROVE pay(from - 1) > budget
  <2>1. PICK f \in 0 .. n - 1 : f = from - 1
    <3>1. from - 1 \in 0 .. n - 1
      BY <1>1, <1>2, <1>10
    <3>. QED BY <3>1
  <2>2. ~(f >= from)
    BY <1>2, <2>1
  <2>3. ~FitsAt(h, budget, f)
    BY <1>2, <2>2
  <2>4. ~(others(f) <= left)
    BY <1>4, <2>3
  <2>5. others(f) \in Nat /\ pay(f) = (pinned + others(f)) + newest
    BY <1>3
  <2>6. pay(f) > budget
    BY <1>7, <1>8, <2>4, <2>5
  <2>. QED BY <2>1, <2>6
<1>. QED BY <1>2, <1>9, <1>10 DEF n, from, pay

(* A window of half the budget is no shallower. *)
LEMMA LessBudgetCutsDeeper ==
  ASSUME NEW M, Costed(M), NEW h \in Seq(M), NEW b \in Nat, NEW c \in Nat, b <= c
  PROVE  CutByTokens(h, c) <= CutByTokens(h, b)
<1>. DEFINE n == GroupCount(h)
<1>1. n \in Nat
  BY StartsAreFinite
<1>2. CASE n = 0
  BY <1>2, TokenCutKeepsTheNewest
<1>3. CASE n > 0
  <2>1. CutByTokens(h, b) \in 0 .. n - 1 /\ FitsAt(h, b, CutByTokens(h, b))
    <3>1. /\ CutByTokens(h, b) \in 0 .. n - 1
          /\ \A f \in 0 .. n - 1 : f >= CutByTokens(h, b) <=> FitsAt(h, b, f)
      BY <1>3, TokenCutIsTheFirstThatFits
    <3>. QED BY <3>1
  <2>2. Remaining(h, b) <= Remaining(h, c) /\ Remaining(h, b) \in Nat /\ Remaining(h, c) \in Nat
    <3>1. /\ Cost(h, {i \in DOMAIN h : Pinned(h[i])}) \in Nat
          /\ Cost(h, Between(h, GroupCount(h) - 1, GroupCount(h))) \in Nat
      BY MoreCostsMore
    <3>. QED BY <3>1 DEF Remaining, SaturatingSub
  <2>3. PICK f \in 0 .. n - 1 : f = CutByTokens(h, b)
    BY <2>1
  <2>4. Cost(h, Between(h, f, n - 1)) \in Nat
    BY MoreCostsMore
  <2>5. FitsAt(h, c, f)
    BY <2>1, <2>2, <2>3, <2>4 DEF FitsAt
  <2>6. /\ CutByTokens(h, c) \in 0 .. n - 1
        /\ \A g \in 0 .. n - 1 : g >= CutByTokens(h, c) <=> FitsAt(h, c, g)
    BY <1>3, TokenCutIsTheFirstThatFits
  <2>7. f >= CutByTokens(h, c)
    BY <2>5, <2>6
  <2>. QED BY <2>3, <2>6, <2>7
<1>. QED BY <1>1, <1>2, <1>3

-----------------------------------------------------------------------------
(* Transcripts in which no id is used twice *)

CalledOnce(h) ==
  \A i, j \in DOMAIN h, id \in CallId :
    HasCall(h[i], id) /\ HasCall(h[j], id) => i = j

Once(h) == CalledOnce(h) /\ AnsweredOnce(h)

LEMMA DrawnOnce ==
  ASSUME NEW v, NEW s, Drawn(v, s, DOMAIN s), Once(s)
  PROVE  Once(v)
<1>1. PICK f \in [DOMAIN v -> DOMAIN s] :
        /\ \A k \in DOMAIN v : v[k] = s[f[k]]
        /\ \A k, l \in DOMAIN v : f[k] = f[l] => k = l
  BY DEF Drawn
<1>2. \A k \in DOMAIN v : f[k] \in DOMAIN s
  OBVIOUS
<1>. QED BY <1>1, <1>2 DEF Once, CalledOnce, AnsweredOnce

(* A message whose parts are all kept is itself after the pass, and the last one
   is last. *)
LEMMA LastIsWhole ==
  ASSUME NEW R, NEW P, NEW h \in Seq(MessagesOf(R, P)), NEW n \in DOMAIN h, n = Len(h),
         h[n].parts # <<>>,
         \A k \in DOMAIN h[n].parts : PartKept(h, Broken(h), n, h[n].parts[k])
  PROVE  /\ Repair(h) # <<>>
         /\ Repair(h)[Len(Repair(h))] = h[n]
<1>. DEFINE t == Repair(h)
<1>1. h[n] \in MessagesOf(R, P)
  OBVIOUS
<1>2. h[n].parts \in Seq(P) /\ h[n] = [h[n] EXCEPT !.parts = h[n].parts]
  BY <1>1 DEF MessagesOf
<1>3. Pick(h[n].parts, DOMAIN h[n].parts) = h[n].parts
  BY <1>2, PickedWhole
<1>4. {k \in DOMAIN h[n].parts : PartKept(h, Broken(h), n, h[n].parts[k])} = DOMAIN h[n].parts
  OBVIOUS
<1>5. Trimmed(h, Broken(h), n) = h[n]
  BY <1>2, <1>3, <1>4 DEF Trimmed
<1>6. n \in Left(h)
  BY <1>5 DEF Left
<1>7. /\ DOMAIN t = 1 .. Len(t) /\ Len(t) \in Nat
      /\ \A k \in DOMAIN t : Nth(Left(h), k) \in DOMAIN h /\ t[k] = Trimmed(h, Broken(h), Nth(Left(h), k))
      /\ \A i \in Left(h) : \E k \in DOMAIN t : Nth(Left(h), k) = i
      /\ \A k, l \in DOMAIN t : k < l <=> Nth(Left(h), k) < Nth(Left(h), l)
  BY Repaired
<1>. HIDE DEF t
<1>8. PICK k \in DOMAIN t : Nth(Left(h), k) = n
  BY <1>6, <1>7
<1>9. k = Len(t)
  <2>1. Len(t) \in DOMAIN t
    BY <1>7
  <2>2. ~(n < Nth(Left(h), Len(t)))
    <3>1. Nth(Left(h), Len(t)) \in DOMAIN h
      BY <1>7, <2>1
    <3>2. \A i \in DOMAIN h : ~(Len(h) < i)
      OBVIOUS
    <3>. QED BY <3>1, <3>2
  <2>3. ~(k < Len(t))
    BY <1>7, <1>8, <2>1, <2>2
  <2>. QED BY <1>7, <2>3
<1>10. t # <<>> /\ t[Len(t)] = h[n]
  BY <1>5, <1>7, <1>8, <1>9
<1>. QED BY <1>10 DEF t

(* The pass repeats no id that the transcript held once, and keeps no call of its
   last message, which nothing comes after to answer. *)
LEMMA PreparedOnce ==
  ASSUME NEW R, NEW P, NEW v \in Seq(MessagesOf(R, P)), NEW m \in MessagesOf(R, P),
         CalledOnce(v), AnsweredOnce(Append(v, m))
  PROVE  Once(Repair(Append(v, m)))
<1>. DEFINE h     == Append(v, m)
            t     == Repair(h)
            at(k) == Nth(Left(h), k)
<1>1. /\ h \in Seq(MessagesOf(R, P))
      /\ DOMAIN v = 1 .. Len(v) /\ Len(v) \in Nat
      /\ DOMAIN h = 1 .. Len(v) + 1
      /\ \A i \in DOMAIN v : h[i] = v[i]
  OBVIOUS
<1>. HIDE DEF h
<1>2. /\ DOMAIN t \subseteq Int
      /\ \A k \in DOMAIN t : at(k) \in DOMAIN h
      /\ \A k, l \in DOMAIN t : k < l <=> at(k) < at(l)
  <2>1. DOMAIN t = 1 .. Len(t)
    BY <1>1, Repaired
  <2>2. /\ \A k \in DOMAIN t : at(k) \in DOMAIN h
        /\ \A k, l \in DOMAIN t : k < l <=> at(k) < at(l)
    BY <1>1, Repaired
  <2>. QED BY <2>1, <2>2
<1>3. \A id \in CallId : \A k \in DOMAIN t :
        /\ HasCall(t[k], id) <=> HasCall(h[at(k)], id) /\ CallKept(h, Broken(h), at(k), id)
        /\ HasResult(t[k], id) <=> HasResult(h[at(k)], id) /\ ResultKept(h, Broken(h), at(k), id)
  BY <1>1, RepairedParts
<1>. HIDE DEF at, t
<1>4. ASSUME NEW k \in DOMAIN t, NEW l \in DOMAIN t, at(k) = at(l) PROVE k = l
  <2>1. at(k) \in Int /\ k \in Int /\ l \in Int
    BY <1>1, <1>2
  <2>2. ~(k < l) /\ ~(l < k)
    BY <1>2, <1>4, <2>1
  <2>. QED BY <2>1, <2>2
<1>5. ASSUME NEW k \in DOMAIN t, NEW id \in CallId, HasCall(t[k], id)
      PROVE  at(k) \in DOMAIN v /\ HasCall(v[at(k)], id)
  <2>1. HasCall(h[at(k)], id) /\ at(k) \in DOMAIN h
    BY <1>2, <1>3, <1>5
  <2>2. PICK j \in DOMAIN h : j > at(k)
    BY <1>3, <1>5 DEF CallKept
  <2>3. at(k) \in DOMAIN v
    BY <1>1, <2>1, <2>2
  <2>. QED BY <1>1, <2>1, <2>3
<1>6. CalledOnce(t)
  BY <1>4, <1>5 DEF CalledOnce
<1>7. AnsweredOnce(t)
  BY <1>2, <1>3, <1>4 DEF AnsweredOnce, h
<1>. QED BY <1>6, <1>7 DEF Once, t, h

(* The last message of a transcript that a provider accepts makes no call. *)
LEMMA LastMakesNoCall ==
  ASSUME NEW M, NEW t \in Seq(M), Sendable(t), NEW n \in DOMAIN t, n = Len(t), NEW id \in CallId
  PROVE  ~HasCall(t[n], id)
<1>. SUFFICES ASSUME HasCall(t[n], id) PROVE FALSE
  OBVIOUS
<1>1. PICK j \in DOMAIN t : Answers(t, n, j, id)
  BY DEF Sendable
<1>. QED BY <1>1 DEF Answers

(* A tool's result answers the one call. *)
LEMMA ResultsOfTools ==
  ASSUME NEW made, NEW id
  PROVE  /\ OnlyResults(ToolResult(made)) /\ ~HasCall(ToolResult(made), id)
         /\ HasResult(ToolResult(made), id) <=> made = id
<1>1. ToolResult(made).parts = <<Result(made)>>
  BY DEF ToolResult, Msg
<1>2. DOMAIN <<Result(made)>> = {1} /\ <<Result(made)>>[1] = Result(made) /\ <<Result(made)>> # <<>>
  OBVIOUS
<1>3. /\ Result(made).kind = "result" /\ Result(made).id = made
      /\ Call(id).kind = "call" /\ Result(id).id = id
  BY DEF Result, Call
<1>4. Result(made) # Call(id) /\ (Result(made) = Result(id) <=> made = id)
  BY <1>3
<1>. QED BY <1>1, <1>2, <1>3, <1>4 DEF OnlyResults, HasCall, HasResult

(* What a provider accepts stays so with a message of calls behind it and their
   results behind that, in any order. *)
LEMMA ExchangeIsSendable ==
  ASSUME NEW M, NEW s \in Seq(M), NEW m \in M, NEW r \in Seq(M), Sendable(s),
         NEW ids \in Seq(CallId), DOMAIN r = DOMAIN ids,
         \A k \in DOMAIN ids : r[k] = ToolResult(ids[k]),
         \A id \in CallId : /\ HasCall(m, id) <=> \E k \in DOMAIN ids : ids[k] = id
                            /\ ~HasResult(m, id)
  PROVE  Sendable(Append(s, m) \o r)
<1>. DEFINE n == Len(s)
            t == Append(s, m) \o r
<1>1. n \in Nat /\ DOMAIN s = 1 .. n /\ Len(r) \in Nat /\ DOMAIN r = 1 .. Len(r)
  OBVIOUS
<1>2. DOMAIN t = 1 .. n + 1 + Len(r)
  OBVIOUS
<1>3. \A i \in DOMAIN s : t[i] = s[i]
  OBVIOUS
<1>4. t[n + 1] = m
  OBVIOUS
<1>5. \A k \in DOMAIN r : t[n + 1 + k] = r[k]
  OBVIOUS
<1>. HIDE DEF n, t
<1>6. ASSUME NEW i \in DOMAIN t
      PROVE  \/ i \in DOMAIN s
             \/ i = n + 1
             \/ \E k \in DOMAIN r : i = n + 1 + k
  <2>1. i > n + 1 => i - (n + 1) \in DOMAIN r /\ i = n + 1 + (i - (n + 1))
    BY <1>1, <1>2
  <2>2. i <= n => i \in DOMAIN s
    BY <1>1, <1>2
  <2>3. i > n + 1 \/ i <= n \/ i = n + 1
    BY <1>1, <1>2
  <2>. QED BY <2>1, <2>2, <2>3
<1>7. \A k \in DOMAIN r : n + 1 + k \in DOMAIN t
  BY <1>1, <1>2
<1>8. ASSUME NEW k \in DOMAIN r, NEW id \in CallId
      PROVE  /\ OnlyResults(r[k]) /\ ~HasCall(r[k], id)
             /\ HasResult(r[k], id) <=> ids[k] = id
  BY ResultsOfTools
\* A result answers its call: only results come between.
<1>9. ASSUME NEW k \in DOMAIN r
      PROVE  Answers(t, n + 1, n + 1 + k, ids[k])
  <2>1. ids[k] \in CallId
    OBVIOUS
  <2>2. HasCall(t[n + 1], ids[k]) /\ HasResult(t[n + 1 + k], ids[k])
    BY <1>4, <1>5, <1>8, <2>1
  <2>3. ASSUME NEW l \in n + 1 + 1 .. n + 1 + k PROVE OnlyResults(t[l])
    <3>1. l - (n + 1) \in DOMAIN r /\ l = n + 1 + (l - (n + 1))
      BY <1>1
    <3>. QED BY <1>5, <1>8, <2>1, <3>1
  <2>4. n + 1 < n + 1 + k
    BY <1>1
  <2>. QED BY <2>2, <2>3, <2>4 DEF Answers
\* What answered within s does so still.
<1>10. ASSUME NEW i \in DOMAIN s, NEW j \in DOMAIN s, NEW id \in CallId, Answers(s, i, j, id)
       PROVE  Answers(t, i, j, id)
  <2>1. t[i] = s[i] /\ t[j] = s[j]
    BY <1>3
  <2>2. \A l \in i + 1 .. j : l \in DOMAIN s /\ t[l] = s[l]
    BY <1>1, <1>3
  <2>. QED BY <1>10, <2>1, <2>2 DEF Answers
<1>11. DOMAIN s \subseteq DOMAIN t /\ n + 1 \in DOMAIN t
  BY <1>1, <1>2
<1>12. ASSUME NEW i \in DOMAIN t, NEW id \in CallId, HasCall(t[i], id)
       PROVE  \E j \in DOMAIN t : Answers(t, i, j, id)
  <2>1. CASE i \in DOMAIN s
    <3>1. PICK j \in DOMAIN s : Answers(s, i, j, id)
      BY <1>3, <1>12, <2>1 DEF Sendable
    <3>. QED BY <1>10, <1>11, <2>1, <3>1
  <2>2. CASE i = n + 1
    <3>1. PICK k \in DOMAIN ids : ids[k] = id
      BY <1>4, <1>12, <2>2
    <3>. QED BY <1>7, <1>9, <2>2, <3>1
  <2>3. CASE \E k \in DOMAIN r : i = n + 1 + k
    BY <1>5, <1>8, <1>12, <2>3
  <2>. QED BY <1>6, <2>1, <2>2, <2>3
<1>13. ASSUME NEW i \in DOMAIN t, NEW id \in CallId, HasResult(t[i], id)
       PROVE  \E j \in DOMAIN t : Answers(t, j, i, id)
  <2>1. CASE i \in DOMAIN s
    <3>1. PICK j \in DOMAIN s : Answers(s, j, i, id)
      BY <1>3, <1>13, <2>1 DEF Sendable
    <3>. QED BY <1>10, <1>11, <2>1, <3>1
  <2>2. CASE i = n + 1
    BY <1>4, <1>13, <2>2
  <2>3. CASE \E k \in DOMAIN r : i = n + 1 + k
    <3>1. PICK k \in DOMAIN r : i = n + 1 + k
      BY <2>3
    <3>2. ids[k] = id
      BY <1>5, <1>8, <1>13, <3>1
    <3>. QED BY <1>9, <1>11, <3>1, <3>2
  <2>. QED BY <1>6, <2>1, <2>2, <2>3
<1>. QED BY <1>12, <1>13 DEF Sendable, t

(* Two transcripts with no id in common, one behind the other. *)
LEMMA OnceBehind ==
  ASSUME NEW M, NEW s \in Seq(M), NEW r \in Seq(M), Once(s), Once(r),
         \A i \in DOMAIN s, j \in DOMAIN r, id \in CallId :
           /\ ~(HasCall(s[i], id) /\ HasCall(r[j], id))
           /\ ~(HasResult(s[i], id) /\ HasResult(r[j], id))
  PROVE  Once(s \o r)
<1>. DEFINE t == s \o r
            n == Len(s)
<1>1. /\ n \in Nat /\ DOMAIN s = 1 .. n /\ Len(r) \in Nat /\ DOMAIN r = 1 .. Len(r)
      /\ DOMAIN t = 1 .. n + Len(r)
      /\ \A i \in DOMAIN t : i <= n => t[i] = s[i]
      /\ \A i \in DOMAIN t : ~(i <= n) => t[i] = r[i - n]
  OBVIOUS
<1>. HIDE DEF t, n
<1>2. \A i \in DOMAIN t : /\ i <= n => i \in DOMAIN s
                          /\ ~(i <= n) => i - n \in DOMAIN r
  BY <1>1
<1>3. ASSUME NEW i \in DOMAIN t, NEW j \in DOMAIN t, NEW id \in CallId,
             \/ HasCall(t[i], id) /\ HasCall(t[j], id)
             \/ HasResult(t[i], id) /\ HasResult(t[j], id)
      PROVE  i = j
  <2>1. CASE i <= n /\ j <= n
    BY <1>1, <1>2, <1>3, <2>1 DEF Once, CalledOnce, AnsweredOnce
  <2>2. CASE ~(i <= n) /\ ~(j <= n)
    <3>1. i - n = j - n
      BY <1>1, <1>2, <1>3, <2>2 DEF Once, CalledOnce, AnsweredOnce
    <3>2. i \in Int /\ j \in Int /\ n \in Int
      BY <1>1
    <3>. QED BY <3>1, <3>2
  <2>3. CASE i <= n /\ ~(j <= n)
    BY <1>1, <1>2, <1>3, <2>3
  <2>4. CASE ~(i <= n) /\ j <= n
    BY <1>1, <1>2, <1>3, <2>4
  <2>. QED BY <2>1, <2>2, <2>3, <2>4
<1>4. Once(t)
  BY <1>3 DEF Once, CalledOnce, AnsweredOnce
<1>. QED BY <1>4 DEF t

=============================================================================
