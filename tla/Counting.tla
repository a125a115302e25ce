------------------------------- MODULE Counting -------------------------------
(***************************************************************************)
(* What the proofs about loops share: that a bounded set has a greatest    *)
(* and a least element, that what holds at the start of a count and is     *)
(* kept by it holds to its end, and that a loop which goes from state to   *)
(* state has a state after every turn.                                     *)
(***************************************************************************)
EXTENDS Integers, SequencesExt, Picks, FiniteSetTheorems, TLAPS

-----------------------------------------------------------------------------
(* Bounded sets *)

(* A set of naturals under a bound has a greatest element: of the intervals that
   begin past one, there is one with no smaller inside it. *)
LEMMA BoundedSetHasAGreatest ==
  ASSUME NEW n \in Nat, NEW S \in SUBSET (0 .. n), S # {}
  PROVE  \E last \in S : \A l \in S : l <= last
<1>. DEFINE Above == {k + 1 .. n : k \in S}
<1>1. Above # {}
  OBVIOUS
<1>2. Above \subseteq FiniteSubsetsOf(Int)
  <2>. SUFFICES ASSUME NEW k \in S PROVE k + 1 .. n \in FiniteSubsetsOf(Int)
    OBVIOUS
  <2>1. PICK m \in Int : m = k + 1
    OBVIOUS
  <2>2. IsFiniteSet(m .. n)
    BY FS_Interval
  <2>. QED BY <2>1, <2>2 DEF FiniteSubsetsOf
<1>. HIDE DEF Above
<1>3. PICK least \in Above : \A other \in Above : <<other, least>> \notin StrictSubsetOrdering(Int)
  <2>. DEFINE Less == StrictSubsetOrdering(Int)
              All  == FiniteSubsetsOf(Int)
  <2>1. IsWellFoundedOn(Less, All)
    BY FS_StrictSubsetOrderingWellFounded
  <2>2. Above \subseteq All
    BY <1>2
  <2>. HIDE DEF Less, All
  <2>3. \E least \in Above : \A other \in Above : ~(<<other, least>> \in Less)
    BY <1>1, <2>1, <2>2, WFMin
  <2>. QED BY <2>3 DEF Less
<1>4. PICK last \in S : least = last + 1 .. n
  BY DEF Above
<1>5. ASSUME NEW l \in S, last < l PROVE FALSE
  <2>1. l + 1 .. n \in Above
    BY DEF Above
  <2>2. l + 1 .. n \subseteq least /\ l \in least /\ l \notin l + 1 .. n
    BY <1>4, <1>5
  <2>3. <<l + 1 .. n, least>> \in StrictSubsetOrdering(Int)
    BY <1>2, <2>1, <2>2 DEF StrictSubsetOrdering, FiniteSubsetsOf
  <2>. QED BY <1>3, <2>1, <2>3
<1>6. \A l \in S : l <= last
  BY <1>5
<1>. QED BY <1>6

(* A set of positions has a least: what is left behind it is the most. *)
LEMMA BoundedSetHasALeast ==
  ASSUME NEW n \in Nat, NEW S \in SUBSET (0 .. n), S # {}
  PROVE  \E first \in S : \A i \in S : first <= i
<1>. DEFINE Behind == {n - k : k \in S}
<1>1. Behind \in SUBSET (0 .. n) /\ Behind # {}
  <2>1. \A k \in S : n - k \in 0 .. n
    OBVIOUS
  <2>2. Behind \subseteq 0 .. n
    BY <2>1
  <2>3. PICK k \in S : n - k \in Behind
    OBVIOUS
  <2>. QED BY <2>2, <2>3
<1>. HIDE DEF Behind
<1>2. PICK most \in Behind : \A b \in Behind : b <= most
  BY <1>1, BoundedSetHasAGreatest
<1>3. PICK first \in S : most = n - first
  BY DEF Behind
<1>4. ASSUME NEW i \in S PROVE first <= i
  <2>1. n - i <= n - first
    BY <1>2, <1>3 DEF Behind
  <2>2. i \in Int /\ first \in Int
    OBVIOUS
  <2>. QED BY <2>1, <2>2
<1>. QED BY <1>4

-----------------------------------------------------------------------------
(* Counts and loops *)

(* What holds of nought, and of each number if of the one before, holds of all. *)
LEMMA CountingUp ==
  ASSUME NEW n \in Nat, NEW Good, 0 \in Good,
         \A k \in 1 .. n : k - 1 \in Good => k \in Good
  PROVE  \A k \in 0 .. n : k \in Good
<1>. DEFINE Bad == {k \in 0 .. n : k \notin Good}
<1>. SUFFICES ASSUME Bad # {} PROVE FALSE
  OBVIOUS
<1>1. Bad \in SUBSET (0 .. n)
  OBVIOUS
<1>2. PICK first \in Bad : \A i \in Bad : first <= i
  <2>. HIDE DEF Bad
  <2>. QED BY <1>1, BoundedSetHasALeast
<1>3. first \in 0 .. n /\ first \notin Good /\ first # 0
  OBVIOUS
<1>4. first - 1 \in 0 .. n /\ first \in 1 .. n /\ ~(first <= first - 1)
  BY <1>3
<1>5. first - 1 \in Good
  BY <1>2, <1>4
<1>. QED BY <1>3, <1>4, <1>5

\* f holds the states of a loop over S whose k-th turn is turn[k].
StatesOf(f, n, S, start, turn) ==
  /\ f \in [0 .. n -> S]
  /\ f[0] = start
  /\ \A k \in 1 .. n : f[k] = turn[k][f[k - 1]]

(* A loop of n turns has a state before the first and after each of them. *)
LEMMA LoopHasStates ==
  ASSUME NEW n \in Nat, NEW S, NEW start \in S, NEW turn \in [1 .. n -> [S -> S]]
  PROVE  \E f : StatesOf(f, n, S, start, turn)
<1>. USE DEF StatesOf
<1>. DEFINE Runs(f, m) == StatesOf(f, m, S, start, turn)
            Good       == {m \in 0 .. n : \E f : Runs(f, m)}
<1>1. 0 \in Good
  <2>. DEFINE z == [k \in 0 .. 0 |-> start]
  <2>1. z \in [0 .. 0 -> S] /\ z[0] = start /\ 1 .. 0 = {}
    OBVIOUS
  <2>2. Runs(z, 0)
    BY <2>1
  <2>. HIDE DEF z, Runs
  <2>. QED BY <2>2
<1>2. ASSUME NEW m \in 1 .. n, m - 1 \in Good PROVE m \in Good
  <2>1. PICK f : Runs(f, m - 1)
    BY <1>2
  <2>2. /\ m \in Nat /\ m \in 0 .. m /\ 0 \in 0 .. m /\ 0 # m /\ m - 1 \in 0 .. m - 1
        /\ \A k \in 0 .. m : k # m => k \in 0 .. m - 1
        /\ \A k \in 1 .. m : k \in 0 .. m /\ k - 1 \in 0 .. m - 1 /\ k - 1 \in 0 .. m
                           /\ k - 1 # m /\ (k # m => k \in 1 .. m - 1)
    OBVIOUS
  <2>3. turn[m] \in [S -> S] /\ f[m - 1] \in S
    BY <2>1, <2>2
  <2>4. turn[m][f[m - 1]] \in S
    BY <2>3
  <2>. DEFINE g == [k \in 0 .. m |-> IF k = m THEN turn[m][f[m - 1]] ELSE f[k]]
  <2>5. g \in [0 .. m -> S]
    BY <2>1, <2>2, <2>4
  <2>6. g[0] = start
    BY <2>1, <2>2
  <2>7. ASSUME NEW k \in 1 .. m PROVE g[k] = turn[k][g[k - 1]]
    <3>1. g[k - 1] = f[k - 1]
      BY <2>2
    <3>2. CASE k = m
      BY <2>2, <3>1, <3>2
    <3>3. CASE k # m
      <4>1. g[k] = f[k] /\ f[k] = turn[k][f[k - 1]]
        BY <2>1, <2>2, <3>3
      <4>. QED BY <3>1, <4>1
    <3>. QED BY <3>2, <3>3
  <2>. HIDE DEF g
  <2>8. Runs(g, m)
    BY <2>5, <2>6, <2>7
  <2>. QED BY <2>8
<1>3. n \in Good
  <2>. HIDE DEF Good
  <2>1. \A k \in 1 .. n : k - 1 \in Good => k \in Good
    BY <1>2
  <2>2. \A k \in 0 .. n : k \in Good
    BY <1>1, <2>1, CountingUp
  <2>. QED BY <2>2
<1>. QED BY <1>3

(* Numbers can be added up. *)
LEMMA SumsExist ==
  ASSUME NEW n \in Nat, NEW w \in [1 .. n -> Nat]
  PROVE  \E c \in [0 .. n -> Nat] :
           c[0] = 0 /\ \A i \in 1 .. n : c[i] = c[i - 1] + w[i]
<1>. DEFINE turn == [k \in 1 .. n |-> [x \in Nat |-> x + w[k]]]
<1>1. PICK S : S = Nat
  OBVIOUS
<1>2. 0 \in S /\ turn \in [1 .. n -> [S -> S]]
  BY <1>1
<1>3. PICK c : StatesOf(c, n, S, 0, turn)
  <2>. HIDE DEF turn
  <2>. QED BY <1>2, LoopHasStates
<1>4. \A k \in 1 .. n : k - 1 \in 0 .. n
  OBVIOUS
<1>5. c \in [0 .. n -> Nat] /\ c[0] = 0
  BY <1>1, <1>3 DEF StatesOf
<1>6. \A k \in 1 .. n : c[k] = c[k - 1] + w[k]
  BY <1>3, <1>4, <1>5 DEF StatesOf
<1>. QED BY <1>5, <1>6

-----------------------------------------------------------------------------
(* Sequences put end to end *)

\* g[k] is the first k sequences of s, end to end.
EndToEnd(g, s, S) ==
  /\ g \in [0 .. Len(s) -> Seq(S)]
  /\ g[0] = <<>>
  /\ \A k \in 1 .. Len(s) : g[k] = g[k - 1] \o s[k]

LEMMA FlattenIs ==
  ASSUME NEW S, NEW s \in Seq(Seq(S)), NEW g, EndToEnd(g, s, S)
  PROVE  FlattenSeq(s) = g[Len(s)]
<1>. DEFINE n     == Len(s)
            Is(f) == f = [i \in 1 .. n |-> IF i = 1 THEN s[i] ELSE f[i - 1] \o s[i]]
            flat  == CHOOSE f : Is(f)
            w     == [i \in 1 .. n |-> g[i]]
            Good  == {k \in 0 .. n : k = 0 \/ flat[k] = g[k]}
<1>1. n \in Nat /\ \A k \in 1 .. n : s[k] \in Seq(S)
  OBVIOUS
<1>2. g[0] = <<>> /\ \A k \in 1 .. n : g[k] = g[k - 1] \o s[k] /\ g[k] \in Seq(S)
  <2>1. g \in [0 .. n -> Seq(S)] /\ g[0] = <<>> /\ \A k \in 1 .. n : g[k] = g[k - 1] \o s[k]
    BY DEF EndToEnd
  <2>. HIDE DEF n
  <2>2. \A k \in 1 .. n : k \in 0 .. n
    BY <1>1
  <2>3. \A k \in 1 .. n : g[k] \in Seq(S)
    BY <2>1, <2>2
  <2>. QED BY <2>1, <2>3
<1>3. CASE n = 0
  <2>1. s = <<>>
    BY <1>3
  <2>. QED BY <1>2, <1>3, <2>1 DEF FlattenSeq
<1>4. CASE n # 0
  <2>1. FlattenSeq(s) = flat[n]
    BY <1>4 DEF FlattenSeq
  <2>. HIDE DEF n
  <2>2. \A k \in 1 .. n : (k # 1 => k - 1 \in 1 .. n) /\ k \in 0 .. n /\ k # 0
    BY <1>1
  <2>3. Is(w)
    <3>1. ASSUME NEW k \in 1 .. n
          PROVE  w[k] = IF k = 1 THEN s[k] ELSE w[k - 1] \o s[k]
      <4>1. CASE k = 1
        <5>1. k - 1 = 0 /\ s[k] \in Seq(S)
          BY <1>1, <4>1
        <5>2. g[k] = g[k - 1] \o s[k]
          BY <1>2
        <5>3. g[k] = <<>> \o s[k]
          BY <1>2, <5>1, <5>2
        <5>. QED BY <4>1, <5>1, <5>3
      <4>2. CASE k # 1
        BY <1>2, <2>2, <4>2
      <4>. QED BY <4>1, <4>2
    <3>. QED BY <3>1
  <2>4. Is(flat)
    <3>. HIDE DEF Is, w
    <3>. QED BY <2>3
  <2>. HIDE DEF flat
  <2>5. \A k \in 1 .. n : flat[k] = IF k = 1 THEN s[k] ELSE flat[k - 1] \o s[k]
    BY <2>4
  <2>6. 0 \in Good
    BY <1>1
  <2>7. ASSUME NEW k \in 1 .. n, k - 1 \in Good PROVE k \in Good
    <3>1. CASE k = 1
      <4>1. k - 1 = 0 /\ s[k] \in Seq(S)
        BY <1>1, <3>1
      <4>2. g[k] = g[k - 1] \o s[k]
        BY <1>2
      <4>3. g[k] = <<>> \o s[k]
        BY <1>2, <4>1, <4>2
      <4>. QED BY <2>2, <2>5, <3>1, <4>1, <4>3
    <3>2. CASE k # 1
      <4>1. k - 1 # 0 /\ flat[k - 1] = g[k - 1]
        BY <2>7, <3>2
      <4>. QED BY <1>2, <2>2, <2>5, <3>2, <4>1
    <3>. QED BY <3>1, <3>2
  <2>8. \A k \in 1 .. n : k - 1 \in Good => k \in Good
    BY <2>7
  <2>9. \A k \in 0 .. n : k \in Good
    <3>. HIDE DEF Good
    <3>. QED BY <1>1, <2>6, <2>8, CountingUp
  <2>10. n \in 0 .. n
    BY <1>1
  <2>. QED BY <1>4, <2>1, <2>9, <2>10 DEF n
<1>. QED BY <1>3, <1>4

LEMMA FlattenRuns ==
  ASSUME NEW S, NEW s \in Seq(Seq(S))
  PROVE  \E g : EndToEnd(g, s, S)
<1>. DEFINE n    == Len(s)
            turn == [k \in 1 .. n |-> [x \in Seq(S) |-> x \o s[k]]]
<1>1. n \in Nat /\ \A k \in 1 .. n : s[k] \in Seq(S)
  OBVIOUS
<1>2. PICK Q : Q = Seq(S)
  OBVIOUS
<1>3. <<>> \in Q /\ turn \in [1 .. n -> [Q -> Q]]
  BY <1>1, <1>2
<1>4. PICK g : StatesOf(g, n, Q, <<>>, turn)
  <2>. HIDE DEF turn, n
  <2>. QED BY <1>1, <1>3, LoopHasStates
<1>5. g \in [0 .. n -> Q] /\ g[0] = <<>> /\ \A k \in 1 .. n : g[k] = turn[k][g[k - 1]]
  BY <1>4 DEF StatesOf
<1>6. \A k \in 1 .. n : k - 1 \in 0 .. n
  BY <1>1
<1>7. \A k \in 1 .. n : g[k] = g[k - 1] \o s[k]
  BY <1>2, <1>5, <1>6
<1>. QED BY <1>2, <1>5, <1>7 DEF EndToEnd

(* Flattening takes one more sequence to the end of what it made. *)
LEMMA FlattenAppended ==
  ASSUME NEW S, NEW s \in Seq(Seq(S)), NEW x \in Seq(S)
  PROVE  /\ FlattenSeq(s) \in Seq(S)
         /\ FlattenSeq(Append(s, x)) = FlattenSeq(s) \o x
<1>. DEFINE n == Len(s)
            t == Append(s, x)
<1>1. /\ n \in Nat /\ t \in Seq(Seq(S)) /\ Len(t) = n + 1
      /\ \A k \in 1 .. n : t[k] = s[k]
      /\ t[n + 1] = x
  OBVIOUS
<1>2. PICK g : EndToEnd(g, s, S)
  BY FlattenRuns
<1>3. FlattenSeq(s) = g[n]
  BY <1>2, FlattenIs
<1>4. /\ g \in [0 .. n -> Seq(S)] /\ g[0] = <<>>
      /\ \A k \in 1 .. n : g[k] = g[k - 1] \o s[k]
  BY <1>2 DEF EndToEnd
<1>. DEFINE w == [k \in 0 .. n + 1 |-> IF k = n + 1 THEN g[n] \o x ELSE g[k]]
<1>. HIDE DEF n, t
<1>5. /\ n \in 0 .. n /\ 0 \in 0 .. n /\ 0 # n + 1 /\ 0 \in 0 .. n + 1 /\ n + 1 \in 0 .. n + 1
      /\ \A k \in 0 .. n + 1 : k # n + 1 => k \in 0 .. n
      /\ \A k \in 1 .. n + 1 : /\ k \in 0 .. n + 1 /\ k - 1 \in 0 .. n + 1 /\ k - 1 # n + 1
                               /\ k - 1 \in 0 .. n /\ (k # n + 1 => k \in 1 .. n)
      /\ n + 1 - 1 = n
  BY <1>1
<1>6. w \in [0 .. n + 1 -> Seq(S)]
  <2>1. g[n] \o x \in Seq(S)
    BY <1>4, <1>5
  <2>. QED BY <1>4, <1>5, <2>1
<1>7. w[0] = <<>> /\ w[n + 1] = g[n] \o x
  BY <1>4, <1>5
<1>8. ASSUME NEW k \in 1 .. n + 1 PROVE w[k] = w[k - 1] \o t[k]
  <2>1. w[k - 1] = g[k - 1]
    BY <1>5
  <2>2. CASE k = n + 1
    <3>1. k - 1 = n /\ t[k] = x /\ w[k] = g[n] \o x
      BY <1>1, <1>5, <1>7, <2>2
    <3>2. w[k - 1] = g[n]
      BY <2>1, <3>1
    <3>. QED BY <3>1, <3>2
  <2>3. CASE k # n + 1
    <3>1. k \in 1 .. n /\ w[k] = g[k] /\ t[k] = s[k]
      BY <1>1, <1>5, <2>3
    <3>. QED BY <1>4, <2>1, <3>1
  <2>. QED BY <2>2, <2>3
<1>9. EndToEnd(w, t, S)
  <2>. HIDE DEF w
  <2>. QED BY <1>1, <1>6, <1>7, <1>8 DEF EndToEnd
<1>10. FlattenSeq(t) = w[n + 1]
  <2>. HIDE DEF w
  <2>. QED BY <1>1, <1>9, FlattenIs
<1>. QED BY <1>3, <1>4, <1>5, <1>7, <1>10 DEF t

-----------------------------------------------------------------------------
(* What is kept of a sequence *)

\* How many of the positions in S are not after i.
UpTo(S, i) == Cardinality({j \in S : j <= i})

(* The count of positions up to one tells it from the others, and grows. *)
LEMMA CountsGrow ==
  ASSUME NEW S \in SUBSET Int, IsFiniteSet(S)
  PROVE  /\ Cardinality(S) \in Nat
         /\ \A i \in S : UpTo(S, i) \in 1 .. Cardinality(S)
         /\ \A i, j \in S : i < j => UpTo(S, i) < UpTo(S, j)
<1>1. Cardinality(S) \in Nat
  BY FS_CardinalityType
<1>2. ASSUME NEW i \in S
      PROVE  /\ IsFiniteSet({j \in S : j <= i})
             /\ UpTo(S, i) \in Nat /\ UpTo(S, i) <= Cardinality(S) /\ UpTo(S, i) # 0
  <2>1. /\ IsFiniteSet({j \in S : j <= i})
        /\ Cardinality({j \in S : j <= i}) <= Cardinality(S)
    BY FS_Subset
  <2>2. i \in {j \in S : j <= i}
    OBVIOUS
  <2>. QED BY <2>1, <2>2, FS_CardinalityType, FS_EmptySet DEF UpTo
<1>3. ASSUME NEW i \in S, NEW j \in S, i < j
      PROVE  UpTo(S, i) < UpTo(S, j)
  <2>. DEFINE A == {k \in S : k <= i}
              B == {k \in S : k <= j}
  <2>1. A \subseteq B /\ j \in B /\ j \notin A
    <3>1. i \in Int /\ j \in Int /\ i < j
      BY <1>3
    <3>2. ASSUME NEW k \in S, k <= i PROVE k <= j
      <4>1. k \in Int
        OBVIOUS
      <4>. QED BY <3>1, <3>2, <4>1
    <3>3. A \subseteq B
      BY <3>2
    <3>4. j \in B /\ j \notin A
      <4>1. j <= j /\ ~(j <= i)
        BY <3>1
      <4>. QED BY <4>1
    <3>. QED BY <3>3, <3>4
  <2>2. IsFiniteSet(B) /\ Cardinality(A) \in Nat /\ Cardinality(B) \in Nat
    BY <1>2 DEF UpTo
  <2>. HIDE DEF A, B
  <2>3. Cardinality(A) <= Cardinality(B) /\ Cardinality(A) # Cardinality(B)
    BY <2>1, <2>2, FS_Subset
  <2>4. Cardinality(A) < Cardinality(B)
    BY <2>2, <2>3
  <2>. QED BY <2>4 DEF UpTo, A, B
<1>4. ASSUME NEW i \in S PROVE UpTo(S, i) \in 1 .. Cardinality(S)
  <2>1. UpTo(S, i) \in Nat /\ UpTo(S, i) <= Cardinality(S) /\ UpTo(S, i) # 0
    BY <1>2
  <2>. QED BY <1>1, <2>1
<1>. QED BY <1>1, <1>3, <1>4

(* So each count is that of exactly one position: there are as many counts as
   positions. *)
LEMMA NthIsThere ==
  ASSUME NEW S \in SUBSET Int, IsFiniteSet(S)
  PROVE  /\ \A k \in 1 .. Cardinality(S) : Nth(S, k) \in S /\ UpTo(S, Nth(S, k)) = k
         /\ \A i \in S : Nth(S, UpTo(S, i)) = i
         /\ \A k, l \in 1 .. Cardinality(S) : k < l <=> Nth(S, k) < Nth(S, l)
<1>. DEFINE n == Cardinality(S)
            count == [i \in S |-> UpTo(S, i)]
<1>1. n \in Nat
  BY CountsGrow
<1>2. IsFiniteSet(1 .. n) /\ Cardinality(1 .. n) = n
  <2>. HIDE DEF n
  <2>. QED BY <1>1, FS_Interval
<1>3. \A i, j \in S : UpTo(S, i) = UpTo(S, j) => i = j
  <2>. SUFFICES ASSUME NEW i \in S, NEW j \in S, i # j PROVE UpTo(S, i) # UpTo(S, j)
    OBVIOUS
  <2>1. i < j \/ j < i
    OBVIOUS
  <2>2. UpTo(S, i) \in Int /\ UpTo(S, j) \in Int
    BY CountsGrow
  <2>. QED BY <2>1, <2>2, CountsGrow
<1>4. count \in Injection(S, 1 .. n)
  <2>1. count \in [S -> 1 .. n]
    BY CountsGrow
  <2>. QED BY <1>3, <2>1 DEF Injection, IsInjective
<1>5. count \in Surjection(S, 1 .. n)
  <2>. HIDE DEF count
  <2>. QED BY <1>2, <1>4, FS_Injection
<1>6. \A k \in 1 .. n : \E i \in S : UpTo(S, i) = k
  BY <1>5 DEF Surjection
<1>7. \A k \in 1 .. n : Nth(S, k) \in S /\ UpTo(S, Nth(S, k)) = k
  BY <1>6 DEF Nth, UpTo
<1>8. \A i \in S : Nth(S, UpTo(S, i)) = i
  BY <1>3, <1>7, CountsGrow
<1>9. ASSUME NEW k \in 1 .. n, NEW l \in 1 .. n
      PROVE  k < l <=> Nth(S, k) < Nth(S, l)
  <2>1. Nth(S, k) \in S /\ Nth(S, l) \in S /\ Nth(S, k) \in Int /\ Nth(S, l) \in Int
    BY <1>7
  <2>2. \/ Nth(S, k) < Nth(S, l) \/ Nth(S, k) = Nth(S, l) \/ Nth(S, l) < Nth(S, k)
    BY <2>1
  <2>3. /\ Nth(S, k) < Nth(S, l) => UpTo(S, Nth(S, k)) < UpTo(S, Nth(S, l))
        /\ Nth(S, l) < Nth(S, k) => UpTo(S, Nth(S, l)) < UpTo(S, Nth(S, k))
    BY <2>1, CountsGrow
  <2>4. UpTo(S, Nth(S, k)) = k /\ UpTo(S, Nth(S, l)) = l
    BY <1>7
  <2>. QED BY <2>1, <2>2, <2>3, <2>4
<1>. QED BY <1>7, <1>8, <1>9

(* What is picked of a sequence is a sequence: its entries are those at the
   positions picked, each once, and in their order. *)
LEMMA Picked ==
  ASSUME NEW M, NEW s \in Seq(M), NEW S \in SUBSET DOMAIN s
  PROVE  /\ Pick(s, S) \in Seq(M)
         /\ DOMAIN Pick(s, S) = 1 .. Len(Pick(s, S))
         /\ \A k \in DOMAIN Pick(s, S) :
              Nth(S, k) \in S /\ Pick(s, S)[k] = s[Nth(S, k)]
         /\ \A i \in S : \E k \in DOMAIN Pick(s, S) : Nth(S, k) = i
         /\ \A k, l \in DOMAIN Pick(s, S) : k < l <=> Nth(S, k) < Nth(S, l)
<1>1. S \in SUBSET Int /\ IsFiniteSet(S)
  <2>1. DOMAIN s = 1 .. Len(s) /\ Len(s) \in Nat
    OBVIOUS
  <2>2. IsFiniteSet(1 .. Len(s))
    BY <2>1, FS_Interval
  <2>. QED BY <2>1, <2>2, FS_Subset
<1>. DEFINE n == Cardinality(S)
<1>2. n \in Nat
  BY <1>1, CountsGrow
<1>3. \A k \in 1 .. n : Nth(S, k) \in S
  BY <1>1, NthIsThere
<1>4. Pick(s, S) = [k \in 1 .. n |-> s[Nth(S, k)]]
  BY DEF Pick
<1>. HIDE DEF n
<1>5. Pick(s, S) \in [1 .. n -> M]
  <2>1. \A k \in 1 .. n : s[Nth(S, k)] \in M
    BY <1>3
  <2>. QED BY <1>4, <2>1
<1>6. Pick(s, S) \in Seq(M) /\ Len(Pick(s, S)) = n /\ DOMAIN Pick(s, S) = 1 .. n
  BY <1>2, <1>5
<1>7. \A i \in S : UpTo(S, i) \in 1 .. n /\ Nth(S, UpTo(S, i)) = i
  BY <1>1, CountsGrow, NthIsThere DEF n
<1>8. \A k, l \in 1 .. n : k < l <=> Nth(S, k) < Nth(S, l)
  BY <1>1, NthIsThere DEF n
<1>. QED BY <1>3, <1>4, <1>6, <1>7, <1>8

(* To pick every position is to keep the sequence. *)
LEMMA PickedWhole ==
  ASSUME NEW M, NEW s \in Seq(M)
  PROVE  Pick(s, DOMAIN s) = s
<1>1. DOMAIN s = 1 .. Len(s) /\ Len(s) \in Nat
  OBVIOUS
<1>2. PICK n \in Nat : n = Len(s)
  BY <1>1
<1>3. IsFiniteSet(1 .. n) /\ Cardinality(1 .. n) = n
  BY FS_Interval
<1>4. ASSUME NEW i \in 1 .. n PROVE UpTo(1 .. n, i) = i
  <2>1. {j \in 1 .. n : j <= i} = 1 .. i
    OBVIOUS
  <2>2. Cardinality(1 .. i) = i
    BY FS_Interval
  <2>. QED BY <2>1, <2>2 DEF UpTo
<1>5. \A k \in 1 .. n : Nth(1 .. n, k) = k
  BY <1>3, <1>4, NthIsThere
<1>. QED BY <1>1, <1>2, <1>3, <1>5 DEF Pick

(* The positions of S that come last in U have the last ranks of U. *)
LEMMA LastRanks ==
  ASSUME NEW U \in SUBSET Int, IsFiniteSet(U), NEW S \in SUBSET U,
         \A i \in S, j \in U : i < j => j \in S
  PROVE  /\ Cardinality(U) - Cardinality(S) \in Nat
         /\ Cardinality(S) \in Nat
         /\ \A i \in S : UpTo(U, i) = Cardinality(U) - Cardinality(S) + UpTo(S, i)
<1>. DEFINE D == U \ S
<1>1. IsFiniteSet(S) /\ IsFiniteSet(D)
  BY FS_Subset
<1>2. /\ Cardinality(S) \in Nat /\ Cardinality(D) \in Nat /\ Cardinality(U) \in Nat
  BY <1>1, FS_CardinalityType
<1>3. S \cap D = {} /\ S \cup D = U
  OBVIOUS
<1>4. Cardinality(U) = Cardinality(S) + Cardinality(D)
  <2>. HIDE DEF D
  <2>1. S \cap D = {} /\ Cardinality({}) = 0
    BY <1>3, FS_EmptySet
  <2>2. Cardinality(S \cup D) = Cardinality(S) + Cardinality(D) - Cardinality(S \cap D)
    BY <1>1, FS_Union
  <2>3. Cardinality(S \cup D) = Cardinality(U) /\ Cardinality(S \cap D) = 0
    BY <1>3, <2>1, Zenon
  <2>. QED BY <1>2, <2>2, <2>3
<1>5. ASSUME NEW i \in S
      PROVE  UpTo(U, i) = Cardinality(D) + UpTo(S, i)
  <2>. DEFINE E == {j \in S : j <= i}
  <2>1. {j \in U : j <= i} = E \cup D
    <3>1. ASSUME NEW j \in D PROVE j <= i
      <4>1. i \in Int /\ j \in Int /\ ~(i < j)
        OBVIOUS
      <4>. QED BY <4>1
    <3>. QED BY <3>1
  <2>2. E \cap D = {}
    OBVIOUS
  <2>3. E \subseteq S
    OBVIOUS
  <2>4. UpTo(S, i) = Cardinality(E)
    BY DEF UpTo
  <2>. HIDE DEF E, D
  <2>5. IsFiniteSet(E)
    BY <1>1, <2>3, FS_Subset
  <2>6. Cardinality(E) \in Nat
    BY <2>5, FS_CardinalityType
  <2>7. Cardinality(E \cup D) = Cardinality(E) + Cardinality(D) - Cardinality(E \cap D)
    BY <1>1, <2>5, FS_Union
  <2>8. Cardinality(E \cap D) = 0
    BY <2>2, FS_EmptySet
  <2>9. UpTo(U, i) = Cardinality(E \cup D)
    BY <2>1 DEF UpTo
  <2>. QED BY <1>2, <2>4, <2>6, <2>7, <2>8, <2>9
<1>. HIDE DEF D
<1>6. Cardinality(U) - Cardinality(S) = Cardinality(D)
  BY <1>2, <1>4
<1>. QED BY <1>2, <1>5, <1>6

(* So what s has there are its last picks. *)
LEMMA LastPicks ==
  ASSUME NEW M, NEW s \in Seq(M), NEW U \in SUBSET DOMAIN s, NEW S \in SUBSET U,
         \A i \in S, j \in U : i < j => j \in S
  PROVE  \E d \in Nat : /\ Len(Pick(s, U)) = d + Len(Pick(s, S))
                        /\ \A k \in DOMAIN Pick(s, S) : Pick(s, S)[k] = Pick(s, U)[d + k]
<1>. DEFINE d == Cardinality(U) - Cardinality(S)
<1>1. DOMAIN s = 1 .. Len(s) /\ Len(s) \in Nat
  OBVIOUS
<1>2. IsFiniteSet(DOMAIN s) /\ DOMAIN s \subseteq Int
  BY <1>1, FS_Interval
<1>3. IsFiniteSet(U) /\ IsFiniteSet(S) /\ U \subseteq Int /\ S \subseteq Int
  BY <1>2, FS_Subset
<1>4. /\ d \in Nat /\ Cardinality(S) \in Nat
      /\ \A i \in S : UpTo(U, i) = d + UpTo(S, i)
  BY <1>3, LastRanks
<1>5. Cardinality(U) \in Nat
  BY <1>3, FS_CardinalityType
<1>6. DOMAIN Pick(s, U) = 1 .. Cardinality(U) /\ DOMAIN Pick(s, S) = 1 .. Cardinality(S)
  BY DEF Pick
<1>7. Pick(s, U) \in Seq(M) /\ Pick(s, S) \in Seq(M)
  BY Picked
<1>8. Len(Pick(s, U)) = Cardinality(U) /\ Len(Pick(s, S)) = Cardinality(S)
  <2>1. \A x \in Seq(M), n \in Nat : DOMAIN x = 1 .. n => Len(x) = n
    OBVIOUS
  <2>. QED BY <1>4, <1>5, <1>6, <1>7, <2>1
<1>9. ASSUME NEW k \in 1 .. Cardinality(S)
      PROVE  Pick(s, S)[k] = Pick(s, U)[d + k]
  <2>1. Nth(S, k) \in S /\ UpTo(S, Nth(S, k)) = k
    BY <1>3, NthIsThere
  <2>2. UpTo(U, Nth(S, k)) = d + k
    BY <1>4, <2>1
  <2>3. Nth(U, UpTo(U, Nth(S, k))) = Nth(S, k)
    BY <1>3, <2>1, NthIsThere
  <2>4. Nth(U, d + k) = Nth(S, k)
    BY <2>2, <2>3
  <2>5. d + k \in 1 .. Cardinality(U)
    BY <1>4, <1>5
  <2>. QED BY <2>4, <2>5 DEF Pick
<1>10. Cardinality(U) = d + Cardinality(S)
  BY <1>4, <1>5
<1>. HIDE DEF d
<1>. QED BY <1>4, <1>6, <1>8, <1>9, <1>10

(* The order alone says which position is which. *)
LEMMA NthInOrder ==
  ASSUME NEW S \in SUBSET Int, NEW n \in Nat, NEW f \in [1 .. n -> S],
         \A k, l \in 1 .. n : k < l => f[k] < f[l],
         \A i \in S : \E k \in 1 .. n : f[k] = i
  PROVE  /\ Cardinality(S) = n
         /\ \A k \in 1 .. n : Nth(S, k) = f[k]
<1>1. \A k, l \in 1 .. n : f[k] <= f[l] => k <= l
  <2>1. \A k \in 1 .. n : f[k] \in Int
    OBVIOUS
  <2>. QED BY <2>1
<1>2. f \in Bijection(1 .. n, S)
  <2>1. \A k, l \in 1 .. n : f[k] = f[l] => k = l
    <3>. SUFFICES ASSUME NEW k \in 1 .. n, NEW l \in 1 .. n, f[k] = f[l], k # l
                  PROVE  FALSE
      OBVIOUS
    <3>1. k < l \/ l < k
      OBVIOUS
    <3>2. f[k] < f[l] \/ f[l] < f[k]
      BY <3>1
    <3>3. f[k] \in Int /\ f[l] \in Int
      OBVIOUS
    <3>. QED BY <3>2, <3>3
  <2>. QED BY <2>1 DEF Bijection, Injection, Surjection, IsInjective
<1>3. IsFiniteSet(1 .. n) /\ Cardinality(1 .. n) = n
  <2>1. 1 \in Int /\ n \in Int
    OBVIOUS
  <2>2. IsFiniteSet(1 .. n) /\ Cardinality(1 .. n) = IF 1 > n THEN 0 ELSE n - 1 + 1
    BY <2>1, FS_Interval
  <2>. QED BY <2>2
<1>4. IsFiniteSet(S) /\ Cardinality(S) = n
  <2>1. ExistsBijection(1 .. n, S)
    BY <1>2 DEF ExistsBijection
  <2>. QED BY <1>3, <2>1, FS_Bijection
<1>5. ASSUME NEW k \in 1 .. n
      PROVE  UpTo(S, f[k]) = k
  <2>. DEFINE T == {j \in S : j <= f[k]}
              g == [l \in 1 .. k |-> f[l]]
  <2>1. \A l \in 1 .. k : l \in 1 .. n /\ f[l] \in T
    <3>. SUFFICES ASSUME NEW l \in 1 .. k PROVE l \in 1 .. n /\ f[l] \in T
      OBVIOUS
    <3>1. l \in 1 .. n /\ (l = k \/ l < k)
      OBVIOUS
    <3>2. f[l] \in Int /\ f[k] \in Int
      BY <3>1
    <3>3. f[l] <= f[k]
      BY <3>1, <3>2
    <3>. QED BY <3>1, <3>3
  <2>2. \A j \in T : \E l \in 1 .. k : f[l] = j
    <3>. SUFFICES ASSUME NEW j \in T PROVE \E l \in 1 .. k : f[l] = j
      OBVIOUS
    <3>1. PICK l \in 1 .. n : f[l] = j
      OBVIOUS
    <3>2. l <= k
      BY <1>1, <3>1
    <3>. QED BY <3>1, <3>2
  <2>3. \A x, y \in 1 .. k : f[x] = f[y] => x = y
    BY <1>2, <2>1 DEF Bijection, Injection, IsInjective
  <2>. HIDE DEF T
  <2>4. g \in Bijection(1 .. k, T)
    BY <2>1, <2>2, <2>3 DEF Bijection, Injection, Surjection, IsInjective
  <2>5. IsFiniteSet(1 .. k) /\ Cardinality(1 .. k) = k
    <3>1. 1 \in Int /\ k \in Int
      OBVIOUS
    <3>2. IsFiniteSet(1 .. k) /\ Cardinality(1 .. k) = IF 1 > k THEN 0 ELSE k - 1 + 1
      BY <3>1, FS_Interval
    <3>. QED BY <3>2
  <2>6. ExistsBijection(1 .. k, T)
    BY <2>4 DEF ExistsBijection
  <2>7. Cardinality(T) = k
    BY <2>5, <2>6, FS_Bijection
  <2>. QED BY <2>7 DEF UpTo, T
<1>6. ASSUME NEW k \in 1 .. n
      PROVE  Nth(S, k) = f[k]
  <2>1. f[k] \in S
    OBVIOUS
  <2>2. Nth(S, UpTo(S, f[k])) = f[k]
    BY <1>4, <2>1, NthIsThere
  <2>. QED BY <1>5, <2>2
<1>. QED BY <1>4, <1>6

-----------------------------------------------------------------------------
(* Picks in their order *)

\* v holds the entries of s at the positions in S, in their order.
InOrder(v, s, S) ==
  \E f \in [DOMAIN v -> S] :
    /\ \A k \in DOMAIN v : v[k] = s[f[k]]
    /\ \A k, l \in DOMAIN v : k < l => f[k] < f[l]
    /\ \A i \in S : \E k \in DOMAIN v : f[k] = i

(* There is one such sequence, and that is what is picked. *)
LEMMA PickIsInOrder ==
  ASSUME NEW M, NEW s \in Seq(M), NEW S \in SUBSET DOMAIN s
  PROVE  InOrder(Pick(s, S), s, S)
<1>. DEFINE f == [k \in DOMAIN Pick(s, S) |-> Nth(S, k)]
<1>1. /\ \A k \in DOMAIN Pick(s, S) : Nth(S, k) \in S /\ Pick(s, S)[k] = s[Nth(S, k)]
      /\ \A i \in S : \E k \in DOMAIN Pick(s, S) : Nth(S, k) = i
      /\ \A k, l \in DOMAIN Pick(s, S) : k < l <=> Nth(S, k) < Nth(S, l)
  BY Picked
<1>2. f \in [DOMAIN Pick(s, S) -> S] /\ \A k \in DOMAIN Pick(s, S) : f[k] = Nth(S, k)
  BY <1>1
<1>. HIDE DEF f
<1>. QED BY <1>1, <1>2 DEF InOrder

LEMMA InOrderIsPick ==
  ASSUME NEW M, NEW s \in Seq(M), NEW S \in SUBSET DOMAIN s,
         NEW N, NEW v \in Seq(N), InOrder(v, s, S)
  PROVE  v = Pick(s, S)
<1>1. PICK f \in [DOMAIN v -> S] :
        /\ \A k \in DOMAIN v : v[k] = s[f[k]]
        /\ \A k, l \in DOMAIN v : k < l => f[k] < f[l]
        /\ \A i \in S : \E k \in DOMAIN v : f[k] = i
  BY DEF InOrder
<1>2. PICK n \in Nat : n = Len(v)
  OBVIOUS
<1>3. DOMAIN v = 1 .. n /\ S \in SUBSET Int
  BY <1>2
<1>4. Cardinality(S) = n /\ \A k \in 1 .. n : Nth(S, k) = f[k]
  <2>1. /\ S \in SUBSET Int /\ n \in Nat /\ f \in [1 .. n -> S]
        /\ \A k, l \in 1 .. n : k < l => f[k] < f[l]
        /\ \A i \in S : \E k \in 1 .. n : f[k] = i
    BY <1>1, <1>2, <1>3
  <2>. QED BY ONLY <2>1, NthInOrder
<1>5. v = [k \in 1 .. n |-> v[k]]
  BY <1>2
<1>6. Pick(s, S) = [k \in 1 .. n |-> s[Nth(S, k)]]
  BY <1>4 DEF Pick
<1>7. \A k \in 1 .. n : v[k] = s[Nth(S, k)]
  BY <1>1, <1>3, <1>4
<1>. QED BY <1>5, <1>6, <1>7

(* Nothing is picked where there is nothing to pick. *)
LEMMA NothingPicked == ASSUME NEW s PROVE Pick(s, {}) = <<>>
BY FS_EmptySet DEF Pick

(* A later position is picked last. *)
LEMMA PickedLast ==
  ASSUME NEW M, NEW s \in Seq(M), NEW S \in SUBSET DOMAIN s, NEW i \in DOMAIN s,
         \A j \in S : j < i
  PROVE  Pick(s, S \cup {i}) = Append(Pick(s, S), s[i])
<1>. DEFINE v == Pick(s, S)
            w == Append(v, s[i])
            U == S \cup {i}
<1>1. v \in Seq(M)
  BY Picked
<1>2. PICK f \in [DOMAIN v -> S] :
        /\ \A k \in DOMAIN v : v[k] = s[f[k]]
        /\ \A k, l \in DOMAIN v : k < l => f[k] < f[l]
        /\ \A j \in S : \E k \in DOMAIN v : f[k] = j
  BY PickIsInOrder DEF InOrder
<1>. HIDE DEF v
<1>3. PICK n \in Nat : n = Len(v) /\ DOMAIN v = 1 .. n
  BY <1>1
<1>4. /\ w \in Seq(M) /\ DOMAIN w = 1 .. n + 1
      /\ \A k \in 1 .. n : w[k] = v[k]
      /\ w[n + 1] = s[i]
  BY <1>1, <1>3
<1>. DEFINE g == [k \in 1 .. n + 1 |-> IF k = n + 1 THEN i ELSE f[k]]
<1>5. g \in [1 .. n + 1 -> U]
  BY <1>2, <1>3
<1>6. /\ \A k \in 1 .. n : g[k] = f[k] /\ f[k] \in S
      /\ g[n + 1] = i /\ n + 1 \in 1 .. n + 1
      /\ \A k \in 1 .. n + 1 : k = n + 1 \/ k \in 1 .. n
  <2>1. \A k \in 1 .. n : f[k] \in S
    BY <1>2, <1>3
  <2>2. \A k \in 1 .. n : k \in 1 .. n + 1 /\ k # n + 1
    OBVIOUS
  <2>3. n + 1 \in 1 .. n + 1 /\ \A k \in 1 .. n + 1 : k = n + 1 \/ k \in 1 .. n
    OBVIOUS
  <2>. QED BY <2>1, <2>2, <2>3
<1>. HIDE DEF g, w
<1>7. \A k \in 1 .. n + 1 : w[k] = s[g[k]]
  BY <1>2, <1>3, <1>4, <1>6
<1>8. ASSUME NEW k \in 1 .. n + 1, NEW l \in 1 .. n + 1, k < l PROVE g[k] < g[l]
  <2>1. k \in 1 .. n
    BY <1>8
  <2>2. CASE l = n + 1
    BY <1>6, <2>1, <2>2
  <2>3. CASE l \in 1 .. n
    BY <1>2, <1>3, <1>6, <1>8, <2>1, <2>3
  <2>. QED BY <1>6, <2>2, <2>3
<1>9. \A j \in U : \E k \in 1 .. n + 1 : g[k] = j
  BY <1>2, <1>3, <1>6
<1>10. U \in SUBSET DOMAIN s
  OBVIOUS
<1>. HIDE DEF U
<1>11. InOrder(w, s, U)
  <2>1. /\ g \in [DOMAIN w -> U]
        /\ \A k \in DOMAIN w : w[k] = s[g[k]]
        /\ \A k, l \in DOMAIN w : k < l => g[k] < g[l]
        /\ \A j \in U : \E k \in DOMAIN w : g[k] = j
    BY <1>4, <1>5, <1>7, <1>8, <1>9
  <2>. QED BY <2>1 DEF InOrder
<1>12. w = Pick(s, U)
  BY <1>4, <1>10, <1>11, InOrderIsPick
<1>. QED BY <1>12 DEF w, v, U

(* One part behind the other is picked as both together. *)
LEMMA PickedInARow ==
  ASSUME NEW M, NEW s \in Seq(M), NEW S \in SUBSET DOMAIN s, NEW T \in SUBSET DOMAIN s,
         \A i \in S, j \in T : i < j
  PROVE  Pick(s, S \cup T) = Pick(s, S) \o Pick(s, T)
<1>. DEFINE v == Pick(s, S)
            w == Pick(s, T)
            U == S \cup T
            u == v \o w
<1>1. v \in Seq(M) /\ w \in Seq(M)
  BY Picked
<1>2. PICK f \in [DOMAIN v -> S] :
        /\ \A k \in DOMAIN v : v[k] = s[f[k]]
        /\ \A k, l \in DOMAIN v : k < l => f[k] < f[l]
        /\ \A j \in S : \E k \in DOMAIN v : f[k] = j
  BY PickIsInOrder DEF InOrder
<1>3. PICK g \in [DOMAIN w -> T] :
        /\ \A k \in DOMAIN w : w[k] = s[g[k]]
        /\ \A k, l \in DOMAIN w : k < l => g[k] < g[l]
        /\ \A j \in T : \E k \in DOMAIN w : g[k] = j
  <2>1. InOrder(w, s, T)
    BY PickIsInOrder
  <2>. QED BY <2>1 DEF InOrder
<1>. HIDE DEF v, w
<1>4. PICK n \in Nat : n = Len(v) /\ DOMAIN v = 1 .. n
  BY <1>1
<1>5. PICK m \in Nat : m = Len(w) /\ DOMAIN w = 1 .. m
  BY <1>1
<1>6. /\ u \in Seq(M) /\ DOMAIN u = 1 .. n + m
      /\ \A k \in 1 .. n : u[k] = v[k]
      /\ \A k \in 1 .. m : u[n + k] = w[k]
  BY <1>1, <1>4, <1>5
<1>. HIDE DEF u
<1>. DEFINE e == [k \in 1 .. n + m |-> IF k <= n THEN f[k] ELSE g[k - n]]
<1>7. /\ \A k \in 1 .. n + m : k \in 1 .. n \/ \E l \in 1 .. m : k = n + l
      /\ \A k \in 1 .. n : k \in 1 .. n + m /\ k <= n
      /\ \A k \in 1 .. m : n + k \in 1 .. n + m /\ ~(n + k <= n) /\ (n + k) - n = k
  <2>1. ASSUME NEW k \in 1 .. n + m, k \notin 1 .. n PROVE \E l \in 1 .. m : k = n + l
    <3>1. k - n \in 1 .. m /\ k = n + (k - n)
      BY <2>1
    <3>. QED BY <3>1
  <2>2. \A k \in 1 .. n : k \in 1 .. n + m /\ k <= n
    OBVIOUS
  <2>3. \A k \in 1 .. m : n + k \in 1 .. n + m /\ ~(n + k <= n) /\ (n + k) - n = k
    OBVIOUS
  <2>. QED BY <2>1, <2>2, <2>3
<1>8. /\ \A k \in 1 .. n : e[k] = f[k] /\ f[k] \in S
      /\ \A k \in 1 .. m : e[n + k] = g[k] /\ g[k] \in T
  <2>1. \A k \in 1 .. n : f[k] \in S
    BY <1>2, <1>4
  <2>2. \A k \in 1 .. m : g[k] \in T
    BY <1>3, <1>5
  <2>. QED BY <1>7, <2>1, <2>2
<1>9. e \in [1 .. n + m -> U]
  <2>1. ASSUME NEW k \in 1 .. n + m PROVE e[k] \in U
    <3>. HIDE DEF e
    <3>1. CASE k \in 1 .. n
      BY <1>8, <3>1
    <3>2. CASE k \notin 1 .. n
      <4>1. PICK l \in 1 .. m : k = n + l
        BY <1>7, <3>2
      <4>. QED BY <1>8, <4>1
    <3>. QED BY <3>1, <3>2
  <2>. QED BY <2>1
<1>. HIDE DEF e
<1>10. ASSUME NEW k \in 1 .. n + m PROVE u[k] = s[e[k]]
  <2>1. CASE k \in 1 .. n
    BY <1>2, <1>4, <1>6, <1>8, <2>1
  <2>2. CASE k \notin 1 .. n
    <3>1. PICK l \in 1 .. m : k = n + l
      BY <1>7, <2>2
    <3>2. u[k] = w[l] /\ e[k] = g[l]
      BY <1>6, <1>8, <3>1
    <3>. QED BY <1>3, <1>5, <3>2
  <2>. QED BY <2>1, <2>2
<1>11. ASSUME NEW k \in 1 .. n + m, NEW l \in 1 .. n + m, k < l PROVE e[k] < e[l]
  <2>1. CASE k \in 1 .. n /\ l \in 1 .. n
    BY <1>2, <1>4, <1>8, <1>11, <2>1
  <2>2. CASE k \in 1 .. n /\ ~(l \in 1 .. n)
    <3>1. PICK q \in 1 .. m : l = n + q
      BY <1>7, <2>2
    <3>. QED BY <1>8, <2>2, <3>1
  <2>3. CASE ~(k \in 1 .. n)
    <3>1. PICK p \in 1 .. m : k = n + p
      BY <1>7, <2>3
    <3>2. PICK q \in 1 .. m : l = n + q
      <4>1. ~(l \in 1 .. n)
        BY <1>11, <2>3
      <4>. QED BY <1>7, <4>1
    <3>3. p < q
      BY <1>11, <3>1, <3>2
    <3>4. e[k] = g[p] /\ e[l] = g[q]
      BY <1>8, <3>1, <3>2
    <3>. QED BY <1>3, <1>5, <3>3, <3>4
  <2>. QED BY <2>1, <2>2, <2>3
<1>12. ASSUME NEW j \in U PROVE \E k \in 1 .. n + m : e[k] = j
  <2>1. CASE j \in S
    BY <1>2, <1>4, <1>7, <1>8, <2>1
  <2>2. CASE j \in T
    <3>1. PICK q \in 1 .. m : g[q] = j
      BY <1>3, <1>5, <2>2
    <3>2. PICK k \in 1 .. n + m : k = n + q
      BY <1>7
    <3>. QED BY <1>8, <3>1, <3>2
  <2>. QED BY <2>1, <2>2
<1>13. U \in SUBSET DOMAIN s
  OBVIOUS
<1>. HIDE DEF U
<1>14. InOrder(u, s, U)
  <2>1. /\ e \in [DOMAIN u -> U]
        /\ \A k \in DOMAIN u : u[k] = s[e[k]]
        /\ \A k, l \in DOMAIN u : k < l => e[k] < e[l]
        /\ \A j \in U : \E k \in DOMAIN u : e[k] = j
    BY <1>6, <1>9, <1>10, <1>11, <1>12
  <2>. QED BY <2>1 DEF InOrder
<1>15. u = Pick(s, U)
  BY <1>6, <1>13, <1>14, InOrderIsPick
<1>. QED BY <1>15 DEF u, v, w, U

(* To pick from what was picked is to pick once. *)
LEMMA PickedAgain ==
  ASSUME NEW M, NEW s \in Seq(M), NEW S \in SUBSET DOMAIN s, NEW T \in SUBSET S,
         NEW K, \A k : k \in K <=> k \in DOMAIN Pick(s, S) /\ Nth(S, k) \in T
  PROVE  Pick(Pick(s, S), K) = Pick(s, T)
<1>. DEFINE v == Pick(s, S)
            w == Pick(v, K)
<1>1. /\ v \in Seq(M)
      /\ \A k \in DOMAIN v : Nth(S, k) \in S /\ v[k] = s[Nth(S, k)]
      /\ \A i \in S : \E k \in DOMAIN v : Nth(S, k) = i
      /\ \A k, l \in DOMAIN v : k < l <=> Nth(S, k) < Nth(S, l)
  BY Picked
<1>. HIDE DEF v
<1>2. K \in SUBSET DOMAIN v /\ \A k \in K : Nth(S, k) \in T
  BY DEF v
<1>3. w \in Seq(M)
  BY <1>1, <1>2, Picked
<1>4. PICK f \in [DOMAIN w -> K] :
        /\ \A k \in DOMAIN w : w[k] = v[f[k]]
        /\ \A k, l \in DOMAIN w : k < l => f[k] < f[l]
        /\ \A j \in K : \E k \in DOMAIN w : f[k] = j
  <2>1. InOrder(w, v, K)
    BY <1>1, <1>2, PickIsInOrder
  <2>. QED BY <2>1 DEF InOrder
<1>. HIDE DEF w
<1>. DEFINE g == [k \in DOMAIN w |-> Nth(S, f[k])]
<1>5. \A k \in DOMAIN w : f[k] \in K /\ f[k] \in DOMAIN v /\ g[k] = Nth(S, f[k])
  BY <1>2, <1>4
<1>6. g \in [DOMAIN w -> T]
  BY <1>2, <1>5
<1>. HIDE DEF g
<1>7. \A k \in DOMAIN w : w[k] = s[g[k]]
  BY <1>1, <1>4, <1>5
<1>8. \A k, l \in DOMAIN w : k < l => g[k] < g[l]
  BY <1>1, <1>4, <1>5
<1>9. ASSUME NEW j \in T PROVE \E k \in DOMAIN w : g[k] = j
  <2>1. PICK i \in DOMAIN v : Nth(S, i) = j
    BY <1>1
  <2>2. i \in K
    BY <2>1 DEF v
  <2>. QED BY <1>4, <1>5, <2>1, <2>2
<1>10. InOrder(w, s, T)
  BY <1>6, <1>7, <1>8, <1>9 DEF InOrder
<1>11. w = Pick(s, T)
  BY <1>3, <1>10, InOrderIsPick
<1>. QED BY <1>11 DEF w, v

=============================================================================
