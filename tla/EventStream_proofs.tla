-------------------------- MODULE EventStream_proofs --------------------------
(***************************************************************************)
(* What holds of every stream, whatever the answers, however long they are *)
(* and however they are cut.                                               *)
(*                                                                         *)
(* Bytes: what is buffered is always what was sent right after the frames  *)
(* taken so far, an earlier search has ruled out only what cannot begin a  *)
(* separator, and no separator is found before a frame's own.  So the next *)
(* frame is found as soon as it is whole, and is taken as it was sent.     *)
(*                                                                         *)
(* Events: one delta tells at most one event, and captures just what that  *)
(* event tells; so do calls that are flushed.  Done is told once, as the   *)
(* body ends, and after that events are only handed over.                  *)
(***************************************************************************)
EXTENDS EventStream, Counting

-----------------------------------------------------------------------------
(* Lists of whatever values *)

Listed(s) == s \in Seq(Range(s))

LEMMA ListIs ==
  ASSUME NEW S, NEW s \in Seq(S)
  PROVE  Listed(s) /\ Len(s) \in Nat /\ DOMAIN s = 1 .. Len(s)
<1>1. Len(s) \in Nat /\ DOMAIN s = 1 .. Len(s) /\ s = [k \in 1 .. Len(s) |-> s[k]]
  OBVIOUS
<1>2. \A k \in 1 .. Len(s) : s[k] \in Range(s)
  BY <1>1 DEF Range
<1>. QED BY <1>1, <1>2 DEF Listed

LEMMA ListHas ==
  ASSUME NEW s, Listed(s)
  PROVE  /\ Len(s) \in Nat /\ DOMAIN s = 1 .. Len(s)
         /\ (s = <<>> <=> Len(s) = 0)
BY DEF Listed

LEMMA ListIn ==
  ASSUME NEW s, Listed(s), NEW T, Range(s) \subseteq T
  PROVE  s \in Seq(T)
BY DEF Listed

LEMMA Nothing == Listed(<<>>) /\ Len(<<>>) = 0 /\ FlattenSeq(<<>>) = <<>>
<1>1. <<>> \in Seq({})
  OBVIOUS
<1>2. FlattenSeq(<<>>) = <<>>
  BY DEF FlattenSeq
<1>. QED BY <1>1, <1>2, ListIs

LEMMA OneListed ==
  ASSUME NEW x
  PROVE  Listed(<<x>>) /\ Len(<<x>>) = 1 /\ <<x>>[1] = x /\ <<x>> # <<>>
<1>1. <<x>> \in Seq({x})
  OBVIOUS
<1>. QED BY <1>1, ListIs

LEMMA Joined ==
  ASSUME NEW s, NEW t, Listed(s), Listed(t)
  PROVE  /\ Listed(s \o t)
         /\ Len(s \o t) = Len(s) + Len(t)
         /\ \A k \in 1 .. Len(s) : (s \o t)[k] = s[k]
         /\ \A k \in 1 .. Len(t) : (s \o t)[Len(s) + k] = t[k]
<1>. DEFINE S == Range(s) \cup Range(t)
<1>1. s \in Seq(S) /\ t \in Seq(S)
  BY DEF Listed
<1>. HIDE DEF S
<1>2. s \o t \in Seq(S)
  BY <1>1
<1>3. Listed(s \o t)
  BY <1>2, ListIs
<1>. QED BY <1>1, <1>3

LEMMA JoinedWithOne ==
  ASSUME NEW s, NEW x, Listed(s)
  PROVE  /\ Listed(Append(s, x))
         /\ Len(Append(s, x)) = Len(s) + 1
         /\ Append(s, x)[Len(s) + 1] = x
         /\ \A k \in 1 .. Len(s) : Append(s, x)[k] = s[k]
         /\ Append(s, x) = s \o <<x>>
         /\ Append(s, x) # <<>>
         /\ Last(Append(s, x)) = x
<1>. DEFINE S == Range(s) \cup {x}
<1>1. s \in Seq(S) /\ x \in S
  BY DEF Listed
<1>. HIDE DEF S
<1>2. Append(s, x) \in Seq(S)
  BY <1>1
<1>3. Listed(Append(s, x))
  BY <1>2, ListIs
<1>4. Last(Append(s, x)) = x
  BY <1>1 DEF Last
<1>. QED BY <1>1, <1>3, <1>4

\* more is s with x at the end.
IsLonger(more, s, x) ==
  /\ Listed(more) /\ Len(more) = Len(s) + 1 /\ DOMAIN more = 1 .. Len(s) + 1
  /\ more[Len(s) + 1] = x
  /\ \A k \in 1 .. Len(s) : more[k] = s[k]
  /\ more = [k \in 1 .. Len(s) + 1 |-> more[k]]

LEMMA OneLonger ==
  ASSUME NEW s, NEW x, Listed(s)
  PROVE  IsLonger(Append(s, x), s, x)
<1>1. PICK more : more = Append(s, x)
  OBVIOUS
<1>2. Listed(more) /\ Len(more) = Len(s) + 1 /\ more[Len(s) + 1] = x /\ \A k \in 1 .. Len(s) : more[k] = s[k]
  BY <1>1, JoinedWithOne
<1>3. DOMAIN more = 1 .. Len(more)
  BY <1>2, ListHas
<1>4. more = [k \in DOMAIN more |-> more[k]]
  BY <1>2 DEF Listed
<1>. QED BY <1>1, <1>2, <1>3, <1>4 DEF IsLonger

\* Three lists are joined in either order.
LEMMA JoinedInARow ==
  ASSUME NEW s, NEW t, NEW u, Listed(s), Listed(t), Listed(u)
  PROVE  s \o (t \o u) = (s \o t) \o u
<1>. DEFINE S == Range(s) \cup Range(t) \cup Range(u)
<1>1. s \in Seq(S) /\ t \in Seq(S) /\ u \in Seq(S)
  BY DEF Listed
<1>. HIDE DEF S
<1>. QED BY <1>1

LEMMA HeadAndTail ==
  ASSUME NEW s, Listed(s), s # <<>>
  PROVE  Listed(Tail(s)) /\ s = <<Head(s)>> \o Tail(s)
<1>1. s \in Seq(Range(s))
  BY DEF Listed
<1>2. Tail(s) \in Seq(Range(s))
  BY <1>1
<1>3. s = <<Head(s)>> \o Tail(s)
  BY <1>1
<1>. QED BY <1>2, <1>3, ListIs

LEMMA LastOfList ==
  ASSUME NEW s, Listed(s), s # <<>>
  PROVE  \E front : Listed(front) /\ s = Append(front, Last(s)) /\ Len(s) = Len(front) + 1
<1>1. PICK T : T = Range(s)
  OBVIOUS
<1>2. s \in Seq(T) /\ Len(s) \in Nat /\ Len(s) # 0
  BY <1>1 DEF Listed
<1>3. PICK m \in Nat : Len(s) = m + 1
  <2>1. Len(s) - 1 \in Nat /\ Len(s) = Len(s) - 1 + 1
    BY <1>2
  <2>. QED BY <2>1
<1>. DEFINE front == [k \in 1 .. m |-> s[k]]
<1>4. front \in Seq(T) /\ Len(front) = m
  BY <1>2, <1>3
<1>5. s = Append(front, s[m + 1])
  BY <1>2, <1>3
<1>6. Listed(front) /\ Last(s) = s[m + 1]
  <2>. HIDE DEF front
  <2>. QED BY <1>3, <1>4, ListIs DEF Last
<1>. QED BY <1>3, <1>4, <1>5, <1>6

(* Lists put end to end. *)
ListOfLists(s) == Listed(s) /\ \A k \in 1 .. Len(s) : Listed(s[k])

LEMMA OneMoreList ==
  ASSUME NEW s, NEW x, ListOfLists(s), Listed(x)
  PROVE  /\ ListOfLists(Append(s, x))
         /\ Listed(FlattenSeq(s))
         /\ FlattenSeq(Append(s, x)) = FlattenSeq(s) \o x
<1>0. PICK U, V : U = UNION {Range(s[k]) : k \in 1 .. Len(s)} /\ V = Range(x)
  OBVIOUS
<1>. DEFINE S == U \cup V
<1>1. Listed(s) /\ (\A k \in 1 .. Len(s) : Listed(s[k])) /\ Len(s) \in Nat
  BY ListHas DEF ListOfLists
<1>2. x \in Seq(S)
  <2>1. Range(x) \subseteq S
    BY <1>0
  <2>. HIDE DEF S
  <2>. QED BY <2>1, ListIn
<1>3. \A k \in 1 .. Len(s) : s[k] \in Seq(S)
  <2>1. \A k \in 1 .. Len(s) : Range(s[k]) \subseteq S
    BY <1>0
  <2>. HIDE DEF S
  <2>. QED BY <1>1, <2>1, ListIn
<1>. HIDE DEF S
<1>4. s \in Seq(Seq(S))
  BY <1>1, <1>3 DEF Listed
<1>5. FlattenSeq(s) \in Seq(S) /\ FlattenSeq(Append(s, x)) = FlattenSeq(s) \o x
  BY <1>2, <1>4, FlattenAppended
<1>6. ListOfLists(Append(s, x))
  <2>1. PICK t : t = Append(s, x)
    OBVIOUS
  <2>2. Listed(t) /\ Len(t) = Len(s) + 1 /\ t[Len(s) + 1] = x /\ \A k \in 1 .. Len(s) : t[k] = s[k]
    BY <1>1, <2>1, JoinedWithOne
  <2>3. \A k \in 1 .. Len(s) + 1 : k = Len(s) + 1 \/ k \in 1 .. Len(s)
    BY <1>1
  <2>4. \A k \in 1 .. Len(t) : Listed(t[k])
    BY <1>1, <2>2, <2>3
  <2>. QED BY <2>1, <2>2, <2>4 DEF ListOfLists
<1>. QED BY <1>5, <1>6, ListIs

\* A list of lists with one more at the end, both given piece by piece.
LEMMA PiecesGrow ==
  ASSUME NEW n \in Nat, NEW f, NEW g,
         f = [k \in 1 .. n |-> f[k]], g = [k \in 1 .. n + 1 |-> g[k]],
         \A k \in 1 .. n : Listed(f[k]) /\ g[k] = f[k],
         Listed(g[n + 1])
  PROVE  Listed(FlattenSeq(f)) /\ FlattenSeq(g) = FlattenSeq(f) \o g[n + 1]
<1>1. PICK S : S = {f[k] : k \in 1 .. n}
  OBVIOUS
<1>2. f \in Seq(S) /\ Len(f) = n
  BY <1>1
<1>3. Listed(f)
  BY <1>2, ListIs
<1>4. ListOfLists(f)
  BY <1>2, <1>3 DEF ListOfLists
<1>5. PICK x : x = g[n + 1]
  OBVIOUS
<1>6. g = Append(f, x)
  <2>1. PICK h : h = Append(f, x)
    OBVIOUS
  <2>2. Len(h) = n + 1 /\ h[n + 1] = x /\ \A k \in 1 .. n : h[k] = f[k]
    BY <1>2, <1>3, <2>1, JoinedWithOne
  <2>3. h = [k \in 1 .. n + 1 |-> h[k]]
    BY <1>2, <1>5, <2>1
  <2>4. \A k \in 1 .. n + 1 : h[k] = g[k]
    <3>1. \A k \in 1 .. n + 1 : k = n + 1 \/ k \in 1 .. n
      OBVIOUS
    <3>. QED BY <1>5, <2>2, <3>1
  <2>5. h = g
    BY <2>3, <2>4
  <2>. QED BY <2>1, <2>5
<1>. QED BY <1>4, <1>5, <1>6, OneMoreList

-----------------------------------------------------------------------------
(* What events tell and what parts hold, one more at a time *)

\* The texts of parts are lists of fragments.
TextsListed(parts) ==
  /\ Listed(parts)
  /\ \A k \in 1 .. Len(parts) :
       parts[k].part \in {"text", "refusal"} =>
         /\ parts[k] = [part |-> parts[k].part, text |-> parts[k].text]
         /\ Listed(parts[k].text)

LEMMA FragmentsGrow ==
  ASSUME NEW told, Listed(told), NEW kind, NEW e
  PROVE  /\ Listed(Fragments(told, kind))
         /\ Fragments(Append(told, e), kind) =
              Fragments(told, kind) \o (IF e.event = kind THEN <<e.text>> ELSE <<>>)
<1>1. PICK n \in Nat : n = Len(told) /\ DOMAIN told = 1 .. n
  BY ListHas
<1>2. PICK more : more = Append(told, e)
  OBVIOUS
<1>3. /\ Listed(more) /\ DOMAIN more = 1 .. n + 1 /\ more[n + 1] = e
      /\ \A k \in 1 .. n : more[k] = told[k]
  <2>1. Listed(told)
    OBVIOUS
  <2>2. IsLonger(more, told, e)
    BY <1>2, <2>1, OneLonger
  <2>. QED BY <1>1, <2>2 DEF IsLonger
<1>. DEFINE Piece(x) == IF x.event = kind THEN <<x.text>> ELSE <<>>
            f == [k \in 1 .. n |-> Piece(told[k])]
            g == [k \in 1 .. n + 1 |-> Piece(more[k])]
<1>4. Fragments(told, kind) = FlattenSeq(f) /\ Fragments(more, kind) = FlattenSeq(g)
  BY <1>1, <1>3 DEF Fragments
<1>5. \A x : Listed(Piece(x))
  BY Nothing, OneListed
<1>6. /\ f = [k \in 1 .. n |-> f[k]] /\ g = [k \in 1 .. n + 1 |-> g[k]]
      /\ \A k \in 1 .. n : f[k] = Piece(told[k]) /\ g[k] = Piece(more[k])
      /\ g[n + 1] = Piece(e)
  BY <1>3
<1>7. \A k \in 1 .. n : Listed(f[k]) /\ g[k] = f[k]
  <2>. HIDE DEF f, g, Piece
  <2>. QED BY <1>3, <1>5, <1>6
<1>8. Listed(g[n + 1])
  <2>. HIDE DEF f, g, Piece
  <2>. QED BY <1>5, <1>6
<1>9. Listed(FlattenSeq(f)) /\ FlattenSeq(g) = FlattenSeq(f) \o g[n + 1]
  <2>. HIDE DEF f, g
  <2>. QED BY <1>6, <1>7, <1>8, PiecesGrow
<1>10. g[n + 1] = (IF e.event = kind THEN <<e.text>> ELSE <<>>)
  BY <1>6
<1>. HIDE DEF f, g
<1>. QED BY <1>2, <1>4, <1>9, <1>10

LEMMA TextGrows ==
  ASSUME NEW parts, TextsListed(parts), NEW kind \in {"text", "refusal"}, NEW p,
         p.part \in {"text", "refusal"} => Listed(p.text)
  PROVE  /\ Listed(TextOf(parts, kind))
         /\ TextOf(Append(parts, p), kind) =
              TextOf(parts, kind) \o (IF p.part = kind THEN p.text ELSE <<>>)
<1>1. PICK n \in Nat : n = Len(parts) /\ DOMAIN parts = 1 .. n
  BY ListHas DEF TextsListed
<1>2. PICK more : more = Append(parts, p)
  OBVIOUS
<1>3. /\ Listed(more) /\ DOMAIN more = 1 .. n + 1 /\ more[n + 1] = p
      /\ \A k \in 1 .. n : more[k] = parts[k]
  <2>1. Listed(parts)
    BY DEF TextsListed
  <2>2. IsLonger(more, parts, p)
    BY <1>2, <2>1, OneLonger
  <2>. QED BY <1>1, <2>2 DEF IsLonger
<1>. DEFINE Piece(x) == IF x.part = kind THEN x.text ELSE <<>>
            f == [k \in 1 .. n |-> Piece(parts[k])]
            g == [k \in 1 .. n + 1 |-> Piece(more[k])]
<1>4. TextOf(parts, kind) = FlattenSeq(f) /\ TextOf(more, kind) = FlattenSeq(g)
  BY <1>1, <1>3 DEF TextOf
<1>5. (\A k \in 1 .. n : Listed(Piece(parts[k]))) /\ Listed(Piece(p))
  BY <1>1, Nothing DEF TextsListed
<1>6. /\ f = [k \in 1 .. n |-> f[k]] /\ g = [k \in 1 .. n + 1 |-> g[k]]
      /\ \A k \in 1 .. n : f[k] = Piece(parts[k]) /\ g[k] = Piece(more[k])
      /\ g[n + 1] = Piece(p)
  BY <1>3
<1>7. \A k \in 1 .. n : Listed(f[k]) /\ g[k] = f[k]
  <2>. HIDE DEF f, g, Piece
  <2>. QED BY <1>3, <1>5, <1>6
<1>8. Listed(g[n + 1])
  <2>. HIDE DEF f, g, Piece
  <2>. QED BY <1>5, <1>6
<1>9. Listed(FlattenSeq(f)) /\ FlattenSeq(g) = FlattenSeq(f) \o g[n + 1]
  <2>. HIDE DEF f, g
  <2>. QED BY <1>6, <1>7, <1>8, PiecesGrow
<1>10. g[n + 1] = (IF p.part = kind THEN p.text ELSE <<>>)
  BY <1>6
<1>. HIDE DEF f, g
<1>. QED BY <1>2, <1>4, <1>9, <1>10

LEMMA OpaqueTellsMore ==
  ASSUME NEW told, Listed(told), NEW e
  PROVE  /\ Listed(OpaqueTold(told))
         /\ OpaqueTold(Append(told, e)) = OpaqueTold(told) \o OpaqueIn(e)
<1>1. PICK n \in Nat : n = Len(told) /\ DOMAIN told = 1 .. n
  BY ListHas
<1>2. PICK more : more = Append(told, e)
  OBVIOUS
<1>3. /\ Listed(more) /\ DOMAIN more = 1 .. n + 1 /\ more[n + 1] = e
      /\ \A k \in 1 .. n : more[k] = told[k]
  <2>1. Listed(told)
    OBVIOUS
  <2>2. IsLonger(more, told, e)
    BY <1>2, <2>1, OneLonger
  <2>. QED BY <1>1, <2>2 DEF IsLonger
<1>. DEFINE f == [k \in 1 .. n |-> OpaqueIn(told[k])]
            g == [k \in 1 .. n + 1 |-> OpaqueIn(more[k])]
<1>4. OpaqueTold(told) = FlattenSeq(f) /\ OpaqueTold(more) = FlattenSeq(g)
  BY <1>1, <1>3 DEF OpaqueTold
<1>5. \A x : Listed(OpaqueIn(x))
  BY Nothing, OneListed DEF OpaqueIn
<1>6. /\ f = [k \in 1 .. n |-> f[k]] /\ g = [k \in 1 .. n + 1 |-> g[k]]
      /\ \A k \in 1 .. n : f[k] = OpaqueIn(told[k]) /\ g[k] = OpaqueIn(more[k])
      /\ g[n + 1] = OpaqueIn(e)
  BY <1>3
<1>7. \A k \in 1 .. n : Listed(f[k]) /\ g[k] = f[k]
  <2>. HIDE DEF f, g
  <2>. QED BY <1>3, <1>5, <1>6
<1>8. Listed(g[n + 1])
  <2>. HIDE DEF f, g
  <2>. QED BY <1>5, <1>6
<1>9. Listed(FlattenSeq(f)) /\ FlattenSeq(g) = FlattenSeq(f) \o g[n + 1]
  <2>. HIDE DEF f, g
  <2>. QED BY <1>6, <1>7, <1>8, PiecesGrow
<1>10. g[n + 1] = OpaqueIn(e)
  BY <1>6
<1>. HIDE DEF f, g
<1>. QED BY <1>2, <1>4, <1>9, <1>10

LEMMA OpaqueHoldsMore ==
  ASSUME NEW parts, Listed(parts), NEW p
  PROVE  /\ Listed(OpaqueOf(parts))
         /\ OpaqueOf(Append(parts, p)) =
              OpaqueOf(parts) \o (IF p.part \in {"call", "reasoning"} THEN <<p>> ELSE <<>>)
<1>1. PICK n \in Nat : n = Len(parts) /\ DOMAIN parts = 1 .. n
  BY ListHas
<1>2. PICK more : more = Append(parts, p)
  OBVIOUS
<1>3. /\ Listed(more) /\ DOMAIN more = 1 .. n + 1 /\ more[n + 1] = p
      /\ \A k \in 1 .. n : more[k] = parts[k]
  <2>1. Listed(parts)
    OBVIOUS
  <2>2. IsLonger(more, parts, p)
    BY <1>2, <2>1, OneLonger
  <2>. QED BY <1>1, <2>2 DEF IsLonger
<1>. DEFINE Piece(x) == IF x.part \in {"call", "reasoning"} THEN <<x>> ELSE <<>>
            f == [k \in 1 .. n |-> Piece(parts[k])]
            g == [k \in 1 .. n + 1 |-> Piece(more[k])]
<1>4. OpaqueOf(parts) = FlattenSeq(f) /\ OpaqueOf(more) = FlattenSeq(g)
  BY <1>1, <1>3 DEF OpaqueOf
<1>5. \A x : Listed(Piece(x))
  BY Nothing, OneListed
<1>6. /\ f = [k \in 1 .. n |-> f[k]] /\ g = [k \in 1 .. n + 1 |-> g[k]]
      /\ \A k \in 1 .. n : f[k] = Piece(parts[k]) /\ g[k] = Piece(more[k])
      /\ g[n + 1] = Piece(p)
  BY <1>3
<1>7. \A k \in 1 .. n : Listed(f[k]) /\ g[k] = f[k]
  <2>. HIDE DEF f, g, Piece
  <2>. QED BY <1>3, <1>5, <1>6
<1>8. Listed(g[n + 1])
  <2>. HIDE DEF f, g, Piece
  <2>. QED BY <1>5, <1>6
<1>9. Listed(FlattenSeq(f)) /\ FlattenSeq(g) = FlattenSeq(f) \o g[n + 1]
  <2>. HIDE DEF f, g, Piece
  <2>1. /\ f = [k \in 1 .. n |-> f[k]] /\ g = [k \in 1 .. n + 1 |-> g[k]]
        /\ \A k \in 1 .. n : Listed(f[k]) /\ g[k] = f[k]
    BY <1>6, <1>7
  <2>. QED BY <1>3, <1>8, <2>1, PiecesGrow
<1>10. g[n + 1] = (IF p.part \in {"call", "reasoning"} THEN <<p>> ELSE <<>>)
  BY <1>6
<1>. HIDE DEF f, g
<1>. QED BY <1>2, <1>4, <1>9, <1>10

-----------------------------------------------------------------------------
(* One delta absorbed *)

AsmFields ==
  {"normalize", "pending", "captured", "status", "usage", "finished", "textOpen", "out"}

IsAsm(a) ==
  /\ DOMAIN a = AsmFields /\ a = [x \in AsmFields |-> a[x]]
  /\ Listed(a.out)
  /\ TextsListed(a.captured)
  /\ IsFiniteSet(DOMAIN a.pending)

DeltaKinds ==
  {"text", "text_end", "refusal", "reasoning_text", "reasoning_blob", "meta",
   "tool_start", "tool_args", "tool_replace", "tool_end"}

\* q is p with one more fragment of its last text.
GoesOn(p, q, kind, x) ==
  \E front, text :
    /\ Listed(front) /\ Listed(text)
    /\ p = Append(front, [part |-> kind, text |-> text])
    /\ q = Append(front, [part |-> kind, text |-> Append(text, x)])

\* What the parts q have that p had not yet is what the event e tells.
Tells(p, q, e) ==
  \/ e.event = "reasoning_delta" /\ q = p
  \/ \E x : e = TextDelta(x) /\ q = Append(p, TextPart(<<x>>))
  \/ \E x : e = TextDelta(x) /\ GoesOn(p, q, "text", x)
  \/ \E x : e = RefusalDelta(x) /\ q = Append(p, RefusalPart(<<x>>))
  \/ \E x : e = RefusalDelta(x) /\ GoesOn(p, q, "refusal", x)
  \/ \E id, args : e = ToolCall(id, args) /\ q = Append(p, CallPart(id, args))
  \/ \E data : e = Reasoning(data) /\ q = Append(p, ReasoningPart(data))

\* a has become b, having told at most one event.
AbsorbedOne(a, b) ==
  /\ DOMAIN b = AsmFields /\ b = [x \in AsmFields |-> b[x]]
  /\ b.finished = a.finished
  /\ IsFiniteSet(DOMAIN b.pending)
  /\ \/ b.out = a.out /\ b.captured = a.captured
     \/ \E e : b.out = Append(a.out, e) /\ Tells(a.captured, b.captured, e)

\* The last part, of a text, with one more fragment.
LEMMA ExtendsTheLast ==
  ASSUME NEW a, IsAsm(a), NEW kind \in {"text", "refusal"}, LastIs(a, kind), NEW x
  PROVE  GoesOn(a.captured, Extended(a, x), kind, x)
<1>1. PICK p : p = a.captured
  OBVIOUS
<1>2. TextsListed(p) /\ Listed(p) /\ p # <<>> /\ Last(p).part = kind
  BY <1>1 DEF IsAsm, TextsListed, LastIs
<1>3. PICK front : Listed(front) /\ p = Append(front, Last(p)) /\ Len(p) = Len(front) + 1
  BY <1>2, LastOfList
<1>4. IsLonger(p, front, Last(p))
  <2>1. PICK l : l = Last(p)
    OBVIOUS
  <2>2. p = Append(front, l)
    BY <1>3, <2>1
  <2>3. IsLonger(Append(front, l), front, l)
    BY ONLY <1>3, OneLonger
  <2>. QED BY <2>1, <2>2, <2>3
<1>5. PICK n \in Nat : n = Len(front)
  BY <1>3, ListHas
<1>6. Len(p) = n + 1 /\ p[n + 1] = Last(p) /\ DOMAIN p = 1 .. n + 1 /\ \A k \in 1 .. n : p[k] = front[k]
  BY <1>4, <1>5 DEF IsLonger
<1>7. PICK text : text = p[n + 1].text
  OBVIOUS
<1>8. p[n + 1] = [part |-> kind, text |-> text] /\ Listed(text)
  BY <1>2, <1>6, <1>7 DEF TextsListed
<1>9. PICK q : q = Extended(a, x)
  OBVIOUS
<1>10. q = [p EXCEPT ![n + 1].text = Append(text, x)]
  BY <1>1, <1>6, <1>7, <1>9 DEF Extended
<1>11. PICK more : more = Append(text, x)
  OBVIOUS
<1>12. /\ q = [k \in 1 .. n + 1 |-> q[k]]
       /\ \A k \in 1 .. n : q[k] = front[k]
       /\ q[n + 1] = [part |-> kind, text |-> more]
  <2>1. p = [k \in 1 .. n + 1 |-> p[k]] /\ n + 1 \in 1 .. n + 1
    BY <1>2, <1>6 DEF Listed
  <2>2. q = [k \in 1 .. n + 1 |-> IF k = n + 1 THEN [p[k] EXCEPT !.text = more] ELSE p[k]]
    BY <1>10, <1>11, <2>1
  <2>3. q[n + 1] = [p[n + 1] EXCEPT !.text = more]
    BY <2>1, <2>2
  <2>4. q[n + 1] = [part |-> kind, text |-> more]
    BY <1>8, <2>3
  <2>5. \A k \in 1 .. n : q[k] = front[k]
    BY <1>6, <2>2
  <2>6. q = [k \in 1 .. n + 1 |-> q[k]]
    BY <2>2
  <2>. QED BY <2>4, <2>5, <2>6
<1>13. PICK last : last = [part |-> kind, text |-> more]
  OBVIOUS
<1>14. PICK r : r = Append(front, last)
  OBVIOUS
<1>15. IsLonger(r, front, last)
  BY <1>3, <1>14, OneLonger
<1>16. r = [k \in 1 .. n + 1 |-> r[k]]
  BY <1>5, <1>15 DEF IsLonger
<1>17. \A k \in 1 .. n + 1 : r[k] = q[k]
  <2>1. \A k \in 1 .. n + 1 : k = n + 1 \/ k \in 1 .. n
    OBVIOUS
  <2>. QED BY <1>5, <1>12, <1>13, <1>15, <2>1 DEF IsLonger
<1>18. r = q
  BY <1>12, <1>16, <1>17
<1>19. p = Append(front, [part |-> kind, text |-> text])
  BY <1>3, <1>6, <1>8
<1>. QED BY <1>1, <1>3, <1>8, <1>9, <1>11, <1>13, <1>14, <1>18, <1>19 DEF GoesOn

\* A finished call tells itself.
LEMMA FinishCallSteps ==
  ASSUME NEW a, IsAsm(a), NEW slot
  PROVE  AbsorbedOne(a, FinishCall(a, slot))
<1>1. PICK b : b = FinishCall(a, slot)
  OBVIOUS
<1>2. CASE slot \notin DOMAIN a.pending
  <2>1. b = a
    BY <1>1, <1>2 DEF FinishCall
  <2>. QED BY <1>1, <2>1 DEF IsAsm, AbsorbedOne
<1>3. CASE slot \in DOMAIN a.pending
  <2>1. PICK id, args :
          id = a.pending[slot].id /\ args = FinishedArguments(a, a.pending[slot].arguments)
    OBVIOUS
  <2>2. PICK rest : rest = Restrict(a.pending, DOMAIN a.pending \ {slot})
    OBVIOUS
  <2>3. IsFiniteSet(DOMAIN rest)
    <3>1. DOMAIN rest \subseteq DOMAIN a.pending
      BY <2>2 DEF Restrict
    <3>. QED BY <3>1, FS_Subset DEF IsAsm
  <2>4. b = [a EXCEPT !.pending  = rest,
                      !.captured = Append(a.captured, CallPart(id, args)),
                      !.out      = Append(a.out, ToolCall(id, args))]
    BY <1>1, <1>3, <2>1, <2>2 DEF FinishCall
  <2>5. /\ DOMAIN b = AsmFields /\ b = [x \in AsmFields |-> b[x]]
        /\ b.finished = a.finished /\ b.pending = rest
        /\ b.captured = Append(a.captured, CallPart(id, args))
        /\ b.out = Append(a.out, ToolCall(id, args))
    BY <2>4 DEF IsAsm, AsmFields
  <2>6. Tells(a.captured, b.captured, ToolCall(id, args))
    BY <2>5 DEF Tells
  <2>. QED BY <1>1, <2>3, <2>5, <2>6 DEF AbsorbedOne
<1>. QED BY <1>2, <1>3

LEMMA AbsorbTextSteps ==
  ASSUME NEW a, IsAsm(a), NEW text
  PROVE  AbsorbedOne(a, AbsorbText(a, text))
<1>1. PICK b : b = AbsorbText(a, text)
  OBVIOUS
<1>2. PICK parts : parts = IF LastIs(a, "text") /\ a.textOpen THEN Extended(a, text)
                           ELSE Append(a.captured, TextPart(<<text>>))
  OBVIOUS
<1>3. b = [a EXCEPT !.captured = parts, !.textOpen = TRUE,
                    !.out = Append(a.out, TextDelta(text))]
  BY <1>1, <1>2 DEF AbsorbText
<1>4. /\ DOMAIN b = AsmFields /\ b = [x \in AsmFields |-> b[x]]
      /\ b.finished = a.finished /\ b.pending = a.pending
      /\ b.captured = parts /\ b.out = Append(a.out, TextDelta(text))
  BY <1>3 DEF IsAsm, AsmFields
<1>5. Tells(a.captured, parts, TextDelta(text))
  <2>1. CASE LastIs(a, "text") /\ a.textOpen
    <3>1. GoesOn(a.captured, Extended(a, text), "text", text)
      BY <2>1, ExtendsTheLast
    <3>. QED BY <1>2, <2>1, <3>1 DEF Tells
  <2>2. CASE ~(LastIs(a, "text") /\ a.textOpen)
    BY <1>2, <2>2 DEF Tells
  <2>. QED BY <2>1, <2>2
<1>. QED BY <1>1, <1>4, <1>5 DEF AbsorbedOne, IsAsm

LEMMA AbsorbRefusalSteps ==
  ASSUME NEW a, IsAsm(a), NEW text
  PROVE  AbsorbedOne(a, AbsorbRefusal(a, text))
<1>1. PICK b : b = AbsorbRefusal(a, text)
  OBVIOUS
<1>2. PICK parts : parts = IF LastIs(a, "refusal") THEN Extended(a, text)
                           ELSE Append(a.captured, RefusalPart(<<text>>))
  OBVIOUS
<1>3. b = [a EXCEPT !.captured = parts, !.out = Append(a.out, RefusalDelta(text))]
  BY <1>1, <1>2 DEF AbsorbRefusal
<1>4. /\ DOMAIN b = AsmFields /\ b = [x \in AsmFields |-> b[x]]
      /\ b.finished = a.finished /\ b.pending = a.pending
      /\ b.captured = parts /\ b.out = Append(a.out, RefusalDelta(text))
  BY <1>3 DEF IsAsm, AsmFields
<1>5. Tells(a.captured, parts, RefusalDelta(text))
  <2>1. CASE LastIs(a, "refusal")
    <3>1. GoesOn(a.captured, Extended(a, text), "refusal", text)
      BY <2>1, ExtendsTheLast
    <3>. QED BY <1>2, <2>1, <3>1 DEF Tells
  <2>2. CASE ~LastIs(a, "refusal")
    BY <1>2, <2>2 DEF Tells
  <2>. QED BY <2>1, <2>2
<1>. QED BY <1>1, <1>4, <1>5 DEF AbsorbedOne, IsAsm

\* What a delta of a call changes is its arguments.
LEMMA PendingSteps ==
  ASSUME NEW a, IsAsm(a), NEW pending, IsFiniteSet(DOMAIN pending)
  PROVE  AbsorbedOne(a, [a EXCEPT !.pending = pending])
<1>1. PICK b : b = [a EXCEPT !.pending = pending]
  OBVIOUS
<1>2. /\ DOMAIN b = AsmFields /\ b = [x \in AsmFields |-> b[x]]
      /\ b.finished = a.finished /\ b.pending = pending
      /\ b.captured = a.captured /\ b.out = a.out
  BY <1>1 DEF IsAsm, AsmFields
<1>. QED BY <1>1, <1>2 DEF AbsorbedOne

LEMMA CallSteps ==
  ASSUME NEW a, IsAsm(a), NEW slot, NEW text
  PROVE  /\ AbsorbedOne(a, AbsorbToolStart(a, slot, text))
         /\ AbsorbedOne(a, AbsorbToolArgs(a, slot, text))
         /\ AbsorbedOne(a, AbsorbToolReplace(a, slot, text))
<1>1. AbsorbedOne(a, a)
  BY DEF AbsorbedOne, IsAsm
<1>2. AbsorbedOne(a, AbsorbToolStart(a, slot, text))
  <2>1. PICK p : p = Inserted(a.pending, slot, [id |-> text, arguments |-> <<>>])
    OBVIOUS
  <2>2. DOMAIN p = DOMAIN a.pending \cup {slot}
    BY <2>1 DEF Inserted
  <2>3. IsFiniteSet(DOMAIN p)
    BY <2>2, FS_AddElement DEF IsAsm
  <2>4. AbsorbToolStart(a, slot, text) = [a EXCEPT !.pending = p]
    BY <2>1 DEF AbsorbToolStart
  <2>. QED BY <2>3, <2>4, PendingSteps
<1>3. AbsorbedOne(a, AbsorbToolArgs(a, slot, text))
  <2>1. CASE slot \in DOMAIN a.pending
    <3>1. PICK p : p = [a.pending EXCEPT ![slot].arguments = a.pending[slot].arguments \o text]
      OBVIOUS
    <3>2. DOMAIN p = DOMAIN a.pending
      BY <3>1
    <3>3. AbsorbToolArgs(a, slot, text) = [a EXCEPT !.pending = p]
      BY <2>1, <3>1 DEF AbsorbToolArgs, IsAsm, AsmFields
    <3>. QED BY <3>2, <3>3, PendingSteps DEF IsAsm
  <2>2. CASE slot \notin DOMAIN a.pending
    BY <1>1, <2>2 DEF AbsorbToolArgs
  <2>. QED BY <2>1, <2>2
<1>4. AbsorbedOne(a, AbsorbToolReplace(a, slot, text))
  <2>1. CASE slot \in DOMAIN a.pending
    <3>1. PICK p : p = [a.pending EXCEPT ![slot].arguments = text]
      OBVIOUS
    <3>2. DOMAIN p = DOMAIN a.pending
      BY <3>1
    <3>3. AbsorbToolReplace(a, slot, text) = [a EXCEPT !.pending = p]
      BY <2>1, <3>1 DEF AbsorbToolReplace, IsAsm, AsmFields
    <3>. QED BY <3>2, <3>3, PendingSteps DEF IsAsm
  <2>2. CASE slot \notin DOMAIN a.pending
    BY <1>1, <2>2 DEF AbsorbToolReplace
  <2>. QED BY <2>1, <2>2
<1>. QED BY <1>2, <1>3, <1>4

LEMMA OtherSteps ==
  ASSUME NEW a, IsAsm(a), NEW x, NEW y
  PROVE  /\ AbsorbedOne(a, [a EXCEPT !.textOpen = FALSE])
         /\ AbsorbedOne(a, [a EXCEPT !.out = Append(@, ReasoningDelta(x))])
         /\ AbsorbedOne(a, AbsorbBlob(a, x))
         /\ AbsorbedOne(a, AbsorbMeta(a, x, y))
<1>1. AbsorbedOne(a, [a EXCEPT !.textOpen = FALSE])
  <2>1. PICK b : b = [a EXCEPT !.textOpen = FALSE]
    OBVIOUS
  <2>2. /\ DOMAIN b = AsmFields /\ b = [f \in AsmFields |-> b[f]]
        /\ b.finished = a.finished /\ b.pending = a.pending
        /\ b.captured = a.captured /\ b.out = a.out
    BY <2>1 DEF IsAsm, AsmFields
  <2>. QED BY <2>1, <2>2 DEF AbsorbedOne, IsAsm
<1>2. AbsorbedOne(a, [a EXCEPT !.out = Append(@, ReasoningDelta(x))])
  <2>1. PICK b : b = [a EXCEPT !.out = Append(@, ReasoningDelta(x))]
    OBVIOUS
  <2>2. /\ DOMAIN b = AsmFields /\ b = [f \in AsmFields |-> b[f]]
        /\ b.finished = a.finished /\ b.pending = a.pending
        /\ b.captured = a.captured /\ b.out = Append(a.out, ReasoningDelta(x))
    BY <2>1 DEF IsAsm, AsmFields
  <2>3. Tells(a.captured, b.captured, ReasoningDelta(x))
    BY <2>2 DEF Tells, ReasoningDelta
  <2>. QED BY <2>1, <2>2, <2>3 DEF AbsorbedOne, IsAsm
<1>3. AbsorbedOne(a, AbsorbBlob(a, x))
  <2>1. PICK b : b = AbsorbBlob(a, x)
    OBVIOUS
  <2>2. /\ DOMAIN b = AsmFields /\ b = [f \in AsmFields |-> b[f]]
        /\ b.finished = a.finished /\ b.pending = a.pending
        /\ b.captured = Append(a.captured, ReasoningPart(x)) /\ b.out = Append(a.out, Reasoning(x))
    BY <2>1 DEF IsAsm, AsmFields, AbsorbBlob
  <2>3. Tells(a.captured, b.captured, Reasoning(x))
    BY <2>2 DEF Tells
  <2>. QED BY <2>1, <2>2, <2>3 DEF AbsorbedOne, IsAsm
<1>4. AbsorbedOne(a, AbsorbMeta(a, x, y))
  <2>1. PICK b : b = AbsorbMeta(a, x, y)
    OBVIOUS
  <2>2. /\ DOMAIN b = AsmFields /\ b = [f \in AsmFields |-> b[f]]
        /\ b.finished = a.finished /\ b.pending = a.pending
        /\ b.captured = a.captured /\ b.out = a.out
    BY <2>1 DEF IsAsm, AsmFields, AbsorbMeta
  <2>. QED BY <2>1, <2>2 DEF AbsorbedOne, IsAsm
<1>. QED BY <1>1, <1>2, <1>3, <1>4

LEMMA AbsorbSteps ==
  ASSUME NEW a, IsAsm(a), NEW d, d.delta \in DeltaKinds
  PROVE  AbsorbedOne(a, Absorb(a, d))
<1>1. CASE d.delta = "text"
  BY <1>1, AbsorbTextSteps DEF Absorb
<1>2. CASE d.delta = "text_end"
  BY <1>2, OtherSteps DEF Absorb
<1>3. CASE d.delta = "refusal"
  BY <1>3, AbsorbRefusalSteps DEF Absorb
<1>4. CASE d.delta = "reasoning_text"
  BY <1>4, OtherSteps DEF Absorb
<1>5. CASE d.delta = "reasoning_blob"
  BY <1>5, OtherSteps DEF Absorb
<1>6. CASE d.delta = "meta"
  BY <1>6, OtherSteps DEF Absorb
<1>7. CASE d.delta = "tool_start"
  BY <1>7, CallSteps DEF Absorb
<1>8. CASE d.delta = "tool_args"
  BY <1>8, CallSteps DEF Absorb
<1>9. CASE d.delta = "tool_replace"
  BY <1>9, CallSteps DEF Absorb
<1>10. CASE d.delta = "tool_end"
  BY <1>10, FinishCallSteps DEF Absorb
<1>. QED BY <1>1, <1>2, <1>3, <1>4, <1>5, <1>6, <1>7, <1>8, <1>9, <1>10 DEF DeltaKinds

-----------------------------------------------------------------------------
(* What has been told is what has been captured *)

Agrees(told, parts) ==
  /\ Fragments(told, "text_delta") = TextOf(parts, "text")
  /\ Fragments(told, "refusal_delta") = TextOf(parts, "refusal")
  /\ OpaqueTold(told) = OpaqueOf(parts)

\* What one part adds to those of its kind.
PieceOf(p, kind) == IF p.part = kind THEN p.text ELSE <<>>

LEMMA TextGrowsBy ==
  ASSUME NEW parts, TextsListed(parts), NEW p,
         p.part \in {"text", "refusal"} =>
           p = [part |-> p.part, text |-> p.text] /\ Listed(p.text)
  PROVE  /\ TextsListed(Append(parts, p))
         /\ \A kind \in {"text", "refusal"} :
              /\ Listed(TextOf(parts, kind))
              /\ TextOf(Append(parts, p), kind) = TextOf(parts, kind) \o PieceOf(p, kind)
<1>1. Listed(parts)
  BY DEF TextsListed
<1>2. IsLonger(Append(parts, p), parts, p)
  BY <1>1, OneLonger
<1>3. PICK more : more = Append(parts, p)
  OBVIOUS
<1>4. TextsListed(more)
  <2>1. PICK n \in Nat : n = Len(parts)
    BY <1>1, ListHas
  <2>2. /\ Listed(more) /\ Len(more) = n + 1 /\ more[n + 1] = p
        /\ \A k \in 1 .. n : more[k] = parts[k]
    BY <1>2, <1>3, <2>1 DEF IsLonger
  <2>3. \A k \in 1 .. n + 1 : k = n + 1 \/ k \in 1 .. n
    BY <2>1
  <2>. QED BY <2>1, <2>2, <2>3 DEF TextsListed
<1>5. ASSUME NEW kind \in {"text", "refusal"}
      PROVE  /\ Listed(TextOf(parts, kind))
             /\ TextOf(Append(parts, p), kind) = TextOf(parts, kind) \o PieceOf(p, kind)
  BY TextGrows DEF PieceOf
<1>. QED BY <1>3, <1>4, <1>5

\* A list of fragments with one more in its last piece is longer by that one.
LEMMA LastPieceGrows ==
  ASSUME NEW parts, NEW q, NEW kind \in {"text", "refusal"}, NEW other \in {"text", "refusal"},
         other # kind, NEW x, GoesOn(parts, q, kind, x), TextsListed(parts)
  PROVE  /\ TextsListed(q)
         /\ TextOf(q, kind) = TextOf(parts, kind) \o <<x>>
         /\ TextOf(q, other) = TextOf(parts, other)
         /\ OpaqueOf(q) = OpaqueOf(parts)
<1>1. PICK front, text :
        /\ Listed(front) /\ Listed(text)
        /\ parts = Append(front, [part |-> kind, text |-> text])
        /\ q = Append(front, [part |-> kind, text |-> Append(text, x)])
  BY DEF GoesOn
<1>2. PICK old, new :
        /\ old = [part |-> kind, text |-> text]
        /\ new = [part |-> kind, text |-> Append(text, x)]
  OBVIOUS
<1>3. PICK more : more = Append(text, x)
  OBVIOUS
<1>4. Listed(more) /\ more = text \o <<x>>
  BY <1>1, <1>3, JoinedWithOne
<1>5. /\ old.part = kind /\ old.text = text /\ old = [part |-> old.part, text |-> old.text]
      /\ new.part = kind /\ new.text = more /\ new = [part |-> new.part, text |-> new.text]
  BY <1>2, <1>3
<1>6. TextsListed(front)
  <2>1. PICK n \in Nat : n = Len(front)
    BY <1>1, ListHas
  <2>2. IsLonger(Append(front, old), front, old)
    BY <1>1, OneLonger
  <2>3. /\ Len(parts) = n + 1 /\ \A k \in 1 .. n : parts[k] = front[k]
    BY <1>1, <1>2, <2>1, <2>2 DEF IsLonger
  <2>4. \A k \in 1 .. n : k \in 1 .. n + 1
    BY <2>1
  <2>. QED BY <1>1, <2>1, <2>3, <2>4 DEF TextsListed
<1>7. /\ Listed(TextOf(front, kind))
      /\ TextOf(parts, kind) = TextOf(front, kind) \o PieceOf(old, kind)
      /\ TextOf(parts, other) = TextOf(front, other) \o PieceOf(old, other)
  BY <1>1, <1>2, <1>5, <1>6, TextGrowsBy
<1>8. /\ TextsListed(q)
      /\ TextOf(q, kind) = TextOf(front, kind) \o PieceOf(new, kind)
      /\ TextOf(q, other) = TextOf(front, other) \o PieceOf(new, other)
  BY <1>1, <1>2, <1>4, <1>5, <1>6, TextGrowsBy
<1>9. /\ PieceOf(old, kind) = text /\ PieceOf(new, kind) = text \o <<x>>
      /\ PieceOf(old, other) = <<>> /\ PieceOf(new, other) = <<>>
  BY <1>4, <1>5 DEF PieceOf
<1>10. TextOf(q, kind) = TextOf(parts, kind) \o <<x>>
  <2>1. PICK h, one : h = TextOf(front, kind) /\ one = <<x>>
    OBVIOUS
  <2>2. Listed(h) /\ Listed(one)
    BY <1>7, <2>1, OneListed
  <2>3. h \o (text \o one) = (h \o text) \o one
    BY <1>1, <2>2, JoinedInARow
  <2>. QED BY <1>7, <1>8, <1>9, <2>1, <2>3
<1>11. OpaqueOf(q) = OpaqueOf(parts)
  <2>1. /\ OpaqueOf(Append(front, old)) =
             OpaqueOf(front) \o (IF old.part \in {"call", "reasoning"} THEN <<old>> ELSE <<>>)
        /\ OpaqueOf(Append(front, new)) =
             OpaqueOf(front) \o (IF new.part \in {"call", "reasoning"} THEN <<new>> ELSE <<>>)
    BY <1>1, OpaqueHoldsMore
  <2>2. old.part \notin {"call", "reasoning"} /\ new.part \notin {"call", "reasoning"}
    BY <1>5
  <2>. QED BY <1>1, <1>2, <2>1, <2>2
<1>. QED BY <1>7, <1>8, <1>9, <1>10, <1>11

LEMMA JoinedWithNothing ==
  ASSUME NEW s, Listed(s)
  PROVE  s \o <<>> = s
BY DEF Listed

\* What one event adds to the texts of its kind.
Fragment(e, kind) == IF e.event = kind THEN <<e.text>> ELSE <<>>

LEMMA OneMoreTold ==
  ASSUME NEW told, Listed(told), NEW e
  PROVE  /\ \A kind : Fragments(Append(told, e), kind) = Fragments(told, kind) \o Fragment(e, kind)
         /\ \A kind : Listed(Fragments(told, kind))
         /\ OpaqueTold(Append(told, e)) = OpaqueTold(told) \o OpaqueIn(e)
         /\ Listed(OpaqueTold(told))
<1>1. ASSUME NEW kind
      PROVE  /\ Fragments(Append(told, e), kind) = Fragments(told, kind) \o Fragment(e, kind)
             /\ Listed(Fragments(told, kind))
  BY FragmentsGrow DEF Fragment
<1>2. OpaqueTold(Append(told, e)) = OpaqueTold(told) \o OpaqueIn(e) /\ Listed(OpaqueTold(told))
  BY OpaqueTellsMore
<1>. QED BY <1>1, <1>2

LEMMA OneMoreHeld ==
  ASSUME NEW parts, Listed(parts), NEW p
  PROVE  /\ p.part \in {"call", "reasoning"} =>
              OpaqueOf(Append(parts, p)) = OpaqueOf(parts) \o <<p>>
         /\ p.part \notin {"call", "reasoning"} =>
              OpaqueOf(Append(parts, p)) = OpaqueOf(parts)
<1>1. PICK h : h = OpaqueOf(parts)
  OBVIOUS
<1>2. /\ Listed(h)
      /\ OpaqueOf(Append(parts, p)) =
           h \o (IF p.part \in {"call", "reasoning"} THEN <<p>> ELSE <<>>)
  BY <1>1, OpaqueHoldsMore
<1>3. h \o <<>> = h
  BY <1>2, JoinedWithNothing
<1>. QED BY <1>1, <1>2, <1>3

LEMMA EventTells ==
  ASSUME NEW told, Listed(told), NEW p, NEW q, TextsListed(p), Agrees(told, p),
         NEW e, Tells(p, q, e)
  PROVE  TextsListed(q) /\ Agrees(Append(told, e), q) /\ e.event # "done"
<1>1. PICK T, R, O :
        /\ T = Fragments(told, "text_delta") /\ R = Fragments(told, "refusal_delta")
        /\ O = OpaqueTold(told)
  OBVIOUS
<1>2. /\ T = TextOf(p, "text") /\ R = TextOf(p, "refusal") /\ O = OpaqueOf(p)
      /\ Listed(T) /\ Listed(R) /\ Listed(O)
  BY <1>1, OneMoreTold DEF Agrees
<1>3. T \o <<>> = T /\ R \o <<>> = R /\ O \o <<>> = O
  BY <1>2, JoinedWithNothing
<1>4. /\ Fragments(Append(told, e), "text_delta") = T \o Fragment(e, "text_delta")
      /\ Fragments(Append(told, e), "refusal_delta") = R \o Fragment(e, "refusal_delta")
      /\ OpaqueTold(Append(told, e)) = O \o OpaqueIn(e)
  BY <1>1, OneMoreTold
<1>5. Listed(p)
  BY DEF TextsListed
<1>6. CASE e.event = "reasoning_delta" /\ q = p
  <2>1. Fragment(e, "text_delta") = <<>> /\ Fragment(e, "refusal_delta") = <<>> /\ OpaqueIn(e) = <<>>
    BY <1>6 DEF Fragment, OpaqueIn
  <2>. QED BY <1>2, <1>3, <1>4, <1>6, <2>1 DEF Agrees
<1>7. ASSUME NEW x, e = TextDelta(x), q = Append(p, TextPart(<<x>>))
      PROVE  TextsListed(q) /\ Agrees(Append(told, e), q) /\ e.event # "done"
  <2>1. /\ Fragment(e, "text_delta") = <<x>> /\ Fragment(e, "refusal_delta") = <<>>
        /\ OpaqueIn(e) = <<>> /\ e.event # "done"
    BY <1>7 DEF Fragment, OpaqueIn, TextDelta
  <2>2. PICK one, r : one = <<x>> /\ r = TextPart(one)
    OBVIOUS
  <2>3. r.part = "text" /\ r.text = one /\ r = [part |-> r.part, text |-> r.text] /\ Listed(one)
    BY <2>2, OneListed DEF TextPart
  <2>4. PieceOf(r, "text") = one /\ PieceOf(r, "refusal") = <<>>
    BY <2>3 DEF PieceOf
  <2>5. /\ TextsListed(q)
        /\ TextOf(q, "text") = T \o PieceOf(r, "text")
        /\ TextOf(q, "refusal") = R \o PieceOf(r, "refusal")
    BY <1>2, <1>7, <2>2, <2>3, TextGrowsBy
  <2>6. OpaqueOf(q) = O
    BY <1>2, <1>5, <1>7, <2>2, <2>3, OneMoreHeld
  <2>. QED BY <1>2, <1>3, <1>4, <2>1, <2>2, <2>4, <2>5, <2>6 DEF Agrees
<1>8. ASSUME NEW x, e = TextDelta(x), GoesOn(p, q, "text", x)
      PROVE  TextsListed(q) /\ Agrees(Append(told, e), q) /\ e.event # "done"
  <2>1. /\ Fragment(e, "text_delta") = <<x>> /\ Fragment(e, "refusal_delta") = <<>>
        /\ OpaqueIn(e) = <<>> /\ e.event # "done"
    BY <1>8 DEF Fragment, OpaqueIn, TextDelta
  <2>2. /\ TextsListed(q)
        /\ TextOf(q, "text") = TextOf(p, "text") \o <<x>>
        /\ TextOf(q, "refusal") = TextOf(p, "refusal")
        /\ OpaqueOf(q) = OpaqueOf(p)
    BY <1>8, LastPieceGrows
  <2>. QED BY <1>2, <1>3, <1>4, <2>1, <2>2 DEF Agrees
<1>9. ASSUME NEW x, e = RefusalDelta(x), q = Append(p, RefusalPart(<<x>>))
      PROVE  TextsListed(q) /\ Agrees(Append(told, e), q) /\ e.event # "done"
  <2>1. /\ Fragment(e, "text_delta") = <<>> /\ Fragment(e, "refusal_delta") = <<x>>
        /\ OpaqueIn(e) = <<>> /\ e.event # "done"
    BY <1>9 DEF Fragment, OpaqueIn, RefusalDelta
  <2>2. PICK one, r : one = <<x>> /\ r = RefusalPart(one)
    OBVIOUS
  <2>3. r.part = "refusal" /\ r.text = one /\ r = [part |-> r.part, text |-> r.text] /\ Listed(one)
    BY <2>2, OneListed DEF RefusalPart
  <2>4. PieceOf(r, "refusal") = one /\ PieceOf(r, "text") = <<>>
    BY <2>3 DEF PieceOf
  <2>5. /\ TextsListed(q)
        /\ TextOf(q, "text") = T \o PieceOf(r, "text")
        /\ TextOf(q, "refusal") = R \o PieceOf(r, "refusal")
    BY <1>2, <1>9, <2>2, <2>3, TextGrowsBy
  <2>6. OpaqueOf(q) = O
    BY <1>2, <1>5, <1>9, <2>2, <2>3, OneMoreHeld
  <2>. QED BY <1>2, <1>3, <1>4, <2>1, <2>2, <2>4, <2>5, <2>6 DEF Agrees
<1>10. ASSUME NEW x, e = RefusalDelta(x), GoesOn(p, q, "refusal", x)
       PROVE  TextsListed(q) /\ Agrees(Append(told, e), q) /\ e.event # "done"
  <2>1. /\ Fragment(e, "text_delta") = <<>> /\ Fragment(e, "refusal_delta") = <<x>>
        /\ OpaqueIn(e) = <<>> /\ e.event # "done"
    BY <1>10 DEF Fragment, OpaqueIn, RefusalDelta
  <2>2. /\ TextsListed(q)
        /\ TextOf(q, "refusal") = TextOf(p, "refusal") \o <<x>>
        /\ TextOf(q, "text") = TextOf(p, "text")
        /\ OpaqueOf(q) = OpaqueOf(p)
    BY <1>10, LastPieceGrows
  <2>. QED BY <1>2, <1>3, <1>4, <2>1, <2>2 DEF Agrees
<1>11. ASSUME NEW r, r.part \in {"call", "reasoning"}, q = Append(p, r), OpaqueIn(e) = <<r>>,
              e.event \notin {"text_delta", "refusal_delta", "done"}
       PROVE  TextsListed(q) /\ Agrees(Append(told, e), q) /\ e.event # "done"
  <2>1. Fragment(e, "text_delta") = <<>> /\ Fragment(e, "refusal_delta") = <<>>
    BY <1>11 DEF Fragment
  <2>2. PieceOf(r, "refusal") = <<>> /\ PieceOf(r, "text") = <<>>
    BY <1>11 DEF PieceOf
  <2>3. r.part \notin {"text", "refusal"}
    BY <1>11
  <2>4. /\ TextsListed(q)
        /\ TextOf(q, "text") = T \o PieceOf(r, "text")
        /\ TextOf(q, "refusal") = R \o PieceOf(r, "refusal")
    BY <1>2, <1>11, <2>3, TextGrowsBy
  <2>5. OpaqueOf(q) = O \o <<r>>
    BY <1>2, <1>5, <1>11, OneMoreHeld
  <2>. QED BY <1>2, <1>3, <1>4, <1>11, <2>1, <2>2, <2>4, <2>5 DEF Agrees
<1>12. ASSUME NEW id, NEW args, e = ToolCall(id, args), q = Append(p, CallPart(id, args))
       PROVE  TextsListed(q) /\ Agrees(Append(told, e), q) /\ e.event # "done"
  <2>1. PICK r : r = CallPart(id, args)
    OBVIOUS
  <2>2. /\ r.part \in {"call", "reasoning"} /\ OpaqueIn(e) = <<r>>
        /\ e.event \notin {"text_delta", "refusal_delta", "done"}
    BY <1>12, <2>1 DEF ToolCall, CallPart, OpaqueIn
  <2>. QED BY <1>11, <1>12, <2>1, <2>2
<1>13. ASSUME NEW data, e = Reasoning(data), q = Append(p, ReasoningPart(data))
       PROVE  TextsListed(q) /\ Agrees(Append(told, e), q) /\ e.event # "done"
  <2>1. PICK r : r = ReasoningPart(data)
    OBVIOUS
  <2>2. /\ r.part \in {"call", "reasoning"} /\ OpaqueIn(e) = <<r>>
        /\ e.event \notin {"text_delta", "refusal_delta", "done"}
    BY <1>13, <2>1 DEF Reasoning, ReasoningPart, OpaqueIn
  <2>. QED BY <1>11, <1>13, <2>1, <2>2
<1>. QED BY <1>6, <1>7, <1>8, <1>9, <1>10, <1>12, <1>13 DEF Tells

-----------------------------------------------------------------------------
(* Deltas absorbed one after the other, and calls flushed *)

NoneDone(told) == \A k \in 1 .. Len(told) : told[k].event # "done"

\* An assembler still at work: what was told, handed over or queued, is what it
\* has captured, and the end has not been told.
Working(told, a) ==
  /\ IsAsm(a) /\ a.finished = FALSE
  /\ Listed(told)
  /\ Agrees(told \o a.out, a.captured)
  /\ NoneDone(told \o a.out)

LEMMA AbsorbedOneWorks ==
  ASSUME NEW told, NEW a, NEW b, Working(told, a), AbsorbedOne(a, b)
  PROVE  Working(told, b)
<1>1. /\ Listed(told) /\ Listed(a.out) /\ TextsListed(a.captured)
      /\ a.finished = FALSE /\ b.finished = FALSE
  BY DEF Working, IsAsm, AbsorbedOne
<1>2. CASE b.out = a.out /\ b.captured = a.captured
  BY <1>1, <1>2 DEF Working, IsAsm, AbsorbedOne
<1>3. ASSUME NEW e, b.out = Append(a.out, e), Tells(a.captured, b.captured, e)
      PROVE  Working(told, b)
  <2>1. PICK all : all = told \o a.out
    OBVIOUS
  <2>2. Listed(all) /\ Agrees(all, a.captured) /\ NoneDone(all)
    BY <1>1, <2>1, Joined DEF Working
  <2>3. TextsListed(b.captured) /\ Agrees(Append(all, e), b.captured) /\ e.event # "done"
    BY <1>1, <1>3, <2>2, EventTells
  <2>4. told \o b.out = Append(all, e) /\ Listed(b.out)
    <3>1. PICK out, one : out = a.out /\ one = <<e>>
      OBVIOUS
    <3>2. Listed(one) /\ Listed(out)
      BY <1>1, <3>1, OneListed
    <3>3. b.out = out \o one /\ Listed(b.out)
      BY <1>3, <3>1, <3>2, JoinedWithOne
    <3>4. told \o (out \o one) = all \o one
      <4>1. told \o (out \o one) = (told \o out) \o one
        BY ONLY <1>1, <3>2, JoinedInARow
      <4>. QED BY <2>1, <3>1, <4>1
    <3>5. Append(all, e) = all \o one
      BY <2>2, <3>1, JoinedWithOne
    <3>. QED BY <3>3, <3>4, <3>5
  <2>5. NoneDone(Append(all, e))
    <3>1. IsLonger(Append(all, e), all, e)
      BY <2>2, OneLonger
    <3>2. PICK more : more = Append(all, e)
      OBVIOUS
    <3>3. PICK n \in Nat : n = Len(all)
      BY <2>2, ListHas
    <3>4. Len(more) = n + 1 /\ more[n + 1] = e /\ \A k \in 1 .. n : more[k] = all[k]
      BY <3>1, <3>2, <3>3 DEF IsLonger
    <3>5. \A k \in 1 .. n + 1 : k = n + 1 \/ k \in 1 .. n
      BY <3>3
    <3>6. \A k \in 1 .. n : all[k].event # "done"
      BY <2>2, <3>3 DEF NoneDone
    <3>. QED BY <2>3, <3>2, <3>4, <3>5, <3>6 DEF NoneDone
  <2>6. IsAsm(b)
    BY <2>3, <2>4 DEF AbsorbedOne, IsAsm
  <2>. QED BY <1>1, <2>3, <2>4, <2>5, <2>6 DEF Working
<1>. QED BY <1>2, <1>3 DEF AbsorbedOne

\* The deltas of a frame are of the kinds that absorb knows.
AreDeltas(s) == Listed(s) /\ \A k \in 1 .. Len(s) : s[k].delta \in DeltaKinds

\* A loop, given as a function of the turns done, and where it is after m of them.
AbsorbLoop(f, a, deltas, m) ==
  f = [n \in 0 .. m |-> IF n = 0 THEN a ELSE Absorb(f[n - 1], deltas[n])]

FlushLoop(f, a, m) ==
  f = [n \in 0 .. m |-> IF n = 0 THEN a ELSE FinishCall(f[n - 1], LowestSlot(f[n - 1]))]

LEMMA AbsorbLoopRuns ==
  ASSUME NEW a, NEW deltas, NEW m \in Nat
  PROVE  \E f : AbsorbLoop(f, a, deltas, m)
<1>. DEFINE Good == {k \in 0 .. m : \E f : AbsorbLoop(f, a, deltas, k)}
<1>1. 0 \in Good
  <2>1. PICK f : f = [n \in 0 .. 0 |-> a]
    OBVIOUS
  <2>2. \A n \in 0 .. 0 : n = 0
    OBVIOUS
  <2>3. AbsorbLoop(f, a, deltas, 0)
    BY <2>1, <2>2 DEF AbsorbLoop
  <2>. QED BY <2>3
<1>2. ASSUME NEW k \in 1 .. m, k - 1 \in Good PROVE k \in Good
  <2>1. PICK f : AbsorbLoop(f, a, deltas, k - 1)
    BY <1>2
  <2>2. PICK last : last = Absorb(f[k - 1], deltas[k])
    OBVIOUS
  <2>3. PICK g : g = [n \in 0 .. k |-> IF n = k THEN last ELSE f[n]]
    OBVIOUS
  <2>4. \A n \in 0 .. k - 1 : f[n] = IF n = 0 THEN a ELSE Absorb(f[n - 1], deltas[n])
    BY <2>1 DEF AbsorbLoop
  <2>5. /\ \A n \in 0 .. k : n # k => n \in 0 .. k - 1
        /\ \A n \in 0 .. k : n # 0 => n - 1 \in 0 .. k /\ n - 1 # k
        /\ k # 0 /\ k \in 0 .. k
    OBVIOUS
  <2>6. ASSUME NEW n \in 0 .. k
        PROVE  g[n] = IF n = 0 THEN a ELSE Absorb(g[n - 1], deltas[n])
    <3>1. CASE n = k
      <4>1. g[n] = last /\ g[n - 1] = f[k - 1] /\ n # 0
        BY <2>3, <2>5, <3>1
      <4>. QED BY <2>2, <3>1, <4>1
    <3>2. CASE n # k
      <4>1. g[n] = f[n] /\ (n # 0 => g[n - 1] = f[n - 1])
        BY <2>3, <2>5, <3>2
      <4>2. f[n] = IF n = 0 THEN a ELSE Absorb(f[n - 1], deltas[n])
        BY <2>4, <2>5, <3>2
      <4>. QED BY <4>1, <4>2
    <3>. QED BY <3>1, <3>2
  <2>7. AbsorbLoop(g, a, deltas, k)
    <3>1. g = [n \in 0 .. k |-> g[n]]
      BY <2>3
    <3>. QED BY <2>6, <3>1 DEF AbsorbLoop
  <2>8. k \in 0 .. m
    OBVIOUS
  <2>. QED BY <2>7, <2>8
<1>3. \A k \in 1 .. m : k - 1 \in Good => k \in Good
  BY <1>2
<1>4. \A k \in 0 .. m : k \in Good
  <2>. HIDE DEF Good
  <2>. QED BY <1>1, <1>3, CountingUp
<1>5. m \in 0 .. m
  OBVIOUS
<1>. QED BY <1>4, <1>5

LEMMA FlushLoopRuns ==
  ASSUME NEW a, NEW m \in Nat
  PROVE  \E f : FlushLoop(f, a, m)
<1>. DEFINE Good == {k \in 0 .. m : \E f : FlushLoop(f, a, k)}
<1>1. 0 \in Good
  <2>1. PICK f : f = [n \in 0 .. 0 |-> a]
    OBVIOUS
  <2>2. \A n \in 0 .. 0 : n = 0
    OBVIOUS
  <2>3. FlushLoop(f, a, 0)
    BY <2>1, <2>2 DEF FlushLoop
  <2>. QED BY <2>3
<1>2. ASSUME NEW k \in 1 .. m, k - 1 \in Good PROVE k \in Good
  <2>1. PICK f : FlushLoop(f, a, k - 1)
    BY <1>2
  <2>2. PICK last : last = FinishCall(f[k - 1], LowestSlot(f[k - 1]))
    OBVIOUS
  <2>3. PICK g : g = [n \in 0 .. k |-> IF n = k THEN last ELSE f[n]]
    OBVIOUS
  <2>4. \A n \in 0 .. k - 1 :
          f[n] = IF n = 0 THEN a ELSE FinishCall(f[n - 1], LowestSlot(f[n - 1]))
    BY <2>1 DEF FlushLoop
  <2>5. /\ \A n \in 0 .. k : n # k => n \in 0 .. k - 1
        /\ \A n \in 0 .. k : n # 0 => n - 1 \in 0 .. k /\ n - 1 # k
        /\ k # 0 /\ k \in 0 .. k
    OBVIOUS
  <2>6. ASSUME NEW n \in 0 .. k
        PROVE  g[n] = IF n = 0 THEN a ELSE FinishCall(g[n - 1], LowestSlot(g[n - 1]))
    <3>1. CASE n = k
      <4>1. g[n] = last /\ g[n - 1] = f[k - 1] /\ n # 0
        BY <2>3, <2>5, <3>1
      <4>. QED BY <2>2, <3>1, <4>1
    <3>2. CASE n # k
      <4>1. g[n] = f[n] /\ (n # 0 => g[n - 1] = f[n - 1])
        BY <2>3, <2>5, <3>2
      <4>2. f[n] = IF n = 0 THEN a ELSE FinishCall(f[n - 1], LowestSlot(f[n - 1]))
        BY <2>4, <2>5, <3>2
      <4>. QED BY <4>1, <4>2
    <3>. QED BY <3>1, <3>2
  <2>7. FlushLoop(g, a, k)
    <3>1. g = [n \in 0 .. k |-> g[n]]
      BY <2>3
    <3>. QED BY <2>6, <3>1 DEF FlushLoop
  <2>8. k \in 0 .. m
    OBVIOUS
  <2>. QED BY <2>7, <2>8
<1>3. \A k \in 1 .. m : k - 1 \in Good => k \in Good
  BY <1>2
<1>4. \A k \in 0 .. m : k \in Good
  <2>. HIDE DEF Good
  <2>. QED BY <1>1, <1>3, CountingUp
<1>5. m \in 0 .. m
  OBVIOUS
<1>. QED BY <1>4, <1>5

\* Whatever the deltas of a frame are, what was told stays what was captured.
LEMMA AbsorbAllWorks ==
  ASSUME NEW told, NEW a, Working(told, a), NEW deltas, AreDeltas(deltas)
  PROVE  Working(told, AbsorbAll(a, deltas))
<1>1. PICK m \in Nat : m = Len(deltas)
  BY ListHas DEF AreDeltas
<1>. DEFINE after == CHOOSE f : AbsorbLoop(f, a, deltas, m)
<1>2. AbsorbAll(a, deltas) = after[m]
  BY <1>1 DEF AbsorbAll, AbsorbLoop
<1>3. AbsorbLoop(after, a, deltas, m)
  BY AbsorbLoopRuns
<1>. HIDE DEF after
<1>4. \A n \in 0 .. m : after[n] = IF n = 0 THEN a ELSE Absorb(after[n - 1], deltas[n])
  BY <1>3 DEF AbsorbLoop
<1>. DEFINE Good == {k \in 0 .. m : Working(told, after[k])}
<1>5. 0 \in Good
  <2>1. 0 \in 0 .. m /\ after[0] = a
    BY <1>4
  <2>. QED BY <2>1
<1>6. ASSUME NEW k \in 1 .. m, k - 1 \in Good PROVE k \in Good
  <2>1. Working(told, after[k - 1]) /\ k \in 0 .. m /\ k # 0
    BY <1>6
  <2>2. after[k] = Absorb(after[k - 1], deltas[k])
    BY <1>4, <2>1
  <2>3. deltas[k].delta \in DeltaKinds
    BY <1>1 DEF AreDeltas
  <2>4. PICK b : b = after[k - 1]
    OBVIOUS
  <2>5. AbsorbedOne(b, Absorb(b, deltas[k]))
    BY <2>1, <2>3, <2>4, AbsorbSteps DEF Working
  <2>6. Working(told, after[k])
    BY <2>1, <2>2, <2>4, <2>5, AbsorbedOneWorks
  <2>. QED BY <2>1, <2>6
<1>7. \A k \in 1 .. m : k - 1 \in Good => k \in Good
  BY <1>6
<1>8. \A k \in 0 .. m : k \in Good
  <2>. HIDE DEF Good
  <2>. QED BY <1>5, <1>7, CountingUp
<1>9. m \in 0 .. m
  OBVIOUS
<1>. QED BY <1>2, <1>8, <1>9

LEMMA FlushedWorks ==
  ASSUME NEW told, NEW a, Working(told, a)
  PROVE  Working(told, Flushed(a))
<1>1. PICK m \in Nat : m = Cardinality(DOMAIN a.pending)
  BY FS_CardinalityType DEF Working, IsAsm
<1>. DEFINE after == CHOOSE f : FlushLoop(f, a, m)
<1>2. Flushed(a) = after[m]
  BY <1>1 DEF Flushed, FlushLoop
<1>3. FlushLoop(after, a, m)
  BY FlushLoopRuns
<1>. HIDE DEF after
<1>4. \A n \in 0 .. m :
        after[n] = IF n = 0 THEN a ELSE FinishCall(after[n - 1], LowestSlot(after[n - 1]))
  BY <1>3 DEF FlushLoop
<1>. DEFINE Good == {k \in 0 .. m : Working(told, after[k])}
<1>5. 0 \in Good
  <2>1. 0 \in 0 .. m /\ after[0] = a
    BY <1>4
  <2>. QED BY <2>1
<1>6. ASSUME NEW k \in 1 .. m, k - 1 \in Good PROVE k \in Good
  <2>1. Working(told, after[k - 1]) /\ k \in 0 .. m /\ k # 0
    BY <1>6
  <2>2. PICK b, slot : b = after[k - 1] /\ slot = LowestSlot(b)
    OBVIOUS
  <2>3. after[k] = FinishCall(b, slot)
    BY <1>4, <2>1, <2>2
  <2>4. AbsorbedOne(b, FinishCall(b, slot))
    BY <2>1, <2>2, FinishCallSteps DEF Working
  <2>5. Working(told, after[k])
    BY <2>1, <2>2, <2>3, <2>4, AbsorbedOneWorks
  <2>. QED BY <2>1, <2>5
<1>7. \A k \in 1 .. m : k - 1 \in Good => k \in Good
  BY <1>6
<1>8. \A k \in 0 .. m : k \in Good
  <2>. HIDE DEF Good
  <2>. QED BY <1>5, <1>7, CountingUp
<1>9. m \in 0 .. m
  OBVIOUS
<1>. QED BY <1>2, <1>8, <1>9

\* An assembler that has told the end, last of all.
Over(told, a) ==
  /\ DOMAIN a = AsmFields /\ a.finished = TRUE
  /\ Listed(told) /\ Listed(a.out)
  /\ Agrees(told \o a.out, a.captured)
  /\ \E before, end : /\ Listed(before) /\ NoneDone(before) /\ end.event = "done"
                      /\ told \o a.out = Append(before, end)

LEMMA ClosedIsOver ==
  ASSUME NEW told, NEW a, Working(told, a)
  PROVE  Over(told, Closed(a))
<1>1. PICK b : b = Flushed(a)
  OBVIOUS
<1>2. Working(told, b)
  BY <1>1, FlushedWorks
<1>3. /\ DOMAIN b = AsmFields /\ b = [x \in AsmFields |-> b[x]]
      /\ Listed(told) /\ Listed(b.out) /\ Agrees(told \o b.out, b.captured)
      /\ NoneDone(told \o b.out)
  BY <1>2 DEF Working, IsAsm
<1>4. PICK end : end = Done(a.status, a.usage)
  OBVIOUS
<1>5. PICK c : c = Closed(a)
  OBVIOUS
<1>6. c = [b EXCEPT !.finished = TRUE, !.out = Append(@, end)]
  BY <1>1, <1>4, <1>5 DEF Closed
<1>7. /\ DOMAIN c = AsmFields /\ c.finished = TRUE /\ c.captured = b.captured
      /\ c.out = Append(b.out, end)
  BY <1>3, <1>6 DEF AsmFields
<1>8. PICK all, one, out : all = told \o b.out /\ one = <<end>> /\ out = b.out
  OBVIOUS
<1>9. Listed(all) /\ Listed(one) /\ Listed(out)
  BY <1>3, <1>8, Joined, OneListed
<1>10. c.out = out \o one /\ Listed(c.out)
  BY <1>7, <1>8, <1>9, JoinedWithOne
<1>11. told \o c.out = Append(all, end)
  <2>1. told \o (out \o one) = (told \o out) \o one
    BY ONLY <1>3, <1>9, JoinedInARow
  <2>2. Append(all, end) = all \o one
    BY <1>8, <1>9, JoinedWithOne
  <2>. QED BY <1>8, <1>10, <2>1, <2>2
<1>12. Agrees(Append(all, end), b.captured)
  <2>1. PICK T, R, O :
          /\ T = Fragments(all, "text_delta") /\ R = Fragments(all, "refusal_delta")
          /\ O = OpaqueTold(all)
    OBVIOUS
  <2>2. /\ Fragment(end, "text_delta") = <<>> /\ Fragment(end, "refusal_delta") = <<>>
        /\ OpaqueIn(end) = <<>>
    BY <1>4 DEF Fragment, OpaqueIn, Done
  <2>3. /\ Fragments(Append(all, end), "text_delta") = T \o Fragment(end, "text_delta")
        /\ Fragments(Append(all, end), "refusal_delta") = R \o Fragment(end, "refusal_delta")
        /\ OpaqueTold(Append(all, end)) = O \o OpaqueIn(end)
        /\ Listed(T) /\ Listed(R) /\ Listed(O)
    BY <1>9, <2>1, OneMoreTold
  <2>4. T \o <<>> = T /\ R \o <<>> = R /\ O \o <<>> = O
    BY <2>3, JoinedWithNothing
  <2>5. Agrees(all, b.captured)
    BY <1>3, <1>8
  <2>. QED BY <2>1, <2>2, <2>3, <2>4, <2>5 DEF Agrees
<1>13. end.event = "done" /\ NoneDone(all)
  BY <1>3, <1>4, <1>8 DEF Done
<1>. QED BY <1>3, <1>5, <1>7, <1>9, <1>10, <1>11, <1>12, <1>13 DEF Over

-----------------------------------------------------------------------------
(* What the decoders yield *)

LEMMA FewDeltas ==
  /\ AreDeltas(<<>>)
  /\ \A x : x.delta \in DeltaKinds => AreDeltas(<<x>>)
  /\ \A x, y : x.delta \in DeltaKinds /\ y.delta \in DeltaKinds => AreDeltas(<<x, y>>)
<1>1. AreDeltas(<<>>)
  BY Nothing DEF AreDeltas
<1>2. ASSUME NEW x, x.delta \in DeltaKinds PROVE AreDeltas(<<x>>)
  <2>1. Listed(<<x>>) /\ Len(<<x>>) = 1 /\ <<x>>[1] = x
    BY OneListed
  <2>2. \A k \in 1 .. 1 : k = 1
    OBVIOUS
  <2>3. PICK s : s = <<x>>
    OBVIOUS
  <2>. QED BY <1>2, <2>1, <2>2, <2>3 DEF AreDeltas
<1>3. ASSUME NEW x, NEW y, x.delta \in DeltaKinds, y.delta \in DeltaKinds PROVE AreDeltas(<<x, y>>)
  <2>1. PICK s : s = <<x, y>>
    OBVIOUS
  <2>2. s \in Seq({x, y}) /\ Len(s) = 2 /\ s[1] = x /\ s[2] = y
    BY <2>1
  <2>3. \A k \in 1 .. 2 : k = 1 \/ k = 2
    OBVIOUS
  <2>4. Listed(s)
    BY <2>2, ListIs
  <2>. QED BY <1>3, <2>1, <2>2, <2>3, <2>4 DEF AreDeltas
<1>. QED BY <1>1, <1>2, <1>3

LEMMA DeltasJoined ==
  ASSUME NEW s, NEW t, AreDeltas(s), AreDeltas(t)
  PROVE  AreDeltas(s \o t)
<1>1. PICK all : all = s \o t
  OBVIOUS
<1>2. PICK n \in Nat, m \in Nat : n = Len(s) /\ m = Len(t)
  BY ListHas DEF AreDeltas
<1>3. /\ Listed(all) /\ Len(all) = n + m
      /\ \A k \in 1 .. n : all[k] = s[k]
      /\ \A k \in 1 .. m : all[n + k] = t[k]
  BY <1>1, <1>2, Joined DEF AreDeltas
<1>4. ASSUME NEW k \in 1 .. n + m PROVE all[k].delta \in DeltaKinds
  <2>1. CASE k \in 1 .. n
    BY <1>2, <1>3, <2>1 DEF AreDeltas
  <2>2. CASE k \notin 1 .. n
    <3>1. PICK l \in 1 .. m : k = n + l
      <4>1. k - n \in 1 .. m /\ k = n + (k - n)
        BY <2>2
      <4>. QED BY <4>1
    <3>2. all[k] = t[l]
      BY <1>3, <3>1
    <3>. QED BY <1>2, <3>2 DEF AreDeltas
  <2>. QED BY <2>1, <2>2
<1>. QED BY <1>1, <1>3, <1>4 DEF AreDeltas

LEMMA DeltasFlattened ==
  ASSUME NEW n \in Nat, NEW f, f = [k \in 1 .. n |-> f[k]], \A k \in 1 .. n : AreDeltas(f[k])
  PROVE  AreDeltas(FlattenSeq(f))
<1>1. PICK S : S = UNION {Range(f[k]) : k \in 1 .. n}
  OBVIOUS
<1>2. \A x \in S : x.delta \in DeltaKinds
  <2>1. ASSUME NEW x \in S PROVE x.delta \in DeltaKinds
    <3>1. PICK k \in 1 .. n : x \in Range(f[k])
      BY <1>1
    <3>2. Listed(f[k]) /\ DOMAIN f[k] = 1 .. Len(f[k])
      BY ListHas DEF AreDeltas
    <3>3. PICK l \in 1 .. Len(f[k]) : x = f[k][l]
      BY <3>1, <3>2 DEF Range
    <3>. QED BY <3>3 DEF AreDeltas
  <2>. QED BY <2>1
<1>3. ASSUME NEW k \in 1 .. n PROVE f[k] \in Seq(S)
  <2>1. Listed(f[k]) /\ Range(f[k]) \subseteq S
    BY <1>1 DEF AreDeltas
  <2>. QED BY <2>1, ListIn
<1>4. f \in Seq(Seq(S))
  BY <1>3
<1>5. FlattenSeq(f) \in Seq(S)
  <2>1. <<>> \in Seq(S)
    OBVIOUS
  <2>. QED BY <1>4, <2>1, FlattenAppended
<1>6. PICK g : g = FlattenSeq(f)
  OBVIOUS
<1>7. Listed(g) /\ \A k \in 1 .. Len(g) : g[k] \in S
  <2>1. g \in Seq(S)
    BY <1>5, <1>6
  <2>2. \A k \in 1 .. Len(g) : g[k] \in S
    BY <2>1
  <2>. QED BY <2>1, <2>2, ListIs
<1>. QED BY <1>2, <1>6, <1>7 DEF AreDeltas

LEMMA DeltasMapped ==
  ASSUME NEW n \in Nat, NEW f, f = [k \in 1 .. n |-> f[k]],
         \A k \in 1 .. n : f[k].delta \in DeltaKinds
  PROVE  AreDeltas(f)
<1>1. PICK S : S = {f[k] : k \in 1 .. n}
  OBVIOUS
<1>2. f \in Seq(S) /\ Len(f) = n
  BY <1>1
<1>3. Listed(f)
  BY <1>2, ListIs
<1>. QED BY <1>2, <1>3 DEF AreDeltas

LEMMA AnthropicDeltas ==
  ASSUME NEW d, NEW frame
  PROVE  AreDeltas(AnthropicDecode(d, frame).deltas)
<1>1. ASSUME NEW x, NEW y PROVE Yields(x, y).deltas = y
  BY DEF Yields
<1>2. ASSUME NEW x PROVE AreDeltas(Ignores(x).deltas) /\ AreDeltas(Fails(x).deltas)
  BY <1>1, FewDeltas DEF Ignores, Fails
<1>3. ASSUME NEW x, NEW y, y.delta \in DeltaKinds PROVE AreDeltas(Yields(x, <<y>>).deltas)
  BY <1>1, <1>3, FewDeltas
<1>4. ASSUME NEW i, NEW block PROVE AreDeltas(AnthropicStart(d, i, block).deltas)
  <2>1. RawToolStart(i, block.id).delta \in DeltaKinds
    BY DEF RawToolStart, DeltaKinds
  <2>. QED BY <1>2, <1>3, <2>1 DEF AnthropicStart
<1>5. ASSUME NEW i, NEW delta PROVE AreDeltas(AnthropicDelta(d, i, delta).deltas)
  <2>1. /\ RawText(delta.text).delta \in DeltaKinds
        /\ RawToolArgs(i, delta.json).delta \in DeltaKinds
        /\ RawReasoningText(delta.thinking).delta \in DeltaKinds
    BY DEF RawText, RawToolArgs, RawReasoningText, DeltaKinds
  <2>. QED BY <1>2, <1>3, <2>1 DEF AnthropicDelta
<1>6. ASSUME NEW i PROVE AreDeltas(AnthropicStop(d, i).deltas)
  <2>1. /\ RawToolEnd(i).delta \in DeltaKinds /\ RawTextEnd.delta \in DeltaKinds
        /\ \A data : RawReasoningBlob(data).delta \in DeltaKinds
    BY DEF RawToolEnd, RawTextEnd, RawReasoningBlob, DeltaKinds
  <2>. QED BY <1>2, <1>3, <2>1 DEF AnthropicStop
<1>7. ASSUME NEW stop, NEW usage PROVE AreDeltas(AnthropicEnd(d, stop, usage).deltas)
  <2>1. \A s, u : RawMeta(s, u).delta \in DeltaKinds
    BY DEF RawMeta, DeltaKinds
  <2>. QED BY <1>3, <2>1 DEF AnthropicEnd
<1>. QED BY <1>2, <1>4, <1>5, <1>6, <1>7 DEF AnthropicDecode

LEMMA GeminiDeltas ==
  ASSUME NEW d, NEW frame
  PROVE  AreDeltas(GeminiDecode(d, frame).deltas)
<1>1. ASSUME NEW x, NEW y PROVE Yields(x, y).deltas = y
  BY DEF Yields
<1>2. ASSUME NEW x PROVE AreDeltas(Ignores(x).deltas)
  BY <1>1, FewDeltas DEF Ignores
<1>3. ASSUME NEW x, NEW y, y.delta \in DeltaKinds PROVE AreDeltas(Yields(x, <<y>>).deltas)
  BY <1>1, <1>3, FewDeltas
<1>4. ASSUME NEW i, NEW step PROVE AreDeltas(GeminiStart(d, i, step).deltas)
  <2>1. RawToolStart(i, step.id).delta \in DeltaKinds
    BY DEF RawToolStart, DeltaKinds
  <2>. QED BY <1>2, <1>3, <2>1 DEF GeminiStart
<1>5. ASSUME NEW i, NEW delta PROVE AreDeltas(GeminiDelta(d, i, delta).deltas)
  <2>1. /\ RawText(delta.text).delta \in DeltaKinds
        /\ RawToolArgs(i, delta.json).delta \in DeltaKinds
        /\ RawReasoningText(delta.text).delta \in DeltaKinds
    BY DEF RawText, RawToolArgs, RawReasoningText, DeltaKinds
  <2>. QED BY <1>2, <1>3, <2>1 DEF GeminiDelta
<1>6. ASSUME NEW i PROVE AreDeltas(GeminiStop(d, i).deltas)
  <2>1. \A held : StepEnded(i, held).delta \in DeltaKinds
    BY DEF StepEnded, RawToolEnd, RawTextEnd, RawReasoningBlob, DeltaKinds
  <2>. QED BY <1>2, <1>3, <2>1 DEF GeminiStop
<1>7. \A s, u : RawMeta(s, u).delta \in DeltaKinds
  BY DEF RawMeta, DeltaKinds
<1>. QED BY <1>2, <1>3, <1>4, <1>5, <1>6, <1>7 DEF GeminiDecode

LEMMA ResponsesYield ==
  ASSUME NEW d, NEW frame
  PROVE  AreDeltas(ResponsesDecode(d, frame).deltas)
<1>1. \A x, y : Yields(x, y).deltas = y /\ Fails(x).deltas = <<>>
  BY DEF Yields, Fails
<1>2. ASSUME NEW event, NEW p PROVE AreDeltas(ResponsesDeltas(event, p))
  <2>1. /\ RawText(p.text).delta \in DeltaKinds /\ RawTextEnd.delta \in DeltaKinds
        /\ RawRefusal(p.text).delta \in DeltaKinds /\ RawReasoningText(p.text).delta \in DeltaKinds
        /\ RawToolStart(p.index, p.item.id).delta \in DeltaKinds
        /\ RawReasoningBlob(p.item).delta \in DeltaKinds
        /\ RawToolArgs(p.index, p.json).delta \in DeltaKinds
        /\ RawToolReplace(p.index, p.json).delta \in DeltaKinds
        /\ RawToolEnd(p.index).delta \in DeltaKinds
        /\ RawMeta(ResponsesStatus(p.status), p.usage).delta \in DeltaKinds
    BY DEF RawText, RawTextEnd, RawRefusal, RawReasoningText, RawToolStart, RawReasoningBlob,
           RawToolArgs, RawToolReplace, RawToolEnd, RawMeta, DeltaKinds
  <2>. QED BY <2>1, FewDeltas DEF ResponsesDeltas
<1>. QED BY <1>1, <1>2, FewDeltas DEF ResponsesDecode

LEMMA ChatYields ==
  ASSUME NEW d, NEW frame, HasPayload(frame), IsChunk(frame)
  PROVE  AreDeltas(ChatDecode(d, frame).deltas)
<1>1. \A x, y : Yields(x, y).deltas = y /\ Fails(x).deltas = <<>> /\ Ignores(x).deltas = <<>>
  BY DEF Yields, Fails, Ignores
<1>2. PICK p : p = Payload(frame)
  OBVIOUS
<1>3. ASSUME frame # ChatSentinel PROVE AreDeltas(ChatDeltas(p))
  <2>1. Listed(p.text) /\ Listed(p.refusal) /\ Listed(p.calls)
    BY <1>2, <1>3 DEF IsChunk, Listed
  <2>2. PICK t, r, c, m :
          /\ t = [k \in DOMAIN p.text |-> RawText(p.text[k])]
          /\ r = [k \in DOMAIN p.refusal |-> RawRefusal(p.refusal[k])]
          /\ c = [k \in DOMAIN p.calls |-> ChatCallDeltas(p.calls[k])]
          /\ m = ChatMeta(p)
    OBVIOUS
  <2>3. AreDeltas(t)
    <3>1. PICK n \in Nat : n = Len(p.text) /\ DOMAIN p.text = 1 .. n
      BY <2>1, ListHas
    <3>2. t = [k \in 1 .. n |-> t[k]] /\ \A k \in 1 .. n : t[k].delta \in DeltaKinds
      BY <2>2, <3>1 DEF RawText, DeltaKinds
    <3>. QED BY <3>2, DeltasMapped
  <2>4. AreDeltas(r)
    <3>1. PICK n \in Nat : n = Len(p.refusal) /\ DOMAIN p.refusal = 1 .. n
      BY <2>1, ListHas
    <3>2. r = [k \in 1 .. n |-> r[k]] /\ \A k \in 1 .. n : r[k].delta \in DeltaKinds
      BY <2>2, <3>1 DEF RawRefusal, DeltaKinds
    <3>. QED BY <3>2, DeltasMapped
  <2>5. AreDeltas(FlattenSeq(c))
    <3>1. PICK n \in Nat : n = Len(p.calls) /\ DOMAIN p.calls = 1 .. n
      BY <2>1, ListHas
    <3>2. ASSUME NEW call PROVE AreDeltas(ChatCallDeltas(call))
      <4>1. /\ RawToolStart(call.index, call.id[1]).delta \in DeltaKinds
            /\ RawToolArgs(call.index, call.json).delta \in DeltaKinds
        BY DEF RawToolStart, RawToolArgs, DeltaKinds
      <4>. DEFINE x == IF call.id = <<>> THEN <<>> ELSE <<RawToolStart(call.index, call.id[1])>>
                  y == IF call.json = <<>> THEN <<>> ELSE <<RawToolArgs(call.index, call.json)>>
      <4>2. AreDeltas(x) /\ AreDeltas(y)
        BY <4>1, FewDeltas
      <4>3. ChatCallDeltas(call) = x \o y
        BY DEF ChatCallDeltas
      <4>. HIDE DEF x, y
      <4>. QED BY <4>2, <4>3, DeltasJoined
    <3>3. c = [k \in 1 .. n |-> c[k]] /\ \A k \in 1 .. n : c[k] = ChatCallDeltas(p.calls[k])
      BY <2>2, <3>1
    <3>4. \A k \in 1 .. n : AreDeltas(c[k])
      BY <3>2, <3>3
    <3>. QED BY <3>3, <3>4, DeltasFlattened
  <2>6. AreDeltas(m)
    <3>1. \A s, u : RawMeta(s, u).delta \in DeltaKinds
      BY DEF RawMeta, DeltaKinds
    <3>. QED BY <2>2, <3>1, FewDeltas DEF ChatMeta
  <2>7. PICK u : u = FlattenSeq(c)
    OBVIOUS
  <2>8. AreDeltas(((t \o r) \o u) \o m)
    <3>1. AreDeltas(t \o r)
      BY <2>3, <2>4, DeltasJoined
    <3>2. AreDeltas((t \o r) \o u)
      BY <2>5, <2>7, <3>1, DeltasJoined
    <3>. QED BY <2>6, <3>2, DeltasJoined
  <2>9. ChatDeltas(p) = ((t \o r) \o u) \o m
    BY <2>2, <2>7 DEF ChatDeltas
  <2>. QED BY <2>8, <2>9
<1>. QED BY <1>1, <1>2, <1>3, FewDeltas DEF ChatDecode

Dialects == {"anthropic", "gemini", "chat", "responses"}

LEMMA DecodeYields ==
  ASSUME NEW dialect \in Dialects, NEW d, NEW frame, dialect = "chat" => IsChunk(frame)
  PROVE  AreDeltas(Decode(dialect, d, frame).deltas)
<1>1. CASE ~HasPayload(frame)
  <2>1. Decode(dialect, d, frame) = Ignores(d)
    BY <1>1 DEF Decode
  <2>2. Ignores(d).deltas = <<>>
    BY DEF Ignores, Yields
  <2>. QED BY <2>1, <2>2, FewDeltas
<1>2. CASE HasPayload(frame) /\ dialect = "anthropic"
  <2>1. Decode(dialect, d, frame) = AnthropicDecode(d, frame)
    BY <1>2 DEF Decode
  <2>. QED BY <2>1, AnthropicDeltas
<1>3. CASE HasPayload(frame) /\ dialect = "gemini"
  <2>1. Decode(dialect, d, frame) = GeminiDecode(d, frame)
    BY <1>3 DEF Decode
  <2>. QED BY <2>1, GeminiDeltas
<1>4. CASE HasPayload(frame) /\ dialect = "chat"
  <2>1. Decode(dialect, d, frame) = ChatDecode(d, frame)
    BY <1>4 DEF Decode
  <2>. QED BY <1>4, <2>1, ChatYields
<1>5. CASE HasPayload(frame) /\ dialect = "responses"
  <2>1. Decode(dialect, d, frame) = ResponsesDecode(d, frame)
    BY <1>5 DEF Decode
  <2>. QED BY <2>1, ResponsesYield
<1>. QED BY <1>1, <1>2, <1>3, <1>4, <1>5 DEF Dialects

-----------------------------------------------------------------------------
(* The bytes of one frame *)

\* b is s and then t.
IsJoin(b, s, t) ==
  /\ Listed(b) /\ Len(b) = Len(s) + Len(t)
  /\ b = [k \in 1 .. Len(s) + Len(t) |-> IF k <= Len(s) THEN s[k] ELSE t[k - Len(s)]]

LEMMA JoinIs ==
  ASSUME NEW s, NEW t, Listed(s), Listed(t)
  PROVE  IsJoin(s \o t, s, t)
<1>1. PICK S : S = Range(s) \cup Range(t)
  OBVIOUS
<1>2. s \in Seq(S) /\ t \in Seq(S)
  BY <1>1 DEF Listed
<1>3. PICK b : b = s \o t
  OBVIOUS
<1>4. b \in Seq(S) /\ Len(b) = Len(s) + Len(t)
  BY <1>2, <1>3
<1>5. PICK m \in Nat, n \in Nat : m = Len(s) /\ n = Len(t)
  BY <1>2
<1>6. (\A k \in 1 .. m : b[k] = s[k]) /\ \A k \in 1 .. n : b[m + k] = t[k]
  BY <1>3, <1>5, Joined
<1>7. ASSUME NEW k \in 1 .. m + n
      PROVE  b[k] = IF k <= m THEN s[k] ELSE t[k - m]
  <2>1. CASE k <= m
    <3>1. k \in 1 .. m
      BY <1>5, <2>1
    <3>. QED BY <1>6, <2>1, <3>1
  <2>2. CASE ~(k <= m)
    <3>1. k - m \in 1 .. n /\ m + (k - m) = k
      BY <1>5, <2>2
    <3>. QED BY <1>6, <2>2, <3>1
  <2>. QED BY <2>1, <2>2
<1>8. b = [k \in 1 .. m + n |-> b[k]]
  BY <1>4, <1>5
<1>9. b = [k \in 1 .. m + n |-> IF k <= m THEN s[k] ELSE t[k - m]]
  BY <1>7, <1>8
<1>10. Listed(b)
  BY <1>4, ListIs
<1>. QED BY <1>3, <1>4, <1>5, <1>9, <1>10 DEF IsJoin

LEMMA FlattenNone ==
  ASSUME NEW g, g = [k \in 1 .. 0 |-> g[k]]
  PROVE  FlattenSeq(g) = <<>>
<1>1. 1 .. 0 = {}
  OBVIOUS
<1>2. g = <<>>
  BY <1>1
<1>. QED BY <1>2, Nothing

\* Up to four lists, end to end.
LEMMA FlattenFew ==
  ASSUME NEW n \in 1 .. 4, NEW g, g = [k \in 1 .. n |-> g[k]], \A k \in 1 .. n : Listed(g[k])
  PROVE  /\ n = 1 => FlattenSeq(g) = g[1]
         /\ n = 2 => FlattenSeq(g) = g[1] \o g[2]
         /\ n = 3 => FlattenSeq(g) = (g[1] \o g[2]) \o g[3]
         /\ n = 4 => FlattenSeq(g) = ((g[1] \o g[2]) \o g[3]) \o g[4]
<1>. DEFINE first(m) == [k \in 1 .. m |-> g[k]]
<1>1. FlattenSeq(first(0)) = <<>>
  <2>1. PICK h : h = first(0)
    OBVIOUS
  <2>2. h = [k \in 1 .. 0 |-> h[k]]
    BY <2>1
  <2>. QED BY <2>1, <2>2, FlattenNone
<1>2. ASSUME NEW m \in 0 .. n - 1
      PROVE  FlattenSeq(first(m + 1)) = FlattenSeq(first(m)) \o g[m + 1]
  <2>1. PICK h, i : h = first(m) /\ i = first(m + 1)
    OBVIOUS
  <2>2. /\ h = [k \in 1 .. m |-> h[k]] /\ i = [k \in 1 .. m + 1 |-> i[k]]
        /\ \A k \in 1 .. m : h[k] = g[k] /\ i[k] = g[k]
        /\ i[m + 1] = g[m + 1]
    BY <2>1
  <2>3. (\A k \in 1 .. m : Listed(h[k]) /\ i[k] = h[k]) /\ Listed(i[m + 1])
    <3>1. (\A k \in 1 .. m : k \in 1 .. n) /\ m + 1 \in 1 .. n
      OBVIOUS
    <3>. QED BY <2>2, <3>1
  <2>4. m \in Nat
    OBVIOUS
  <2>5. FlattenSeq(i) = FlattenSeq(h) \o i[m + 1]
    BY <2>2, <2>3, <2>4, PiecesGrow
  <2>. QED BY <2>1, <2>2, <2>5
<1>3. g = first(n)
  OBVIOUS
<1>4. Listed(g[1]) /\ <<>> \o g[1] = g[1]
  BY DEF Listed
<1>. HIDE DEF first
<1>5. FlattenSeq(first(1)) = g[1]
  <2>1. 0 \in 0 .. n - 1 /\ 0 + 1 = 1
    OBVIOUS
  <2>. QED BY <1>1, <1>2, <1>4, <2>1
<1>6. n > 1 => FlattenSeq(first(2)) = g[1] \o g[2]
  <2>1. n > 1 => 1 \in 0 .. n - 1 /\ 1 + 1 = 2
    OBVIOUS
  <2>. QED BY <1>2, <1>5, <2>1
<1>7. n > 2 => FlattenSeq(first(3)) = (g[1] \o g[2]) \o g[3]
  <2>1. n > 2 => 2 \in 0 .. n - 1 /\ 2 + 1 = 3 /\ n > 1
    OBVIOUS
  <2>. QED BY <1>2, <1>6, <2>1
<1>8. n > 3 => FlattenSeq(first(4)) = ((g[1] \o g[2]) \o g[3]) \o g[4]
  <2>1. n > 3 => 3 \in 0 .. n - 1 /\ 3 + 1 = 4 /\ n > 2
    OBVIOUS
  <2>. QED BY <1>2, <1>7, <2>1
<1>9. ASSUME NEW m \in 1 .. 4, n = m
      PROVE  FlattenSeq(g) = FlattenSeq(first(m))
  BY <1>3, <1>9
<1>10. ASSUME n = 1 PROVE FlattenSeq(g) = g[1]
  BY <1>5, <1>9, <1>10
<1>11. ASSUME n = 2 PROVE FlattenSeq(g) = g[1] \o g[2]
  <2>1. n > 1 /\ 2 \in 1 .. 4
    BY <1>11
  <2>2. FlattenSeq(g) = FlattenSeq(first(2))
    BY <1>9, <1>11, <2>1
  <2>. QED BY <1>6, <2>1, <2>2
<1>12. ASSUME n = 3 PROVE FlattenSeq(g) = (g[1] \o g[2]) \o g[3]
  <2>1. n > 2 /\ 3 \in 1 .. 4
    BY <1>12
  <2>2. FlattenSeq(g) = FlattenSeq(first(3))
    BY <1>9, <1>12, <2>1
  <2>. QED BY <1>7, <2>1, <2>2
<1>13. ASSUME n = 4 PROVE FlattenSeq(g) = ((g[1] \o g[2]) \o g[3]) \o g[4]
  <2>1. n > 3 /\ 4 \in 1 .. 4
    BY <1>13
  <2>2. FlattenSeq(g) = FlattenSeq(first(4))
    BY <1>9, <1>13, <2>1
  <2>. QED BY <1>8, <2>1, <2>2
<1>. QED BY <1>10, <1>11, <1>12, <1>13

\* A byte that is no part of a line end.
Letter(b) == b # CR /\ b # LF

\* The bytes b are a frame whose text is the first body of them, and whose
\* separator is sep long.
Framing(b, body, sep) ==
  \/ /\ body = 1 /\ sep = 2 /\ Len(b) = 3
     /\ Letter(b[1]) /\ b[2] = LF /\ b[3] = LF
  \/ /\ body = 3 /\ sep = 2 /\ Len(b) = 5
     /\ Letter(b[1]) /\ b[2] = LF /\ Letter(b[3]) /\ b[4] = LF /\ b[5] = LF
  \/ /\ body = 1 /\ sep = 4 /\ Len(b) = 5
     /\ Letter(b[1]) /\ b[2] = CR /\ b[3] = LF /\ b[4] = CR /\ b[5] = LF
  \/ /\ body = 4 /\ sep = 4 /\ Len(b) = 8
     /\ Letter(b[1]) /\ b[2] = CR /\ b[3] = LF
     /\ Letter(b[4]) /\ b[5] = CR /\ b[6] = LF /\ b[7] = CR /\ b[8] = LF

Newlines == {<<LF>>, <<CR, LF>>}

\* A frame that carries nothing, or one payload.
Framed(f) == f = KeepAlive \/ f = Frame(f.event, Payload(f))

LEMMA LettersAre ==
  /\ Letter(CommentLine)
  /\ \A x : Letter(EventLine(x)) /\ Letter(DataLine(x))
BY DEF Letter, CommentLine, EventLine, DataLine, CR, LF

LEMMA NewlinesAre ==
  /\ Listed(<<LF>>) /\ Len(<<LF>>) = 1 /\ <<LF>>[1] = LF
  /\ Listed(<<CR, LF>>) /\ Len(<<CR, LF>>) = 2 /\ <<CR, LF>>[1] = CR /\ <<CR, LF>>[2] = LF
<1>1. Listed(<<LF>>)
  BY OneListed
<1>2. <<CR, LF>> \in Seq({CR, LF})
  OBVIOUS
<1>3. Listed(<<CR, LF>>)
  BY <1>2, ListIs
<1>. QED BY <1>1, <1>3

\* One line, or two, and the empty line after them.
LEMMA OneLine ==
  ASSUME NEW f, NEW x, Lines(f) = [k \in 1 .. 1 |-> x], Letter(x), NEW newline \in Newlines
  PROVE  /\ Listed(FrameBytes(f, newline))
         /\ \E sep : Framing(FrameBytes(f, newline), 1, sep)
         /\ FrameBytes(f, newline)[1] = x
<1>1. PICK g : g = [k \in DOMAIN Lines(f) |-> <<Lines(f)[k]>> \o newline]
  OBVIOUS
<1>2. PICK line, one : line = one \o newline /\ one = <<x>>
  OBVIOUS
<1>3. g = [k \in 1 .. 1 |-> g[k]] /\ g[1] = line
  <2>1. \A k \in 1 .. 1 : k = 1
    OBVIOUS
  <2>. QED BY <1>1, <1>2, <2>1
<1>4. Listed(newline) /\ Listed(one) /\ Len(one) = 1 /\ one[1] = x
  BY <1>2, NewlinesAre, OneListed DEF Newlines
<1>5. Listed(line)
  BY <1>2, <1>4, Joined
<1>6. FlattenSeq(g) = line
  <2>1. \A k \in 1 .. 1 : Listed(g[k])
    BY <1>3, <1>5
  <2>2. 1 \in 1 .. 4
    OBVIOUS
  <2>. QED BY <1>3, <2>1, <2>2, FlattenFew
<1>7. PICK b : b = line \o newline
  OBVIOUS
<1>8. b = FrameBytes(f, newline) /\ Listed(b)
  BY <1>1, <1>4, <1>5, <1>6, <1>7, Joined DEF FrameBytes
<1>9. IsJoin(line, one, newline) /\ IsJoin(b, line, newline)
  BY <1>2, <1>4, <1>5, <1>7, JoinIs
<1>10. /\ Len(line) = 1 + Len(newline) /\ Len(b) = 1 + Len(newline) + Len(newline)
       /\ line = [k \in 1 .. 1 + Len(newline) |-> IF k <= 1 THEN one[k] ELSE newline[k - 1]]
  BY <1>4, <1>9 DEF IsJoin
<1>11. b = [k \in 1 .. 1 + Len(newline) + Len(newline) |->
              IF k <= 1 + Len(newline) THEN line[k] ELSE newline[k - (1 + Len(newline))]]
  BY <1>9, <1>10 DEF IsJoin
<1>12. CASE newline = <<LF>>
  <2>1. Len(newline) = 1 /\ newline[1] = LF
    BY <1>12, NewlinesAre
  <2>2. line[1] = x /\ line[2] = LF
    BY <1>4, <1>10, <2>1
  <2>3. Len(b) = 3 /\ b[1] = x /\ b[2] = LF /\ b[3] = LF
    BY <1>10, <1>11, <2>1, <2>2
  <2>4. Framing(b, 1, 2)
    BY <2>3 DEF Framing
  <2>. QED BY <1>8, <2>3, <2>4
<1>13. CASE newline = <<CR, LF>>
  <2>1. Len(newline) = 2 /\ newline[1] = CR /\ newline[2] = LF
    BY <1>13, NewlinesAre
  <2>2. line[1] = x /\ line[2] = CR /\ line[3] = LF
    BY <1>4, <1>10, <2>1
  <2>3. Len(b) = 5 /\ b[1] = x /\ b[2] = CR /\ b[3] = LF /\ b[4] = CR /\ b[5] = LF
    BY <1>10, <1>11, <2>1, <2>2
  <2>4. Framing(b, 1, 4)
    BY <2>3 DEF Framing
  <2>. QED BY <1>8, <2>3, <2>4
<1>. QED BY <1>12, <1>13 DEF Newlines

LEMMA TwoLines ==
  ASSUME NEW f, NEW x, NEW y, Lines(f) = [k \in 1 .. 2 |-> IF k = 1 THEN x ELSE y],
         Letter(x), Letter(y), NEW newline \in Newlines
  PROVE  /\ Listed(FrameBytes(f, newline))
         /\ \E body, sep :
              /\ body \in {3, 4} /\ Framing(FrameBytes(f, newline), body, sep)
              /\ FrameBytes(f, newline)[body] = y
         /\ FrameBytes(f, newline)[1] = x
<1>1. PICK g : g = [k \in DOMAIN Lines(f) |-> <<Lines(f)[k]>> \o newline]
  OBVIOUS
<1>2. PICK first, last, one, two :
        first = one \o newline /\ one = <<x>> /\ last = two \o newline /\ two = <<y>>
  OBVIOUS
<1>3. g = [k \in 1 .. 2 |-> g[k]] /\ g[1] = first /\ g[2] = last
  BY <1>1, <1>2
<1>4. /\ Listed(newline) /\ Listed(one) /\ Len(one) = 1 /\ one[1] = x
      /\ Listed(two) /\ Len(two) = 1 /\ two[1] = y
  BY <1>2, NewlinesAre, OneListed DEF Newlines
<1>5. Listed(first) /\ Listed(last)
  BY <1>2, <1>4, Joined
<1>6. FlattenSeq(g) = first \o last
  <2>1. \A k \in 1 .. 2 : Listed(g[k])
    <3>1. \A k \in 1 .. 2 : k = 1 \/ k = 2
      OBVIOUS
    <3>. QED BY <1>3, <1>5, <3>1
  <2>2. 2 \in 1 .. 4
    OBVIOUS
  <2>. QED BY <1>3, <2>1, <2>2, FlattenFew
<1>7. PICK both, b : both = first \o last /\ b = both \o newline
  OBVIOUS
<1>8. Listed(both)
  BY <1>5, <1>7, Joined
<1>9. b = FrameBytes(f, newline) /\ Listed(b)
  BY <1>1, <1>4, <1>6, <1>7, <1>8, Joined DEF FrameBytes
<1>10. PICK w \in Nat : w = Len(newline)
  BY <1>4, ListHas
<1>11. /\ IsJoin(first, one, newline) /\ IsJoin(last, two, newline)
       /\ IsJoin(both, first, last) /\ IsJoin(b, both, newline)
  BY <1>2, <1>4, <1>5, <1>7, <1>8, JoinIs
<1>12. /\ Len(first) = 1 + w /\ first = [k \in 1 .. 1 + w |-> IF k <= 1 THEN one[k] ELSE newline[k - 1]]
       /\ Len(last) = 1 + w /\ last = [k \in 1 .. 1 + w |-> IF k <= 1 THEN two[k] ELSE newline[k - 1]]
  BY <1>4, <1>10, <1>11 DEF IsJoin
<1>13. /\ Len(both) = 1 + w + (1 + w)
       /\ both = [k \in 1 .. 1 + w + (1 + w) |-> IF k <= 1 + w THEN first[k] ELSE last[k - (1 + w)]]
  BY <1>11, <1>12 DEF IsJoin
<1>14. Len(b) = 1 + w + (1 + w) + w
  BY <1>10, <1>11, <1>13 DEF IsJoin
<1>16. b = [k \in 1 .. 1 + w + (1 + w) + w |->
              IF k <= 1 + w + (1 + w) THEN both[k] ELSE newline[k - (1 + w + (1 + w))]]
  BY <1>10, <1>11, <1>13 DEF IsJoin
<1>17. CASE newline = <<LF>>
  <2>1. w = 1 /\ newline[1] = LF
    BY <1>10, <1>17, NewlinesAre
  <2>2. first[1] = x /\ first[2] = LF /\ last[1] = y /\ last[2] = LF
    BY <1>4, <1>12, <2>1
  <2>3. both[1] = x /\ both[2] = LF /\ both[3] = y /\ both[4] = LF
    BY <1>13, <2>1, <2>2
  <2>4. Len(b) = 5 /\ b[1] = x /\ b[2] = LF /\ b[3] = y /\ b[4] = LF /\ b[5] = LF
    BY <1>14, <1>16, <2>1, <2>3
  <2>5. Framing(b, 3, 2)
    BY <2>4 DEF Framing
  <2>. QED BY <1>9, <2>4, <2>5
<1>18. CASE newline = <<CR, LF>>
  <2>1. w = 2 /\ newline[1] = CR /\ newline[2] = LF
    BY <1>10, <1>18, NewlinesAre
  <2>2. /\ first[1] = x /\ first[2] = CR /\ first[3] = LF
        /\ last[1] = y /\ last[2] = CR /\ last[3] = LF
    BY <1>4, <1>12, <2>1
  <2>3. /\ both[1] = x /\ both[2] = CR /\ both[3] = LF
        /\ both[4] = y /\ both[5] = CR /\ both[6] = LF
    BY <1>13, <2>1, <2>2
  <2>4. /\ Len(b) = 8 /\ b[1] = x /\ b[2] = CR /\ b[3] = LF
        /\ b[4] = y /\ b[5] = CR /\ b[6] = LF /\ b[7] = CR /\ b[8] = LF
    BY <1>14, <1>16, <2>1, <2>3
  <2>5. Framing(b, 4, 4)
    BY <2>4 DEF Framing
  <2>. QED BY <1>9, <2>4, <2>5
<1>. QED BY <1>17, <1>18 DEF Newlines

\* The bytes b spell the frame f.
Spelled(b, f, body, sep) ==
  /\ Listed(b) /\ Framing(b, body, sep)
  /\ \/ f = KeepAlive /\ body = 1 /\ b[1] = CommentLine
     \/ /\ f = Frame("none", Payload(f)) /\ body = 1 /\ b[1] = DataLine(Payload(f))
     \/ /\ f = Frame(f.event, Payload(f)) /\ f.event # "none" /\ body \in {3, 4}
        /\ b[1] = EventLine(f.event) /\ b[body] = DataLine(Payload(f))

LEMMA FrameIsSpelled ==
  ASSUME NEW f, Framed(f), NEW newline \in Newlines
  PROVE  \E body, sep : Spelled(FrameBytes(f, newline), f, body, sep)
<1>1. CASE f = KeepAlive
  <2>1. Lines(f) = <<CommentLine>>
    BY <1>1 DEF Lines, KeepAlive
  <2>2. Lines(f) = [k \in 1 .. 1 |-> CommentLine]
    BY <2>1
  <2>3. PICK sep : Framing(FrameBytes(f, newline), 1, sep)
    BY <2>2, LettersAre, OneLine
  <2>4. Listed(FrameBytes(f, newline)) /\ FrameBytes(f, newline)[1] = CommentLine
    BY <2>2, LettersAre, OneLine
  <2>. QED BY <1>1, <2>3, <2>4 DEF Spelled
<1>2. ASSUME f = Frame(f.event, Payload(f))
      PROVE  \E body, sep : Spelled(FrameBytes(f, newline), f, body, sep)
  <2>1. PICK e, p : e = f.event /\ p = Payload(f)
    OBVIOUS
  <2>2. f = [event |-> e, data |-> <<p>>]
    BY <1>2, <2>1 DEF Frame
  <2>3. f.data = <<p>> /\ f.data # <<>>
    BY <2>2
  <2>4. PICK rest : rest = [k \in DOMAIN f.data |-> DataLine(f.data[k])]
    OBVIOUS
  <2>5. rest = [k \in 1 .. 1 |-> DataLine(p)]
    <3>1. DOMAIN f.data = 1 .. 1 /\ f.data[1] = p /\ \A k \in 1 .. 1 : k = 1
      BY <2>3
    <3>. QED BY <2>4, <3>1
  <2>6. Listed(rest) /\ Len(rest) = 1 /\ rest[1] = DataLine(p)
    <3>1. PICK x : x = DataLine(p)
      OBVIOUS
    <3>2. rest = [k \in 1 .. 1 |-> x]
      BY <2>5, <3>1
    <3>3. rest \in Seq({x}) /\ Len(rest) = 1 /\ rest[1] = x
      BY <3>2
    <3>. QED BY <3>1, <3>3, ListIs
  <2>7. CASE e = "none"
    <3>1. Lines(f) = <<>> \o rest
      BY <2>1, <2>3, <2>4, <2>7 DEF Lines
    <3>2. <<>> \o rest = rest
      BY <2>6 DEF Listed
    <3>3. Lines(f) = [k \in 1 .. 1 |-> DataLine(p)]
      BY <2>5, <3>1, <3>2
    <3>4. PICK sep : Framing(FrameBytes(f, newline), 1, sep)
      BY <3>3, LettersAre, OneLine
    <3>5. Listed(FrameBytes(f, newline)) /\ FrameBytes(f, newline)[1] = DataLine(p)
      BY <3>3, LettersAre, OneLine
    <3>6. f = Frame("none", Payload(f))
      BY <1>2, <2>1, <2>7
    <3>. QED BY <2>1, <3>4, <3>5, <3>6 DEF Spelled
  <2>8. CASE e # "none"
    <3>1. PICK one : one = <<EventLine(e)>>
      OBVIOUS
    <3>2. Lines(f) = one \o rest
      BY <2>1, <2>3, <2>4, <2>8, <3>1 DEF Lines
    <3>3. Listed(one) /\ Len(one) = 1 /\ one[1] = EventLine(e)
      BY <3>1, OneListed
    <3>4. IsJoin(one \o rest, one, rest)
      BY <2>6, <3>3, JoinIs
    <3>5. Lines(f) = [k \in 1 .. 1 + 1 |-> IF k <= 1 THEN one[k] ELSE rest[k - 1]]
      BY <2>6, <3>2, <3>3, <3>4 DEF IsJoin
    <3>6. /\ 1 + 1 = 2
          /\ \A k \in 1 .. 2 : (k <= 1 <=> k = 1) /\ (k # 1 => k - 1 = 1)
      OBVIOUS
    <3>7. Lines(f) = [k \in 1 .. 2 |-> IF k = 1 THEN EventLine(e) ELSE DataLine(p)]
      BY <2>6, <3>3, <3>5, <3>6
    <3>8. PICK body, sep :
            /\ body \in {3, 4} /\ Framing(FrameBytes(f, newline), body, sep)
            /\ FrameBytes(f, newline)[body] = DataLine(p)
      BY <3>7, LettersAre, TwoLines
    <3>9. Listed(FrameBytes(f, newline)) /\ FrameBytes(f, newline)[1] = EventLine(e)
      BY <3>7, LettersAre, TwoLines
    <3>. QED BY <1>2, <2>1, <2>8, <3>8, <3>9 DEF Spelled
  <2>. QED BY <2>7, <2>8
<1>. QED BY <1>1, <1>2 DEF Framed

\* The separators, byte by byte.
LEMMA SeparatorIs ==
  ASSUME NEW S, NEW bytes \in Seq(S), NEW k \in 1 .. Len(bytes)
  PROVE  SeparatorAt(bytes, k) =
           IF /\ k + 3 <= Len(bytes) /\ bytes[k] = CR /\ bytes[k + 1] = LF
              /\ bytes[k + 2] = CR /\ bytes[k + 3] = LF
           THEN 4
           ELSE IF k + 1 <= Len(bytes) /\ bytes[k] = LF /\ bytes[k + 1] = LF THEN 2 ELSE 0
<1>1. PICK L \in Nat : L = Len(bytes) /\ k \in 1 .. L
  OBVIOUS
<1>2. PICK four, two : four = <<CR, LF, CR, LF>> /\ two = <<LF, LF>>
  OBVIOUS
<1>3. /\ Len(four) = 4 /\ four[1] = CR /\ four[2] = LF /\ four[3] = CR /\ four[4] = LF
      /\ Len(two) = 2 /\ two[1] = LF /\ two[2] = LF
      /\ four = [i \in 1 .. 4 |-> four[i]] /\ two = [i \in 1 .. 2 |-> two[i]]
  BY <1>2
<1>4. StartsWith(bytes, k, four)
      <=> /\ k + 3 <= L /\ bytes[k] = CR /\ bytes[k + 1] = LF
          /\ bytes[k + 2] = CR /\ bytes[k + 3] = LF
  <2>1. StartsWith(bytes, k, four) <=> k + 3 <= L /\ SubSeq(bytes, k, k + 3) = four
    <3>1. k + 4 - 1 = k + 3
      OBVIOUS
    <3>. QED BY <1>1, <1>3, <3>1 DEF StartsWith
  <2>2. ASSUME k + 3 <= L
        PROVE  SubSeq(bytes, k, k + 3) = four <=>
                 bytes[k] = CR /\ bytes[k + 1] = LF /\ bytes[k + 2] = CR /\ bytes[k + 3] = LF
    <3>1. PICK s : s = SubSeq(bytes, k, k + 3)
      OBVIOUS
    <3>2. s = [i \in 1 .. 4 |-> bytes[k + i - 1]]
      <4>1. (k + 3) - k + 1 = 4
        OBVIOUS
      <4>. QED BY <1>1, <2>2, <3>1, <4>1
    <3>3. s[1] = bytes[k] /\ s[2] = bytes[k + 1] /\ s[3] = bytes[k + 2] /\ s[4] = bytes[k + 3]
      <4>1. k + 1 - 1 = k /\ k + 2 - 1 = k + 1 /\ k + 3 - 1 = k + 2 /\ k + 4 - 1 = k + 3
        OBVIOUS
      <4>. QED BY <3>2, <4>1
    <3>4. s = [i \in 1 .. 4 |-> s[i]] /\ \A i \in 1 .. 4 : i = 1 \/ i = 2 \/ i = 3 \/ i = 4
      BY <3>2
    <3>5. s = four <=> s[1] = CR /\ s[2] = LF /\ s[3] = CR /\ s[4] = LF
      <4>1. ASSUME s[1] = CR /\ s[2] = LF /\ s[3] = CR /\ s[4] = LF PROVE s = four
        <5>1. \A i \in 1 .. 4 : s[i] = four[i]
          BY <1>3, <3>4, <4>1
        <5>. QED BY <1>3, <3>4, <5>1
      <4>. QED BY <1>3, <4>1
    <3>. QED BY <3>1, <3>3, <3>5
  <2>. QED BY <2>1, <2>2
<1>5. StartsWith(bytes, k, two) <=> k + 1 <= L /\ bytes[k] = LF /\ bytes[k + 1] = LF
  <2>1. StartsWith(bytes, k, two) <=> k + 1 <= L /\ SubSeq(bytes, k, k + 1) = two
    <3>1. k + 2 - 1 = k + 1
      OBVIOUS
    <3>. QED BY <1>1, <1>3, <3>1 DEF StartsWith
  <2>2. ASSUME k + 1 <= L
        PROVE  SubSeq(bytes, k, k + 1) = two <=> bytes[k] = LF /\ bytes[k + 1] = LF
    <3>1. PICK s : s = SubSeq(bytes, k, k + 1)
      OBVIOUS
    <3>2. s = [i \in 1 .. 2 |-> bytes[k + i - 1]]
      <4>1. (k + 1) - k + 1 = 2
        OBVIOUS
      <4>. QED BY <1>1, <2>2, <3>1, <4>1
    <3>3. s[1] = bytes[k] /\ s[2] = bytes[k + 1]
      <4>1. k + 1 - 1 = k /\ k + 2 - 1 = k + 1
        OBVIOUS
      <4>. QED BY <3>2, <4>1
    <3>4. s = [i \in 1 .. 2 |-> s[i]] /\ \A i \in 1 .. 2 : i = 1 \/ i = 2
      BY <3>2
    <3>5. s = two <=> s[1] = LF /\ s[2] = LF
      <4>1. ASSUME s[1] = LF /\ s[2] = LF PROVE s = two
        <5>1. \A i \in 1 .. 2 : s[i] = two[i]
          BY <1>3, <3>4, <4>1
        <5>. QED BY <1>3, <3>4, <5>1
      <4>. QED BY <1>3, <4>1
    <3>. QED BY <3>1, <3>3, <3>5
  <2>. QED BY <2>1, <2>2
<1>6. SeparatorAt(bytes, k) =
        IF StartsWith(bytes, k, four) THEN 4 ELSE IF StartsWith(bytes, k, two) THEN 2 ELSE 0
  <2>1. CR # LF
    BY DEF CR, LF
  <2>2. StartsWith(bytes, k, four) => ~StartsWith(bytes, k, two)
    BY <1>4, <1>5, <2>1
  <2>. QED BY <1>2, <2>2 DEF SeparatorAt
<1>. QED BY <1>1, <1>4, <1>5, <1>6

-----------------------------------------------------------------------------
(* The search for the end of a frame *)

\* The bytes begin as b does, as far as there are any.
Begins(bytes, b) == \A i \in 1 .. Len(bytes) : i <= Len(b) => bytes[i] = b[i]

\* No frame ends before a separator of its own is there.
LEMMA FirstSeparator ==
  ASSUME NEW S, NEW bytes \in Seq(S), NEW b, NEW body, NEW sep,
         Framing(b, body, sep), Begins(bytes, b)
  PROVE  /\ body \in Nat /\ sep \in {2, 4} /\ Len(b) = body + sep
         /\ \A k \in 1 .. Len(bytes) - 1 :
              SeparatorAt(bytes, k) # 0 => k >= body + 1 /\ Len(bytes) >= body + sep
         /\ Len(bytes) >= body + sep => SeparatorAt(bytes, body + 1) = sep
<1>1. PICK L \in Nat : L = Len(bytes)
  OBVIOUS
<1>2. PICK cr, lf : cr = CR /\ lf = LF
  OBVIOUS
<1>3. cr # lf
  BY <1>2 DEF CR, LF
<1>. DEFINE Four(k) == /\ k + 3 <= L /\ bytes[k] = cr /\ bytes[k + 1] = lf
                       /\ bytes[k + 2] = cr /\ bytes[k + 3] = lf
            Two(k)  == k + 1 <= L /\ bytes[k] = lf /\ bytes[k + 1] = lf
<1>4. \A k \in 1 .. L : SeparatorAt(bytes, k) = IF Four(k) THEN 4 ELSE IF Two(k) THEN 2 ELSE 0
  BY <1>1, <1>2, SeparatorIs
<1>5. \A i \in 1 .. L : i <= Len(b) => bytes[i] = b[i]
  BY <1>1 DEF Begins
<1>. SUFFICES /\ body \in Nat /\ sep \in {2, 4} /\ Len(b) = body + sep
              /\ \A k \in 1 .. L - 1 : Four(k) \/ Two(k) => k >= body + 1 /\ L >= body + sep
              /\ L >= body + sep => (IF Four(body + 1) THEN 4 ELSE IF Two(body + 1) THEN 2 ELSE 0) = sep
  <2>1. body \in Nat /\ sep \in {2, 4}
    BY DEF Framing
  <2>2. L >= body + sep => body + 1 \in 1 .. L
    BY <2>1
  <2>3. \A k \in 1 .. L - 1 : k \in 1 .. L
    OBVIOUS
  <2>4. ASSUME NEW k \in 1 .. L - 1, SeparatorAt(bytes, k) # 0 PROVE Four(k) \/ Two(k)
    BY <1>4, <2>3, <2>4
  <2>. HIDE DEF Four, Two
  <2>. QED BY <1>1, <1>4, <2>2, <2>4
<1>6. ASSUME body = 1, sep = 2, Len(b) = 3, Letter(b[1]), b[2] = LF, b[3] = LF
      PROVE  /\ \A k \in 1 .. L - 1 : Four(k) \/ Two(k) => k >= body + 1 /\ L >= body + sep
             /\ L >= body + sep => (IF Four(body + 1) THEN 4 ELSE IF Two(body + 1) THEN 2 ELSE 0) = sep
  <2>1. /\ L >= 1 => bytes[1] # cr /\ bytes[1] # lf
        /\ L >= 2 => bytes[2] = lf
        /\ L >= 3 => bytes[3] = lf
    BY <1>2, <1>5, <1>6 DEF Letter
  <2>2. ASSUME NEW k \in 1 .. L - 1, Four(k) \/ Two(k) PROVE k >= 2 /\ L >= 3
    <3>1. k # 1
      BY <2>1, <2>2
    <3>. QED BY <2>2, <3>1
  <2>3. L >= 3 => ~Four(2) /\ Two(2)
    BY <1>3, <2>1
  <2>. QED BY <1>6, <2>2, <2>3
<1>7. ASSUME body = 3, sep = 2, Len(b) = 5, Letter(b[1]), b[2] = LF, Letter(b[3]), b[4] = LF, b[5] = LF
      PROVE  /\ \A k \in 1 .. L - 1 : Four(k) \/ Two(k) => k >= body + 1 /\ L >= body + sep
             /\ L >= body + sep => (IF Four(body + 1) THEN 4 ELSE IF Two(body + 1) THEN 2 ELSE 0) = sep
  <2>1. /\ L >= 1 => bytes[1] # cr /\ bytes[1] # lf
        /\ L >= 2 => bytes[2] = lf
        /\ L >= 3 => bytes[3] # cr /\ bytes[3] # lf
        /\ L >= 4 => bytes[4] = lf
        /\ L >= 5 => bytes[5] = lf
    BY <1>2, <1>5, <1>7 DEF Letter
  <2>2. ASSUME NEW k \in 1 .. L - 1, Four(k) \/ Two(k) PROVE k >= 4 /\ L >= 5
    <3>1. k # 1
      BY <2>1, <2>2
    <3>2. k # 2
      BY <1>3, <2>1, <2>2
    <3>3. k # 3
      BY <2>1, <2>2
    <3>. QED BY <2>2, <3>1, <3>2, <3>3
  <2>3. L >= 5 => ~Four(4) /\ Two(4)
    BY <1>3, <2>1
  <2>. QED BY <1>7, <2>2, <2>3
<1>8. ASSUME body = 1, sep = 4, Len(b) = 5, Letter(b[1]), b[2] = CR, b[3] = LF, b[4] = CR, b[5] = LF
      PROVE  /\ \A k \in 1 .. L - 1 : Four(k) \/ Two(k) => k >= body + 1 /\ L >= body + sep
             /\ L >= body + sep => (IF Four(body + 1) THEN 4 ELSE IF Two(body + 1) THEN 2 ELSE 0) = sep
  <2>1. /\ L >= 1 => bytes[1] # cr /\ bytes[1] # lf
        /\ L >= 2 => bytes[2] = cr
        /\ L >= 3 => bytes[3] = lf
        /\ L >= 4 => bytes[4] = cr
        /\ L >= 5 => bytes[5] = lf
    BY <1>2, <1>5, <1>8 DEF Letter
  <2>2. ASSUME NEW k \in 1 .. L - 1, Four(k) \/ Two(k) PROVE k >= 2 /\ L >= 5
    <3>1. k # 1
      BY <2>1, <2>2
    <3>2. k = 2 => L >= 5
      BY <1>3, <2>1, <2>2
    <3>3. k = 3 => L >= 5
      BY <1>3, <2>1, <2>2
    <3>. QED BY <2>2, <3>1, <3>2, <3>3
  <2>3. L >= 5 => Four(2)
    BY <2>1
  <2>. QED BY <1>8, <2>2, <2>3
<1>9. ASSUME body = 4, sep = 4, Len(b) = 8, Letter(b[1]), b[2] = CR, b[3] = LF,
             Letter(b[4]), b[5] = CR, b[6] = LF, b[7] = CR, b[8] = LF
      PROVE  /\ \A k \in 1 .. L - 1 : Four(k) \/ Two(k) => k >= body + 1 /\ L >= body + sep
             /\ L >= body + sep => (IF Four(body + 1) THEN 4 ELSE IF Two(body + 1) THEN 2 ELSE 0) = sep
  <2>1. /\ L >= 1 => bytes[1] # cr /\ bytes[1] # lf
        /\ L >= 2 => bytes[2] = cr
        /\ L >= 3 => bytes[3] = lf
        /\ L >= 4 => bytes[4] # cr /\ bytes[4] # lf
        /\ L >= 5 => bytes[5] = cr
        /\ L >= 6 => bytes[6] = lf
        /\ L >= 7 => bytes[7] = cr
        /\ L >= 8 => bytes[8] = lf
    BY <1>2, <1>5, <1>9 DEF Letter
  <2>2. ASSUME NEW k \in 1 .. L - 1, Four(k) \/ Two(k) PROVE k >= 5 /\ L >= 8
    <3>1. k # 1
      BY <2>1, <2>2
    <3>2. k # 2
      BY <1>3, <2>1, <2>2
    <3>3. k # 3
      BY <1>3, <2>1, <2>2
    <3>4. k # 4
      BY <2>1, <2>2
    <3>5. k = 5 => L >= 8
      BY <1>3, <2>1, <2>2
    <3>6. k = 6 => L >= 8
      BY <1>3, <2>1, <2>2
    <3>. QED BY <2>2, <3>1, <3>2, <3>3, <3>4, <3>5, <3>6
  <2>3. L >= 8 => Four(5)
    BY <2>1
  <2>. QED BY <1>9, <2>2, <2>3
<1>10. body \in Nat /\ sep \in {2, 4} /\ Len(b) = body + sep
  <2>1. \/ body = 1 /\ sep = 2 /\ Len(b) = 3
        \/ body = 3 /\ sep = 2 /\ Len(b) = 5
        \/ body = 1 /\ sep = 4 /\ Len(b) = 5
        \/ body = 4 /\ sep = 4 /\ Len(b) = 8
    BY DEF Framing
  <2>2. body \in Nat /\ sep \in {2, 4}
    BY <2>1
  <2>3. PICK n : n = Len(b)
    OBVIOUS
  <2>4. n = body + sep
    <3>1. \A x \in {1, 3, 4}, y \in {2, 4} :
            /\ x = 1 /\ y = 2 => 3 = x + y
            /\ x = 3 /\ y = 2 => 5 = x + y
            /\ x = 1 /\ y = 4 => 5 = x + y
            /\ x = 4 /\ y = 4 => 8 = x + y
      OBVIOUS
    <3>2. body \in {1, 3, 4}
      BY <2>1
    <3>. QED BY <2>1, <2>2, <2>3, <3>1, <3>2
  <2>. QED BY <2>2, <2>3, <2>4
<1>. QED BY <1>6, <1>7, <1>8, <1>9, <1>10 DEF Framing

\* An earlier search has ruled out what it could.
Ruled(buf) ==
  /\ Listed(buf.bytes) /\ buf.scanned \in 0 .. Len(buf.bytes)
  /\ \A k \in 1 .. Len(buf.bytes) - 1 :
       k + 3 <= buf.scanned => SeparatorAt(buf.bytes, k) = 0

\* Nothing is found exactly when no separator is there, and else the first.
LEMMA FrameEndIs ==
  ASSUME NEW buf, Ruled(buf)
  PROVE  /\ FrameEnd(buf) = 0
              => \A k \in 1 .. Len(buf.bytes) - 1 : SeparatorAt(buf.bytes, k) = 0
         /\ FrameEnd(buf) # 0
              => /\ FrameEnd(buf) \in 1 .. Len(buf.bytes) - 1
                 /\ SeparatorAt(buf.bytes, FrameEnd(buf)) # 0
                 /\ \A k \in 1 .. Len(buf.bytes) - 1 :
                      SeparatorAt(buf.bytes, k) # 0 => FrameEnd(buf) <= k
<1>1. PICK L \in Nat : L = Len(buf.bytes)
  BY ListHas DEF Ruled
<1>2. PICK bytes : bytes = buf.bytes
  OBVIOUS
<1>3. PICK from : from = IF buf.scanned > 3 THEN buf.scanned - 3 ELSE 0
  OBVIOUS
<1>4. from \in Nat /\ \A k \in 1 .. L - 1 : k <= from => k + 3 <= buf.scanned
  BY <1>1, <1>3 DEF Ruled
<1>5. \A k \in 1 .. L - 1 : k <= from => SeparatorAt(bytes, k) = 0
  BY <1>1, <1>2, <1>4 DEF Ruled
<1>6. PICK found : found = {k \in from + 1 .. L - 1 : SeparatorAt(bytes, k) # 0}
  OBVIOUS
<1>7. FrameEnd(buf) = IF found = {} THEN 0 ELSE CHOOSE k \in found : \A l \in found : k <= l
  BY <1>1, <1>2, <1>3, <1>6 DEF FrameEnd, SeparatorOverlap
<1>8. \A k \in 1 .. L - 1 : k <= from \/ k \in from + 1 .. L - 1
  BY <1>4
<1>9. \A k \in 1 .. L - 1 : SeparatorAt(bytes, k) # 0 => k \in found
  BY <1>5, <1>6, <1>8
<1>10. CASE found = {}
  BY <1>1, <1>2, <1>7, <1>9, <1>10
<1>11. CASE found # {}
  <2>1. found \in SUBSET (0 .. L)
    <3>1. \A k \in from + 1 .. L - 1 : k \in 0 .. L
      BY <1>4
    <3>. QED BY <1>6, <3>1
  <2>2. \E k \in found : \A l \in found : k <= l
    BY <1>11, <2>1, BoundedSetHasALeast
  <2>3. PICK first : first = FrameEnd(buf)
    OBVIOUS
  <2>4. first \in found /\ \A l \in found : first <= l
    BY <1>7, <1>11, <2>2, <2>3
  <2>5. first \in 1 .. L - 1 /\ first # 0 /\ SeparatorAt(bytes, first) # 0
    <3>1. \A k \in from + 1 .. L - 1 : k \in 1 .. L - 1 /\ k # 0
      BY <1>4
    <3>. QED BY <1>6, <2>4, <3>1
  <2>. QED BY <1>1, <1>2, <1>9, <2>3, <2>4, <2>5
<1>. QED BY <1>10, <1>11

\* So the first frame is found once it is whole.
LEMMA FrameIsFound ==
  ASSUME NEW buf, Ruled(buf), NEW b, NEW body, NEW sep,
         Framing(b, body, sep), Begins(buf.bytes, b)
  PROVE  /\ Len(buf.bytes) < Len(b) => FrameEnd(buf) = 0
         /\ Len(buf.bytes) >= Len(b) => /\ FrameEnd(buf) = body + 1
                                           /\ SeparatorAt(buf.bytes, body + 1) = sep
<1>1. PICK bytes : bytes = buf.bytes
  OBVIOUS
<1>2. PICK L \in Nat : L = Len(bytes)
  BY <1>1, ListHas DEF Ruled
<1>3. PICK S : bytes \in Seq(S)
  BY <1>1 DEF Ruled, Listed
<1>4. /\ body \in Nat /\ sep \in {2, 4} /\ Len(b) = body + sep
      /\ \A k \in 1 .. L - 1 :
           SeparatorAt(bytes, k) # 0 => k >= body + 1 /\ L >= body + sep
      /\ L >= body + sep => SeparatorAt(bytes, body + 1) = sep
  BY <1>1, <1>2, <1>3, FirstSeparator
<1>5. PICK e : e = FrameEnd(buf)
  OBVIOUS
<1>6. /\ e = 0 => \A k \in 1 .. L - 1 : SeparatorAt(bytes, k) = 0
      /\ e # 0 => /\ e \in 1 .. L - 1 /\ SeparatorAt(bytes, e) # 0
                  /\ \A k \in 1 .. L - 1 : SeparatorAt(bytes, k) # 0 => e <= k
  BY <1>1, <1>2, <1>5, FrameEndIs
<1>7. ASSUME L < body + sep PROVE e = 0
  <2>1. e # 0 => e \in 1 .. L - 1 /\ L >= body + sep
    BY <1>4, <1>6
  <2>. QED BY <1>2, <1>4, <1>7, <2>1
<1>8. ASSUME L >= body + sep PROVE e = body + 1
  <2>1. body + 1 \in 1 .. L - 1 /\ sep # 0
    BY <1>2, <1>4, <1>8
  <2>2. SeparatorAt(bytes, body + 1) = sep
    BY <1>4, <1>8
  <2>3. e # 0
    BY <1>6, <2>1, <2>2
  <2>4. e \in 1 .. L - 1 /\ e <= body + 1 /\ e >= body + 1
    BY <1>4, <1>6, <2>1, <2>2, <2>3
  <2>. QED BY <1>2, <1>4, <2>4
<1>. QED BY <1>1, <1>2, <1>4, <1>5, <1>7, <1>8

\* What one line carries, if it is of that kind.
Carried(letter, kind) == IF letter.line = kind THEN <<letter.value>> ELSE <<>>

LEMMA LinesOfFrame ==
  ASSUME NEW b, NEW body, NEW sep, Framing(b, body, sep),
         NEW text, text = [k \in 1 .. body |-> b[k]], NEW kind \in {"event", "data"}
  PROVE  /\ body = 1 => LinesOf(text, kind) = Carried(b[1], kind)
         /\ body \in {3, 4}
              => LinesOf(text, kind) = Carried(b[1], kind) \o Carried(b[body], kind)
<1>1. PICK g : g = [k \in 1 .. body |-> Carried(text[k], kind)]
  OBVIOUS
<1>2. LinesOf(text, kind) = FlattenSeq(g)
  <2>1. DOMAIN text = 1 .. body
    OBVIOUS
  <2>. QED BY <1>1, <2>1 DEF LinesOf, Carried
<1>3. body \in 1 .. 4
  BY DEF Framing
<1>4. \A k \in 1 .. body : g[k] = Carried(b[k], kind)
  BY <1>1
<1>5. \A k \in 1 .. body : Listed(g[k])
  <2>1. \A letter : Listed(Carried(letter, kind))
    BY OneListed, Nothing DEF Carried
  <2>. QED BY <1>4, <2>1
<1>6. g = [k \in 1 .. body |-> g[k]]
  BY <1>1
<1>7. /\ body = 1 => FlattenSeq(g) = g[1]
      /\ body = 3 => FlattenSeq(g) = (g[1] \o g[2]) \o g[3]
      /\ body = 4 => FlattenSeq(g) = ((g[1] \o g[2]) \o g[3]) \o g[4]
  BY <1>3, <1>5, <1>6, FlattenFew
<1>8. Carried(CR, kind) = <<>> /\ Carried(LF, kind) = <<>>
  BY DEF Carried, CR, LF
<1>9. ASSUME body = 1 PROVE FlattenSeq(g) = Carried(b[1], kind)
  <2>1. 1 \in 1 .. body
    BY <1>9
  <2>. QED BY <1>4, <1>7, <1>9, <2>1
<1>10. ASSUME body = 3 PROVE FlattenSeq(g) = Carried(b[1], kind) \o Carried(b[3], kind)
  <2>1. 1 \in 1 .. body /\ 2 \in 1 .. body /\ 3 \in 1 .. body
    BY <1>10
  <2>2. b[2] = LF
    BY <1>10 DEF Framing
  <2>3. g[1] = Carried(b[1], kind) /\ g[2] = <<>> /\ g[3] = Carried(b[3], kind) /\ Listed(g[1])
    BY <1>4, <1>5, <1>8, <2>1, <2>2
  <2>4. g[1] \o <<>> = g[1]
    BY <2>3, JoinedWithNothing
  <2>. QED BY <1>7, <1>10, <2>3, <2>4
<1>11. ASSUME body = 4 PROVE FlattenSeq(g) = Carried(b[1], kind) \o Carried(b[4], kind)
  <2>1. 1 \in 1 .. body /\ 2 \in 1 .. body /\ 3 \in 1 .. body /\ 4 \in 1 .. body
    BY <1>11
  <2>2. b[2] = CR /\ b[3] = LF
    BY <1>11 DEF Framing
  <2>3. /\ g[1] = Carried(b[1], kind) /\ g[2] = <<>> /\ g[3] = <<>>
        /\ g[4] = Carried(b[4], kind) /\ Listed(g[1])
    BY <1>4, <1>5, <1>8, <2>1, <2>2
  <2>4. g[1] \o <<>> = g[1]
    BY <2>3, JoinedWithNothing
  <2>. QED BY <1>7, <1>11, <2>3, <2>4
<1>. QED BY <1>2, <1>9, <1>10, <1>11

\* A frame that is whole is taken as it was sent, and no byte more.
LEMMA FrameIsTaken ==
  ASSUME NEW buf, Ruled(buf), NEW b, NEW f, NEW body, NEW sep,
         Spelled(b, f, body, sep), Begins(buf.bytes, b), Len(buf.bytes) >= Len(b)
  PROVE  /\ HasFrame(buf)
         /\ FrameOf(buf) = f
         /\ WithoutFrame(buf) =
              [bytes |-> SubSeq(buf.bytes, Len(b) + 1, Len(buf.bytes)), scanned |-> 0]
<1>1. PICK bytes : bytes = buf.bytes
  OBVIOUS
<1>2. PICK L \in Nat : L = Len(bytes)
  BY <1>1, ListHas DEF Ruled
<1>3. PICK S : bytes \in Seq(S)
  BY <1>1 DEF Ruled, Listed
<1>4. body \in Nat /\ sep \in {2, 4} /\ Len(b) = body + sep /\ body # 0
  <2>1. Framing(b, body, sep) /\ Begins(bytes, b)
    BY <1>1 DEF Spelled
  <2>2. body # 0
    BY <2>1 DEF Framing
  <2>. QED BY <1>3, <2>1, <2>2, FirstSeparator
<1>5. FrameEnd(buf) = body + 1 /\ SeparatorAt(bytes, body + 1) = sep
  BY <1>1, FrameIsFound DEF Spelled
<1>6. HasFrame(buf)
  BY <1>4, <1>5 DEF HasFrame
<1>7. WithoutFrame(buf) = [bytes |-> SubSeq(bytes, Len(b) + 1, L), scanned |-> 0]
  <2>1. (body + 1) + sep = (body + sep) + 1
    BY <1>4
  <2>. QED BY <1>1, <1>2, <1>4, <1>5, <2>1 DEF WithoutFrame
<1>8. PICK text : text = SubSeq(bytes, 1, FrameEnd(buf) - 1)
  OBVIOUS
<1>9. text = [k \in 1 .. body |-> b[k]]
  <2>1. body + 1 - 1 = body /\ body <= L
    BY <1>1, <1>2, <1>4
  <2>2. text = [k \in 1 .. body |-> bytes[k]]
    BY <1>2, <1>3, <1>4, <1>5, <1>8, <2>1
  <2>3. \A k \in 1 .. body : k \in 1 .. L /\ k <= body + sep
    BY <1>2, <1>4, <2>1
  <2>4. \A k \in 1 .. body : bytes[k] = b[k]
    BY <1>1, <1>2, <1>4, <2>3 DEF Begins
  <2>. QED BY <2>2, <2>4
<1>10. PICK events, data : events = LinesOf(text, "event") /\ data = LinesOf(text, "data")
  OBVIOUS
<1>11. FrameOf(buf) = [event |-> IF events = <<>> THEN "none" ELSE Last(events), data |-> data]
  BY <1>1, <1>8, <1>10 DEF FrameOf
<1>12. /\ body = 1 => events = Carried(b[1], "event") /\ data = Carried(b[1], "data")
       /\ body \in {3, 4}
            => /\ events = Carried(b[1], "event") \o Carried(b[body], "event")
               /\ data = Carried(b[1], "data") \o Carried(b[body], "data")
  BY <1>9, <1>10, LinesOfFrame DEF Spelled
<1>13. CASE f = KeepAlive /\ body = 1 /\ b[1] = CommentLine
  <2>1. events = <<>> /\ data = <<>>
    BY <1>12, <1>13 DEF Carried, CommentLine
  <2>. QED BY <1>1, <1>2, <1>6, <1>7, <1>11, <1>13, <2>1 DEF KeepAlive
<1>14. ASSUME f = Frame("none", Payload(f)), body = 1, b[1] = DataLine(Payload(f))
       PROVE  FrameOf(buf) = f
  <2>1. PICK p : p = Payload(f)
    OBVIOUS
  <2>2. Carried(DataLine(p), "event") = <<>> /\ Carried(DataLine(p), "data") = <<p>>
    BY DEF Carried, DataLine
  <2>3. f = [event |-> "none", data |-> <<p>>]
    BY <1>14, <2>1 DEF Frame
  <2>. QED BY <1>11, <1>12, <1>14, <2>1, <2>2, <2>3
<1>15. ASSUME f = Frame(f.event, Payload(f)), body \in {3, 4},
              b[1] = EventLine(f.event), b[body] = DataLine(Payload(f))
       PROVE  FrameOf(buf) = f
  <2>1. PICK p, e : p = Payload(f) /\ e = f.event
    OBVIOUS
  <2>2. /\ Carried(DataLine(p), "event") = <<>> /\ Carried(DataLine(p), "data") = <<p>>
        /\ Carried(EventLine(e), "event") = <<e>> /\ Carried(EventLine(e), "data") = <<>>
    BY DEF Carried, DataLine, EventLine
  <2>3. f = [event |-> e, data |-> <<p>>]
    BY <1>15, <2>1 DEF Frame
  <2>4. <<e>> \o <<>> = <<e>> /\ <<>> \o <<p>> = <<p>> /\ <<e>> # <<>> /\ Last(<<e>>) = e
    BY DEF Last
  <2>5. events = <<e>> /\ data = <<p>>
    BY <1>12, <1>15, <2>1, <2>2, <2>4
  <2>. QED BY <1>11, <2>3, <2>4, <2>5
<1>. QED BY <1>1, <1>2, <1>6, <1>7, <1>13, <1>14, <1>15 DEF Spelled

-----------------------------------------------------------------------------
(* What a buf goes through *)

IsBuffer(buf) == buf = [bytes |-> buf.bytes, scanned |-> buf.scanned] /\ Ruled(buf)

LEMMA EmptyIsBuffer == IsBuffer(EmptyBuffer) /\ EmptyBuffer.bytes = <<>>
BY Nothing DEF EmptyBuffer, IsBuffer, Ruled

\* A buf of which nothing has been searched.
LEMMA FreshIsBuffer ==
  ASSUME NEW bytes, Listed(bytes)
  PROVE  IsBuffer([bytes |-> bytes, scanned |-> 0])
BY ListHas DEF IsBuffer, Ruled

\* A search in vain has ruled everything out.
LEMMA ScannedIsBuffer ==
  ASSUME NEW buf, IsBuffer(buf), ~HasFrame(buf)
  PROVE  IsBuffer(Scanned(buf)) /\ Scanned(buf).bytes = buf.bytes /\ ~HasFrame(Scanned(buf))
<1>1. FrameEnd(buf) = 0
  BY DEF HasFrame
<1>2. \A k \in 1 .. Len(buf.bytes) - 1 : SeparatorAt(buf.bytes, k) = 0
  BY <1>1, FrameEndIs DEF IsBuffer
<1>3. Scanned(buf) = [bytes |-> buf.bytes, scanned |-> Len(buf.bytes)]
  BY DEF Scanned, IsBuffer
<1>4. Len(buf.bytes) \in 0 .. Len(buf.bytes)
  BY ListHas DEF IsBuffer, Ruled
<1>5. IsBuffer(Scanned(buf)) /\ Scanned(buf).bytes = buf.bytes
  BY <1>2, <1>3, <1>4 DEF IsBuffer, Ruled
<1>6. PICK other : other = Scanned(buf)
  OBVIOUS
<1>7. Ruled(other) /\ \A k \in 1 .. Len(other.bytes) - 1 : SeparatorAt(other.bytes, k) = 0
  BY <1>2, <1>5, <1>6 DEF IsBuffer
<1>8. FrameEnd(other) = 0
  BY <1>7, FrameEndIs
<1>. QED BY <1>5, <1>6, <1>8 DEF HasFrame

\* What was ruled out stays so, when more bytes arrive.
LEMMA PushedIsBuffer ==
  ASSUME NEW buf, IsBuffer(buf), NEW chunk, Listed(chunk)
  PROVE  IsBuffer(Pushed(buf, chunk)) /\ Pushed(buf, chunk).bytes = buf.bytes \o chunk
<1>1. PICK old, more : old = buf.bytes /\ more = old \o chunk
  OBVIOUS
<1>2. Pushed(buf, chunk) = [bytes |-> more, scanned |-> buf.scanned]
  <2>1. PICK o, c : o = buf.bytes /\ c = buf.scanned
    OBVIOUS
  <2>2. buf = [bytes |-> o, scanned |-> c]
    BY <2>1 DEF IsBuffer
  <2>3. [buf EXCEPT !.bytes = @ \o chunk] = [buf EXCEPT !.bytes = more]
    BY <1>1
  <2>4. [buf EXCEPT !.bytes = more] = [bytes |-> more, scanned |-> c]
    BY <2>2
  <2>. QED BY <2>1, <2>3, <2>4 DEF Pushed
<1>3. Listed(old) /\ Listed(more)
  BY <1>1, Joined DEF IsBuffer, Ruled
<1>4. PICK L \in Nat, M \in Nat, c \in Nat : L = Len(old) /\ M = Len(more) /\ c = Len(chunk)
  BY <1>3, ListHas
<1>5. M = L + c /\ \A k \in 1 .. L : more[k] = old[k]
  BY <1>1, <1>3, <1>4, Joined
<1>6. /\ buf.scanned \in 0 .. L
      /\ \A k \in 1 .. L - 1 : k + 3 <= buf.scanned => SeparatorAt(old, k) = 0
  BY <1>1, <1>4 DEF IsBuffer, Ruled
<1>7. ASSUME NEW k \in 1 .. M - 1, k + 3 <= buf.scanned PROVE SeparatorAt(more, k) = 0
  <2>1. k \in 1 .. L - 1 /\ k + 3 <= L
    BY <1>6, <1>7
  <2>2. SeparatorAt(old, k) = 0
    BY <1>6, <1>7, <2>1
  <2>3. k \in 1 .. L /\ k + 1 \in 1 .. L /\ k + 2 \in 1 .. L /\ k + 3 \in 1 .. L
    BY <2>1
  <2>4. /\ more[k] = old[k] /\ more[k + 1] = old[k + 1]
        /\ more[k + 2] = old[k + 2] /\ more[k + 3] = old[k + 3]
    BY <1>5, <2>3
  <2>5. PICK S, T : old \in Seq(S) /\ more \in Seq(T)
    BY <1>3 DEF Listed
  <2>6. k \in 1 .. M /\ k + 1 <= L /\ k + 1 <= M /\ k + 3 <= M
    BY <1>5, <2>1
  <2>7. SeparatorAt(more, k) = SeparatorAt(old, k)
    <3>1. SeparatorAt(old, k) =
            IF /\ old[k] = CR /\ old[k + 1] = LF /\ old[k + 2] = CR /\ old[k + 3] = LF
            THEN 4 ELSE IF old[k] = LF /\ old[k + 1] = LF THEN 2 ELSE 0
      BY <1>4, <2>1, <2>3, <2>5, SeparatorIs
    <3>2. SeparatorAt(more, k) =
            IF /\ more[k] = CR /\ more[k + 1] = LF /\ more[k + 2] = CR /\ more[k + 3] = LF
            THEN 4 ELSE IF more[k] = LF /\ more[k + 1] = LF THEN 2 ELSE 0
      BY <1>4, <2>5, <2>6, SeparatorIs
    <3>. QED BY <3>1, <3>2, <2>4
  <2>. QED BY <2>2, <2>7
<1>8. buf.scanned \in 0 .. M
  BY <1>5, <1>6
<1>. QED BY <1>1, <1>2, <1>3, <1>4, <1>7, <1>8 DEF IsBuffer, Ruled

\* Letters alone end no frame.
LEMMA LettersEndNothing ==
  ASSUME NEW buf, IsBuffer(buf), \A k \in 1 .. Len(buf.bytes) : Letter(buf.bytes[k])
  PROVE  ~HasFrame(buf)
<1>1. PICK bytes, e : bytes = buf.bytes /\ e = FrameEnd(buf)
  OBVIOUS
<1>2. PICK L \in Nat : L = Len(bytes)
  BY <1>1, ListHas DEF IsBuffer, Ruled
<1>3. PICK S : bytes \in Seq(S)
  BY <1>1 DEF IsBuffer, Ruled, Listed
<1>4. e # 0 => e \in 1 .. L - 1 /\ SeparatorAt(bytes, e) # 0
  BY <1>1, <1>2, FrameEndIs DEF IsBuffer
<1>5. ASSUME e # 0 PROVE FALSE
  <2>1. e \in 1 .. Len(bytes)
    BY <1>2, <1>4, <1>5
  <2>2. bytes[e] # CR /\ bytes[e] # LF
    BY <1>1, <2>1 DEF Letter
  <2>3. SeparatorAt(bytes, e) = 0
    BY <1>3, <2>1, <2>2, SeparatorIs
  <2>. QED BY <1>4, <1>5, <2>3
<1>. QED BY <1>1, <1>5 DEF HasFrame

-----------------------------------------------------------------------------
(* Where the frames of an answer are among its bytes *)

Layout(frames, newline, ends, bytes) ==
  /\ ends \in [0 .. Len(frames) -> Nat] /\ ends[0] = 0
  /\ \A k \in 1 .. Len(frames) :
       /\ ends[k] = ends[k - 1] + Len(FrameBytes(frames[k], newline))
       /\ \A i \in 1 .. Len(FrameBytes(frames[k], newline)) :
            bytes[ends[k - 1] + i] = FrameBytes(frames[k], newline)[i]

\* Pieces put end to end are where the ones before them end.
ArePlaced(g, s) ==
  \A k \in 1 .. Len(s) :
    /\ Len(g[k]) = Len(g[k - 1]) + Len(s[k])
    /\ \A i \in 1 .. Len(s[k]) : g[Len(s)][Len(g[k - 1]) + i] = s[k][i]

LEMMA PiecesPlaced ==
  ASSUME NEW S, NEW s \in Seq(Seq(S)), NEW g, EndToEnd(g, s, S)
  PROVE  ArePlaced(g, s)
<1>1. PICK n \in Nat : n = Len(s)
  OBVIOUS
<1>2. \A k \in 1 .. n : s[k] \in Seq(S) /\ Len(s[k]) \in Nat
  BY <1>1
<1>3. /\ \A k \in 0 .. n : g[k] \in Seq(S) /\ Len(g[k]) \in Nat
      /\ \A k \in 1 .. n : g[k] = g[k - 1] \o s[k]
  <2>1. g \in [0 .. n -> Seq(S)] /\ \A k \in 1 .. n : g[k] = g[k - 1] \o s[k]
    BY <1>1 DEF EndToEnd
  <2>2. \A k \in 0 .. n : g[k] \in Seq(S)
    BY <2>1
  <2>3. \A x \in Seq(S) : Len(x) \in Nat
    OBVIOUS
  <2>. QED BY <2>1, <2>2, <2>3
<1>4. \A k \in 1 .. n : k \in 0 .. n /\ k - 1 \in 0 .. n
  OBVIOUS
<1>5. \A k \in 1 .. n :
        /\ Len(g[k]) = Len(g[k - 1]) + Len(s[k])
        /\ \A i \in 1 .. Len(g[k - 1]) : g[k][i] = g[k - 1][i]
        /\ \A i \in 1 .. Len(s[k]) : g[k][Len(g[k - 1]) + i] = s[k][i]
  <2>. TAKE k \in 1 .. n
  <2>1. PICK x, y, z : x = g[k - 1] /\ y = s[k] /\ z = g[k]
    OBVIOUS
  <2>2. Listed(x) /\ Listed(y) /\ z = x \o y
    <3>1. k - 1 \in 0 .. n
      OBVIOUS
    <3>2. x \in Seq(S) /\ y \in Seq(S)
      BY <1>2, <1>3, <2>1, <3>1
    <3>. QED BY <1>3, <2>1, <3>2, ListIs
  <2>3. /\ Len(z) = Len(x) + Len(y)
        /\ \A i \in 1 .. Len(x) : z[i] = x[i]
        /\ \A i \in 1 .. Len(y) : z[Len(x) + i] = y[i]
    BY <2>2, Joined
  <2>. QED BY <2>1, <2>3
<1>. DEFINE Placed(m) == \A k \in 1 .. m : \A i \in 1 .. Len(s[k]) :
                           /\ Len(g[k - 1]) + i \in 1 .. Len(g[m])
                           /\ g[m][Len(g[k - 1]) + i] = s[k][i]
            Good      == {m \in 0 .. n : Placed(m)}
<1>6. 0 \in Good
  OBVIOUS
<1>7. ASSUME NEW m \in 1 .. n, m - 1 \in Good PROVE m \in Good
  <2>1. Placed(m - 1)
    BY <1>7
  <2>2. ASSUME NEW k \in 1 .. m, NEW i \in 1 .. Len(s[k])
        PROVE  /\ Len(g[k - 1]) + i \in 1 .. Len(g[m])
               /\ g[m][Len(g[k - 1]) + i] = s[k][i]
    <3>1. CASE k = m
      <4>1. Len(g[m]) = Len(g[m - 1]) + Len(s[m])
        BY <1>5
      <4>2. g[m][Len(g[m - 1]) + i] = s[m][i]
        BY <1>5, <3>1
      <4>3. Len(g[m - 1]) \in Nat /\ Len(s[m]) \in Nat
        BY <1>2, <1>3, <1>4
      <4>4. \A x, y \in Nat : \A h \in 1 .. y : x + h \in 1 .. x + y
        OBVIOUS
      <4>. QED BY <3>1, <4>1, <4>2, <4>3, <4>4
    <3>2. CASE k # m
      <4>1. k \in 1 .. m - 1
        BY <3>2
      <4>2. PICK j : j = Len(g[k - 1]) + i
        OBVIOUS
      <4>3. j \in 1 .. Len(g[m - 1]) /\ g[m - 1][j] = s[k][i]
        BY <2>1, <4>1, <4>2
      <4>4. g[m][j] = g[m - 1][j] /\ Len(g[m]) = Len(g[m - 1]) + Len(s[m])
        BY <1>5, <4>3
      <4>5. j \in 1 .. Len(g[m])
        <5>1. Len(g[m - 1]) \in Nat /\ Len(s[m]) \in Nat
          BY <1>2, <1>3, <1>4
        <5>2. \A x, y \in Nat : \A h \in 1 .. x : h \in 1 .. x + y
          OBVIOUS
        <5>. QED BY <4>3, <4>4, <5>1, <5>2
      <4>. QED BY <4>2, <4>3, <4>4, <4>5
    <3>. QED BY <3>1, <3>2
  <2>. QED BY <2>2
<1>8. \A m \in 0 .. n : m \in Good
  <2>1. \A m \in 1 .. n : m - 1 \in Good => m \in Good
    BY <1>7
  <2>. HIDE DEF Good
  <2>. QED BY <1>6, <2>1, CountingUp
<1>9. Placed(n)
  BY <1>8
<1>. QED BY <1>1, <1>5, <1>9 DEF ArePlaced

LEMMA EncodedIsLaid ==
  ASSUME NEW frames, Listed(frames), \A k \in 1 .. Len(frames) : Framed(frames[k]),
         NEW newline \in Newlines
  PROVE  /\ Listed(Encoded(frames, newline))
         /\ \E ends : /\ Layout(frames, newline, ends, Encoded(frames, newline))
                      /\ ends[Len(frames)] = Len(Encoded(frames, newline))
<1>1. PICK n \in Nat : n = Len(frames)
  BY ListHas
<1>2. PICK s : s = [k \in 1 .. n |-> FrameBytes(frames[k], newline)]
  OBVIOUS
<1>3. Encoded(frames, newline) = FlattenSeq(s)
  <2>1. DOMAIN frames = 1 .. n
    BY <1>1, ListHas
  <2>. QED BY <1>2, <2>1 DEF Encoded
<1>4. \A k \in 1 .. n : Listed(s[k])
  <2>. TAKE k \in 1 .. n
  <2>1. Framed(frames[k]) /\ s[k] = FrameBytes(frames[k], newline)
    BY <1>1, <1>2
  <2>2. PICK body, sep : Spelled(FrameBytes(frames[k], newline), frames[k], body, sep)
    BY <2>1, FrameIsSpelled
  <2>. QED BY <2>1, <2>2 DEF Spelled
<1>5. PICK S : S = UNION {Range(s[k]) : k \in 1 .. n}
  OBVIOUS
<1>6. \A k \in 1 .. n : s[k] \in Seq(S)
  <2>. TAKE k \in 1 .. n
  <2>1. Range(s[k]) \subseteq S
    BY <1>5
  <2>. QED BY <1>4, <2>1, ListIn
<1>7. PICK T : T = Seq(S)
  OBVIOUS
<1>8. s \in Seq(T) /\ Len(s) = n
  BY <1>2, <1>6, <1>7
<1>9. PICK g : EndToEnd(g, s, S)
  BY <1>7, <1>8, FlattenRuns
<1>10. FlattenSeq(s) = g[n]
  BY <1>7, <1>8, <1>9, FlattenIs
<1>11. g \in [0 .. n -> T] /\ g[0] = <<>>
  BY <1>7, <1>8, <1>9 DEF EndToEnd
<1>12. \A k \in 0 .. n : g[k] \in Seq(S) /\ Len(g[k]) \in Nat
  <2>1. \A x \in Seq(S) : Len(x) \in Nat
    OBVIOUS
  <2>. QED BY <1>7, <1>11, <2>1
<1>13. \A k \in 1 .. n :
           /\ Len(g[k]) = Len(g[k - 1]) + Len(s[k])
           /\ \A i \in 1 .. Len(s[k]) : g[n][Len(g[k - 1]) + i] = s[k][i]
  <2>1. s \in Seq(Seq(S))
    BY <1>7, <1>8
  <2>2. ArePlaced(g, s)
    BY <1>9, <2>1, PiecesPlaced
  <2>. QED BY <1>8, <2>2 DEF ArePlaced
<1>14. PICK ends : ends = [k \in 0 .. n |-> Len(g[k])]
  OBVIOUS
<1>15. ends \in [0 .. n -> Nat] /\ ends[0] = 0
  <2>1. 0 \in 0 .. n /\ Len(<<>>) = 0
    BY Nothing
  <2>2. ends[0] = 0
    BY <1>11, <1>14, <2>1
  <2>. QED BY <1>12, <1>14, <2>2
<1>16. n \in 0 .. n /\ \A k \in 1 .. n : k \in 0 .. n /\ k - 1 \in 0 .. n
  OBVIOUS
<1>17. \A k \in 1 .. n : /\ ends[k] = ends[k - 1] + Len(s[k])
                         /\ \A i \in 1 .. Len(s[k]) : g[n][ends[k - 1] + i] = s[k][i]
  BY <1>13, <1>14, <1>16
<1>18. \A k \in 1 .. n : s[k] = FrameBytes(frames[k], newline)
  BY <1>2
<1>19. Layout(frames, newline, ends, g[n])
  BY <1>1, <1>15, <1>17, <1>18 DEF Layout
<1>20. ends[n] = Len(g[n]) /\ Listed(g[n])
  BY <1>12, <1>14, <1>16, ListIs
<1>. QED BY <1>1, <1>3, <1>10, <1>19, <1>20

-----------------------------------------------------------------------------
(* An answer as it is sent *)

\* Frames that can be sent, in a dialect.
WellFramed(frames, dialect) ==
  /\ Listed(frames)
  /\ \A k \in 1 .. Len(frames) : Framed(frames[k])
  /\ dialect = "chat" => \A k \in 1 .. Len(frames) : IsChunk(frames[k])

\* An answer's bytes are its frames, one after the other, and letters after them.
SentWell(snt, newline, ends) ==
  /\ newline \in Newlines
  /\ snt.dialect \in Dialects
  /\ WellFramed(snt.frames, snt.dialect)
  /\ Listed(snt.bytes)
  /\ Layout(snt.frames, newline, ends, snt.bytes)
  /\ ends[Len(snt.frames)] <= Len(snt.bytes)
  /\ \A i \in ends[Len(snt.frames)] + 1 .. Len(snt.bytes) : Letter(snt.bytes[i])

LEMMA ErrorsAreFramed ==
  ASSUME NEW a, a.dialect \in Dialects
  PROVE  Framed(ErrorOf(a)) /\ (a.dialect = "chat" => IsChunk(ErrorOf(a)))
<1>1. CASE a.dialect = "anthropic"
  <2>1. ErrorOf(a) = Frame("error", [index |-> 0])
    BY <1>1 DEF ErrorOf, AnthropicError
  <2>. QED BY <1>1, <2>1 DEF Framed, Frame, Payload
<1>2. CASE a.dialect = "gemini"
  <2>1. ErrorOf(a) = Frame("none", [event |-> "error", index |-> 0])
    BY <1>2 DEF ErrorOf, GeminiError
  <2>. QED BY <1>2, <2>1 DEF Framed, Frame, Payload
<1>3. CASE a.dialect = "responses"
  <2>1. ErrorOf(a) = Frame("error", [index |-> 0])
    BY <1>3 DEF ErrorOf, ResponsesError
  <2>. QED BY <1>3, <2>1 DEF Framed, Frame, Payload
<1>4. CASE a.dialect = "chat"
  <2>1. PICK p : p = [ChatChunk EXCEPT !.error = TRUE]
    OBVIOUS
  <2>2. ErrorOf(a) = Frame("none", p)
    BY <1>4, <2>1 DEF ErrorOf, ChatError, ChatFrame
  <2>3. p.text = <<>> /\ p.refusal = <<>> /\ p.calls = <<>>
    BY <2>1 DEF ChatChunk
  <2>4. Payload(ErrorOf(a)) = p
    BY <2>2 DEF Payload, Frame
  <2>5. IsChunk(ErrorOf(a))
    BY <2>3, <2>4, Nothing DEF IsChunk, Listed
  <2>. QED BY <2>2, <2>5 DEF Framed, Frame, Payload
<1>. QED BY <1>1, <1>2, <1>3, <1>4 DEF Dialects

\* The first frames of an answer can be sent without the rest.
LEMMA FrontIsFramed ==
  ASSUME NEW frames, NEW dialect, WellFramed(frames, dialect), NEW n \in 0 .. Len(frames)
  PROVE  WellFramed(SubSeq(frames, 1, n), dialect)
<1>1. PICK S : frames \in Seq(S)
  BY DEF WellFramed, Listed
<1>2. PICK front : front = SubSeq(frames, 1, n)
  OBVIOUS
<1>3. front \in Seq(S) /\ Len(front) = n /\ \A k \in 1 .. n : front[k] = frames[k]
  BY <1>1, <1>2
<1>4. \A k \in 1 .. n : k \in 1 .. Len(frames)
  BY <1>1
<1>. QED BY <1>2, <1>3, <1>4, ListIs DEF WellFramed

LEMMA OneMoreFramed ==
  ASSUME NEW frames, NEW dialect, WellFramed(frames, dialect),
         NEW f, Framed(f), dialect = "chat" => IsChunk(f)
  PROVE  WellFramed(frames \o <<f>>, dialect)
<1>1. PICK more : more = Append(frames, f)
  OBVIOUS
<1>2. more = frames \o <<f>> /\ IsLonger(more, frames, f)
  BY <1>1, JoinedWithOne, OneLonger DEF WellFramed
<1>3. PICK n \in Nat : n = Len(frames)
  BY ListHas DEF WellFramed
<1>4. /\ Listed(more) /\ Len(more) = n + 1 /\ more[n + 1] = f
      /\ \A k \in 1 .. n : more[k] = frames[k]
  BY <1>2, <1>3 DEF IsLonger
<1>5. \A k \in 1 .. n + 1 : k = n + 1 \/ k \in 1 .. n
  BY <1>3
<1>. QED BY <1>2, <1>3, <1>4, <1>5 DEF WellFramed

LEMMA FrameHasLength ==
  ASSUME NEW f, Framed(f), NEW newline \in Newlines
  PROVE  Listed(FrameBytes(f, newline)) /\ Len(FrameBytes(f, newline)) \in Nat \ {0}
<1>1. PICK b : b = FrameBytes(f, newline)
  OBVIOUS
<1>2. PICK body, sep : Spelled(b, f, body, sep)
  BY <1>1, FrameIsSpelled
<1>3. Listed(b) /\ Len(b) \in Nat \ {0}
  BY <1>2 DEF Spelled, Framing
<1>. QED BY <1>1, <1>3

LEMMA EndsGrow ==
  ASSUME NEW frames, Listed(frames), \A k \in 1 .. Len(frames) : Framed(frames[k]),
         NEW newline \in Newlines, NEW ends, NEW bytes,
         Layout(frames, newline, ends, bytes)
  PROVE  /\ \A k \in 0 .. Len(frames) : ends[k] \in Nat /\ ends[k] <= ends[Len(frames)]
         /\ \A k \in 1 .. Len(frames) : ends[k - 1] < ends[k]
<1>1. PICK n \in Nat : n = Len(frames)
  BY ListHas
<1>2. PICK w : w = [k \in 1 .. n |-> Len(FrameBytes(frames[k], newline))]
  OBVIOUS
<1>3. \A k \in 1 .. n : w[k] \in Nat \ {0}
  BY <1>1, <1>2, FrameHasLength
<1>4. /\ \A k \in 0 .. n : ends[k] \in Nat
      /\ \A k \in 1 .. n : ends[k] = ends[k - 1] + w[k]
  BY <1>1, <1>2 DEF Layout
<1>5. \A k \in 1 .. n : ends[k - 1] < ends[k]
  <2>1. \A k \in 1 .. n : k - 1 \in 0 .. n /\ k \in 0 .. n
    OBVIOUS
  <2>. QED BY <1>3, <1>4, <2>1
<1>. DEFINE Good == {j \in 0 .. n : ends[n - j] <= ends[n]}
<1>6. 0 \in Good
  <2>1. n - 0 = n /\ n \in 0 .. n /\ 0 \in 0 .. n
    OBVIOUS
  <2>. QED BY <1>4, <2>1
<1>7. ASSUME NEW j \in 1 .. n, j - 1 \in Good PROVE j \in Good
  <2>1. PICK m : m = n - j
    OBVIOUS
  <2>2. m \in 0 .. n /\ m + 1 \in 1 .. n /\ n - (j - 1) = m + 1 /\ m + 1 \in 0 .. n /\ n \in 0 .. n
        /\ (m + 1) - 1 = m /\ j \in 0 .. n
    BY <2>1
  <2>3. ends[m + 1] <= ends[n]
    BY <1>7, <2>2
  <2>4. ends[m] < ends[m + 1]
    BY <1>5, <2>2
  <2>5. ends[m] \in Nat /\ ends[m + 1] \in Nat /\ ends[n] \in Nat
    BY <1>4, <2>2
  <2>6. ends[m] <= ends[n]
    BY <2>3, <2>4, <2>5
  <2>. QED BY <2>1, <2>2, <2>6
<1>8. \A j \in 0 .. n : j \in Good
  <2>1. \A j \in 1 .. n : j - 1 \in Good => j \in Good
    BY <1>7
  <2>. HIDE DEF Good
  <2>. QED BY <1>6, <2>1, CountingUp
<1>9. ASSUME NEW k \in 0 .. n PROVE ends[k] <= ends[n]
  <2>1. n - k \in 0 .. n /\ n - (n - k) = k
    OBVIOUS
  <2>. QED BY <1>8, <2>1
<1>. QED BY <1>1, <1>4, <1>5, <1>9

\* Frames encoded, with letters after them.
LEMMA EncodedIsWell ==
  ASSUME NEW dialect \in Dialects, NEW frames, WellFramed(frames, dialect),
         NEW newline \in Newlines, NEW rest, Listed(rest),
         \A i \in 1 .. Len(rest) : Letter(rest[i]),
         NEW snt, snt.dialect = dialect, snt.frames = frames,
         snt.bytes = Encoded(frames, newline) \o rest
  PROVE  \E ends : SentWell(snt, newline, ends)
<1>1. PICK b, all : b = Encoded(frames, newline) /\ all = b \o rest
  OBVIOUS
<1>2. /\ Listed(frames) /\ \A k \in 1 .. Len(frames) : Framed(frames[k])
  BY DEF WellFramed
<1>3. Listed(b)
  BY <1>1, <1>2, EncodedIsLaid
<1>4. PICK ends : Layout(frames, newline, ends, b) /\ ends[Len(frames)] = Len(b)
  BY <1>1, <1>2, EncodedIsLaid
<1>5. PICK n \in Nat, L \in Nat, M \in Nat : n = Len(frames) /\ L = Len(b) /\ M = Len(rest)
  BY <1>2, <1>3, ListHas
<1>6. /\ Listed(all) /\ Len(all) = L + M
      /\ \A k \in 1 .. L : all[k] = b[k]
      /\ \A k \in 1 .. M : all[L + k] = rest[k]
  BY <1>1, <1>3, <1>5, Joined
<1>7. /\ \A k \in 0 .. n : ends[k] \in Nat /\ ends[k] <= L
  BY <1>2, <1>4, <1>5, EndsGrow
<1>8. ASSUME NEW k \in 1 .. n, NEW i \in 1 .. Len(FrameBytes(frames[k], newline))
      PROVE  all[ends[k - 1] + i] = FrameBytes(frames[k], newline)[i]
  <2>1. PICK w : w = Len(FrameBytes(frames[k], newline))
    OBVIOUS
  <2>2. w \in Nat /\ ends[k] = ends[k - 1] + w /\ i \in 1 .. w
    BY <1>2, <1>4, <1>5, <2>1, FrameHasLength DEF Layout
  <2>3. k \in 0 .. n /\ k - 1 \in 0 .. n
    OBVIOUS
  <2>4. ends[k - 1] + i \in 1 .. L
    BY <1>7, <2>2, <2>3
  <2>5. b[ends[k - 1] + i] = FrameBytes(frames[k], newline)[i]
    BY <1>4, <1>5 DEF Layout
  <2>. QED BY <1>6, <2>4, <2>5
<1>9. Layout(frames, newline, ends, all)
  BY <1>4, <1>5, <1>8 DEF Layout
<1>10. \A i \in L + 1 .. L + M : Letter(all[i])
  <2>. TAKE i \in L + 1 .. L + M
  <2>1. i - L \in 1 .. M /\ L + (i - L) = i
    OBVIOUS
  <2>2. Letter(rest[i - L])
    BY <1>5, <2>1
  <2>. QED BY <1>6, <2>1, <2>2
<1>11. L <= L + M
  OBVIOUS
<1>. QED BY <1>1, <1>4, <1>5, <1>6, <1>9, <1>10, <1>11 DEF SentWell

LEMMA AnswerIsFramed ==
  ASSUME NEW a \in Answers
  PROVE  /\ a.dialect \in Dialects /\ WellFramed(FramesOf(a), a.dialect)
         /\ Len(FramesOf(a)) \in Nat \ {0}
<1>1. PICK frames : frames = FramesOf(a)
  OBVIOUS
<1>2. /\ a.dialect \in {"anthropic", "gemini", "chat", "responses"}
      /\ frames \in Seq(Range(frames)) /\ frames # <<>>
      /\ \A f \in Range(frames) : f = KeepAlive \/ f = Frame(f.event, Payload(f))
      /\ a.dialect = "chat" => \A f \in Range(frames) : IsChunk(f)
  BY <1>1, AnswersAreFramed
<1>3. Listed(frames)
  BY <1>2 DEF Listed
<1>4. Len(frames) \in Nat \ {0} /\ DOMAIN frames = 1 .. Len(frames)
  BY <1>2, <1>3, ListHas
<1>5. \A k \in 1 .. Len(frames) : frames[k] \in Range(frames)
  BY <1>4 DEF Range
<1>. QED BY <1>1, <1>2, <1>3, <1>4, <1>5 DEF WellFramed, Framed, Dialects

LEMMA SentIsWell ==
  ASSUME NEW snt \in Sendings
  PROVE  \E newline, ends : SentWell(snt, newline, ends)
<1>1. PICK a \in Answers, newline \in Newlines :
        \/ snt = SentWhole(a, newline)
        \/ \E n \in 0 .. Len(FramesOf(a)) - 1 : snt = SentFailing(a, newline, n)
        \/ snt = SentEndless(a, newline, Len(FramesOf(a)) - 1)
  BY DEF Sendings, Newlines
<1>2. PICK dialect, frames : dialect = a.dialect /\ frames = FramesOf(a)
  OBVIOUS
<1>3. dialect \in Dialects /\ WellFramed(frames, dialect) /\ Len(frames) \in Nat \ {0}
  BY <1>2, AnswerIsFramed
<1>4. ASSUME snt = SentWhole(a, newline) PROVE \E ends : SentWell(snt, newline, ends)
  <2>1. snt.dialect = dialect /\ snt.frames = frames /\ snt.bytes = Encoded(frames, newline)
    BY <1>2, <1>4 DEF SentWhole
  <2>2. Listed(Encoded(frames, newline))
    BY <1>3, EncodedIsLaid DEF WellFramed
  <2>3. snt.bytes = Encoded(frames, newline) \o <<>>
    BY <2>1, <2>2, JoinedWithNothing
  <2>4. Listed(<<>>) /\ \A i \in 1 .. Len(<<>>) : Letter(<<>>[i])
    BY Nothing
  <2>. QED BY <1>3, <2>1, <2>3, <2>4, EncodedIsWell
<1>5. ASSUME NEW n \in 0 .. Len(frames) - 1, snt = SentFailing(a, newline, n)
      PROVE  \E ends : SentWell(snt, newline, ends)
  <2>1. PICK some, f : some = SubSeq(frames, 1, n) \o <<f>> /\ f = ErrorOf(a)
    OBVIOUS
  <2>2. snt.dialect = dialect /\ snt.frames = some /\ snt.bytes = Encoded(some, newline)
    BY <1>2, <1>5, <2>1 DEF SentFailing
  <2>3. n \in 0 .. Len(frames)
    BY <1>3
  <2>4. WellFramed(SubSeq(frames, 1, n), dialect)
    BY <1>3, <2>3, FrontIsFramed
  <2>5. Framed(f) /\ (dialect = "chat" => IsChunk(f))
    BY <1>2, <1>3, <2>1, ErrorsAreFramed
  <2>6. WellFramed(some, dialect)
    BY <2>1, <2>4, <2>5, OneMoreFramed
  <2>7. Listed(Encoded(some, newline))
    BY <2>6, EncodedIsLaid DEF WellFramed
  <2>8. snt.bytes = Encoded(some, newline) \o <<>>
    BY <2>2, <2>7, JoinedWithNothing
  <2>9. Listed(<<>>) /\ \A i \in 1 .. Len(<<>>) : Letter(<<>>[i])
    BY Nothing
  <2>. QED BY <1>3, <2>2, <2>6, <2>8, <2>9, EncodedIsWell
<1>6. ASSUME snt = SentEndless(a, newline, Len(frames) - 1)
      PROVE  \E ends : SentWell(snt, newline, ends)
  <2>1. PICK some, rest : /\ some = SubSeq(frames, 1, Len(frames) - 1)
                          /\ rest = [k \in 1 .. MaxFrame + 1 |-> CommentLine]
    OBVIOUS
  <2>2. /\ snt.dialect = dialect /\ snt.frames = some
        /\ snt.bytes = Encoded(some, newline) \o rest
    BY <1>2, <1>6, <2>1 DEF SentEndless
  <2>3. Len(frames) - 1 \in 0 .. Len(frames)
    BY <1>3
  <2>4. WellFramed(some, dialect)
    BY <1>3, <2>1, <2>3, FrontIsFramed
  <2>5. rest \in Seq({CommentLine}) /\ \A i \in 1 .. Len(rest) : rest[i] = CommentLine
    <3>1. PICK x : x = CommentLine
      OBVIOUS
    <3>2. MaxFrame + 1 \in Nat /\ rest = [k \in 1 .. MaxFrame + 1 |-> x]
      BY <2>1, <3>1, StreamAssumption
    <3>3. rest \in Seq({x}) /\ \A i \in 1 .. Len(rest) : rest[i] = x
      BY <3>2
    <3>. QED BY <3>1, <3>3
  <2>6. Listed(rest) /\ \A i \in 1 .. Len(rest) : Letter(rest[i])
    BY <2>5, ListIs, LettersAre
  <2>. QED BY <1>3, <2>2, <2>4, <2>6, EncodedIsWell
<1>. QED BY <1>1, <1>2, <1>4, <1>5, <1>6

-----------------------------------------------------------------------------
(* What is buffered is what was sent after the frames taken *)

Reach(ends, dec, buf) == ends[Len(dec)] + Len(buf.bytes)

InPlace(snt, ends, dec, buf) ==
  /\ IsBuffer(buf)
  /\ Listed(dec) /\ Len(dec) <= Len(snt.frames)
  /\ \A k \in 1 .. Len(dec) : dec[k] = snt.frames[k]
  /\ Reach(ends, dec, buf) <= Len(snt.bytes)
  /\ \A i \in 1 .. Len(buf.bytes) : buf.bytes[i] = snt.bytes[ends[Len(dec)] + i]

\* What the proofs below need of an answer sent.
LEMMA SentHas ==
  ASSUME NEW snt, NEW newline, NEW ends, SentWell(snt, newline, ends)
  PROVE  /\ Len(snt.frames) \in Nat /\ Len(snt.bytes) \in Nat
         /\ ends[0] = 0 /\ ends[Len(snt.frames)] <= Len(snt.bytes)
         /\ \A k \in 0 .. Len(snt.frames) : ends[k] \in Nat /\ ends[k] <= ends[Len(snt.frames)]
<1>1. PICK frames, b : frames = snt.frames /\ b = snt.bytes
  OBVIOUS
<1>2. /\ newline \in Newlines /\ Layout(frames, newline, ends, b) /\ Listed(frames) /\ Listed(b)
      /\ \A k \in 1 .. Len(frames) : Framed(frames[k])
      /\ ends[Len(frames)] <= Len(b)
  BY <1>1 DEF SentWell, WellFramed
<1>3. \A k \in 0 .. Len(frames) : ends[k] \in Nat /\ ends[k] <= ends[Len(frames)]
  BY <1>2, EndsGrow
<1>4. Len(frames) \in Nat /\ Len(b) \in Nat
  BY <1>2, ListHas
<1>5. ends[0] = 0
  BY <1>2 DEF Layout
<1>. QED BY <1>1, <1>2, <1>3, <1>4, <1>5

LEMMA InPlaceAtFirst ==
  ASSUME NEW snt, NEW newline, NEW ends, SentWell(snt, newline, ends)
  PROVE  InPlace(snt, ends, <<>>, EmptyBuffer) /\ Reach(ends, <<>>, EmptyBuffer) = 0
<1>1. PICK none : none = <<>>
  OBVIOUS
<1>2. Listed(none) /\ Len(none) = 0
  BY <1>1, Nothing
<1>3. PICK buf : buf = EmptyBuffer
  OBVIOUS
<1>4. IsBuffer(buf) /\ buf.bytes = none
  BY <1>1, <1>3, EmptyIsBuffer
<1>5. Len(snt.frames) \in Nat /\ Len(snt.bytes) \in Nat /\ ends[0] = 0
  BY SentHas
<1>6. Reach(ends, none, buf) = 0
  BY <1>2, <1>4, <1>5 DEF Reach
<1>7. InPlace(snt, ends, none, buf)
  BY <1>2, <1>4, <1>5, <1>6 DEF InPlace
<1>. QED BY <1>1, <1>3, <1>6, <1>7

LEMMA InPlaceScanned ==
  ASSUME NEW snt, NEW ends, NEW dec, NEW buf, InPlace(snt, ends, dec, buf), ~HasFrame(buf)
  PROVE  /\ InPlace(snt, ends, dec, Scanned(buf)) /\ ~HasFrame(Scanned(buf))
         /\ Reach(ends, dec, Scanned(buf)) = Reach(ends, dec, buf)
<1>1. PICK other : other = Scanned(buf)
  OBVIOUS
<1>2. IsBuffer(other) /\ other.bytes = buf.bytes /\ ~HasFrame(other)
  BY <1>1, ScannedIsBuffer DEF InPlace
<1>. QED BY <1>1, <1>2 DEF InPlace, Reach

LEMMA InPlacePushed ==
  ASSUME NEW snt, NEW newline, NEW ends, SentWell(snt, newline, ends),
         NEW dec, NEW buf, InPlace(snt, ends, dec, buf),
         NEW rd, rd = Reach(ends, dec, buf), NEW c \in Nat, rd + c <= Len(snt.bytes)
  PROVE  /\ InPlace(snt, ends, dec, Pushed(buf, SubSeq(snt.bytes, rd + 1, rd + c)))
         /\ Reach(ends, dec, Pushed(buf, SubSeq(snt.bytes, rd + 1, rd + c))) = rd + c
<1>1. PICK t \in Nat, n \in Nat, L \in Nat, M \in Nat :
        t = Len(dec) /\ n = Len(snt.frames) /\ L = Len(buf.bytes) /\ M = Len(snt.bytes)
  BY SentHas, ListHas DEF InPlace, IsBuffer, Ruled
<1>2. PICK at \in Nat : at = ends[t]
  <2>1. t \in 0 .. n
    BY <1>1 DEF InPlace
  <2>. QED BY <1>1, <2>1, SentHas
<1>3. rd = at + L /\ rd \in Nat
  BY <1>1, <1>2 DEF Reach
<1>4. PICK chunk : chunk = SubSeq(snt.bytes, rd + 1, rd + c)
  OBVIOUS
<1>5. Listed(chunk) /\ Len(chunk) = c /\ \A i \in 1 .. c : chunk[i] = snt.bytes[rd + i]
  <2>1. PICK S : snt.bytes \in Seq(S)
    BY DEF SentWell, Listed
  <2>2. chunk \in Seq(S) /\ Len(chunk) = c
    BY <1>1, <1>3, <1>4, <2>1
  <2>3. \A i \in 1 .. c : chunk[i] = snt.bytes[(rd + 1) + i - 1]
    BY <1>1, <1>3, <1>4, <2>1
  <2>4. \A i \in 1 .. c : (rd + 1) + i - 1 = rd + i
    BY <1>3
  <2>. QED BY <2>2, <2>3, <2>4, ListIs
<1>6. PICK other : other = Pushed(buf, chunk)
  OBVIOUS
<1>7. IsBuffer(other) /\ other.bytes = buf.bytes \o chunk
  BY <1>5, <1>6, PushedIsBuffer DEF InPlace
<1>8. PICK old, more : old = buf.bytes /\ more = other.bytes
  OBVIOUS
<1>9. /\ Len(more) = L + c
      /\ \A k \in 1 .. L : more[k] = old[k]
      /\ \A k \in 1 .. c : more[L + k] = chunk[k]
  <2>1. Listed(old) /\ Len(old) = L
    BY <1>1, <1>8 DEF InPlace, IsBuffer, Ruled
  <2>2. more = old \o chunk
    BY <1>7, <1>8
  <2>3. Listed(chunk) /\ Len(chunk) = c
    BY <1>5
  <2>4. /\ Len(old \o chunk) = Len(old) + Len(chunk)
        /\ \A k \in 1 .. Len(old) : (old \o chunk)[k] = old[k]
        /\ \A k \in 1 .. Len(chunk) : (old \o chunk)[Len(old) + k] = chunk[k]
    BY <2>1, <2>3, Joined
  <2>. QED BY <2>1, <2>2, <2>3, <2>4
<1>10. Reach(ends, dec, other) = rd + c
  <2>1. at + (L + c) = rd + c
    BY <1>3
  <2>. QED BY <1>1, <1>2, <1>8, <1>9, <2>1 DEF Reach
<1>11. ASSUME NEW i \in 1 .. L + c PROVE more[i] = snt.bytes[at + i]
  <2>1. CASE i <= L
    <3>1. i \in 1 .. L
      BY <2>1
    <3>. QED BY <1>1, <1>2, <1>8, <1>9, <3>1 DEF InPlace
  <2>2. CASE ~(i <= L)
    <3>1. i - L \in 1 .. c /\ L + (i - L) = i /\ rd + (i - L) = at + i
      BY <1>3, <2>2
    <3>. QED BY <1>5, <1>9, <3>1
  <2>. QED BY <2>1, <2>2
<1>12. InPlace(snt, ends, dec, other)
  BY <1>1, <1>2, <1>7, <1>8, <1>9, <1>10, <1>11 DEF InPlace
<1>. QED BY <1>4, <1>6, <1>10, <1>12

\* While frames are left, the buffer begins with the next.
LEMMA NextFrameIsAhead ==
  ASSUME NEW snt, NEW newline, NEW ends, SentWell(snt, newline, ends),
         NEW dec, NEW buf, InPlace(snt, ends, dec, buf), Len(dec) # Len(snt.frames)
  PROVE  \E body, sep :
           /\ Spelled(FrameBytes(snt.frames[Len(dec) + 1], newline), snt.frames[Len(dec) + 1], body, sep)
           /\ Begins(buf.bytes, FrameBytes(snt.frames[Len(dec) + 1], newline))
           /\ ends[Len(dec) + 1] = ends[Len(dec)] + Len(FrameBytes(snt.frames[Len(dec) + 1], newline))
<1>1. PICK t \in Nat, n \in Nat, L \in Nat :
        t = Len(dec) /\ n = Len(snt.frames) /\ L = Len(buf.bytes)
  BY SentHas, ListHas DEF InPlace, IsBuffer, Ruled
<1>2. t + 1 \in 1 .. n /\ (t + 1) - 1 = t
  BY <1>1 DEF InPlace
<1>3. PICK f, b : f = snt.frames[t + 1] /\ b = FrameBytes(f, newline)
  OBVIOUS
<1>4. Framed(f) /\ newline \in Newlines
  BY <1>1, <1>2, <1>3 DEF SentWell, WellFramed
<1>5. PICK body, sep : Spelled(b, f, body, sep)
  BY <1>3, <1>4, FrameIsSpelled
<1>6. /\ ends[t + 1] = ends[t] + Len(b)
      /\ \A i \in 1 .. Len(b) : snt.bytes[ends[t] + i] = b[i]
  BY <1>1, <1>2, <1>3 DEF SentWell, Layout
<1>7. Begins(buf.bytes, b)
  <2>1. \A i \in 1 .. L : buf.bytes[i] = snt.bytes[ends[t] + i]
    BY <1>1 DEF InPlace
  <2>2. Len(b) \in Nat
    BY <1>5, ListHas DEF Spelled
  <2>3. \A i \in 1 .. L : i <= Len(b) => i \in 1 .. Len(b)
    BY <2>2
  <2>. QED BY <1>1, <1>6, <2>1, <2>3 DEF Begins
<1>. QED BY <1>1, <1>3, <1>5, <1>6, <1>7

\* No more than what was sent is found: the frame taken is the next one.
LEMMA InPlaceDecoded ==
  ASSUME NEW snt, NEW newline, NEW ends, SentWell(snt, newline, ends),
         NEW dec, NEW buf, InPlace(snt, ends, dec, buf), HasFrame(buf)
  PROVE  /\ FrameOf(buf) = snt.frames[Len(dec) + 1] /\ Len(dec) + 1 <= Len(snt.frames)
         /\ InPlace(snt, ends, Append(dec, FrameOf(buf)), WithoutFrame(buf))
         /\ Reach(ends, Append(dec, FrameOf(buf)), WithoutFrame(buf)) = Reach(ends, dec, buf)
<1>1. PICK t \in Nat, n \in Nat, L \in Nat, M \in Nat :
        t = Len(dec) /\ n = Len(snt.frames) /\ L = Len(buf.bytes) /\ M = Len(snt.bytes)
  BY SentHas, ListHas DEF InPlace, IsBuffer, Ruled
<1>2. PICK at \in Nat : at = ends[t]
  <2>1. t \in 0 .. n
    BY <1>1 DEF InPlace
  <2>. QED BY <1>1, <2>1, SentHas
<1>3. t # n
  <2>. SUFFICES ASSUME t = n PROVE FALSE
    OBVIOUS
  <2>1. at + L <= M
    BY <1>1, <1>2 DEF InPlace, Reach
  <2>2. \A i \in 1 .. L : at + i \in at + 1 .. M
    BY <2>1
  <2>3. \A i \in at + 1 .. M : Letter(snt.bytes[i])
    BY <1>1, <1>2 DEF SentWell
  <2>4. \A i \in 1 .. L : Letter(buf.bytes[i])
    BY <1>1, <1>2, <2>2, <2>3 DEF InPlace
  <2>. QED BY <1>1, <2>4, LettersEndNothing DEF InPlace
<1>4. PICK f, b : f = snt.frames[t + 1] /\ b = FrameBytes(f, newline)
  OBVIOUS
<1>5. PICK body, sep : Spelled(b, f, body, sep) /\ Begins(buf.bytes, b) /\ ends[t + 1] = at + Len(b)
  BY <1>1, <1>2, <1>3, <1>4, NextFrameIsAhead
<1>6. PICK w \in Nat : w = Len(b)
  BY <1>5, ListHas DEF Spelled
<1>7. L >= w
  <2>. SUFFICES ASSUME L < w PROVE FALSE
    OBVIOUS
  <2>1. FrameEnd(buf) = 0
    BY <1>1, <1>5, <1>6, FrameIsFound DEF Spelled, InPlace, IsBuffer
  <2>. QED BY <2>1 DEF HasFrame
<1>8. /\ FrameOf(buf) = f
      /\ WithoutFrame(buf) = [bytes |-> SubSeq(buf.bytes, w + 1, L), scanned |-> 0]
  BY <1>1, <1>5, <1>6, <1>7, FrameIsTaken DEF InPlace, IsBuffer
<1>9. PICK rest, other : rest = SubSeq(buf.bytes, w + 1, L) /\ other = WithoutFrame(buf)
  OBVIOUS
<1>10. Listed(rest) /\ Len(rest) = L - w /\ \A i \in 1 .. L - w : rest[i] = buf.bytes[w + i]
  <2>1. PICK S : buf.bytes \in Seq(S)
    BY DEF InPlace, IsBuffer, Ruled, Listed
  <2>2. rest \in Seq(S) /\ Len(rest) = L - w
    BY <1>1, <1>6, <1>7, <1>9, <2>1
  <2>3. \A i \in 1 .. L - w : rest[i] = buf.bytes[(w + 1) + i - 1]
    BY <1>1, <1>6, <1>7, <1>9, <2>1
  <2>4. \A i \in 1 .. L - w : (w + 1) + i - 1 = w + i
    BY <1>6
  <2>. QED BY <2>2, <2>3, <2>4, ListIs
<1>11. IsBuffer(other) /\ other.bytes = rest
  <2>1. IsBuffer([bytes |-> rest, scanned |-> 0])
    BY <1>10, FreshIsBuffer
  <2>2. other = [bytes |-> rest, scanned |-> 0]
    BY <1>8, <1>9
  <2>. QED BY <2>1, <2>2
<1>12. PICK more : more = Append(dec, FrameOf(buf))
  OBVIOUS
<1>13. /\ Listed(more) /\ Len(more) = t + 1 /\ more[t + 1] = f
       /\ \A k \in 1 .. t : more[k] = dec[k]
  <2>1. more = Append(dec, f) /\ Listed(dec)
    BY <1>8, <1>12 DEF InPlace
  <2>2. IsLonger(more, dec, f)
    BY <2>1, OneLonger
  <2>. QED BY <1>1, <2>2 DEF IsLonger
<1>14. Reach(ends, more, other) = at + L /\ Reach(ends, dec, buf) = at + L
  <2>1. (at + w) + (L - w) = at + L
    OBVIOUS
  <2>. QED BY <1>1, <1>2, <1>5, <1>6, <1>10, <1>11, <1>13, <2>1 DEF Reach
<1>15. t + 1 <= n
  BY <1>1, <1>3 DEF InPlace
<1>16. \A k \in 1 .. t + 1 : more[k] = snt.frames[k]
  <2>1. \A k \in 1 .. t + 1 : k = t + 1 \/ k \in 1 .. t
    OBVIOUS
  <2>2. \A k \in 1 .. t : dec[k] = snt.frames[k]
    BY <1>1 DEF InPlace
  <2>. QED BY <1>4, <1>13, <2>1, <2>2
<1>17. ASSUME NEW i \in 1 .. L - w PROVE rest[i] = snt.bytes[(at + w) + i]
  <2>1. w + i \in 1 .. L /\ at + (w + i) = (at + w) + i
    OBVIOUS
  <2>2. buf.bytes[w + i] = snt.bytes[at + (w + i)]
    BY <1>1, <1>2, <2>1 DEF InPlace
  <2>. QED BY <1>10, <2>1, <2>2
<1>18. InPlace(snt, ends, more, other)
  <2>1. Reach(ends, more, other) <= Len(snt.bytes)
    BY <1>14 DEF InPlace
  <2>2. Len(other.bytes) = L - w /\ ends[Len(more)] = at + w
    BY <1>5, <1>6, <1>10, <1>11, <1>13
  <2>. QED BY <1>1, <1>11, <1>13, <1>15, <1>16, <1>17, <2>1, <2>2 DEF InPlace
<1>. QED BY <1>1, <1>4, <1>8, <1>9, <1>12, <1>14, <1>15, <1>18

\* When all has been read and no frame is found, all frames have been taken.
LEMMA NoFrameIsLeft ==
  ASSUME NEW snt, NEW newline, NEW ends, SentWell(snt, newline, ends),
         NEW dec, NEW buf, InPlace(snt, ends, dec, buf), ~HasFrame(buf),
         Reach(ends, dec, buf) = Len(snt.bytes)
  PROVE  dec = snt.frames
<1>1. PICK t \in Nat, n \in Nat, L \in Nat, M \in Nat :
        t = Len(dec) /\ n = Len(snt.frames) /\ L = Len(buf.bytes) /\ M = Len(snt.bytes)
  BY SentHas, ListHas DEF InPlace, IsBuffer, Ruled
<1>2. t \in 0 .. n
  BY <1>1 DEF InPlace
<1>3. PICK at \in Nat : at = ends[t]
  BY <1>1, <1>2, SentHas
<1>4. t = n
  <2>. SUFFICES ASSUME t # n PROVE FALSE
    OBVIOUS
  <2>1. PICK f, b : f = snt.frames[t + 1] /\ b = FrameBytes(f, newline)
    OBVIOUS
  <2>2. PICK body, sep : Spelled(b, f, body, sep) /\ Begins(buf.bytes, b) /\ ends[t + 1] = at + Len(b)
    BY <1>1, <1>3, <2>1, NextFrameIsAhead
  <2>3. PICK w \in Nat : w = Len(b)
    BY <2>2, ListHas DEF Spelled
  <2>4. at + w <= M
    <3>1. t + 1 \in 0 .. n
      BY <1>2
    <3>2. ends[t + 1] \in Nat /\ ends[t + 1] <= ends[n] /\ ends[n] <= M /\ ends[n] \in Nat
      BY <1>1, <3>1, SentHas
    <3>. QED BY <2>2, <2>3, <3>2
  <2>5. at + L = M
    BY <1>1, <1>3 DEF Reach
  <2>6. L >= w
    BY <2>4, <2>5
  <2>7. HasFrame(buf)
    BY <1>1, <2>2, <2>3, <2>6, FrameIsTaken DEF InPlace, IsBuffer
  <2>. QED BY <2>7
<1>5. dec = [k \in 1 .. n |-> dec[k]] /\ snt.frames = [k \in 1 .. n |-> snt.frames[k]]
  <2>1. \A s : Listed(s) => s = [k \in 1 .. Len(s) |-> s[k]]
    BY DEF Listed
  <2>2. Listed(dec) /\ Listed(snt.frames)
    BY DEF InPlace, SentWell, WellFramed
  <2>. QED BY <1>1, <1>4, <2>1, <2>2
<1>6. \A k \in 1 .. n : dec[k] = snt.frames[k]
  BY <1>1, <1>4 DEF InPlace
<1>. QED BY <1>5, <1>6

-----------------------------------------------------------------------------
(* The inductive invariant *)

(* Frames taken and bytes buffered are those of the answer, one after the other.
   Bytes are lost only past the ceiling of the stream, and then a call failed. *)
Arriving(newline, ends) ==
  /\ SentWell(sent, newline, ends)
  /\ InPlace(sent, ends, decoded, buffer)
  /\ read \in 0 .. Len(sent.bytes)
  /\ read <= MaxStream => Reach(ends, decoded, buffer) = read
  /\ read > MaxStream => failed
  /\ closed => ~HasFrame(buffer)

Arrives == \E newline, ends : Arriving(newline, ends)

\* What is told is what is captured, and the end is told when the body has ended.
Telling ==
  /\ ~closed => Working(seen, asm)
  /\ closed => Over(seen, asm)
  /\ drained => closed /\ asm.out = <<>>

StreamInv == Arrives /\ Telling

LEMMA ArrivesAtFirst == StreamInit => Arrives
<1>. SUFFICES ASSUME StreamInit PROVE Arrives
  OBVIOUS
<1>1. PICK newline, ends : SentWell(sent, newline, ends)
  BY SentIsWell DEF StreamInit
<1>2. /\ InPlace(sent, ends, decoded, buffer) /\ Reach(ends, decoded, buffer) = 0
      /\ read = 0 /\ closed = FALSE
  BY <1>1, InPlaceAtFirst DEF StreamInit
<1>3. 0 \in 0 .. Len(sent.bytes) /\ 0 <= MaxStream /\ ~(0 > MaxStream)
  BY <1>1, SentHas, StreamAssumption
<1>. QED BY <1>1, <1>2, <1>3 DEF Arrives, Arriving

LEMMA ArrivesOn == Arrives /\ [StreamNext]_streamVars => Arrives'
<1>. SUFFICES ASSUME NEW newline, NEW ends, Arriving(newline, ends), [StreamNext]_streamVars
              PROVE  Arriving(newline, ends)'
  BY DEF Arrives
<1>1. /\ SentWell(sent, newline, ends)
      /\ InPlace(sent, ends, decoded, buffer)
      /\ read \in 0 .. Len(sent.bytes)
      /\ read <= MaxStream => Reach(ends, decoded, buffer) = read
      /\ read > MaxStream => failed
      /\ closed => ~HasFrame(buffer)
  BY DEF Arriving
<1>2. Len(sent.bytes) \in Nat /\ read \in Nat /\ MaxStream \in Nat
  BY <1>1, SentHas, StreamAssumption
<1>3. CASE HandOver
  BY <1>1, <1>3 DEF HandOver, Arriving
<1>4. CASE DecodeFrame
  <2>1. /\ HasFrame(buffer) /\ ~closed
        /\ decoded' = Append(decoded, FrameOf(buffer)) /\ buffer' = WithoutFrame(buffer)
        /\ sent' = sent /\ read' = read /\ closed' = closed
        /\ failed => failed'
    BY <1>4 DEF DecodeFrame, MayDecode
  <2>2. /\ InPlace(sent, ends, decoded', buffer')
        /\ Reach(ends, decoded', buffer') = Reach(ends, decoded, buffer)
    BY <1>1, <2>1, InPlaceDecoded
  <2>. QED BY <1>1, <2>1, <2>2 DEF Arriving
<1>5. CASE \E n \in 1 .. MaxChunk : TakeChunk(n)
  <2>1. PICK n \in 1 .. MaxChunk : TakeChunk(n)
    BY <1>5
  <2>2. /\ ~HasFrame(buffer) /\ ~closed
        /\ read + n <= Len(sent.bytes) /\ read' = read + n
        /\ buffer' = IF read' > MaxStream THEN Scanned(buffer)
                     ELSE Pushed(Scanned(buffer), SubSeq(sent.bytes, read + 1, read'))
        /\ sent' = sent /\ closed' = closed /\ decoded' = decoded
        /\ read' > MaxStream => failed'
    BY <2>1 DEF TakeChunk, Waiting
  <2>3. PICK buf : buf = Scanned(buffer)
    OBVIOUS
  <2>4. InPlace(sent, ends, decoded, buf) /\ Reach(ends, decoded, buf) = Reach(ends, decoded, buffer)
    BY <1>1, <2>2, <2>3, InPlaceScanned
  <2>5. n \in Nat /\ read' \in 0 .. Len(sent.bytes) /\ (read' <= MaxStream => read <= MaxStream)
        /\ (read' <= MaxStream <=> ~(read' > MaxStream))
    BY <1>2, <2>2, StreamAssumption
  <2>6. CASE read' > MaxStream
    <3>1. buffer' = buf
      BY <2>2, <2>3, <2>6
    <3>. QED BY <1>1, <2>2, <2>4, <2>5, <2>6, <3>1 DEF Arriving
  <2>7. CASE ~(read' > MaxStream)
    <3>1. read = Reach(ends, decoded, buf)
      BY <1>1, <2>4, <2>5, <2>7
    <3>2. buffer' = Pushed(buf, SubSeq(sent.bytes, read + 1, read + n))
      BY <2>2, <2>3, <2>7
    <3>3. InPlace(sent, ends, decoded, buffer') /\ Reach(ends, decoded, buffer') = read + n
      BY <1>1, <2>2, <2>4, <2>5, <3>1, <3>2, InPlacePushed
    <3>. QED BY <1>1, <2>2, <2>5, <2>7, <3>3 DEF Arriving
  <2>. QED BY <2>6, <2>7
<1>6. CASE BodyBreaks \/ BodyEnds
  <2>1. /\ ~HasFrame(buffer) /\ buffer' = Scanned(buffer)
        /\ sent' = sent /\ read' = read /\ decoded' = decoded
        /\ failed => failed'
    BY <1>6 DEF BodyBreaks, BodyEnds, BodyMayEnd, Waiting
  <2>2. /\ InPlace(sent, ends, decoded, buffer') /\ ~HasFrame(buffer')
        /\ Reach(ends, decoded, buffer') = Reach(ends, decoded, buffer)
    BY <1>1, <2>1, InPlaceScanned
  <2>. QED BY <1>1, <2>1, <2>2 DEF Arriving
<1>7. CASE Finish
  BY <1>1, <1>7 DEF Finish, Arriving
<1>8. CASE UNCHANGED streamVars
  BY <1>1, <1>8 DEF streamVars, Arriving
<1>. QED BY <1>3, <1>4, <1>5, <1>6, <1>7, <1>8 DEF StreamNext

LEMMA ArrivesInOrder == Arrives => FramesArriveWhole
<1>. SUFFICES ASSUME NEW newline, NEW ends, Arriving(newline, ends)
              PROVE  FramesArriveWhole
  BY DEF Arrives
<1>1. PICK dec, frames : dec = decoded /\ frames = sent.frames
  OBVIOUS
<1>2. /\ Listed(dec) /\ Listed(frames) /\ Len(dec) <= Len(frames)
      /\ \A k \in 1 .. Len(dec) : dec[k] = frames[k]
  BY <1>1 DEF Arriving, SentWell, WellFramed, InPlace
<1>3. PICK t \in Nat : t = Len(dec)
  BY <1>2, ListHas
<1>4. SubSeq(dec, 1, t) = SubSeq(frames, 1, t)
  <2>1. PICK S, T : dec \in Seq(S) /\ frames \in Seq(T)
    BY <1>2 DEF Listed
  <2>2. SubSeq(dec, 1, t) = [k \in 1 .. t |-> dec[k]]
    BY <1>3, <2>1
  <2>3. SubSeq(frames, 1, t) = [k \in 1 .. t |-> frames[k]]
    BY <1>2, <1>3, <2>1
  <2>. QED BY <1>2, <1>3, <2>2, <2>3
<1>5. IsPrefix(decoded, sent.frames)
  BY <1>1, <1>2, <1>3, <1>4 DEF IsPrefix
<1>6. ASSUME closed, Whole, ~failed PROVE decoded = sent.frames
  <2>1. read = Len(sent.bytes) /\ read <= MaxStream
    <3>1. read \in Nat /\ MaxStream \in Nat
      BY SentHas, StreamAssumption DEF Arriving
    <3>. QED BY <1>6, <3>1 DEF Whole, Arriving
  <2>2. Reach(ends, decoded, buffer) = Len(sent.bytes) /\ ~HasFrame(buffer)
    BY <1>6, <2>1 DEF Arriving
  <2>. QED BY <2>2, NoFrameIsLeft DEF Arriving
<1>. QED BY <1>5, <1>6 DEF FramesArriveWhole

LEMMA NewWorks ==
  ASSUME NEW normalize
  PROVE  Working(<<>>, NewAssembler(normalize)) /\ NewAssembler(normalize).out = <<>>
<1>1. PICK a, none : a = NewAssembler(normalize) /\ none = <<>>
  OBVIOUS
<1>2. Listed(none) /\ Len(none) = 0 /\ DOMAIN none = {} /\ none \o none = none
  <2>1. 1 .. 0 = {}
    OBVIOUS
  <2>2. Listed(none) /\ Len(none) = 0
    BY <1>1, Nothing
  <2>. QED BY <1>1, <2>1, <2>2, ListHas, JoinedWithNothing
<1>3. /\ a.pending = none /\ a.captured = none /\ a.out = none /\ a.finished = FALSE
      /\ DOMAIN a = AsmFields /\ a = [x \in AsmFields |-> a[x]]
  BY <1>1 DEF NewAssembler, AsmFields
<1>4. IsFiniteSet(DOMAIN a.pending)
  BY <1>2, <1>3, FS_EmptySet
<1>5. TextsListed(none)
  BY <1>2 DEF TextsListed
<1>6. Agrees(none, none) /\ NoneDone(none)
  <2>1. \A f : f = [k \in {} |-> f[k]] => FlattenSeq(f) = none
    <3>. TAKE f
    <3>. HAVE f = [k \in {} |-> f[k]]
    <3>1. f = [k \in 1 .. 0 |-> f[k]]
      <4>1. 1 .. 0 = {}
        OBVIOUS
      <4>. QED BY <4>1
    <3>. QED BY <1>1, <3>1, FlattenNone
  <2>2. PICK d, r : d = "text_delta" /\ r = "refusal_delta"
    OBVIOUS
  <2>3. Fragments(none, d) = none /\ Fragments(none, r) = none
    BY <1>2, <2>1 DEF Fragments
  <2>4. TextOf(none, "text") = none /\ TextOf(none, "refusal") = none
    BY <1>2, <2>1 DEF TextOf
  <2>5. OpaqueTold(none) = none /\ OpaqueOf(none) = none
    BY <1>2, <2>1 DEF OpaqueTold, OpaqueOf
  <2>. QED BY <1>2, <2>2, <2>3, <2>4, <2>5 DEF Agrees, NoneDone
<1>7. IsAsm(a)
  BY <1>2, <1>3, <1>4, <1>5 DEF IsAsm
<1>8. Working(none, a)
  BY <1>2, <1>3, <1>6, <1>7 DEF Working
<1>. QED BY <1>1, <1>3, <1>8

LEMMA TellsAtFirst == StreamInit => Telling
<1>. SUFFICES ASSUME StreamInit PROVE Telling
  OBVIOUS
<1>1. PICK normalize : asm = NewAssembler(normalize)
  BY DEF StreamInit
<1>2. closed = FALSE /\ drained = FALSE /\ seen = <<>>
  BY DEF StreamInit
<1>. QED BY <1>1, <1>2, NewWorks DEF Telling

\* An event handed over is told as it was when it was queued.
HandedOver(a, b) == b = [a EXCEPT !.out = Tail(@)]

LEMMA ToldIsKept ==
  ASSUME NEW told, NEW out, Listed(told), Listed(out), out # <<>>
  PROVE  /\ Listed(Append(told, Head(out))) /\ Listed(Tail(out))
         /\ Append(told, Head(out)) \o Tail(out) = told \o out
<1>1. PICK one, rest, more : one = <<Head(out)>> /\ rest = Tail(out) /\ more = Append(told, Head(out))
  OBVIOUS
<1>2. Listed(one) /\ Listed(rest) /\ out = one \o rest
  BY <1>1, OneListed, HeadAndTail
<1>3. Listed(more) /\ more = told \o one
  BY <1>1, JoinedWithOne
<1>4. told \o (one \o rest) = (told \o one) \o rest
  BY ONLY <1>2, JoinedInARow, Listed(told)
<1>5. more \o rest = told \o out
  BY <1>2, <1>3, <1>4
<1>. QED BY <1>1, <1>2, <1>3, <1>5

LEMMA HandOverWorks ==
  ASSUME NEW told, NEW a, NEW b, HandedOver(a, b), Listed(told), Listed(a.out),
         a.out # <<>>, DOMAIN a = AsmFields
  PROVE  /\ Working(told, a) => Working(Append(told, Head(a.out)), b)
         /\ Over(told, a) => Over(Append(told, Head(a.out)), b)
         /\ b.captured = a.captured /\ b.status = a.status /\ b.usage = a.usage
<1>1. /\ DOMAIN b = AsmFields /\ b = [x \in AsmFields |-> b[x]]
      /\ b.out = Tail(a.out) /\ b.captured = a.captured /\ b.finished = a.finished
      /\ b.pending = a.pending /\ b.status = a.status /\ b.usage = a.usage
  BY DEF HandedOver, AsmFields
<1>2. PICK more : more = Append(told, Head(a.out))
  OBVIOUS
<1>3. Listed(more) /\ Listed(b.out) /\ more \o b.out = told \o a.out
  BY <1>1, <1>2, ToldIsKept
<1>4. Working(told, a) => Working(more, b)
  BY <1>1, <1>3 DEF Working, IsAsm
<1>5. Over(told, a) => Over(more, b)
  BY <1>1, <1>3 DEF Over
<1>. QED BY <1>1, <1>2, <1>4, <1>5

LEMMA TellsOn == StreamInv /\ [StreamNext]_streamVars => Telling'
<1>. SUFFICES ASSUME StreamInv, [StreamNext]_streamVars PROVE Telling'
  OBVIOUS
<1>1. /\ ~closed => Working(seen, asm)
      /\ closed => Over(seen, asm)
      /\ drained => closed /\ asm.out = <<>>
  BY DEF StreamInv, Telling
<1>2. CASE HandOver
  <2>1. /\ asm.out # <<>> /\ seen' = Append(seen, Head(asm.out)) /\ HandedOver(asm, asm')
        /\ closed' = closed /\ drained' = drained
    BY <1>2 DEF HandOver, HandedOver
  <2>2. Listed(seen) /\ Listed(asm.out) /\ DOMAIN asm = AsmFields
    BY <1>1 DEF Working, IsAsm, Over
  <2>3. /\ Working(seen, asm) => Working(seen', asm')
        /\ Over(seen, asm) => Over(seen', asm')
    BY <2>1, <2>2, HandOverWorks
  <2>. QED BY <1>1, <2>1, <2>3 DEF Telling
<1>3. CASE DecodeFrame
  <2>1. PICK step : step = Decode(sent.dialect, decoder, FrameOf(buffer))
    OBVIOUS
  <2>2. /\ HasFrame(buffer) /\ ~closed /\ asm' = AbsorbAll(asm, step.deltas)
        /\ closed' = closed /\ drained' = drained /\ seen' = seen
    BY <1>3, <2>1 DEF DecodeFrame, MayDecode
  <2>3. PICK newline, ends : Arriving(newline, ends)
    BY DEF StreamInv, Arrives
  <2>4. PICK k : k = Len(decoded) + 1
    OBVIOUS
  <2>5. FrameOf(buffer) = sent.frames[k] /\ k \in 1 .. Len(sent.frames)
    <3>1. FrameOf(buffer) = sent.frames[Len(decoded) + 1] /\ Len(decoded) + 1 <= Len(sent.frames)
      BY <2>2, <2>3, InPlaceDecoded DEF Arriving
    <3>2. Len(decoded) \in Nat /\ Len(sent.frames) \in Nat
      BY <2>3, SentHas, ListHas DEF Arriving, InPlace
    <3>. QED BY <2>4, <3>1, <3>2
  <2>6. /\ sent.dialect \in Dialects
        /\ sent.dialect = "chat" => IsChunk(FrameOf(buffer))
    BY <2>3, <2>5 DEF Arriving, SentWell, WellFramed
  <2>7. AreDeltas(step.deltas)
    BY <2>1, <2>6, DecodeYields
  <2>8. Working(seen, asm')
    BY <1>1, <2>2, <2>7, AbsorbAllWorks
  <2>. QED BY <1>1, <2>2, <2>8 DEF Telling
<1>4. CASE BodyEnds
  <2>1. ~closed /\ closed' = TRUE /\ asm' = Closed(asm) /\ seen' = seen /\ drained' = drained
    BY <1>4 DEF BodyEnds, BodyMayEnd, Waiting
  <2>2. Over(seen, asm')
    BY <1>1, <2>1, ClosedIsOver
  <2>. QED BY <1>1, <2>1, <2>2 DEF Telling
<1>5. CASE Finish
  BY <1>1, <1>5 DEF Finish, MayFinish, Telling
<1>6. CASE (\E n \in 1 .. MaxChunk : TakeChunk(n)) \/ BodyBreaks
  <2>1. asm' = asm /\ closed' = closed /\ drained' = drained /\ seen' = seen
    BY <1>6 DEF TakeChunk, BodyBreaks
  <2>. QED BY <1>1, <2>1 DEF Telling
<1>7. CASE UNCHANGED streamVars
  BY <1>1, <1>7 DEF streamVars, Telling
<1>. QED BY <1>2, <1>3, <1>4, <1>5, <1>6, <1>7 DEF StreamNext

LEMMA TellingAddsUp == Telling => EventsAddUp
<1>. SUFFICES ASSUME Telling PROVE EventsAddUp
  OBVIOUS
<1>1. /\ ~closed => Working(seen, asm)
      /\ closed => Over(seen, asm)
      /\ drained => closed /\ asm.out = <<>>
  BY DEF Telling
<1>2. Listed(seen) /\ Listed(asm.out)
  BY <1>1 DEF Working, IsAsm, Over
<1>3. PICK told : told = Told
  OBVIOUS
<1>4. told = seen \o asm.out /\ Listed(told)
  BY <1>2, <1>3, Joined DEF Told
<1>5. PICK n \in Nat : n = Len(told) /\ DOMAIN told = 1 .. n
  BY <1>4, ListHas
<1>6. EventsAreTheResponse
  BY <1>1 DEF EventsAreTheResponse, Told, Working, Over, Agrees
<1>7. CASE ~closed
  <2>1. \A i \in 1 .. n : told[i].event # "done"
    BY <1>1, <1>4, <1>5, <1>7 DEF Working, NoneDone
  <2>2. ~drained
    BY <1>1, <1>7
  <2>. QED BY <1>3, <1>5, <1>6, <2>1, <2>2 DEF EventsAddUp, DoneIsLast
<1>8. CASE closed
  <2>1. PICK before, end : /\ Listed(before) /\ NoneDone(before) /\ end.event = "done"
                           /\ told = Append(before, end)
    BY <1>1, <1>4, <1>8 DEF Over
  <2>2. PICK m \in Nat : m = Len(before)
    BY <2>1, ListHas
  <2>3. IsLonger(told, before, end)
    BY <2>1, OneLonger
  <2>4. /\ n = m + 1 /\ told[m + 1] = end
        /\ \A k \in 1 .. m : told[k] = before[k]
    BY <1>5, <2>2, <2>3 DEF IsLonger
  <2>5. \A i \in 1 .. n : i = n \/ i \in 1 .. m
    BY <2>4
  <2>6. \A i \in 1 .. n : told[i].event = "done" => i = n
    BY <2>1, <2>2, <2>4, <2>5 DEF NoneDone
  <2>7. ASSUME drained PROVE Last(seen).event = "done"
    <3>1. seen = told
      BY <1>1, <1>2, <1>4, <2>7, JoinedWithNothing
    <3>2. Last(told) = end
      BY <2>1, JoinedWithOne
    <3>. QED BY <2>1, <3>1, <3>2
  <2>. QED BY <1>3, <1>5, <1>6, <2>6, <2>7 DEF EventsAddUp, DoneIsLast
<1>. QED BY <1>7, <1>8

LEMMA ToldStaysFinal ==
  Telling /\ [StreamNext]_streamVars
    => [asm.finished => Assembled(asm') = Assembled(asm)]_streamVars
<1>. SUFFICES ASSUME Telling, StreamNext, asm.finished
              PROVE  Assembled(asm') = Assembled(asm)
  BY DEF streamVars
<1>1. closed /\ Over(seen, asm)
  BY DEF Telling, Working
<1>2. CASE HandOver
  <2>1. asm.out # <<>> /\ HandedOver(asm, asm') /\ Listed(seen) /\ Listed(asm.out) /\ DOMAIN asm = AsmFields
    BY <1>1, <1>2 DEF HandOver, HandedOver, Over
  <2>2. asm'.captured = asm.captured /\ asm'.status = asm.status /\ asm'.usage = asm.usage
    BY <2>1, HandOverWorks
  <2>. QED BY <2>2 DEF Assembled
<1>3. CASE Finish
  BY <1>3 DEF Finish
<1>4. CASE DecodeFrame
  BY <1>1, <1>4 DEF DecodeFrame, MayDecode
<1>5. CASE \E n \in 1 .. MaxChunk : TakeChunk(n)
  BY <1>1, <1>5 DEF TakeChunk, Waiting
<1>6. CASE BodyBreaks \/ BodyEnds
  BY <1>1, <1>6 DEF BodyBreaks, BodyEnds, BodyMayEnd, Waiting
<1>. QED BY <1>2, <1>3, <1>4, <1>5, <1>6 DEF StreamNext

-----------------------------------------------------------------------------
(* The theorems *)

LEMMA StreamInvHolds == StreamSpec => []StreamInv
<1>1. StreamInit => StreamInv
  BY ArrivesAtFirst, TellsAtFirst DEF StreamInv
<1>2. StreamInv /\ [StreamNext]_streamVars => StreamInv'
  BY ArrivesOn, TellsOn DEF StreamInv
<1>. QED BY <1>1, <1>2, PTL DEF StreamSpec

(* However the bytes of an answer are cut into chunks (take and SseBuffer::push,
   stream/sse.rs), the frames come out as they were sent, in order, and none is
   lost unless a call of next has failed. *)
THEOREM FramesAlwaysArriveWhole == StreamSpec => []FramesArriveWhole
<1>1. StreamInv => FramesArriveWhole
  BY ArrivesInOrder DEF StreamInv
<1>. QED BY <1>1, StreamInvHolds, PTL

(* The events and the response always tell the same text, calls and reasoning, and
   Done is the last of the events (absorb, finish_call and close,
   stream/assembler.rs). *)
THEOREM EventsAlwaysAddUp == StreamSpec => []EventsAddUp
<1>1. StreamInv => EventsAddUp
  BY TellingAddsUp DEF StreamInv
<1>. QED BY <1>1, StreamInvHolds, PTL

(* Once Done is queued no step changes what into_response would give. *)
THEOREM ResponseStaysFinal == StreamSpec => ResponseIsFinal
<1>1. StreamInv /\ [StreamNext]_streamVars
        => [asm.finished => Assembled(asm') = Assembled(asm)]_streamVars
  BY ToldStaysFinal DEF StreamInv
<1>. QED BY <1>1, StreamInvHolds, PTL DEF StreamSpec, ResponseIsFinal

-----------------------------------------------------------------------------
(* An answer decoded, one frame after the other *)

Quiet(a) == [a EXCEPT !.out = <<>>]

Start(dialect) == [decoder |-> NewDecoder(dialect), asm |-> NewAssembler(Normalizes(dialect))]

\* What is left of a frame once its events are handed over.
Fed(dialect, s, f) ==
  [decoder |-> Decode(dialect, s.decoder, f).decoder,
   asm     |-> Quiet(AbsorbAll(s.asm, Decode(dialect, s.decoder, f).deltas))]

Path(p, dialect, frames) ==
  \A k \in 1 .. Len(frames) : p[k] = Fed(dialect, p[k - 1], frames[k])

\* frames lead from s to t, and none of them tells how the answer ended.
Leads(dialect, s, frames, t) ==
  \E p : /\ Path(p, dialect, frames) /\ p[0] = s /\ p[Len(frames)] = t
         /\ \A k \in 0 .. Len(frames) : p[k].asm.status = "incomplete"

LEMMA LeadsNowhere ==
  ASSUME NEW dialect, NEW s, s.asm.status = "incomplete"
  PROVE  Leads(dialect, s, <<>>, s)
<1>1. PICK p : p = [k \in 0 .. 0 |-> s]
  OBVIOUS
<1>2. Len(<<>>) = 0 /\ \A k \in 0 .. 0 : k = 0
  BY Nothing
<1>3. p[0] = s /\ Path(p, dialect, <<>>)
  BY <1>1, <1>2 DEF Path
<1>. QED BY <1>1, <1>2, <1>3 DEF Leads

LEMMA LeadsByOne ==
  ASSUME NEW dialect, NEW s, NEW f, s.asm.status = "incomplete",
         NEW t, t = Fed(dialect, s, f), t.asm.status = "incomplete"
  PROVE  Leads(dialect, s, <<f>>, t)
<1>1. PICK p : p = [k \in 0 .. 1 |-> IF k = 0 THEN s ELSE t]
  OBVIOUS
<1>2. PICK frames : frames = <<f>>
  OBVIOUS
<1>3. Len(frames) = 1 /\ frames[1] = f
  BY <1>2, OneListed
<1>4. p[0] = s /\ p[1] = t /\ (\A k \in 1 .. 1 : k = 1 /\ k - 1 = 0) /\ \A k \in 0 .. 1 : k = 0 \/ k = 1
  BY <1>1
<1>5. Path(p, dialect, frames)
  BY <1>3, <1>4 DEF Path
<1>. QED BY <1>2, <1>3, <1>4, <1>5 DEF Leads

Runs(p, dialect, s, frames, t) ==
  Path(p, dialect, frames) /\ p[0] = s /\ p[Len(frames)] = t

\* p up to m, and q from there.
Chained(r, p, m, q, n) ==
  (\A k \in 0 .. m : r[k] = p[k]) /\ (\A k \in 0 .. n : r[m + k] = q[k])

LEMMA RunsOn ==
  ASSUME NEW dialect, NEW s, NEW t, NEW u, NEW F, NEW G, Listed(F), Listed(G),
         NEW m \in Nat, m = Len(F), NEW n \in Nat, n = Len(G),
         NEW p, Runs(p, dialect, s, F, t), NEW q, Runs(q, dialect, t, G, u)
  PROVE  \E r : Runs(r, dialect, s, F \o G, u) /\ Chained(r, p, m, q, n)
<1>2. PICK all : all = F \o G
  OBVIOUS
<1>3. /\ Len(all) = m + n
      /\ \A k \in 1 .. m : all[k] = F[k]
      /\ \A k \in 1 .. n : all[m + k] = G[k]
  BY <1>2, Joined
<1>4. Path(p, dialect, F) /\ p[0] = s /\ p[m] = t
  BY DEF Runs
<1>5. Path(q, dialect, G) /\ q[0] = t /\ q[n] = u
  BY DEF Runs
<1>6. PICK r : r = [k \in 0 .. m + n |-> IF k <= m THEN p[k] ELSE q[k - m]]
  OBVIOUS
<1>7. /\ \A k \in 0 .. m : r[k] = p[k]
      /\ \A k \in 0 .. n : r[m + k] = q[k]
  <2>1. \A k \in 0 .. m : k \in 0 .. m + n /\ k <= m
    OBVIOUS
  <2>2. ASSUME NEW k \in 0 .. n PROVE r[m + k] = q[k]
    <3>1. m + k \in 0 .. m + n /\ (m + k) - m = k /\ (m + k <= m <=> k = 0)
      OBVIOUS
    <3>2. CASE k = 0
      <4>1. r[m + k] = p[m]
        BY <1>6, <3>1, <3>2
      <4>. QED BY <1>4, <1>5, <3>2, <4>1
    <3>3. CASE k # 0
      BY <1>6, <3>1, <3>3
    <3>. QED BY <3>2, <3>3
  <2>. QED BY <1>6, <2>1, <2>2
<1>8. \A k \in 1 .. m + n : k \in 1 .. m \/ \E j \in 1 .. n : k = m + j
  <2>. TAKE k \in 1 .. m + n
  <2>1. CASE k <= m
    BY <2>1
  <2>2. CASE ~(k <= m)
    <3>1. k - m \in 1 .. n /\ k = m + (k - m)
      BY <2>2
    <3>. QED BY <3>1
  <2>. QED BY <2>1, <2>2
<1>9. ASSUME NEW k \in 1 .. m + n
      PROVE  r[k] = Fed(dialect, r[k - 1], all[k])
  <2>1. CASE k \in 1 .. m
    <3>1. k \in 0 .. m /\ k - 1 \in 0 .. m
      BY <2>1
    <3>2. p[k] = Fed(dialect, p[k - 1], F[k])
      BY <1>4, <2>1 DEF Path
    <3>. QED BY <1>3, <1>4, <1>7, <2>1, <3>1, <3>2
  <2>2. ASSUME NEW j \in 1 .. n, k = m + j
        PROVE  r[k] = Fed(dialect, r[k - 1], all[k])
    <3>1. j \in 0 .. n /\ j - 1 \in 0 .. n /\ k - 1 = m + (j - 1)
      BY <2>2
    <3>2. q[j] = Fed(dialect, q[j - 1], G[j])
      BY <1>5 DEF Path
    <3>3. r[k] = q[j] /\ r[k - 1] = q[j - 1]
      BY <1>7, <2>2, <3>1
    <3>. QED BY <1>3, <1>5, <2>2, <3>1, <3>2, <3>3
  <2>. QED BY <1>8, <2>1, <2>2
<1>10. r[0] = s /\ r[m + n] = u
  <2>1. 0 \in 0 .. m /\ n \in 0 .. n
    OBVIOUS
  <2>. QED BY <1>4, <1>5, <1>7, <2>1
<1>11. Path(r, dialect, all)
  BY <1>3, <1>9 DEF Path
<1>12. Runs(r, dialect, s, all, u)
  BY <1>3, <1>10, <1>11 DEF Runs
<1>. QED BY <1>2, <1>7, <1>12 DEF Chained

\* Up to m, or m and some more.
LEMMA Halves ==
  ASSUME NEW m \in Nat, NEW n \in Nat
  PROVE  \A k \in 0 .. m + n : k \in 0 .. m \/ \E j \in 0 .. n : k = m + j
<1>. TAKE k \in 0 .. m + n
<1>1. CASE k <= m
  BY <1>1
<1>2. CASE ~(k <= m)
  <2>1. k - m \in 0 .. n /\ k = m + (k - m)
    BY <1>2
  <2>. QED BY <2>1
<1>. QED BY <1>1, <1>2

LEMMA LeadsOn ==
  ASSUME NEW dialect, NEW s, NEW t, NEW u, NEW F, NEW G, Listed(F), Listed(G),
         Leads(dialect, s, F, t), Leads(dialect, t, G, u)
  PROVE  Leads(dialect, s, F \o G, u)
<1>1. PICK m \in Nat, n \in Nat : m = Len(F) /\ n = Len(G)
  BY ListHas
<1>2. PICK p : Runs(p, dialect, s, F, t) /\ \A k \in 0 .. m : p[k].asm.status = "incomplete"
  BY <1>1 DEF Leads, Runs
<1>3. PICK q : Runs(q, dialect, t, G, u) /\ \A k \in 0 .. n : q[k].asm.status = "incomplete"
  BY <1>1 DEF Leads, Runs
<1>4. PICK r : Runs(r, dialect, s, F \o G, u) /\ Chained(r, p, m, q, n)
  <2>1. m = Len(F) /\ n = Len(G) /\ Runs(p, dialect, s, F, t) /\ Runs(q, dialect, t, G, u)
    BY <1>1, <1>2, <1>3
  <2>. QED BY <2>1, RunsOn
<1>5. Len(F \o G) = m + n
  BY <1>1, Joined
<1>6. \A k \in 0 .. m + n : r[k].asm.status = "incomplete"
  BY <1>2, <1>3, <1>4, Halves DEF Chained
<1>. QED BY <1>4, <1>5, <1>6 DEF Leads, Runs

\* Frame by frame, when the states between are known.
LEMMA LeadsStepwise ==
  ASSUME NEW dialect, NEW F, NEW n \in Nat, n = Len(F), NEW p,
         \A k \in 0 .. n : p[k].asm.status = "incomplete",
         \A k \in 1 .. n : p[k] = Fed(dialect, p[k - 1], F[k])
  PROVE  Leads(dialect, p[0], F, p[n])
BY DEF Leads, Path

\* List by list.
LEMMA LeadsListwise ==
  ASSUME NEW dialect, NEW n \in Nat, NEW pieces, Len(pieces) = n, ListOfLists(pieces),
         NEW p, p[0].asm.status = "incomplete",
         \A k \in 1 .. n : Leads(dialect, p[k - 1], pieces[k], p[k])
  PROVE  Leads(dialect, p[0], FlattenSeq(pieces), p[n]) /\ Listed(FlattenSeq(pieces))
<1>1. PICK S : S = UNION {Range(pieces[k]) : k \in 1 .. n}
  OBVIOUS
<1>2. \A k \in 1 .. n : pieces[k] \in Seq(S)
  <2>. TAKE k \in 1 .. n
  <2>1. Range(pieces[k]) \subseteq S
    BY <1>1
  <2>. QED BY <2>1, ListIn DEF ListOfLists
<1>3. pieces \in Seq(Seq(S))
  BY <1>2 DEF ListOfLists, Listed
<1>4. PICK g : EndToEnd(g, pieces, S)
  BY <1>3, FlattenRuns
<1>5. FlattenSeq(pieces) = g[n]
  BY <1>3, <1>4, FlattenIs
<1>6. /\ g[0] = <<>>
      /\ \A k \in 0 .. n : g[k] \in Seq(S)
      /\ \A k \in 1 .. n : g[k] = g[k - 1] \o pieces[k]
  BY <1>4 DEF EndToEnd
<1>. DEFINE Good == {k \in 0 .. n : Leads(dialect, p[0], g[k], p[k])}
<1>7. 0 \in Good
  BY <1>6, LeadsNowhere
<1>8. ASSUME NEW k \in 1 .. n, k - 1 \in Good PROVE k \in Good
  <2>1. k \in 0 .. n /\ k - 1 \in 0 .. n
    OBVIOUS
  <2>2. Listed(g[k - 1]) /\ Listed(pieces[k])
    BY <1>2, <1>6, <2>1, ListIs
  <2>3. Leads(dialect, p[0], g[k - 1], p[k - 1]) /\ Leads(dialect, p[k - 1], pieces[k], p[k])
    BY <1>8
  <2>4. Leads(dialect, p[0], g[k - 1] \o pieces[k], p[k])
    BY <2>2, <2>3, LeadsOn
  <2>. QED BY <1>6, <2>1, <2>4
<1>9. \A k \in 0 .. n : k \in Good
  <2>1. \A k \in 1 .. n : k - 1 \in Good => k \in Good
    BY <1>8
  <2>. HIDE DEF Good
  <2>. QED BY <1>7, <2>1, CountingUp
<1>10. n \in 0 .. n
  OBVIOUS
<1>11. Listed(g[n])
  BY <1>6, <1>10, ListIs
<1>. QED BY <1>5, <1>9, <1>10, <1>11

-----------------------------------------------------------------------------
(* What few deltas come to *)

LEMMA AbsorbNone ==
  ASSUME NEW a
  PROVE  AbsorbAll(a, <<>>) = a
<1>1. PICK f : f = CHOOSE g : AbsorbLoop(g, a, <<>>, 0)
  OBVIOUS
<1>2. AbsorbLoop(f, a, <<>>, 0)
  BY <1>1, AbsorbLoopRuns
<1>3. 0 \in 0 .. 0
  OBVIOUS
<1>4. f[0] = a
  BY <1>2, <1>3 DEF AbsorbLoop
<1>5. AbsorbAll(a, <<>>) = f[0]
  BY <1>1, Nothing DEF AbsorbAll, AbsorbLoop
<1>. QED BY <1>4, <1>5

LEMMA AbsorbMore ==
  ASSUME NEW a, NEW ds, Listed(ds), NEW d
  PROVE  AbsorbAll(a, Append(ds, d)) = Absorb(AbsorbAll(a, ds), d)
<1>1. PICK m \in Nat : m = Len(ds)
  BY ListHas
<1>2. PICK more : more = Append(ds, d)
  OBVIOUS
<1>3. Len(more) = m + 1 /\ more[m + 1] = d /\ \A k \in 1 .. m : more[k] = ds[k]
  BY <1>1, <1>2, JoinedWithOne
<1>4. PICK f : f = CHOOSE g : AbsorbLoop(g, a, ds, m)
  OBVIOUS
<1>5. PICK h : h = CHOOSE g : AbsorbLoop(g, a, more, m + 1)
  OBVIOUS
<1>6. AbsorbLoop(f, a, ds, m) /\ AbsorbLoop(h, a, more, m + 1)
  <2>1. m + 1 \in Nat
    OBVIOUS
  <2>. QED BY <1>4, <1>5, <2>1, AbsorbLoopRuns
<1>7. AbsorbAll(a, ds) = f[m] /\ AbsorbAll(a, more) = h[m + 1]
  BY <1>1, <1>3, <1>4, <1>5 DEF AbsorbAll, AbsorbLoop
<1>8. /\ \A n \in 0 .. m : f[n] = IF n = 0 THEN a ELSE Absorb(f[n - 1], ds[n])
      /\ \A n \in 0 .. m + 1 : h[n] = IF n = 0 THEN a ELSE Absorb(h[n - 1], more[n])
  BY <1>6 DEF AbsorbLoop
<1>. DEFINE Good == {k \in 0 .. m : f[k] = h[k]}
<1>9. 0 \in Good
  <2>1. 0 \in 0 .. m /\ 0 \in 0 .. m + 1
    OBVIOUS
  <2>. QED BY <1>8, <2>1
<1>10. ASSUME NEW k \in 1 .. m, k - 1 \in Good PROVE k \in Good
  <2>1. k \in 0 .. m /\ k \in 0 .. m + 1 /\ k # 0
    OBVIOUS
  <2>2. f[k - 1] = h[k - 1]
    BY <1>10
  <2>3. f[k] = Absorb(f[k - 1], ds[k]) /\ h[k] = Absorb(h[k - 1], more[k])
    BY <1>8, <2>1
  <2>. QED BY <1>3, <2>1, <2>2, <2>3
<1>11. \A k \in 0 .. m : k \in Good
  <2>1. \A k \in 1 .. m : k - 1 \in Good => k \in Good
    BY <1>10
  <2>. HIDE DEF Good
  <2>. QED BY <1>9, <2>1, CountingUp
<1>12. m \in 0 .. m /\ m + 1 \in 0 .. m + 1 /\ m + 1 # 0 /\ (m + 1) - 1 = m
  OBVIOUS
<1>13. f[m] = h[m]
  BY <1>11, <1>12
<1>14. h[m + 1] = Absorb(h[m], more[m + 1])
  BY <1>8, <1>12
<1>. QED BY <1>2, <1>3, <1>7, <1>13, <1>14

LEMMA AbsorbOne ==
  ASSUME NEW a, NEW d
  PROVE  AbsorbAll(a, <<d>>) = Absorb(a, d)
<1>1. PICK none : none = <<>>
  OBVIOUS
<1>2. Append(none, d) = <<d>>
  BY <1>1
<1>3. AbsorbAll(a, Append(none, d)) = Absorb(AbsorbAll(a, none), d)
  <2>1. Listed(none)
    BY <1>1, Nothing
  <2>. QED BY <2>1, AbsorbMore
<1>4. AbsorbAll(a, none) = a
  BY <1>1, AbsorbNone
<1>. QED BY <1>2, <1>3, <1>4

LEMMA PairIs ==
  ASSUME NEW d, NEW e
  PROVE  Append(<<d>>, e) = <<d, e>>
<1>1. PICK s, t, u : s = <<d>> /\ t = Append(s, e) /\ u = <<d, e>>
  OBVIOUS
<1>2. Len(s) = 1 /\ s[1] = d /\ Listed(s)
  BY <1>1, OneListed
<1>3. IsLonger(t, s, e)
  BY <1>1, <1>2, OneLonger
<1>4. t[1] = d /\ t[2] = e /\ t = [k \in 1 .. 2 |-> t[k]]
  BY <1>2, <1>3 DEF IsLonger
<1>5. u \in Seq({d, e}) /\ Len(u) = 2 /\ u[1] = d /\ u[2] = e
  BY <1>1
<1>6. u = [k \in 1 .. 2 |-> u[k]]
  BY <1>5
<1>7. \A k \in 1 .. 2 : k = 1 \/ k = 2
  OBVIOUS
<1>8. \A k \in 1 .. 2 : t[k] = u[k]
  BY <1>4, <1>5, <1>7
<1>9. t = u
  BY <1>4, <1>6, <1>8
<1>. QED BY <1>1, <1>9

LEMMA AbsorbTwo ==
  ASSUME NEW a, NEW d, NEW e
  PROVE  AbsorbAll(a, <<d, e>>) = Absorb(Absorb(a, d), e)
<1>1. Append(<<d>>, e) = <<d, e>>
  BY PairIs
<1>2. Listed(<<d>>)
  BY OneListed
<1>3. AbsorbAll(a, Append(<<d>>, e)) = Absorb(AbsorbAll(a, <<d>>), e)
  BY <1>2, AbsorbMore
<1>. QED BY <1>1, <1>3, AbsorbOne

-----------------------------------------------------------------------------
(* What each delta comes to, its event handed over *)

\* An assembler between two frames of an answer that has not ended.
Held(normalize, pending, captured, usage, open) ==
  [normalize |-> normalize, pending |-> pending, captured |-> captured,
   status |-> "incomplete", usage |-> usage,
   finished |-> FALSE, textOpen |-> open, out |-> <<>>]

LEMMA HeldHas ==
  ASSUME NEW nz, NEW pending, NEW C, NEW us, NEW open, NEW a,
         a = Held(nz, pending, C, us, open)
  PROVE  /\ DOMAIN a = AsmFields /\ a = [x \in AsmFields |-> a[x]]
         /\ a.normalize = nz /\ a.pending = pending /\ a.captured = C /\ a.usage = us
         /\ a.textOpen = open /\ a.status = "incomplete" /\ a.out = <<>>
<1>1. DOMAIN a = AsmFields /\ a = [x \in AsmFields |-> a[x]]
  BY DEF Held, AsmFields
<1>2. /\ a.normalize = nz /\ a.pending = pending /\ a.captured = C /\ a.usage = us
      /\ a.textOpen = open /\ a.status = "incomplete" /\ a.out = <<>>
  BY DEF Held
<1>. QED BY <1>1, <1>2

LEMMA SameFields ==
  ASSUME NEW a, DOMAIN a = AsmFields, a = [x \in AsmFields |-> a[x]],
         NEW b, DOMAIN b = AsmFields, b = [x \in AsmFields |-> b[x]],
         a.normalize = b.normalize, a.pending = b.pending, a.captured = b.captured,
         a.usage = b.usage, a.textOpen = b.textOpen, a.status = b.status, a.out = b.out,
         a.finished = b.finished
  PROVE  a = b
<1>1. \A x \in AsmFields : a[x] = b[x]
  BY DEF AsmFields
<1>. QED BY <1>1

LEMMA QuietHolds ==
  ASSUME NEW nz, NEW pending, NEW C, NEW us, NEW open, NEW a,
         a = Held(nz, pending, C, us, open),
         NEW b, DOMAIN b = AsmFields, b.status = a.status, b.finished = a.finished
  PROVE  Quiet(b) = Held(b.normalize, b.pending, b.captured, b.usage, b.textOpen)
<1>1. PICK q, g : q = Quiet(b) /\ g = Held(b.normalize, b.pending, b.captured, b.usage, b.textOpen)
  OBVIOUS
<1>2. DOMAIN q = AsmFields /\ q = [x \in AsmFields |-> q[x]]
  BY <1>1 DEF Quiet
<1>3. /\ q.pending = b.pending /\ q.captured = b.captured /\ q.out = <<>>
      /\ q.normalize = b.normalize /\ q.usage = b.usage /\ q.status = b.status
      /\ q.textOpen = b.textOpen /\ q.finished = b.finished
  BY <1>1 DEF Quiet, AsmFields
<1>4. a.status = "incomplete"
  BY HeldHas
<1>5. a.finished = g.finished
  BY <1>1 DEF Held
<1>6. /\ DOMAIN g = AsmFields /\ g = [x \in AsmFields |-> g[x]]
      /\ g.normalize = b.normalize /\ g.pending = b.pending /\ g.captured = b.captured
      /\ g.usage = b.usage /\ g.textOpen = b.textOpen /\ g.status = "incomplete" /\ g.out = <<>>
  BY <1>1, HeldHas
<1>7. q = g
  BY <1>2, <1>3, <1>4, <1>5, <1>6, SameFields
<1>. QED BY <1>1, <1>7

LEMMA HeldChanges ==
  ASSUME NEW nz, NEW pending, NEW C, NEW us, NEW open, NEW a,
         a = Held(nz, pending, C, us, open), NEW b, NEW p, NEW c, NEW o,
         DOMAIN b = AsmFields, b.status = a.status, b.finished = a.finished,
         b.normalize = a.normalize, b.usage = a.usage,
         b.pending = p, b.captured = c, b.textOpen = o
  PROVE  Quiet(b) = Held(nz, p, c, us, o)
<1>1. Quiet(b) = Held(b.normalize, b.pending, b.captured, b.usage, b.textOpen)
  BY QuietHolds
<1>. QED BY <1>1, HeldHas

\* The last part of a list with one more fragment.
LEMMA ExtendedIs ==
  ASSUME NEW C, Listed(C), NEW kind, NEW txt, NEW x, NEW a,
         a.captured = Append(C, [part |-> kind, text |-> txt])
  PROVE  /\ Extended(a, x) = Append(C, [part |-> kind, text |-> Append(txt, x)])
         /\ \A other : LastIs(a, other) <=> kind = other
<1>1. PICK p, l, m : /\ p = a.captured /\ l = [part |-> kind, text |-> txt]
                     /\ m = [part |-> kind, text |-> Append(txt, x)]
  OBVIOUS
<1>2. PICK n \in Nat : n = Len(C)
  BY ListHas
<1>3. p = Append(C, l) /\ IsLonger(p, C, l) /\ Last(p) = l /\ p # <<>>
  <2>1. p = Append(C, l)
    BY <1>1
  <2>. QED BY <2>1, OneLonger, JoinedWithOne
<1>4. /\ Len(p) = n + 1 /\ p[n + 1] = l /\ \A k \in 1 .. n : p[k] = C[k]
      /\ p = [k \in 1 .. n + 1 |-> p[k]]
  BY <1>2, <1>3 DEF IsLonger
<1>5. PICK q, r : q = Extended(a, x) /\ r = Append(C, m)
  OBVIOUS
<1>6. q = [p EXCEPT ![n + 1].text = Append(p[n + 1].text, x)]
  BY <1>1, <1>4, <1>5 DEF Extended
<1>7. n + 1 \in 1 .. n + 1
  OBVIOUS
<1>8. q = [k \in 1 .. n + 1 |-> IF k = n + 1 THEN [p[k] EXCEPT !.text = Append(p[n + 1].text, x)]
                                ELSE p[k]]
  BY <1>4, <1>6, <1>7
<1>9. q[n + 1] = m
  <2>1. q[n + 1] = [l EXCEPT !.text = Append(l.text, x)]
    BY <1>4, <1>7, <1>8
  <2>. QED BY <1>1, <2>1
<1>10. \A k \in 1 .. n : q[k] = C[k]
  <2>1. \A k \in 1 .. n : k \in 1 .. n + 1 /\ k # n + 1
    OBVIOUS
  <2>2. \A k \in 1 .. n : q[k] = p[k]
    BY <1>8, <2>1
  <2>. QED BY <1>4, <2>2
<1>11. IsLonger(r, C, m)
  BY <1>5, OneLonger
<1>12. r = [k \in 1 .. n + 1 |-> r[k]] /\ r[n + 1] = m /\ \A k \in 1 .. n : r[k] = C[k]
  BY <1>2, <1>11 DEF IsLonger
<1>13. \A k \in 1 .. n + 1 : q[k] = r[k]
  <2>1. \A k \in 1 .. n + 1 : k = n + 1 \/ k \in 1 .. n
    OBVIOUS
  <2>. QED BY <1>9, <1>10, <1>12, <2>1
<1>14. q = [k \in 1 .. n + 1 |-> q[k]]
  BY <1>8
<1>15. q = r
  BY <1>12, <1>13, <1>14
<1>16. \A other : LastIs(a, other) <=> kind = other
  BY <1>1, <1>3 DEF LastIs
<1>. QED BY <1>1, <1>5, <1>15, <1>16

\* With txt of the next text or refusal taken in.
WithText(normalize, pending, C, usage, txt) ==
  IF txt = <<>> THEN Held(normalize, pending, C, usage, FALSE)
  ELSE Held(normalize, pending, Append(C, TextPart(txt)), usage, TRUE)

WithRefusal(normalize, pending, C, usage, open, txt) ==
  IF txt = <<>> THEN Held(normalize, pending, C, usage, open)
  ELSE Held(normalize, pending, Append(C, RefusalPart(txt)), usage, open)

LEMMA TextGoesOn ==
  ASSUME NEW nz, NEW pending, NEW C, Listed(C), NEW us, NEW txt, Listed(txt), NEW x
  PROVE  Quiet(AbsorbText(WithText(nz, pending, C, us, txt), x))
           = WithText(nz, pending, C, us, Append(txt, x))
<1>1. PICK more, yes, no : more = Append(txt, x) /\ yes = TRUE /\ no = FALSE
  OBVIOUS
<1>2. more # <<>>
  BY <1>1, JoinedWithOne
<1>3. PICK all : all = Append(C, TextPart(more))
  OBVIOUS
<1>4. WithText(nz, pending, C, us, more) = Held(nz, pending, all, us, yes)
  BY <1>1, <1>2, <1>3 DEF WithText
<1>5. CASE txt = <<>>
  <2>1. PICK a : a = Held(nz, pending, C, us, no)
    OBVIOUS
  <2>2. a.textOpen = no /\ a.captured = C
    BY <2>1, HeldHas
  <2>3. more = <<x>>
    BY <1>1, <1>5
  <2>4. PICK e : e = Append(a.out, TextDelta(x))
    OBVIOUS
  <2>5. AbsorbText(a, x) = [a EXCEPT !.captured = all, !.textOpen = yes, !.out = e]
    BY <1>1, <1>3, <2>2, <2>3, <2>4 DEF AbsorbText
  <2>6. Quiet([a EXCEPT !.captured = all, !.textOpen = yes, !.out = e]) = Held(nz, pending, all, us, yes)
    <3>1. PICK b : b = [a EXCEPT !.captured = all, !.textOpen = yes, !.out = e]
      OBVIOUS
    <3>2. DOMAIN a = AsmFields
      BY <2>1, HeldHas
    <3>3. /\ DOMAIN b = AsmFields /\ b.status = a.status /\ b.finished = a.finished
          /\ b.normalize = a.normalize /\ b.usage = a.usage
          /\ b.pending = a.pending /\ b.captured = all /\ b.textOpen = yes
      BY <3>1, <3>2 DEF AsmFields
    <3>4. Quiet(b) = Held(nz, pending, all, us, yes)
      BY <2>1, <3>3, HeldHas, HeldChanges
    <3>. QED BY <3>1, <3>4
  <2>. QED BY <1>1, <1>4, <1>5, <2>1, <2>5, <2>6 DEF WithText
<1>6. CASE txt # <<>>
  <2>1. PICK p : p = Append(C, TextPart(txt))
    OBVIOUS
  <2>2. PICK a : a = Held(nz, pending, p, us, yes)
    OBVIOUS
  <2>3. a.textOpen = yes /\ a.captured = p
    BY <2>2, HeldHas
  <2>4. Extended(a, x) = all /\ LastIs(a, "text")
    <3>1. a.captured = Append(C, [part |-> "text", text |-> txt])
      BY <2>1, <2>3 DEF TextPart
    <3>2. /\ Extended(a, x) = Append(C, [part |-> "text", text |-> Append(txt, x)])
          /\ \A other : LastIs(a, other) <=> "text" = other
      BY <3>1, ExtendedIs
    <3>. QED BY <1>1, <1>3, <3>2 DEF TextPart
  <2>5. PICK e : e = Append(a.out, TextDelta(x))
    OBVIOUS
  <2>6. AbsorbText(a, x) = [a EXCEPT !.captured = all, !.textOpen = yes, !.out = e]
    BY <1>1, <2>3, <2>4, <2>5 DEF AbsorbText
  <2>7. Quiet([a EXCEPT !.captured = all, !.textOpen = yes, !.out = e]) = Held(nz, pending, all, us, yes)
    <3>1. PICK b : b = [a EXCEPT !.captured = all, !.textOpen = yes, !.out = e]
      OBVIOUS
    <3>2. DOMAIN a = AsmFields
      BY <2>2, HeldHas
    <3>3. /\ DOMAIN b = AsmFields /\ b.status = a.status /\ b.finished = a.finished
          /\ b.normalize = a.normalize /\ b.usage = a.usage
          /\ b.pending = a.pending /\ b.captured = all /\ b.textOpen = yes
      BY <3>1, <3>2 DEF AsmFields
    <3>4. Quiet(b) = Held(nz, pending, all, us, yes)
      BY <2>2, <3>3, HeldHas, HeldChanges
    <3>. QED BY <3>1, <3>4
  <2>. QED BY <1>1, <1>4, <1>6, <2>1, <2>2, <2>6, <2>7 DEF WithText
<1>. QED BY <1>5, <1>6

LEMMA RefusalGoesOn ==
  ASSUME NEW nz, NEW pending, NEW C, Listed(C), NEW us, NEW open, NEW txt, Listed(txt), NEW x,
         C # <<>> => Last(C).part # "refusal"
  PROVE  Quiet(AbsorbRefusal(WithRefusal(nz, pending, C, us, open, txt), x))
           = WithRefusal(nz, pending, C, us, open, Append(txt, x))
<1>1. PICK more : more = Append(txt, x)
  OBVIOUS
<1>2. more # <<>>
  BY <1>1, JoinedWithOne
<1>3. PICK all : all = Append(C, RefusalPart(more))
  OBVIOUS
<1>4. WithRefusal(nz, pending, C, us, open, more) = Held(nz, pending, all, us, open)
  BY <1>2, <1>3 DEF WithRefusal
<1>5. CASE txt = <<>>
  <2>1. PICK a : a = Held(nz, pending, C, us, open)
    OBVIOUS
  <2>2. a.captured = C
    BY <2>1 DEF Held
  <2>3. more = <<x>> /\ ~LastIs(a, "refusal")
    BY <1>1, <1>5, <2>2 DEF LastIs
  <2>4. PICK e : e = Append(a.out, RefusalDelta(x))
    OBVIOUS
  <2>5. AbsorbRefusal(a, x) = [a EXCEPT !.captured = all, !.out = e]
    BY <1>3, <2>2, <2>3, <2>4 DEF AbsorbRefusal
  <2>6. Quiet([a EXCEPT !.captured = all, !.out = e]) = Held(nz, pending, all, us, open)
    <3>1. PICK b : b = [a EXCEPT !.captured = all, !.out = e]
      OBVIOUS
    <3>2. DOMAIN a = AsmFields
      BY <2>1, <2>2, HeldHas
    <3>3. /\ DOMAIN b = AsmFields /\ b.status = a.status /\ b.finished = a.finished
          /\ b.normalize = a.normalize /\ b.usage = a.usage
          /\ b.pending = a.pending /\ b.captured = all /\ b.textOpen = a.textOpen
      BY <3>1, <3>2 DEF AsmFields
    <3>4. Quiet(b) = Held(nz, pending, all, us, open)
      BY <2>1, <2>2, <3>3, HeldHas, HeldChanges
    <3>. QED BY <3>1, <3>4
  <2>. QED BY <1>1, <1>4, <1>5, <2>1, <2>5, <2>6 DEF WithRefusal
<1>6. CASE txt # <<>>
  <2>1. PICK p : p = Append(C, RefusalPart(txt))
    OBVIOUS
  <2>2. PICK a : a = Held(nz, pending, p, us, open)
    OBVIOUS
  <2>3. a.captured = p
    BY <2>2 DEF Held
  <2>4. Extended(a, x) = all /\ LastIs(a, "refusal")
    <3>1. a.captured = Append(C, [part |-> "refusal", text |-> txt])
      BY <2>1, <2>3 DEF RefusalPart
    <3>. QED BY <1>1, <1>3, <3>1, ExtendedIs DEF RefusalPart
  <2>5. PICK e : e = Append(a.out, RefusalDelta(x))
    OBVIOUS
  <2>6. AbsorbRefusal(a, x) = [a EXCEPT !.captured = all, !.out = e]
    BY <2>3, <2>4, <2>5 DEF AbsorbRefusal
  <2>7. Quiet([a EXCEPT !.captured = all, !.out = e]) = Held(nz, pending, all, us, open)
    <3>1. PICK b : b = [a EXCEPT !.captured = all, !.out = e]
      OBVIOUS
    <3>2. DOMAIN a = AsmFields
      BY <2>1, <2>2, HeldHas
    <3>3. /\ DOMAIN b = AsmFields /\ b.status = a.status /\ b.finished = a.finished
          /\ b.normalize = a.normalize /\ b.usage = a.usage
          /\ b.pending = a.pending /\ b.captured = all /\ b.textOpen = a.textOpen
      BY <3>1, <3>2 DEF AsmFields
    <3>4. Quiet(b) = Held(nz, pending, all, us, open)
      BY <2>1, <2>2, <3>3, HeldHas, HeldChanges
    <3>. QED BY <3>1, <3>4
  <2>. QED BY <1>1, <1>4, <1>6, <2>1, <2>2, <2>6, <2>7 DEF WithRefusal
<1>. QED BY <1>5, <1>6

\* A map that maps one slot, and the one that maps none.
One(slot, call) == [s \in {slot} |-> call]

\* A call of which args has streamed in.
Begun(id, args) == [id |-> id, arguments |-> args]

LEMMA NoMap ==
  ASSUME NEW f
  PROVE  Restrict(f, {}) = <<>>
BY DEF Restrict

LEMMA OneInserted ==
  ASSUME NEW slot, NEW call
  PROVE  Inserted(<<>>, slot, call) = One(slot, call)
BY DEF Inserted, One

LEMMA CallGoesOn ==
  ASSUME NEW nz, NEW C, NEW us, NEW open, NEW slot, NEW id, NEW args, NEW more, NEW a,
         a = Held(nz, One(slot, Begun(id, args)), C, us, open)
  PROVE  /\ Quiet(AbsorbToolArgs(a, slot, more))
              = Held(nz, One(slot, Begun(id, args \o more)), C, us, open)
         /\ Quiet(AbsorbToolReplace(a, slot, more))
              = Held(nz, One(slot, Begun(id, more)), C, us, open)
         /\ Quiet(FinishCall(a, slot))
              = Held(nz, <<>>, Append(C, CallPart(id, FinishedArguments(a, args))), us, open)
<1>0. DOMAIN a = AsmFields
  BY DEF Held, AsmFields
<1>1. PICK p : p = a.pending
  OBVIOUS
<1>2. p = [s \in {slot} |-> Begun(id, args)] /\ slot \in DOMAIN p /\ DOMAIN p = {slot}
  BY <1>1 DEF Held, One
<1>3. p[slot] = [id |-> id, arguments |-> args]
  BY <1>2 DEF Begun
<1>4. ASSUME NEW new
      PROVE  [p EXCEPT ![slot].arguments = new] = One(slot, Begun(id, new))
  BY <1>2, <1>3 DEF One, Begun
<1>5. Quiet(AbsorbToolArgs(a, slot, more))
        = Held(nz, One(slot, Begun(id, args \o more)), C, us, open)
  <2>1. PICK new, q : /\ new = args \o more
                      /\ q = [p EXCEPT ![slot].arguments = p[slot].arguments \o more]
    OBVIOUS
  <2>2. q = One(slot, Begun(id, new))
    <3>1. p[slot].arguments \o more = new
      BY <1>3, <2>1
    <3>2. q = [p EXCEPT ![slot].arguments = new]
      BY <2>1, <3>1
    <3>. QED BY <1>4, <3>2
  <2>3. AbsorbToolArgs(a, slot, more) = [a EXCEPT !.pending = q]
    BY <1>0, <1>1, <1>2, <2>1 DEF AbsorbToolArgs, AsmFields
  <2>4. Quiet([a EXCEPT !.pending = q]) = Held(nz, q, C, us, open)
    <3>1. PICK b : b = [a EXCEPT !.pending = q]
      OBVIOUS
    <3>2. DOMAIN a = AsmFields
      BY HeldHas
    <3>3. /\ DOMAIN b = AsmFields /\ b.status = a.status /\ b.finished = a.finished
          /\ b.normalize = a.normalize /\ b.usage = a.usage
          /\ b.pending = q /\ b.captured = a.captured /\ b.textOpen = a.textOpen
      BY <3>1, <3>2 DEF AsmFields
    <3>4. Quiet(b) = Held(nz, q, C, us, open)
      BY <3>3, HeldHas, HeldChanges
    <3>. QED BY <3>1, <3>4
  <2>. QED BY <2>1, <2>2, <2>3, <2>4
<1>6. Quiet(AbsorbToolReplace(a, slot, more))
        = Held(nz, One(slot, Begun(id, more)), C, us, open)
  <2>1. PICK q : q = [p EXCEPT ![slot].arguments = more]
    OBVIOUS
  <2>2. q = One(slot, Begun(id, more))
    BY <1>4, <2>1
  <2>3. AbsorbToolReplace(a, slot, more) = [a EXCEPT !.pending = q]
    BY <1>0, <1>1, <1>2, <2>1 DEF AbsorbToolReplace, AsmFields
  <2>4. Quiet([a EXCEPT !.pending = q]) = Held(nz, q, C, us, open)
    <3>1. PICK b : b = [a EXCEPT !.pending = q]
      OBVIOUS
    <3>2. DOMAIN a = AsmFields
      BY HeldHas
    <3>3. /\ DOMAIN b = AsmFields /\ b.status = a.status /\ b.finished = a.finished
          /\ b.normalize = a.normalize /\ b.usage = a.usage
          /\ b.pending = q /\ b.captured = a.captured /\ b.textOpen = a.textOpen
      BY <3>1, <3>2 DEF AsmFields
    <3>4. Quiet(b) = Held(nz, q, C, us, open)
      BY <3>3, HeldHas, HeldChanges
    <3>. QED BY <3>1, <3>4
  <2>. QED BY <2>2, <2>3, <2>4
<1>7. Quiet(FinishCall(a, slot))
        = Held(nz, <<>>, Append(C, CallPart(id, FinishedArguments(a, args))), us, open)
  <2>1. Restrict(p, DOMAIN p \ {slot}) = <<>>
    <3>1. DOMAIN p \ {slot} = {}
      BY <1>2
    <3>. QED BY <3>1, NoMap
  <2>2. PICK whole, c, e : /\ whole = FinishedArguments(a, args)
                           /\ c = Append(a.captured, CallPart(id, whole))
                           /\ e = Append(a.out, ToolCall(id, whole))
    OBVIOUS
  <2>3. a.pending[slot].id = id /\ a.pending[slot].arguments = args
    BY <1>1, <1>3
  <2>4. FinishCall(a, slot) = [a EXCEPT !.pending  = Restrict(a.pending, DOMAIN a.pending \ {slot}),
                                        !.captured = c, !.out = e]
    BY <1>1, <1>2, <2>2, <2>3 DEF FinishCall
  <2>5. FinishCall(a, slot) = [a EXCEPT !.pending = <<>>, !.captured = c, !.out = e]
    BY <1>1, <2>1, <2>4
  <2>6. a.captured = C
    BY HeldHas
  <2>7. PICK none : none = <<>>
    OBVIOUS
  <2>8. Quiet([a EXCEPT !.pending = none, !.captured = c, !.out = e]) = Held(nz, none, c, us, open)
    <3>1. PICK b : b = [a EXCEPT !.pending = none, !.captured = c, !.out = e]
      OBVIOUS
    <3>2. DOMAIN a = AsmFields
      BY HeldHas
    <3>3. /\ DOMAIN b = AsmFields /\ b.status = a.status /\ b.finished = a.finished
          /\ b.normalize = a.normalize /\ b.usage = a.usage
          /\ b.pending = none /\ b.captured = c /\ b.textOpen = a.textOpen
      BY <3>1, <3>2 DEF AsmFields
    <3>4. Quiet(b) = Held(nz, none, c, us, open)
      BY <3>3, HeldHas, HeldChanges
    <3>. QED BY <3>1, <3>4
  <2>. QED BY <2>2, <2>5, <2>6, <2>7, <2>8
<1>. QED BY <1>5, <1>6, <1>7

LEMMA ArgumentsGoOn ==
  ASSUME NEW nz, NEW C, NEW us, NEW open, NEW slot, NEW id, NEW args, NEW more, NEW a,
         a = Held(nz, One(slot, Begun(id, args)), C, us, open)
  PROVE  Quiet(AbsorbToolArgs(a, slot, more)) = Held(nz, One(slot, Begun(id, args \o more)), C, us, open)
BY CallGoesOn

LEMMA ArgumentsReplaced ==
  ASSUME NEW nz, NEW C, NEW us, NEW open, NEW slot, NEW id, NEW args, NEW more, NEW a,
         a = Held(nz, One(slot, Begun(id, args)), C, us, open)
  PROVE  Quiet(AbsorbToolReplace(a, slot, more)) = Held(nz, One(slot, Begun(id, more)), C, us, open)
BY CallGoesOn

LEMMA CallEnds ==
  ASSUME NEW nz, NEW C, NEW us, NEW open, NEW slot, NEW id, NEW args, NEW a,
         a = Held(nz, One(slot, Begun(id, args)), C, us, open)
  PROVE  Quiet(FinishCall(a, slot))
           = Held(nz, <<>>, Append(C, CallPart(id, FinishedArguments(a, args))), us, open)
BY CallGoesOn

LEMMA ThoughtGoesOn ==
  ASSUME NEW nz, NEW pending, NEW C, NEW us, NEW open, NEW x, NEW a,
         a = Held(nz, pending, C, us, open)
  PROVE  Quiet(Absorb(a, RawReasoningText(x))) = a
<1>1. PICK e : e = Append(a.out, ReasoningDelta(x))
  OBVIOUS
<1>2. Absorb(a, RawReasoningText(x)) = [a EXCEPT !.out = e]
  BY <1>1 DEF Absorb, RawReasoningText
<1>3. Quiet([a EXCEPT !.out = e]) = a
  <2>1. PICK b : b = [a EXCEPT !.out = e]
    OBVIOUS
  <2>2. DOMAIN a = AsmFields
    BY HeldHas
  <2>3. /\ DOMAIN b = AsmFields /\ b.status = a.status /\ b.finished = a.finished
        /\ b.normalize = a.normalize /\ b.usage = a.usage
        /\ b.pending = a.pending /\ b.captured = a.captured /\ b.textOpen = a.textOpen
    BY <2>1, <2>2 DEF AsmFields
  <2>4. Quiet(b) = Held(nz, pending, C, us, open)
    BY <2>3, HeldHas, HeldChanges
  <2>. QED BY <2>1, <2>4
<1>. QED BY <1>2, <1>3

LEMMA BlobGoesOn ==
  ASSUME NEW nz, NEW pending, NEW C, NEW us, NEW open, NEW x, NEW a,
         a = Held(nz, pending, C, us, open)
  PROVE  Quiet(AbsorbBlob(a, x)) = Held(nz, pending, Append(C, ReasoningPart(x)), us, open)
<1>1. PICK c, d : c = Append(a.captured, ReasoningPart(x)) /\ d = Append(a.out, Reasoning(x))
  OBVIOUS
<1>2. AbsorbBlob(a, x) = [a EXCEPT !.captured = c, !.out = d]
  BY <1>1 DEF AbsorbBlob
<1>3. a.captured = C
  BY HeldHas
<1>4. Quiet([a EXCEPT !.captured = c, !.out = d]) = Held(nz, pending, c, us, open)
  <2>1. PICK b : b = [a EXCEPT !.captured = c, !.out = d]
    OBVIOUS
  <2>2. DOMAIN a = AsmFields
    BY HeldHas
  <2>3. /\ DOMAIN b = AsmFields /\ b.status = a.status /\ b.finished = a.finished
        /\ b.normalize = a.normalize /\ b.usage = a.usage
        /\ b.pending = a.pending /\ b.captured = c /\ b.textOpen = a.textOpen
    BY <2>1, <2>2 DEF AsmFields
  <2>4. Quiet(b) = Held(nz, pending, c, us, open)
    BY <2>3, HeldHas, HeldChanges
  <2>. QED BY <2>1, <2>4
<1>. QED BY <1>1, <1>2, <1>3, <1>4

LEMMA CallBegins ==
  ASSUME NEW nz, NEW C, NEW us, NEW open, NEW slot, NEW id, NEW a,
         a = Held(nz, <<>>, C, us, open)
  PROVE  Quiet(AbsorbToolStart(a, slot, id))
           = Held(nz, One(slot, Begun(id, <<>>)), C, us, open)
<1>1. PICK q : q = One(slot, Begun(id, <<>>))
  OBVIOUS
<1>2. a.pending = <<>>
  BY HeldHas
<1>3. AbsorbToolStart(a, slot, id) = [a EXCEPT !.pending = q]
  BY <1>1, <1>2, OneInserted DEF AbsorbToolStart, Begun
<1>4. Quiet([a EXCEPT !.pending = q]) = Held(nz, q, C, us, open)
  <2>1. PICK b : b = [a EXCEPT !.pending = q]
    OBVIOUS
  <2>2. DOMAIN a = AsmFields
    BY HeldHas
  <2>3. /\ DOMAIN b = AsmFields /\ b.status = a.status /\ b.finished = a.finished
        /\ b.normalize = a.normalize /\ b.usage = a.usage
        /\ b.pending = q /\ b.captured = a.captured /\ b.textOpen = a.textOpen
    BY <2>1, <2>2 DEF AsmFields
  <2>4. Quiet(b) = Held(nz, q, C, us, open)
    BY <2>3, HeldHas, HeldChanges
  <2>. QED BY <2>1, <2>4
<1>. QED BY <1>1, <1>3, <1>4

\* The frames of a dialect, one delta each.
LEMMA FedNothing ==
  ASSUME NEW dialect, NEW s, NEW f, NEW d, Decode(dialect, s.decoder, f) = Ignores(d),
         s.asm = Quiet(s.asm)
  PROVE  Fed(dialect, s, f) = [decoder |-> d, asm |-> s.asm]
BY AbsorbNone DEF Fed, Ignores, Yields

LEMMA FedOne ==
  ASSUME NEW dialect, NEW s, NEW f, NEW d, NEW delta,
         Decode(dialect, s.decoder, f) = Yields(d, <<delta>>)
  PROVE  Fed(dialect, s, f) = [decoder |-> d, asm |-> Quiet(Absorb(s.asm, delta))]
BY AbsorbOne DEF Fed, Yields

LEMMA AbsorbsOne ==
  ASSUME NEW a, NEW x, NEW y
  PROVE  /\ Absorb(a, RawText(x)) = AbsorbText(a, x)
         /\ Absorb(a, RawTextEnd) = [a EXCEPT !.textOpen = FALSE]
         /\ Absorb(a, RawRefusal(x)) = AbsorbRefusal(a, x)
         /\ Absorb(a, RawToolStart(x, y)) = AbsorbToolStart(a, x, y)
         /\ Absorb(a, RawToolArgs(x, y)) = AbsorbToolArgs(a, x, y)
         /\ Absorb(a, RawToolReplace(x, y)) = AbsorbToolReplace(a, x, y)
         /\ Absorb(a, RawToolEnd(x)) = FinishCall(a, x)
         /\ Absorb(a, RawReasoningText(x)) = [a EXCEPT !.out = Append(@, ReasoningDelta(x))]
         /\ Absorb(a, RawReasoningBlob(x)) = AbsorbBlob(a, x)
         /\ Absorb(a, RawMeta(x, y)) = AbsorbMeta(a, x, y)
<1>1. Absorb(a, RawText(x)) = AbsorbText(a, x)
  BY DEF Absorb, RawText
<1>2. Absorb(a, RawTextEnd) = [a EXCEPT !.textOpen = FALSE]
  BY DEF Absorb, RawTextEnd
<1>3. Absorb(a, RawRefusal(x)) = AbsorbRefusal(a, x)
  BY DEF Absorb, RawRefusal
<1>4. Absorb(a, RawToolStart(x, y)) = AbsorbToolStart(a, x, y)
  BY DEF Absorb, RawToolStart
<1>5. Absorb(a, RawToolArgs(x, y)) = AbsorbToolArgs(a, x, y)
  BY DEF Absorb, RawToolArgs
<1>6. Absorb(a, RawToolReplace(x, y)) = AbsorbToolReplace(a, x, y)
  BY DEF Absorb, RawToolReplace
<1>7. Absorb(a, RawToolEnd(x)) = FinishCall(a, x)
  BY DEF Absorb, RawToolEnd
<1>8. Absorb(a, RawReasoningText(x)) = [a EXCEPT !.out = Append(@, ReasoningDelta(x))]
  BY DEF Absorb, RawReasoningText
<1>9. Absorb(a, RawReasoningBlob(x)) = AbsorbBlob(a, x)
  BY DEF Absorb, RawReasoningBlob
<1>10. Absorb(a, RawMeta(x, y)) = AbsorbMeta(a, x, y)
  BY DEF Absorb, RawMeta
<1>. QED BY <1>1, <1>2, <1>3, <1>4, <1>5, <1>6, <1>7, <1>8, <1>9, <1>10

-----------------------------------------------------------------------------
(* What runs of frames come to *)

At(d, a) == [decoder |-> d, asm |-> a]

LEMMA FrontGrows ==
  ASSUME NEW s, Listed(s), NEW n \in Nat, n = Len(s)
  PROVE  /\ SubSeq(s, 1, 0) = <<>> /\ SubSeq(s, 1, n) = s
         /\ \A k \in 0 .. n : Listed(SubSeq(s, 1, k))
         /\ \A k \in 1 .. n : SubSeq(s, 1, k) = Append(SubSeq(s, 1, k - 1), s[k])
<1>1. PICK S : s \in Seq(S)
  BY DEF Listed
<1>2. SubSeq(s, 1, 0) = <<>> /\ SubSeq(s, 1, n) = s
  BY <1>1
<1>3. \A k \in 0 .. n : SubSeq(s, 1, k) \in Seq(S) /\ Len(SubSeq(s, 1, k)) = k
                        /\ \A i \in 1 .. k : SubSeq(s, 1, k)[i] = s[i]
  BY <1>1
<1>4. \A k \in 0 .. n : Listed(SubSeq(s, 1, k))
  BY <1>3, ListIs
<1>5. ASSUME NEW k \in 1 .. n PROVE SubSeq(s, 1, k) = Append(SubSeq(s, 1, k - 1), s[k])
  <2>1. PICK p, q : p = SubSeq(s, 1, k - 1) /\ q = SubSeq(s, 1, k)
    OBVIOUS
  <2>2. k - 1 \in 0 .. n /\ k \in 0 .. n
    OBVIOUS
  <2>3. /\ p \in Seq(S) /\ Len(p) = k - 1 /\ (\A i \in 1 .. k - 1 : p[i] = s[i])
        /\ q \in Seq(S) /\ Len(q) = k /\ \A i \in 1 .. k : q[i] = s[i]
    BY <1>3, <2>1, <2>2
  <2>4. s[k] \in S
    BY <1>1
  <2>5. PICK r : r = Append(p, s[k])
    OBVIOUS
  <2>6. r \in Seq(S) /\ Len(r) = k /\ r[k] = s[k] /\ \A i \in 1 .. k - 1 : r[i] = p[i]
    BY <2>3, <2>4, <2>5
  <2>7. \A i \in 1 .. k : i = k \/ i \in 1 .. k - 1
    OBVIOUS
  <2>8. \A i \in 1 .. k : r[i] = q[i]
    BY <2>3, <2>6, <2>7
  <2>9. r = q
    BY <2>3, <2>6, <2>8
  <2>. QED BY <2>1, <2>5, <2>9
<1>. QED BY <1>2, <1>4, <1>5

LEMMA WithTextHas ==
  ASSUME NEW nz, NEW pending, NEW C, NEW us, NEW open, NEW txt
  PROVE  /\ Held(nz, pending, C, us, open).status = "incomplete"
         /\ WithText(nz, pending, C, us, txt).status = "incomplete"
         /\ WithRefusal(nz, pending, C, us, open, txt).status = "incomplete"
         /\ WithText(nz, pending, C, us, <<>>) = Held(nz, pending, C, us, FALSE)
         /\ WithRefusal(nz, pending, C, us, open, <<>>) = Held(nz, pending, C, us, open)
<1>1. \A c, o : Held(nz, pending, c, us, o).status = "incomplete"
  BY DEF Held
<1>2. WithText(nz, pending, C, us, txt).status = "incomplete"
  BY <1>1 DEF WithText
<1>3. WithRefusal(nz, pending, C, us, open, txt).status = "incomplete"
  BY <1>1 DEF WithRefusal
<1>4. WithText(nz, pending, C, us, <<>>) = Held(nz, pending, C, us, FALSE)
  BY DEF WithText
<1>5. WithRefusal(nz, pending, C, us, open, <<>>) = Held(nz, pending, C, us, open)
  BY DEF WithRefusal
<1>. QED BY <1>1, <1>2, <1>3, <1>4, <1>5

\* One fragment of a text after the other.
LEMMA TextRuns ==
  ASSUME NEW dialect, NEW d, NEW nz, NEW pending, NEW C, Listed(C), NEW us,
         NEW txt, Listed(txt), NEW n \in Nat, n = Len(txt), NEW F, Len(F) = n,
         \A k \in 1 .. n : Decode(dialect, d, F[k]) = Yields(d, <<RawText(txt[k])>>)
  PROVE  Leads(dialect, At(d, WithText(nz, pending, C, us, <<>>)), F,
                        At(d, WithText(nz, pending, C, us, txt)))
<1>1. PICK p : p = [k \in 0 .. n |-> At(d, WithText(nz, pending, C, us, SubSeq(txt, 1, k)))]
  OBVIOUS
<1>2. \A k \in 0 .. n : p[k].asm.status = "incomplete"
  <2>. TAKE k \in 0 .. n
  <2>1. p[k].asm = WithText(nz, pending, C, us, SubSeq(txt, 1, k))
    BY <1>1 DEF At
  <2>. QED BY <2>1, WithTextHas
<1>3. ASSUME NEW k \in 1 .. n PROVE p[k] = Fed(dialect, p[k - 1], F[k])
  <2>1. k \in 0 .. n /\ k - 1 \in 0 .. n
    OBVIOUS
  <2>2. PICK before, x, a : /\ before = SubSeq(txt, 1, k - 1) /\ x = txt[k]
                            /\ a = WithText(nz, pending, C, us, before)
    OBVIOUS
  <2>3. p[k - 1] = At(d, a)
    BY <1>1, <2>1, <2>2
  <2>4. p[k] = At(d, WithText(nz, pending, C, us, Append(before, x)))
    BY <1>1, <2>1, <2>2, FrontGrows
  <2>5. Listed(before)
    BY <2>1, <2>2, FrontGrows
  <2>6. Quiet(AbsorbText(a, x)) = WithText(nz, pending, C, us, Append(before, x))
    BY <2>2, <2>5, TextGoesOn
  <2>7. PICK s : s = p[k - 1]
    OBVIOUS
  <2>8. s.decoder = d /\ s.asm = a
    BY <2>3, <2>7 DEF At
  <2>9. Decode(dialect, s.decoder, F[k]) = Yields(d, <<RawText(x)>>)
    BY <2>2, <2>8
  <2>10. Fed(dialect, s, F[k]) = At(d, Quiet(Absorb(s.asm, RawText(x))))
    BY <2>9, FedOne DEF At
  <2>11. Absorb(s.asm, RawText(x)) = AbsorbText(a, x)
    BY <2>8, AbsorbsOne
  <2>. QED BY <2>4, <2>6, <2>7, <2>10, <2>11
<1>4. /\ p[0] = At(d, WithText(nz, pending, C, us, <<>>))
      /\ p[n] = At(d, WithText(nz, pending, C, us, txt))
  <2>1. 0 \in 0 .. n /\ n \in 0 .. n
    OBVIOUS
  <2>. QED BY <1>1, <2>1, FrontGrows
<1>5. Leads(dialect, p[0], F, p[n])
  BY <1>2, <1>3, LeadsStepwise
<1>. QED BY <1>4, <1>5

LEMMA RefusalRuns ==
  ASSUME NEW dialect, NEW d, NEW nz, NEW pending, NEW C, Listed(C), NEW us, NEW open,
         C # <<>> => Last(C).part # "refusal",
         NEW txt, Listed(txt), NEW n \in Nat, n = Len(txt), NEW F, Len(F) = n,
         \A k \in 1 .. n : Decode(dialect, d, F[k]) = Yields(d, <<RawRefusal(txt[k])>>)
  PROVE  Leads(dialect, At(d, Held(nz, pending, C, us, open)), F,
                        At(d, WithRefusal(nz, pending, C, us, open, txt)))
<1>1. PICK p : p = [k \in 0 .. n |-> At(d, WithRefusal(nz, pending, C, us, open, SubSeq(txt, 1, k)))]
  OBVIOUS
<1>2. \A k \in 0 .. n : p[k].asm.status = "incomplete"
  <2>. TAKE k \in 0 .. n
  <2>1. p[k].asm = WithRefusal(nz, pending, C, us, open, SubSeq(txt, 1, k))
    BY <1>1 DEF At
  <2>. QED BY <2>1, WithTextHas
<1>3. ASSUME NEW k \in 1 .. n PROVE p[k] = Fed(dialect, p[k - 1], F[k])
  <2>1. k \in 0 .. n /\ k - 1 \in 0 .. n
    OBVIOUS
  <2>2. PICK before, x, a : /\ before = SubSeq(txt, 1, k - 1) /\ x = txt[k]
                            /\ a = WithRefusal(nz, pending, C, us, open, before)
    OBVIOUS
  <2>3. p[k - 1] = At(d, a)
    BY <1>1, <2>1, <2>2
  <2>4. p[k] = At(d, WithRefusal(nz, pending, C, us, open, Append(before, x)))
    BY <1>1, <2>1, <2>2, FrontGrows
  <2>5. Listed(before)
    BY <2>1, <2>2, FrontGrows
  <2>6. Quiet(AbsorbRefusal(a, x)) = WithRefusal(nz, pending, C, us, open, Append(before, x))
    BY <2>2, <2>5, RefusalGoesOn
  <2>7. PICK s : s = p[k - 1]
    OBVIOUS
  <2>8. s.decoder = d /\ s.asm = a
    BY <2>3, <2>7 DEF At
  <2>9. Decode(dialect, s.decoder, F[k]) = Yields(d, <<RawRefusal(x)>>)
    BY <2>2, <2>8
  <2>10. Fed(dialect, s, F[k]) = At(d, Quiet(Absorb(s.asm, RawRefusal(x))))
    BY <2>9, FedOne DEF At
  <2>11. Absorb(s.asm, RawRefusal(x)) = AbsorbRefusal(a, x)
    BY <2>8, AbsorbsOne
  <2>. QED BY <2>4, <2>6, <2>7, <2>10, <2>11
<1>4. /\ p[0] = At(d, Held(nz, pending, C, us, open))
      /\ p[n] = At(d, WithRefusal(nz, pending, C, us, open, txt))
  <2>1. 0 \in 0 .. n /\ n \in 0 .. n
    OBVIOUS
  <2>. QED BY <1>1, <2>1, FrontGrows, WithTextHas
<1>5. Leads(dialect, p[0], F, p[n])
  BY <1>2, <1>3, LeadsStepwise
<1>. QED BY <1>4, <1>5

\* One fragment of a call's arguments after the other.
LEMMA ArgumentsRun ==
  ASSUME NEW dialect, NEW d, NEW nz, NEW C, NEW us, NEW open, NEW slot, NEW id,
         NEW args, Listed(args), NEW n \in Nat, n = Len(args), NEW F, Len(F) = n,
         \A k \in 1 .. n : Decode(dialect, d, F[k]) = Yields(d, <<RawToolArgs(slot, <<args[k]>>)>>)
  PROVE  Leads(dialect,
               At(d, Held(nz, One(slot, Begun(id, <<>>)), C, us, open)), F,
               At(d, Held(nz, One(slot, Begun(id, args)), C, us, open)))
<1>1. PICK h : h = [k \in 0 .. n |-> Held(nz, One(slot, Begun(id, SubSeq(args, 1, k))), C, us, open)]
  OBVIOUS
<1>2. PICK p : p = [k \in 0 .. n |-> At(d, h[k])]
  OBVIOUS
<1>3. \A k \in 0 .. n : p[k].asm.status = "incomplete"
  <2>. TAKE k \in 0 .. n
  <2>1. p[k].asm = h[k]
    BY <1>2 DEF At
  <2>. QED BY <1>1, <2>1, WithTextHas
<1>4. ASSUME NEW k \in 1 .. n PROVE p[k] = Fed(dialect, p[k - 1], F[k])
  <2>1. k \in 0 .. n /\ k - 1 \in 0 .. n
    OBVIOUS
  <2>2. PICK before, x, a : /\ before = SubSeq(args, 1, k - 1) /\ x = <<args[k]>>
                            /\ a = Held(nz, One(slot, Begun(id, before)), C, us, open)
    OBVIOUS
  <2>3. p[k - 1] = At(d, a)
    BY <1>1, <1>2, <2>1, <2>2
  <2>4. SubSeq(args, 1, k) = before \o x
    <3>1. SubSeq(args, 1, k) = Append(before, args[k]) /\ Listed(before)
      BY <2>1, <2>2, FrontGrows
    <3>. QED BY <2>2, <3>1, JoinedWithOne
  <2>5. p[k] = At(d, Held(nz, One(slot, Begun(id, before \o x)), C, us, open))
    BY <1>1, <1>2, <2>1, <2>4
  <2>6. Quiet(AbsorbToolArgs(a, slot, x))
          = Held(nz, One(slot, Begun(id, before \o x)), C, us, open)
    <3>1. a = Held(nz, One(slot, Begun(id, before)), C, us, open)
      BY <2>2
    <3>. QED BY <3>1, ArgumentsGoOn
  <2>7. PICK s : s = p[k - 1]
    OBVIOUS
  <2>8. s.decoder = d /\ s.asm = a
    BY <2>3, <2>7 DEF At
  <2>9. Decode(dialect, s.decoder, F[k]) = Yields(d, <<RawToolArgs(slot, x)>>)
    BY <2>2, <2>8
  <2>10. Fed(dialect, s, F[k]) = At(d, Quiet(Absorb(s.asm, RawToolArgs(slot, x))))
    BY <2>9, FedOne DEF At
  <2>11. Absorb(s.asm, RawToolArgs(slot, x)) = AbsorbToolArgs(a, slot, x)
    BY <2>8, AbsorbsOne
  <2>. QED BY <2>5, <2>6, <2>7, <2>10, <2>11
<1>5. /\ p[0] = At(d, Held(nz, One(slot, Begun(id, <<>>)), C, us, open))
      /\ p[n] = At(d, Held(nz, One(slot, Begun(id, args)), C, us, open))
  <2>1. 0 \in 0 .. n /\ n \in 0 .. n
    OBVIOUS
  <2>. QED BY <1>1, <1>2, <2>1, FrontGrows
<1>6. Leads(dialect, p[0], F, p[n])
  BY <1>3, <1>4, LeadsStepwise
<1>. QED BY <1>5, <1>6

\* Frames that a decoder keeps to itself, or that tell of a thought at most.
KeptOf(step, d) ==
  \/ step = Ignores(d)
  \/ \E x : step = Yields(d, <<RawReasoningText(x)>>)

LEMMA FedKept ==
  ASSUME NEW dialect, NEW d, NEW e, NEW f, KeptOf(Decode(dialect, d, f), e),
         NEW nz, NEW pending, NEW C, NEW us, NEW open, NEW a, a = Held(nz, pending, C, us, open)
  PROVE  Fed(dialect, At(d, a), f) = At(e, a) /\ a.status = "incomplete"
<1>1. PICK s : s = At(d, a)
  OBVIOUS
<1>2. s.decoder = d /\ s.asm = a
  BY <1>1 DEF At
<1>3. Quiet(a) = a /\ a.status = "incomplete"
  <2>1. Quiet(a) = Held(a.normalize, a.pending, a.captured, a.usage, a.textOpen)
    BY HeldHas, QuietHolds
  <2>. QED BY <2>1, HeldHas
<1>4. CASE Decode(dialect, d, f) = Ignores(e)
  BY <1>1, <1>2, <1>3, <1>4, FedNothing DEF At
<1>5. ASSUME NEW x, Decode(dialect, d, f) = Yields(e, <<RawReasoningText(x)>>)
      PROVE  Fed(dialect, s, f) = At(e, a)
  <2>1. Fed(dialect, s, f) = At(e, Quiet(Absorb(a, RawReasoningText(x))))
    BY <1>2, <1>5, FedOne DEF At
  <2>2. Quiet(Absorb(a, RawReasoningText(x))) = a
    BY ThoughtGoesOn
  <2>. QED BY <2>1, <2>2
<1>. QED BY <1>1, <1>3, <1>4, <1>5 DEF KeptOf

LEMMA KeptRuns ==
  ASSUME NEW dialect, NEW nz, NEW pending, NEW C, NEW us, NEW open,
         NEW n \in Nat, NEW F, Len(F) = n, NEW d,
         \A k \in 1 .. n : KeptOf(Decode(dialect, d[k - 1], F[k]), d[k])
  PROVE  Leads(dialect, At(d[0], Held(nz, pending, C, us, open)), F,
                        At(d[n], Held(nz, pending, C, us, open)))
<1>1. PICK a : a = Held(nz, pending, C, us, open)
  OBVIOUS
<1>2. PICK p : p = [k \in 0 .. n |-> At(d[k], a)]
  OBVIOUS
<1>3. \A k \in 0 .. n : p[k].asm.status = "incomplete"
  BY <1>1, <1>2, WithTextHas DEF At
<1>4. ASSUME NEW k \in 1 .. n PROVE p[k] = Fed(dialect, p[k - 1], F[k])
  <2>1. k \in 0 .. n /\ k - 1 \in 0 .. n
    OBVIOUS
  <2>2. Fed(dialect, At(d[k - 1], a), F[k]) = At(d[k], a)
    BY <1>1, FedKept
  <2>. QED BY <1>2, <2>1, <2>2
<1>5. Leads(dialect, p[0], F, p[n])
  BY <1>3, <1>4, LeadsStepwise
<1>6. 0 \in 0 .. n /\ n \in 0 .. n
  OBVIOUS
<1>. QED BY <1>1, <1>2, <1>5, <1>6

\* One frame that tells one thing.
LEMMA OneLeads ==
  ASSUME NEW dialect, NEW d, NEW e, NEW a, NEW b, NEW f, NEW delta,
         a.status = "incomplete", b.status = "incomplete",
         Decode(dialect, d, f) = Yields(e, <<delta>>), Quiet(Absorb(a, delta)) = b
  PROVE  Leads(dialect, At(d, a), <<f>>, At(e, b))
<1>1. PICK s, t : s = At(d, a) /\ t = At(e, b)
  OBVIOUS
<1>2. s.decoder = d /\ s.asm = a /\ t.asm = b
  BY <1>1 DEF At
<1>3. Fed(dialect, s, f) = t
  BY <1>1, <1>2, FedOne DEF At
<1>4. Leads(dialect, s, <<f>>, t)
  BY <1>2, <1>3, LeadsByOne
<1>. QED BY <1>1, <1>4

LEMMA OneKept ==
  ASSUME NEW dialect, NEW d, NEW e, NEW f, KeptOf(Decode(dialect, d, f), e),
         NEW nz, NEW pending, NEW C, NEW us, NEW open, NEW a, a = Held(nz, pending, C, us, open)
  PROVE  Leads(dialect, At(d, a), <<f>>, At(e, a))
<1>1. PICK s, t : s = At(d, a) /\ t = At(e, a)
  OBVIOUS
<1>2. s.asm = a /\ t.asm = a
  BY <1>1 DEF At
<1>3. Fed(dialect, s, f) = t /\ a.status = "incomplete"
  BY <1>1, FedKept
<1>4. Leads(dialect, s, <<f>>, t)
  BY <1>2, <1>3, LeadsByOne
<1>. QED BY <1>1, <1>4

-----------------------------------------------------------------------------
(* What a call, a text and a part that is kept whole come to *)

LEMMA Between ==
  ASSUME NEW dialect, NEW s, NEW t, NEW u, NEW v, NEW f, NEW F, NEW g, Listed(F),
         Leads(dialect, s, <<f>>, t), Leads(dialect, t, F, u), Leads(dialect, u, <<g>>, v)
  PROVE  Listed(<<f>> \o F \o <<g>>) /\ Leads(dialect, s, <<f>> \o F \o <<g>>, v)
<1>1. PICK a, b, c : a = <<f>> /\ b = <<g>> /\ c = a \o F
  OBVIOUS
<1>2. Listed(a) /\ Listed(b)
  BY <1>1, OneListed
<1>3. Listed(c) /\ Listed(c \o b)
  BY <1>1, <1>2, Joined
<1>4. Leads(dialect, s, c, u)
  BY <1>1, <1>2, LeadsOn
<1>5. Leads(dialect, s, c \o b, v)
  BY <1>1, <1>2, <1>3, <1>4, LeadsOn
<1>. QED BY <1>1, <1>3, <1>5

LEMMA TextBegins ==
  ASSUME NEW nz, NEW pending, NEW C, NEW us, NEW no, no = FALSE
  PROVE  WithText(nz, pending, C, us, <<>>) = Held(nz, pending, C, us, no)
BY DEF WithText

LEMMA TextEnds ==
  ASSUME NEW nz, NEW pending, NEW C, NEW us, NEW txt, txt # <<>>, NEW no, no = FALSE
  PROVE  Quiet(Absorb(WithText(nz, pending, C, us, txt), RawTextEnd))
           = Held(nz, pending, Append(C, TextPart(txt)), us, no)
<1>0. PICK yes, c : yes = TRUE /\ c = Append(C, TextPart(txt))
  OBVIOUS
<1>1. PICK a : a = Held(nz, pending, c, us, yes)
  OBVIOUS
<1>2. WithText(nz, pending, C, us, txt) = a
  BY <1>0, <1>1 DEF WithText
<1>3. PICK b : b = [a EXCEPT !.textOpen = no]
  OBVIOUS
<1>4. Absorb(a, RawTextEnd) = b
  BY <1>3, AbsorbsOne
<1>5. DOMAIN a = AsmFields /\ a.captured = c
  BY <1>1, HeldHas
<1>6. /\ DOMAIN b = AsmFields /\ b.status = a.status /\ b.finished = a.finished
      /\ b.normalize = a.normalize /\ b.usage = a.usage
      /\ b.pending = a.pending /\ b.captured = c /\ b.textOpen = no
  BY <1>3, <1>5 DEF AsmFields
<1>7. Quiet(b) = Held(nz, pending, c, us, no)
  BY <1>1, <1>6, HeldHas, HeldChanges
<1>. QED BY <1>0, <1>2, <1>4, <1>7

LEMMA BlobTold ==
  ASSUME NEW nz, NEW pending, NEW C, NEW us, NEW open, NEW x
  PROVE  Quiet(Absorb(Held(nz, pending, C, us, open), RawReasoningBlob(x)))
           = Held(nz, pending, Append(C, ReasoningPart(x)), us, open)
<1>1. PICK a : a = Held(nz, pending, C, us, open)
  OBVIOUS
<1>2. Absorb(a, RawReasoningBlob(x)) = AbsorbBlob(a, x)
  BY AbsorbsOne
<1>3. Quiet(AbsorbBlob(a, x)) = Held(nz, pending, Append(C, ReasoningPart(x)), us, open)
  BY <1>1, BlobGoesOn
<1>. QED BY <1>1, <1>2, <1>3

\* The arguments of a call, once they have all arrived.
Ended(normalize, args) ==
  LET whole == IF args = <<>> THEN EmptyObject ELSE args
  IN IF normalize /\ IsObject(whole) THEN Canonical(whole) ELSE whole

LEMMA CallStarted ==
  ASSUME NEW nz, NEW C, NEW us, NEW open, NEW slot, NEW id, NEW a,
         a = Held(nz, <<>>, C, us, open)
  PROVE  Quiet(Absorb(a, RawToolStart(slot, id))) = Held(nz, One(slot, Begun(id, <<>>)), C, us, open)
<1>1. Absorb(a, RawToolStart(slot, id)) = AbsorbToolStart(a, slot, id)
  BY AbsorbsOne
<1>2. Quiet(AbsorbToolStart(a, slot, id)) = Held(nz, One(slot, Begun(id, <<>>)), C, us, open)
  BY CallBegins
<1>. QED BY <1>1, <1>2

LEMMA CallOver ==
  ASSUME NEW nz, NEW C, NEW us, NEW open, NEW slot, NEW id, NEW args, NEW a,
         a = Held(nz, One(slot, Begun(id, args)), C, us, open)
  PROVE  Quiet(Absorb(a, RawToolEnd(slot)))
           = Held(nz, <<>>, Append(C, CallPart(id, Ended(nz, args))), us, open)
<1>1. Absorb(a, RawToolEnd(slot)) = FinishCall(a, slot)
  BY AbsorbsOne
<1>2. Quiet(FinishCall(a, slot))
        = Held(nz, <<>>, Append(C, CallPart(id, FinishedArguments(a, args))), us, open)
  BY CallEnds
<1>3. FinishedArguments(a, args) = Ended(nz, args)
  <2>1. a.normalize = nz
    BY HeldHas
  <2>. QED BY <2>1 DEF FinishedArguments, Ended
<1>. QED BY <1>1, <1>2, <1>3

LEMMA MappedList ==
  ASSUME NEW n \in Nat, NEW F, F = [k \in 1 .. n |-> F[k]]
  PROVE  Listed(F) /\ Len(F) = n
<1>1. \A k \in 1 .. n : F[k] \in Range(F)
  BY DEF Range
<1>2. F \in Seq(Range(F)) /\ Len(F) = n
  BY <1>1
<1>. QED BY <1>2, ListIs

=============================================================================
