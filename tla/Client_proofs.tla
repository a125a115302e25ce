---------------------------- MODULE Client_proofs ----------------------------
(***************************************************************************)
(* What holds of a call, whatever the builder of its endpoint is called    *)
(* with, for any endpoint, any redirects, any bodies and any limits.       *)
(*                                                                         *)
(* Address: what is posted beside the body, and what is printed of it.     *)
(*                                                                         *)
(* Retry: the credential stays with the origin it was configured for, an   *)
(* answer is a whole one, and a retry is warranted and paced.  The         *)
(* invariant says where an outcome comes from: it is decided here, or by   *)
(* the transport, or by a status whose whole body was read.  What an error *)
(* prints of that body is read off the loop that finds where its           *)
(* characters end.                                                         *)
(***************************************************************************)
EXTENDS Address, Retry, SequenceTheorems, Counting


-----------------------------------------------------------------------------
(* Lists of pairs *)

Pairs(N, V) == [name : N, value : V]

(* What is picked depends only on what is at the positions picked. *)
LEMMA PickedAlike ==
  ASSUME NEW M, NEW s \in Seq(M), NEW t, NEW S \in SUBSET DOMAIN s,
         \A i \in S : t[i] = s[i]
  PROVE  Pick(t, S) = Pick(s, S)
<1>1. DOMAIN s = 1 .. Len(s) /\ Len(s) \in Nat
  OBVIOUS
<1>2. PICK n \in Nat : n = Len(s)
  BY <1>1
<1>3. S \in SUBSET Int /\ IsFiniteSet(S)
  <2>1. S \subseteq 1 .. n /\ IsFiniteSet(1 .. n)
    BY <1>1, <1>2, FS_Interval
  <2>. QED BY <2>1, FS_Subset
<1>4. \A k \in 1 .. Cardinality(S) : Nth(S, k) \in S
  BY <1>3, NthIsThere
<1>. QED BY <1>4 DEF Pick

(* A list end to end with another, and where each of its entries is from. *)
IsEndedBy(u, s, t) ==
  /\ Len(s) \in Nat /\ DOMAIN s = 1 .. Len(s)
  /\ Len(t) \in Nat /\ DOMAIN t = 1 .. Len(t)
  /\ DOMAIN u = 1 .. Len(s) + Len(t)
  /\ \A k \in DOMAIN s : u[k] = s[k]
  /\ \A k \in DOMAIN t : u[Len(s) + k] = t[k]

LEMMA EndedWith ==
  ASSUME NEW M, NEW s \in Seq(M), NEW t \in Seq(M)
  PROVE  s \o t \in Seq(M) /\ IsEndedBy(s \o t, s, t)
<1>1. s \o t \in Seq(M)
  OBVIOUS
<1>. QED BY <1>1 DEF IsEndedBy

(* The entries that are not called n: none of them is, and they are all there if
   none is called that; one of that name at the end makes no difference. *)
LEMMA OthersAre ==
  ASSUME NEW N, NEW V, NEW s \in Seq(Pairs(N, V)), NEW n
  PROVE  /\ Others(s, n) \in Seq(Pairs(N, V))
         /\ \A k \in DOMAIN Others(s, n) :
              /\ Others(s, n)[k].name # n
              /\ \E i \in DOMAIN s : Others(s, n)[k] = s[i]
<1>. DEFINE S == {k \in DOMAIN s : s[k].name # n}
<1>1. /\ Pick(s, S) \in Seq(Pairs(N, V))
      /\ \A k \in DOMAIN Pick(s, S) : Nth(S, k) \in S /\ Pick(s, S)[k] = s[Nth(S, k)]
  <2>1. S \in SUBSET DOMAIN s
    OBVIOUS
  <2>. HIDE DEF S
  <2>. QED BY <2>1, Picked
<1>. QED BY <1>1 DEF Others

LEMMA OthersOfOthers ==
  ASSUME NEW N, NEW V, NEW s \in Seq(Pairs(N, V)), NEW n, NEW x \in Pairs(N, V),
         \A k \in DOMAIN s : s[k].name # n, x.name = n
  PROVE  /\ Others(Append(s, x), n) = s
         /\ {k \in DOMAIN Append(s, x) : Append(s, x)[k].name = n} = {Len(s) + 1}
<1>. DEFINE t == Append(s, x)
<1>1. /\ Len(s) \in Nat /\ DOMAIN s = 1 .. Len(s) /\ DOMAIN t = 1 .. Len(s) + 1
      /\ \A k \in DOMAIN s : t[k] = s[k]
      /\ t[Len(s) + 1] = x
  OBVIOUS
<1>. HIDE DEF t
<1>2. {k \in DOMAIN t : t[k].name # n} = DOMAIN s
  BY <1>1
<1>3. Pick(t, DOMAIN s) = Pick(s, DOMAIN s)
  BY <1>1, PickedAlike
<1>4. Pick(s, DOMAIN s) = s
  BY PickedWhole
<1>5. Others(t, n) = s
  BY <1>2, <1>3, <1>4 DEF Others
<1>6. {k \in DOMAIN t : t[k].name = n} = {Len(s) + 1}
  BY <1>1
<1>. QED BY <1>5, <1>6 DEF t

(* Two lists with the same names in the same places have others in the same
   places. *)
LEMMA OthersAlike ==
  ASSUME NEW N, NEW V, NEW s \in Seq(Pairs(N, V)), NEW t \in Seq(Pairs(N, V)), NEW n,
         DOMAIN s = DOMAIN t, \A k \in DOMAIN s : s[k].name = t[k].name
  PROVE  /\ Len(Others(s, n)) = Len(Others(t, n))
         /\ \A k \in DOMAIN Others(s, n) :
              \E i \in DOMAIN s : Others(s, n)[k] = s[i] /\ Others(t, n)[k] = t[i]
<1>. DEFINE S == {k \in DOMAIN s : s[k].name # n}
            T == {k \in DOMAIN t : t[k].name # n}
<1>1. S = T /\ S \in SUBSET DOMAIN s /\ T \in SUBSET DOMAIN t
  OBVIOUS
<1>2. Others(s, n) = Pick(s, S) /\ Others(t, n) = Pick(t, T)
  BY DEF Others
<1>. HIDE DEF S, T
<1>3. /\ DOMAIN Pick(s, S) = 1 .. Len(Pick(s, S))
      /\ \A k \in DOMAIN Pick(s, S) : Nth(S, k) \in S /\ Pick(s, S)[k] = s[Nth(S, k)]
  BY <1>1, Picked
<1>4. \A k \in DOMAIN Pick(t, T) : Nth(T, k) \in T /\ Pick(t, T)[k] = t[Nth(T, k)]
  BY <1>1, Picked
<1>5. Pick(s, S) \in Seq(Pairs(N, V)) /\ Pick(t, T) \in Seq(Pairs(N, V))
  BY <1>1, Picked
<1>6. DOMAIN Pick(s, S) = DOMAIN Pick(t, T)
  BY <1>1 DEF Pick
<1>7. Len(Pick(s, S)) = Len(Pick(t, T))
  <2>1. PICK a, b : a = Pick(s, S) /\ b = Pick(t, T)
    OBVIOUS
  <2>2. a \in Seq(Pairs(N, V)) /\ b \in Seq(Pairs(N, V)) /\ DOMAIN a = DOMAIN b
    BY <1>5, <1>6, <2>1
  <2>3. Len(a) = Len(b)
    BY <2>2
  <2>. QED BY <2>1, <2>3
<1>. QED BY <1>1, <1>2, <1>3, <1>4, <1>6, <1>7

-----------------------------------------------------------------------------
(* Headers of which the last of a name is kept *)

\* The entries of a list that are called that, in any case.
Named(out, name) == {k \in DOMAIN out : Lower[out[k].name] = Lower[name]}

(* Of the entries with a name that is not taken, the last is kept, and no other. *)
LEMMA LastIsKept ==
  ASSUME NEW N, NEW V, NEW all \in Seq(Pairs(N, V)), NEW reserved, NEW out,
         out = Pick(all, LastOfName(all, reserved))
  PROVE  /\ out \in Seq(Pairs(N, V))
         /\ \A k \in DOMAIN out : /\ Lower[out[k].name] \notin reserved
                                  /\ \E i \in DOMAIN all : out[k] = all[i]
         /\ \A name : \A i \in Named(all, name) :
              Lower[name] \notin reserved /\ (\A l \in Named(all, name) : l <= i)
                => \E k \in DOMAIN out : Named(out, name) = {k} /\ out[k] = all[i]
<1>. DEFINE S == LastOfName(all, reserved)
<1>1. S \in SUBSET DOMAIN all /\ DOMAIN all = 1 .. Len(all) /\ Len(all) \in Nat
  BY DEF LastOfName
<1>2. \A i \in S : /\ Lower[all[i].name] \notin reserved
                   /\ \A l \in DOMAIN all : Lower[all[l].name] = Lower[all[i].name] => l <= i
  BY DEF LastOfName
<1>3. \A i \in DOMAIN all :
        Lower[all[i].name] \notin reserved
          /\ (\A l \in DOMAIN all : Lower[all[l].name] = Lower[all[i].name] => l <= i) => i \in S
  BY DEF LastOfName
<1>. HIDE DEF S
<1>4. /\ out \in Seq(Pairs(N, V))
      /\ \A k \in DOMAIN out : Nth(S, k) \in S /\ out[k] = all[Nth(S, k)]
      /\ \A i \in S : \E k \in DOMAIN out : Nth(S, k) = i
      /\ \A k, l \in DOMAIN out : k < l <=> Nth(S, k) < Nth(S, l)
      /\ DOMAIN out = 1 .. Len(out) /\ Len(out) \in Nat
  <2>1. out = Pick(all, S)
    BY DEF S
  <2>2. out \in Seq(Pairs(N, V))
    BY <1>1, <2>1, Picked
  <2>. QED BY <1>1, <2>1, <2>2, Picked
<1>5. ASSUME NEW name, NEW i \in Named(all, name), Lower[name] \notin reserved,
             \A l \in Named(all, name) : l <= i
      PROVE  \E k \in DOMAIN out : Named(out, name) = {k} /\ out[k] = all[i]
  <2>1. i \in DOMAIN all /\ Lower[all[i].name] = Lower[name]
    BY <1>5 DEF Named
  <2>2. \A l \in DOMAIN all : Lower[all[l].name] = Lower[all[i].name] => l <= i
    BY <1>5, <2>1 DEF Named
  <2>3. i \in S
    BY <1>3, <1>5, <2>1, <2>2
  <2>4. PICK k \in DOMAIN out : Nth(S, k) = i
    BY <1>4, <2>3
  <2>5. out[k] = all[i] /\ k \in Named(out, name)
    BY <1>4, <2>1, <2>4 DEF Named
  <2>6. ASSUME NEW l \in Named(out, name) PROVE l = k
    <3>1. l \in DOMAIN out /\ Lower[out[l].name] = Lower[name]
      BY <2>6 DEF Named
    <3>2. Nth(S, l) \in S /\ out[l] = all[Nth(S, l)]
      BY <1>4, <3>1
    <3>3. Nth(S, l) \in DOMAIN all /\ Lower[all[Nth(S, l)].name] = Lower[all[i].name]
      BY <1>1, <2>1, <3>1, <3>2
    <3>4. Nth(S, l) <= i /\ i <= Nth(S, l)
      BY <1>2, <2>1, <2>2, <3>2, <3>3
    <3>5. Nth(S, l) \in Int /\ i \in Int
      BY <1>1, <2>1, <3>3
    <3>6. Nth(S, l) = Nth(S, k)
      BY <2>4, <3>4, <3>5
    <3>7. ~(l < k) /\ ~(k < l)
      BY <1>1, <1>4, <2>4, <3>1, <3>5, <3>6
    <3>8. l \in Int /\ k \in Int
      BY <1>4, <2>4, <3>1
    <3>. QED BY <3>7, <3>8
  <2>. QED BY <2>5, <2>6
<1>. QED BY <1>1, <1>2, <1>4, <1>5

(* What comes last of a name is there if anything of that name is. *)
LEMMA LastIsThere ==
  ASSUME NEW N, NEW V, NEW all \in Seq(Pairs(N, V)), NEW name, Named(all, name) # {}
  PROVE  \E i \in Named(all, name) : \A l \in Named(all, name) : l <= i
<1>1. Len(all) \in Nat /\ Named(all, name) \in SUBSET (0 .. Len(all))
  BY DEF Named
<1>. QED BY <1>1, BoundedSetHasAGreatest

-----------------------------------------------------------------------------
(* The calls made, and what the configuration has of them *)

HeaderOps == {"header", "secret_header"}
QueryOps  == {"query", "secret_query"}

Said(calls)    == [k \in DOMAIN calls |-> Pair(calls[k].name, calls[k].value)]
Of(calls, ops) == {k \in DOMAIN calls : calls[k].op \in ops}
NamesIn(calls)  == {calls[k].name : k \in DOMAIN calls}
ValuesIn(calls) == {calls[k].value : k \in DOMAIN calls}

LEMMA SaidIs ==
  ASSUME NEW C, NEW calls \in Seq(C)
  PROVE  /\ Said(calls) \in Seq(Pairs(NamesIn(calls), ValuesIn(calls)))
         /\ DOMAIN Said(calls) = DOMAIN calls
         /\ \A ops : Of(calls, ops) \in SUBSET DOMAIN calls
<1>1. Len(calls) \in Nat /\ DOMAIN calls = 1 .. Len(calls)
  OBVIOUS
<1>2. PICK n \in Nat : n = Len(calls)
  BY <1>1
<1>3. \A k \in 1 .. n : Pair(calls[k].name, calls[k].value) \in Pairs(NamesIn(calls), ValuesIn(calls))
  BY <1>1, <1>2 DEF Pair, Pairs, NamesIn, ValuesIn
<1>4. PICK P : P = Pairs(NamesIn(calls), ValuesIn(calls))
  OBVIOUS
<1>5. Said(calls) = [k \in 1 .. n |-> Pair(calls[k].name, calls[k].value)]
  BY <1>1, <1>2 DEF Said
<1>6. Said(calls) \in Seq(P)
  <2>1. PICK f : f = [k \in 1 .. n |-> Pair(calls[k].name, calls[k].value)]
    OBVIOUS
  <2>2. f \in [1 .. n -> P]
    BY <1>3, <1>4, <2>1
  <2>3. f \in Seq(P)
    BY <2>2
  <2>. QED BY <1>5, <2>1, <2>3
<1>7. DOMAIN Said(calls) = DOMAIN calls
  BY DEF Said
<1>. QED BY <1>4, <1>6, <1>7 DEF Of

\* What is said in more is what is said in calls, and by call if it is of ops.
SaysOneMore(more, calls, saying, ops) ==
  /\ Of(more, ops) = IF saying.op \in ops THEN Of(calls, ops) \cup {Len(calls) + 1}
                                        ELSE Of(calls, ops)
  /\ Pick(Said(more), Of(more, ops)) =
       IF saying.op \in ops
       THEN Append(Pick(Said(calls), Of(calls, ops)), Pair(saying.name, saying.value))
       ELSE Pick(Said(calls), Of(calls, ops))

LEMMA SaidGrows ==
  ASSUME NEW C, NEW calls \in Seq(C), NEW saying, NEW ops
  PROVE  SaysOneMore(Append(calls, saying), calls, saying, ops)
<1>0. PICK more : more = Append(calls, saying)
  OBVIOUS
<1>1. /\ Len(calls) \in Nat /\ DOMAIN calls = 1 .. Len(calls)
      /\ DOMAIN more = 1 .. Len(calls) + 1
      /\ \A k \in DOMAIN calls : more[k] = calls[k]
      /\ more[Len(calls) + 1] = saying
      /\ more \in Seq(C \cup {saying})
  <2>1. calls \in Seq(C \cup {saying})
    OBVIOUS
  <2>. QED BY <1>0, <2>1
<1>2. PICK n \in Nat : n = Len(calls)
  BY <1>1
<1>3. Of(more, ops) = IF saying.op \in ops THEN Of(calls, ops) \cup {n + 1} ELSE Of(calls, ops)
  BY <1>1, <1>2 DEF Of
<1>4. /\ Said(calls) \in Seq(Pairs(NamesIn(calls), ValuesIn(calls)))
      /\ DOMAIN Said(calls) = 1 .. n /\ Of(calls, ops) \in SUBSET (1 .. n)
  BY <1>1, <1>2, SaidIs
<1>5. /\ Said(more) \in Seq(Pairs(NamesIn(more), ValuesIn(more)))
      /\ DOMAIN Said(more) = 1 .. n + 1
  BY <1>1, <1>2, SaidIs
<1>6. /\ \A k \in 1 .. n : Said(more)[k] = Said(calls)[k]
      /\ Said(more)[n + 1] = Pair(saying.name, saying.value)
  <2>1. \A k \in 1 .. n : k \in 1 .. n + 1 /\ k \in DOMAIN calls
    BY <1>1, <1>2
  <2>2. n + 1 \in 1 .. n + 1
    OBVIOUS
  <2>. QED BY <1>1, <1>2, <2>1, <2>2 DEF Said
<1>7. Pick(Said(more), Of(calls, ops)) = Pick(Said(calls), Of(calls, ops))
  BY <1>4, <1>6, PickedAlike
<1>8. ASSUME saying.op \in ops
      PROVE  Pick(Said(more), Of(calls, ops) \cup {n + 1})
               = Append(Pick(Said(more), Of(calls, ops)), Said(more)[n + 1])
  <2>1. /\ Of(calls, ops) \in SUBSET DOMAIN Said(more) /\ n + 1 \in DOMAIN Said(more)
        /\ \A j \in Of(calls, ops) : j < n + 1
    BY <1>4, <1>5
  <2>. QED BY <1>5, <2>1, PickedLast
<1>9. SaysOneMore(more, calls, saying, ops)
  BY <1>2, <1>3, <1>6, <1>7, <1>8 DEF SaysOneMore
<1>. QED BY <1>0, <1>9

-----------------------------------------------------------------------------
(* The invariant *)

IsConfig(c) ==
  /\ c = [dialect |-> c.dialect, auth |-> c.auth, apiKeyEnv |-> c.apiKeyEnv,
          defaultModel |-> c.defaultModel, headers |-> c.headers, query |-> c.query,
          secretHeaders |-> c.secretHeaders, secretQuery |-> c.secretQuery, path |-> c.path,
          body |-> c.body, tokenField |-> c.tokenField]
  /\ c.dialect \in Dialects
  /\ c.auth \in {Bearer, HeaderAuth(c.auth.name), QueryAuth(c.auth.name), NoAuth}

\* Each call brings a value of its own, and there are no more than can be told
\* apart.
Counted ==
  /\ concern \in DOMAIN MaxCalls
  /\ made \in Seq(Range(made)) /\ Len(made) <= MaxCalls[concern]
  /\ \A k \in Of(made, HeaderOps \cup QueryOps) : made[k].value = Value(k)

\* The configuration c has what was said, in this order, and what is secret of it.
Keeps(c, calls) ==
  /\ c.headers = Pick(Said(calls), Of(calls, HeaderOps))
  /\ c.query   = Pick(Said(calls), Of(calls, QueryOps))
  /\ c.secretHeaders = {Lower[calls[k].name] : k \in Of(calls, {"secret_header"})}
  /\ c.secretQuery   = {calls[k].name : k \in Of(calls, {"secret_query"})}

\* What was sent is what the configuration makes of it.
SentAsConfigured ==
  \/ sent.done = FALSE
  \/ /\ sent.done = TRUE
     /\ sent.key \in {{}, {"key"}} /\ sent.stream \in BOOLEAN
     /\ sent.url = ApplyQueryAuth(SendUrl(config, sent.stream), config, sent.key)
     /\ sent.headers = ApplyHeaders(config, sent.key)

AddressInv == IsConfig(config) /\ Counted /\ Keeps(config, made) /\ SentAsConfigured

(* The invariant holds of a configuration nobody has called. *)
LEMMA AddressStarts == AddressInit => AddressInv
<1>. SUFFICES ASSUME AddressInit PROVE AddressInv
  OBVIOUS
<1>1. PICK dialect \in Dialects : config = NewConfig(dialect) \/ config = Preset(dialect)
  BY DEF AddressInit
<1>2. DefaultAuth(dialect) \in {Bearer, HeaderAuth(DefaultAuth(dialect).name)}
  BY DEF Dialects, DefaultAuth, Bearer, HeaderAuth
<1>3. /\ IsConfig(config)
      /\ config.headers = <<>> /\ config.query = <<>>
      /\ config.secretHeaders = {} /\ config.secretQuery = {}
  <2>1. PICK new : new = NewConfig(dialect)
    OBVIOUS
  <2>2. /\ IsConfig(new)
        /\ new.headers = <<>> /\ new.query = <<>>
        /\ new.secretHeaders = {} /\ new.secretQuery = {}
    BY <1>2, <2>1 DEF IsConfig, NewConfig
  <2>3. CASE config = Preset(dialect)
    <3>1. config = [new EXCEPT !.apiKeyEnv = {dialect}, !.defaultModel = {"preset"}]
      BY <2>1, <2>3 DEF Preset
    <3>2. PICK c : c = config
      OBVIOUS
    <3>. QED BY <2>2, <3>1 DEF IsConfig
  <2>. QED BY <1>1, <2>1, <2>2, <2>3
<1>4. Counted
  <2>1. made = <<>> /\ concern \in DOMAIN MaxCalls
    BY DEF AddressInit
  <2>2. <<>> \in Seq(Range(<<>>)) /\ Len(<<>>) = 0
    OBVIOUS
  <2>3. MaxCalls[concern] \in Nat
    BY <2>1, ValuesTellCallsApart
  <2>4. Of(made, HeaderOps \cup QueryOps) = {}
    BY <2>1 DEF Of
  <2>5. Len(made) <= MaxCalls[concern] /\ made \in Seq(Range(made))
    BY <2>1, <2>2, <2>3
  <2>. QED BY <2>1, <2>4, <2>5 DEF Counted
<1>5. Keeps(config, made)
  <2>1. \A ops : Of(made, ops) = {}
    BY DEF Of, AddressInit
  <2>2. \A s : Pick(s, {}) = <<>>
    BY NothingPicked
  <2>. QED BY <1>3, <2>1, <2>2 DEF Keeps
<1>6. sent.done = FALSE
  BY DEF AddressInit, Unsent
<1>. QED BY <1>3, <1>4, <1>5, <1>6 DEF AddressInv, SentAsConfigured

(* A recorded call brings what is asked of it, and says what it is. *)
LEMMA Recorded ==
  ASSUME NEW saying, Counted, Record(saying),
         saying.op \in HeaderOps \cup QueryOps => saying.value = Fresh
  PROVE  /\ Counted'
         /\ Len(made) \in Nat
         /\ made' = Append(made, saying)
         /\ made'[Len(made) + 1] = saying
         /\ \A k \in DOMAIN made : made'[k] = made[k]
<1>1. /\ made \in Seq(Range(made)) /\ Len(made) \in Nat /\ DOMAIN made = 1 .. Len(made)
      /\ made' = Append(made, saying) /\ concern' = concern
      /\ Len(made) < MaxCalls[concern] /\ concern \in DOMAIN MaxCalls
  BY DEF Counted, Record
<1>2. MaxCalls[concern] \in Nat
  BY <1>1, ValuesTellCallsApart
<1>3. /\ DOMAIN made' = 1 .. Len(made) + 1 /\ Len(made') = Len(made) + 1
      /\ made'[Len(made) + 1] = saying
      /\ \A k \in DOMAIN made : made'[k] = made[k]
  BY <1>1
<1>4. made' \in Seq(Range(made'))
  <2>1. Range(made) \subseteq Range(made')
    BY <1>1, <1>3 DEF Range
  <2>2. saying \in Range(made')
    BY <1>1, <1>3 DEF Range
  <2>3. \A S : Range(made) \subseteq S /\ saying \in S => Append(made, saying) \in Seq(S)
    BY <1>1
  <2>. QED BY <1>1, <2>1, <2>2, <2>3
<1>5. ASSUME NEW k \in Of(made', HeaderOps \cup QueryOps) PROVE made'[k].value = Value(k)
  <2>1. CASE k \in DOMAIN made
    BY <1>3, <1>5, <2>1 DEF Of, Counted
  <2>2. CASE k = Len(made) + 1
    BY <1>3, <1>5, <2>2 DEF Of, Fresh
  <2>. QED BY <1>1, <1>3, <1>5, <2>1, <2>2 DEF Of
<1>6. Len(made') <= MaxCalls[concern]
  BY <1>1, <1>2, <1>3
<1>. QED BY <1>1, <1>3, <1>4, <1>5, <1>6 DEF Counted

\* The configuration d has what c has, and what a call of the builder said.
Takes(d, c, saying) ==
  /\ IsConfig(d)
  /\ d.headers = IF saying.op \in HeaderOps
                 THEN Append(c.headers, Pair(saying.name, saying.value)) ELSE c.headers
  /\ d.query = IF saying.op \in QueryOps
               THEN Append(c.query, Pair(saying.name, saying.value)) ELSE c.query
  /\ d.secretHeaders = IF saying.op = "secret_header"
                       THEN c.secretHeaders \cup {Lower[saying.name]} ELSE c.secretHeaders
  /\ d.secretQuery = IF saying.op = "secret_query"
                     THEN c.secretQuery \cup {saying.name} ELSE c.secretQuery

(* A configuration that takes a call in keeps what was said. *)
LEMMA KeepsOn ==
  ASSUME NEW saying, NEW c, made \in Seq(Range(made)), made' = Append(made, saying),
         Keeps(config, made), Takes(c, config, saying)
  PROVE  Keeps(c, made')
<1>. DEFINE n == Len(made)
<1>1. PICK more : more = made'
  OBVIOUS
<1>2. /\ n \in Nat /\ DOMAIN made = 1 .. n
      /\ more[n + 1] = saying /\ \A k \in 1 .. n : more[k] = made[k]
  BY <1>1
<1>3. ASSUME NEW ops
      PROVE  /\ Of(more, ops) = IF saying.op \in ops THEN Of(made, ops) \cup {n + 1} ELSE Of(made, ops)
             /\ Pick(Said(more), Of(more, ops)) =
                  IF saying.op \in ops
                  THEN Append(Pick(Said(made), Of(made, ops)), Pair(saying.name, saying.value))
                  ELSE Pick(Said(made), Of(made, ops))
  <2>1. PICK calls, C : calls = made /\ calls \in Seq(C)
    OBVIOUS
  <2>2. more = Append(calls, saying)
    BY <1>1, <2>1
  <2>3. SaysOneMore(more, calls, saying, ops)
    BY <2>1, <2>2, SaidGrows
  <2>. QED BY <2>1, <2>3 DEF SaysOneMore
<1>. HIDE DEF n
<1>4. c.headers = Pick(Said(more), Of(more, HeaderOps))
  BY <1>3 DEF Keeps, Takes
<1>5. c.query = Pick(Said(more), Of(more, QueryOps))
  BY <1>3 DEF Keeps, Takes
<1>6. \A ops : \A k \in Of(made, ops) : more[k] = made[k]
  BY <1>2 DEF Of
<1>7. c.secretHeaders = {Lower[more[k].name] : k \in Of(more, {"secret_header"})}
  <2>1. {Lower[more[k].name] : k \in Of(made, {"secret_header"})} = config.secretHeaders
    BY <1>6 DEF Keeps
  <2>2. CASE saying.op = "secret_header"
    <3>1. Of(more, {"secret_header"}) = Of(made, {"secret_header"}) \cup {n + 1}
      BY <1>3, <2>2
    <3>2. c.secretHeaders = config.secretHeaders \cup {Lower[more[n + 1].name]}
      BY <1>2, <2>2 DEF Takes
    <3>. QED BY <2>1, <3>1, <3>2
  <2>3. CASE saying.op # "secret_header"
    <3>1. Of(more, {"secret_header"}) = Of(made, {"secret_header"})
      BY <1>3, <2>3
    <3>. QED BY <2>1, <2>3, <3>1 DEF Takes
  <2>. QED BY <2>2, <2>3
<1>8. c.secretQuery = {more[k].name : k \in Of(more, {"secret_query"})}
  <2>1. {more[k].name : k \in Of(made, {"secret_query"})} = config.secretQuery
    BY <1>6 DEF Keeps
  <2>2. CASE saying.op = "secret_query"
    <3>1. Of(more, {"secret_query"}) = Of(made, {"secret_query"}) \cup {n + 1}
      BY <1>3, <2>2
    <3>2. c.secretQuery = config.secretQuery \cup {more[n + 1].name}
      BY <1>2, <2>2 DEF Takes
    <3>. QED BY <2>1, <3>1, <3>2
  <2>3. CASE saying.op # "secret_query"
    <3>1. Of(more, {"secret_query"}) = Of(made, {"secret_query"})
      BY <1>3, <2>3
    <3>. QED BY <2>1, <2>3, <3>1 DEF Takes
  <2>. QED BY <2>2, <2>3
<1>. QED BY <1>1, <1>4, <1>5, <1>7, <1>8 DEF Keeps

(* What is sent stays as it is, and nothing is configured once it is. *)
LEMMA CallsComeBefore ==
  ASSUME NEW saying, Record(saying), SentAsConfigured
  PROVE  SentAsConfigured'
BY DEF Record, SentAsConfigured

(* Each call of a builder keeps the invariant. *)
LEMMA CallKeepsInv ==
  ASSUME NEW saying, NEW c, AddressInv, Configure(saying, c),
         saying.op \in HeaderOps \cup QueryOps => saying.value = Fresh,
         Takes(c, config, saying)
  PROVE  AddressInv'
<1>1. Record(saying) /\ config' = c /\ Counted /\ Keeps(config, made) /\ SentAsConfigured
  BY DEF AddressInv, Configure
<1>2. Counted' /\ made' = Append(made, saying) /\ made \in Seq(Range(made))
  BY <1>1, Recorded DEF Counted
<1>3. Keeps(c, made')
  BY <1>1, <1>2, KeepsOn
<1>4. SentAsConfigured'
  BY <1>1, CallsComeBefore
<1>5. IsConfig(c)
  BY DEF Takes
<1>. QED BY <1>1, <1>2, <1>3, <1>4, <1>5 DEF AddressInv

(* What each builder makes of a configuration. *)
LEMMA HeaderTaken ==
  ASSUME NEW c, IsConfig(c), NEW name, NEW value
  PROVE  LET d == WithHeader(c, name, value)
         IN  /\ IsConfig(d) /\ d.headers = Append(c.headers, Pair(name, value))
             /\ d.query = c.query
             /\ d.secretHeaders = c.secretHeaders /\ d.secretQuery = c.secretQuery
<1>1. PICK longer : longer = Append(c.headers, Pair(name, value))
  OBVIOUS
<1>2. PICK d : d = [c EXCEPT !.headers = longer]
  OBVIOUS
<1>3. d = WithHeader(c, name, value)
  BY <1>1, <1>2 DEF WithHeader
<1>. QED BY <1>1, <1>2, <1>3 DEF IsConfig

LEMMA QueryTaken ==
  ASSUME NEW c, IsConfig(c), NEW name, NEW value
  PROVE  LET d == WithQuery(c, name, value)
         IN  /\ IsConfig(d) /\ d.query = Append(c.query, Pair(name, value))
             /\ d.headers = c.headers
             /\ d.secretHeaders = c.secretHeaders /\ d.secretQuery = c.secretQuery
<1>1. PICK longer : longer = Append(c.query, Pair(name, value))
  OBVIOUS
<1>2. PICK d : d = [c EXCEPT !.query = longer]
  OBVIOUS
<1>3. d = WithQuery(c, name, value)
  BY <1>1, <1>2 DEF WithQuery
<1>. QED BY <1>1, <1>2, <1>3 DEF IsConfig

LEMMA SecretHeaderTaken ==
  ASSUME NEW c, IsConfig(c), NEW name, NEW value
  PROVE  Takes(WithSecretHeader(c, name, value), c, Call("secret_header", name, value))
<1>1. PICK d : d = WithHeader(c, name, value)
  OBVIOUS
<1>2. /\ IsConfig(d) /\ d.headers = Append(c.headers, Pair(name, value)) /\ d.query = c.query
      /\ d.secretHeaders = c.secretHeaders /\ d.secretQuery = c.secretQuery
  BY <1>1, HeaderTaken
<1>3. PICK e : e = [d EXCEPT !.secretHeaders = @ \cup {Lower[name]}]
  OBVIOUS
<1>4. /\ IsConfig(e) /\ e.headers = d.headers /\ e.query = d.query
      /\ e.secretHeaders = d.secretHeaders \cup {Lower[name]} /\ e.secretQuery = d.secretQuery
  BY <1>2, <1>3 DEF IsConfig
<1>5. e = WithSecretHeader(c, name, value)
  BY <1>1, <1>3 DEF WithSecretHeader
<1>. QED BY <1>2, <1>4, <1>5 DEF Takes, Call, HeaderOps, QueryOps

LEMMA SecretQueryTaken ==
  ASSUME NEW c, IsConfig(c), NEW name, NEW value
  PROVE  Takes(WithSecretQuery(c, name, value), c, Call("secret_query", name, value))
<1>1. PICK d : d = WithQuery(c, name, value)
  OBVIOUS
<1>2. /\ IsConfig(d) /\ d.query = Append(c.query, Pair(name, value)) /\ d.headers = c.headers
      /\ d.secretHeaders = c.secretHeaders /\ d.secretQuery = c.secretQuery
  BY <1>1, QueryTaken
<1>3. PICK e : e = [d EXCEPT !.secretQuery = @ \cup {name}]
  OBVIOUS
<1>4. /\ IsConfig(e) /\ e.headers = d.headers /\ e.query = d.query
      /\ e.secretQuery = d.secretQuery \cup {name} /\ e.secretHeaders = d.secretHeaders
  BY <1>2, <1>3 DEF IsConfig
<1>5. e = WithSecretQuery(c, name, value)
  BY <1>1, <1>3 DEF WithSecretQuery
<1>. QED BY <1>2, <1>4, <1>5 DEF Takes, Call, HeaderOps, QueryOps

(* Posting keeps the invariant. *)
LEMMA PostKeepsInv ==
  ASSUME AddressInv, NEW stream \in BOOLEAN, NEW key \in {{}, {"key"}}, Post(stream, key)
  PROVE  AddressInv'
<1>1. /\ Counted /\ IsConfig(config) /\ Keeps(config, made)
      /\ config' = config /\ made' = made /\ concern' = concern
  BY DEF AddressInv, Post
<1>2. Counted' /\ IsConfig(config') /\ Keeps(config', made')
  BY <1>1 DEF Counted
<1>3. SentAsConfigured'
  BY <1>1 DEF Post, SentAsConfigured
<1>. QED BY <1>2, <1>3 DEF AddressInv

(* And so does each step. *)
LEMMA AddressGoesOn ==
  ASSUME AddressInv, [AddressNext]_addressVars
  PROVE  AddressInv'
<1>0. IsConfig(config) /\ Counted
  BY DEF AddressInv
<1>. USE DEF HeaderOps, QueryOps
<1>1. ASSUME NEW auth \in Auths, SetAuth(auth) PROVE AddressInv'
  <2>1. auth \in {Bearer, HeaderAuth(auth.name), QueryAuth(auth.name), NoAuth}
    BY AuthsAreKnown
  <2>2. Takes([config EXCEPT !.auth = auth], config, Call("auth", auth.name, auth.kind))
    BY <1>0, <2>1 DEF IsConfig, Takes, Call
  <2>3. Configure(Call("auth", auth.name, auth.kind), [config EXCEPT !.auth = auth])
    BY <1>1 DEF SetAuth
  <2>. QED BY <2>2, <2>3, CallKeepsInv DEF Call
<1>2. ASSUME NEW name, SetHeader(name) PROVE AddressInv'
  <2>1. Takes(WithHeader(config, name, Fresh), config, Call("header", name, Fresh))
    BY <1>0, HeaderTaken DEF Takes, Call
  <2>2. Configure(Call("header", name, Fresh), WithHeader(config, name, Fresh))
    BY <1>2 DEF SetHeader
  <2>. QED BY <2>1, <2>2, CallKeepsInv DEF Call
<1>3. ASSUME NEW name, SetSecretHeader(name) PROVE AddressInv'
  <2>1. Takes(WithSecretHeader(config, name, Fresh), config, Call("secret_header", name, Fresh))
    BY <1>0, SecretHeaderTaken
  <2>2. Configure(Call("secret_header", name, Fresh), WithSecretHeader(config, name, Fresh))
    BY <1>3 DEF SetSecretHeader
  <2>. QED BY <2>1, <2>2, CallKeepsInv DEF Call
<1>4. ASSUME NEW name, SetQuery(name) PROVE AddressInv'
  <2>1. Takes(WithQuery(config, name, Fresh), config, Call("query", name, Fresh))
    BY <1>0, QueryTaken DEF Takes, Call
  <2>2. Configure(Call("query", name, Fresh), WithQuery(config, name, Fresh))
    BY <1>4 DEF SetQuery
  <2>. QED BY <2>1, <2>2, CallKeepsInv DEF Call
<1>5. ASSUME NEW name, SetSecretQuery(name) PROVE AddressInv'
  <2>1. Takes(WithSecretQuery(config, name, Fresh), config, Call("secret_query", name, Fresh))
    BY <1>0, SecretQueryTaken
  <2>2. Configure(Call("secret_query", name, Fresh), WithSecretQuery(config, name, Fresh))
    BY <1>5 DEF SetSecretQuery
  <2>. QED BY <2>1, <2>2, CallKeepsInv DEF Call
<1>6. ASSUME SetPath PROVE AddressInv'
  <2>1. Takes([config EXCEPT !.path = {Fresh}], config, Call("path", "none", Fresh))
    BY <1>0 DEF IsConfig, Takes, Call
  <2>2. Configure(Call("path", "none", Fresh), [config EXCEPT !.path = {Fresh}])
    BY <1>6 DEF SetPath
  <2>. QED BY <2>1, <2>2, CallKeepsInv DEF Call
<1>7. ASSUME CallsAboutTheBody PROVE AddressInv'
  <2>1. PICK saying, shape, tokenField, defaultModel :
          /\ saying.op \notin {"header", "secret_header", "query", "secret_query"}
          /\ Configure(saying, [config EXCEPT !.body = shape, !.tokenField = tokenField,
                                            !.defaultModel = defaultModel])
    BY <1>7 DEF CallsAboutTheBody
  <2>2. PICK c : c = [config EXCEPT !.body = shape]
    OBVIOUS
  <2>3. PICK d : d = [c EXCEPT !.tokenField = tokenField]
    OBVIOUS
  <2>4. PICK e : e = [d EXCEPT !.defaultModel = defaultModel]
    OBVIOUS
  <2>5. /\ IsConfig(c) /\ c.headers = config.headers /\ c.query = config.query
        /\ c.secretHeaders = config.secretHeaders /\ c.secretQuery = config.secretQuery
    BY <1>0, <2>2 DEF IsConfig
  <2>6. /\ IsConfig(d) /\ d.headers = c.headers /\ d.query = c.query
        /\ d.secretHeaders = c.secretHeaders /\ d.secretQuery = c.secretQuery
    BY <2>3, <2>5 DEF IsConfig
  <2>7. /\ IsConfig(e) /\ e.headers = d.headers /\ e.query = d.query
        /\ e.secretHeaders = d.secretHeaders /\ e.secretQuery = d.secretQuery
    BY <2>4, <2>6 DEF IsConfig
  <2>8. Takes(e, config, saying)
    BY <2>1, <2>5, <2>6, <2>7 DEF Takes
  <2>9. Configure(saying, e)
    BY <2>1, <2>2, <2>3, <2>4
  <2>. QED BY <2>1, <2>8, <2>9, CallKeepsInv
<1>8. ASSUME Posts PROVE AddressInv'
  <2>1. PICK stream \in BOOLEAN :
          \/ Post(stream, {"key"})
          \/ Post(stream, {})
          \/ \E env : \E client \in FromEnv(config, env) : Post(stream, client.key)
    BY <1>8 DEF Posts, PostAsNew, PostWithoutKey, PostFromEnv
  <2>2. \A env : \A client \in FromEnv(config, env) : client.key \in {{}, {"key"}}
    BY DEF FromEnv
  <2>. QED BY <2>1, <2>2, PostKeepsInv
<1>9. ASSUME UNCHANGED addressVars PROVE AddressInv'
  BY <1>9 DEF addressVars, AddressInv, Counted, SentAsConfigured
<1>. QED BY <1>1, <1>2, <1>3, <1>4, <1>5, <1>6, <1>7, <1>8, <1>9 DEF AddressNext, CallsOfTheAddress

LEMMA AddressInvHolds == AddressSpec => []AddressInv
<1>1. AddressInit => AddressInv
  BY AddressStarts
<1>2. AddressInv /\ [AddressNext]_addressVars => AddressInv'
  BY AddressGoesOn
<1>. QED BY <1>1, <1>2, PTL DEF AddressSpec

-----------------------------------------------------------------------------
(* The headers *)

\* Which call said header k of the caller.
SaidBy(k) == Nth(Of(made, HeaderOps), k)

\* A list is the m headers required and the n the caller said, in this order.
LaidOut(all, required, m, n) ==
  /\ m \in Nat /\ n \in Nat /\ DOMAIN required = 1 .. m /\ DOMAIN all = 1 .. m + n
  /\ \A k \in 1 .. m : all[k] = required[k] /\ required[k].value = "required"
  /\ \A k \in 1 .. n : /\ SaidBy(k) \in Of(made, HeaderOps)
                       /\ all[m + k] = Pair(made[SaidBy(k)].name, made[SaidBy(k)].value)
  /\ \A i \in Of(made, HeaderOps) : \E k \in 1 .. n : SaidBy(k) = i
  /\ \A k, l \in 1 .. n : k < l <=> SaidBy(k) < SaidBy(l)

LEMMA AllHeadersAre ==
  ASSUME IsConfig(config), Counted, Keeps(config, made)
  PROVE  \E N, V, m, n : /\ AllHeaders(config) \in Seq(Pairs(N, V))
                         /\ LaidOut(AllHeaders(config), RequiredHeaders(config.dialect), m, n)
<1>. DEFINE S == Of(made, HeaderOps)
            N == NamesIn(made) \cup {"Api-Revision", "anthropic-version"}
            V == ValuesIn(made) \cup {"required"}
<1>1. PICK said, required, all : /\ said = config.headers
                                 /\ required = RequiredHeaders(config.dialect)
                                 /\ all = AllHeaders(config)
  OBVIOUS
<1>2. PICK C, calls : calls = made /\ calls \in Seq(C)
  BY DEF Counted
<1>3. /\ Said(made) \in Seq(Pairs(NamesIn(made), ValuesIn(made)))
      /\ DOMAIN Said(made) = DOMAIN made
      /\ S \in SUBSET DOMAIN made
  BY <1>2, SaidIs
<1>4. said = Pick(Said(made), S)
  BY <1>1 DEF Keeps
<1>. HIDE DEF S
<1>5. /\ said \in Seq(Pairs(NamesIn(made), ValuesIn(made)))
      /\ DOMAIN said = 1 .. Len(said)
      /\ \A k \in DOMAIN said : Nth(S, k) \in S /\ said[k] = Said(made)[Nth(S, k)]
      /\ \A i \in S : \E k \in DOMAIN said : Nth(S, k) = i
      /\ \A k, l \in DOMAIN said : k < l <=> Nth(S, k) < Nth(S, l)
  BY <1>3, <1>4, Picked
<1>6. \A k \in DOMAIN said : said[k] = Pair(made[Nth(S, k)].name, made[Nth(S, k)].value)
  <2>1. \A i \in DOMAIN made : Said(made)[i] = Pair(made[i].name, made[i].value)
    BY DEF Said
  <2>. QED BY <1>3, <1>5, <2>1
<1>7. PICK P : P = Pairs(N, V)
  OBVIOUS
<1>8. said \in Seq(P)
  <2>1. Pairs(NamesIn(made), ValuesIn(made)) \subseteq P
    BY <1>7 DEF Pairs
  <2>. QED BY <1>5, <2>1
<1>9. /\ required \in Seq(P)
      /\ \A k \in DOMAIN required : required[k].value = "required"
  <2>1. PICK a, b : a = Pair("Api-Revision", "required") /\ b = Pair("anthropic-version", "required")
    OBVIOUS
  <2>2. a \in P /\ b \in P /\ a.value = "required" /\ b.value = "required"
    BY <1>7, <2>1 DEF Pair, Pairs
  <2>3. required \in {<<>>, <<a>>, <<b>>}
    BY <1>1, <2>1 DEF RequiredHeaders, IsConfig, Dialects
  <2>4. <<>> \in Seq(P) /\ <<a>> \in Seq(P) /\ <<b>> \in Seq(P)
    BY <2>2
  <2>5. \A s \in {<<>>, <<a>>, <<b>>} : \A k \in DOMAIN s : s[k].value = "required"
    BY <2>2
  <2>. QED BY <2>3, <2>4, <2>5
<1>10. all = required \o said
  BY <1>1 DEF AllHeaders
<1>11. PICK m, n : m = Len(required) /\ n = Len(said)
  OBVIOUS
<1>12. /\ all \in Seq(P) /\ m \in Nat /\ n \in Nat
       /\ DOMAIN required = 1 .. m /\ DOMAIN said = 1 .. n
       /\ DOMAIN all = 1 .. m + n
       /\ \A k \in 1 .. m : all[k] = required[k]
       /\ \A k \in 1 .. n : all[m + k] = said[k]
  <2>1. all \in Seq(P) /\ IsEndedBy(all, required, said)
    BY <1>8, <1>9, <1>10, EndedWith
  <2>. QED BY <1>11, <2>1 DEF IsEndedBy
<1>13. LaidOut(all, required, m, n)
  <2>1. /\ \A k \in 1 .. n : /\ Nth(S, k) \in S
                             /\ all[m + k] = Pair(made[Nth(S, k)].name, made[Nth(S, k)].value)
        /\ \A i \in S : \E k \in 1 .. n : Nth(S, k) = i
        /\ \A k, l \in 1 .. n : k < l <=> Nth(S, k) < Nth(S, l)
    BY <1>5, <1>6, <1>12
  <2>2. \A k \in 1 .. m : all[k] = required[k] /\ required[k].value = "required"
    BY <1>9, <1>12
  <2>. QED BY <1>12, <2>1, <2>2 DEF LaidOut, SaidBy, S
<1>. QED BY <1>1, <1>7, <1>12, <1>13

(* The last of the headers of a name is that of the caller's last call of it, and
   the one required if there is no such call. *)
LEMMA LastIsSaid ==
  ASSUME NEW all, NEW required, NEW m, NEW n, LaidOut(all, required, m, n),
         made \in Seq(Range(made)),
         NEW name, NEW i \in Named(all, name), \A l \in Named(all, name) : l <= i,
         NEW calls, calls = {k \in Of(made, HeaderOps) : Lower[made[k].name] = Lower[name]}
  PROVE  /\ \A last \in calls : (\A l \in calls : l <= last) => all[i].value = made[last].value
         /\ calls = {} => all[i].value = "required"
<1>1. /\ m \in Nat /\ n \in Nat /\ DOMAIN required = 1 .. m /\ DOMAIN all = 1 .. m + n
      /\ \A k \in 1 .. m : all[k] = required[k] /\ required[k].value = "required"
      /\ \A k \in 1 .. n : /\ SaidBy(k) \in Of(made, HeaderOps)
                           /\ all[m + k] = Pair(made[SaidBy(k)].name, made[SaidBy(k)].value)
      /\ \A h \in Of(made, HeaderOps) : \E k \in 1 .. n : SaidBy(k) = h
      /\ \A k, l \in 1 .. n : k < l <=> SaidBy(k) < SaidBy(l)
  BY DEF LaidOut
<1>2. i \in 1 .. m + n /\ Lower[all[i].name] = Lower[name]
  BY <1>1 DEF Named
<1>3. \A k \in 1 .. n : /\ m + k \in DOMAIN all /\ m + k > m
                        /\ all[m + k].name = made[SaidBy(k)].name
                        /\ all[m + k].value = made[SaidBy(k)].value
  <2>1. \A k \in 1 .. n : m + k \in 1 .. m + n /\ m + k > m
    BY <1>1
  <2>2. \A k \in 1 .. n : /\ all[m + k].name = made[SaidBy(k)].name
                          /\ all[m + k].value = made[SaidBy(k)].value
    <3>. TAKE k \in 1 .. n
    <3>1. PICK pair : pair = all[m + k]
      OBVIOUS
    <3>2. pair = Pair(made[SaidBy(k)].name, made[SaidBy(k)].value)
      BY <1>1, <3>1
    <3>3. pair.name = made[SaidBy(k)].name /\ pair.value = made[SaidBy(k)].value
      BY <3>2 DEF Pair
    <3>. QED BY <3>1, <3>3
  <2>. QED BY <1>1, <2>1, <2>2
<1>4. \A k \in 1 .. n : SaidBy(k) \in Int
  BY <1>1 DEF Of
<1>5. ASSUME NEW last \in calls, \A l \in calls : l <= last PROVE all[i].value = made[last].value
  <2>1. PICK k \in 1 .. n : SaidBy(k) = last
    BY <1>1
  <2>2. m + k \in Named(all, name)
    BY <1>3, <2>1 DEF Named
  <2>3. m + k <= i
    BY <2>2
  <2>4. PICK l : l = i - m
    OBVIOUS
  <2>5. l \in 1 .. n /\ m + l = i /\ k <= l
    <3>1. m \in Nat /\ n \in Nat /\ i \in 1 .. m + n /\ k \in 1 .. n
      BY <1>1, <1>2
    <3>. QED BY <3>1, <2>3, <2>4
  <2>6. SaidBy(l) \in calls
    BY <1>1, <1>2, <1>3, <2>5
  <2>7. SaidBy(l) <= SaidBy(k)
    BY <1>5, <2>1, <2>6
  <2>8. ~(k < l)
    <3>1. SaidBy(k) \in Int /\ SaidBy(l) \in Int /\ (k < l <=> SaidBy(k) < SaidBy(l))
      BY <1>1, <1>4, <2>5
    <3>. QED BY <3>1, <2>7
  <2>9. k = l
    BY <2>5, <2>8
  <2>. QED BY <1>3, <2>1, <2>5, <2>9
<1>6. ASSUME calls = {} PROVE all[i].value = "required"
  <2>1. CASE i \in 1 .. m
    BY <1>1, <2>1
  <2>2. CASE i \notin 1 .. m
    <3>1. PICK l : l = i - m
      OBVIOUS
    <3>2. l \in 1 .. n /\ m + l = i
      BY <1>1, <1>2, <2>2, <3>1
    <3>3. SaidBy(l) \in calls
      BY <1>1, <1>2, <1>3, <3>2
    <3>. QED BY <1>6, <3>3
  <2>. QED BY <2>1, <2>2
<1>. QED BY <1>5, <1>6

\* What goes out is what is resolved, and the credential behind it.
AppliedTo(out, resolved, key) ==
  /\ Len(resolved) \in Nat /\ DOMAIN resolved = 1 .. Len(resolved)
  /\ \A k \in DOMAIN resolved :
       out[k] = Header(resolved[k].name, resolved[k].value, IsSecretHeader(config, resolved[k].name))
  /\ Reserved(config, key) = {} => DOMAIN out = DOMAIN resolved
  /\ Reserved(config, key) # {} => /\ DOMAIN out = 1 .. Len(resolved) + 1
                                   /\ out[Len(resolved) + 1] = Header(config.auth.name, "key", TRUE)

LEMMA HeadersAreApplied ==
  ASSUME NEW N, NEW V, NEW resolved \in Seq(Pairs(N, V)), NEW key,
         resolved = ResolvedHeaders(config, key)
  PROVE  AppliedTo(ApplyHeaders(config, key), resolved, key)
<1>. DEFINE H(k)  == Header(resolved[k].name, resolved[k].value,
                            IsSecretHeader(config, resolved[k].name))
            front == [k \in DOMAIN resolved |-> H(k)]
            tail  == IF Reserved(config, key) = {} THEN <<>>
                     ELSE <<Header(config.auth.name, "key", TRUE)>>
            T     == {H(k) : k \in DOMAIN resolved} \cup {Header(config.auth.name, "key", TRUE)}
<1>1. PICK n \in Nat : n = Len(resolved) /\ DOMAIN resolved = 1 .. n
  OBVIOUS
<1>2. ApplyHeaders(config, key) = front \o tail
  BY DEF ApplyHeaders
<1>3. /\ DOMAIN front = 1 .. n /\ \A k \in 1 .. n : front[k] = H(k)
      /\ front \in [1 .. n -> T]
  BY <1>1
<1>4. Header(config.auth.name, "key", TRUE) \in T
  OBVIOUS
<1>. HIDE DEF H, front, T
<1>5. PICK f, t : f = front /\ t = tail
  OBVIOUS
<1>6. /\ f \in Seq(T) /\ Len(f) = n /\ DOMAIN f = 1 .. n
      /\ \A k \in 1 .. n : f[k] = H(k)
  BY <1>3, <1>5
<1>7. /\ t \in Seq(T)
      /\ Reserved(config, key) = {} => Len(t) = 0
      /\ Reserved(config, key) # {} => Len(t) = 1 /\ t[1] = Header(config.auth.name, "key", TRUE)
  <2>1. CASE Reserved(config, key) = {}
    BY <1>5, <2>1
  <2>2. CASE Reserved(config, key) # {}
    <3>1. PICK h : h = Header(config.auth.name, "key", TRUE)
      OBVIOUS
    <3>2. t = <<h>> /\ h \in T
      BY <1>4, <1>5, <2>2, <3>1
    <3>3. t \in Seq(T) /\ Len(t) = 1 /\ t[1] = h
      BY <3>2
    <3>. QED BY <2>2, <3>1, <3>3
  <2>. QED BY <2>1, <2>2
<1>. HIDE DEF tail
<1>8. PICK out : out = f \o t
  OBVIOUS
<1>9. /\ Reserved(config, key) = {} => DOMAIN out = 1 .. n
      /\ Reserved(config, key) # {} => /\ DOMAIN out = 1 .. n + 1
                                       /\ out[n + 1] = Header(config.auth.name, "key", TRUE)
      /\ \A k \in 1 .. n : out[k] = H(k)
  <2>1. IsEndedBy(out, f, t)
    BY <1>6, <1>7, <1>8, EndedWith
  <2>2. /\ DOMAIN out = 1 .. n + Len(t) /\ DOMAIN t = 1 .. Len(t)
        /\ \A k \in 1 .. n : out[k] = f[k]
        /\ \A k \in DOMAIN t : out[n + k] = t[k]
    BY <1>6, <2>1 DEF IsEndedBy
  <2>3. ASSUME Reserved(config, key) # {}
        PROVE  DOMAIN out = 1 .. n + 1 /\ out[n + 1] = Header(config.auth.name, "key", TRUE)
    <3>1. Len(t) = 1 /\ t[1] = Header(config.auth.name, "key", TRUE)
      BY <1>7, <2>3
    <3>2. 1 \in DOMAIN t /\ DOMAIN out = 1 .. n + 1
      BY <2>2, <3>1
    <3>. QED BY <2>2, <3>1, <3>2
  <2>4. ASSUME Reserved(config, key) = {} PROVE DOMAIN out = 1 .. n
    <3>1. Len(t) = 0
      BY <1>7, <2>4
    <3>. QED BY <2>2, <3>1
  <2>. QED BY <1>6, <2>2, <2>3, <2>4
<1>10. AppliedTo(out, resolved, key)
  BY <1>1, <1>9 DEF AppliedTo, H
<1>. QED BY <1>2, <1>5, <1>8, <1>10

(* However they are named, headers go out once each (HeadersGoOutOnce, resolved_headers). *)
LEMMA InvGivesHeaders == AddressInv => HeadersGoOutOnce
<1>. SUFFICES ASSUME AddressInv, sent.done PROVE HeadersGoOutOnce
  BY DEF HeadersGoOutOnce
<1>. DEFINE holder(name) == Named(sent.headers, name)
            calls(name)  == {k \in DOMAIN made : /\ made[k].op \in {"header", "secret_header"}
                                                 /\ Lower[made[k].name] = Lower[name]}
            taken(name)  == /\ sent.key # {} /\ config.auth.kind \in {"bearer", "header"}
                            /\ Lower[name] = Lower[config.auth.name]
            carries(name, value) ==
              \E k \in DOMAIN sent.headers : holder(name) = {k} /\ sent.headers[k].value = value
<1>0. ASSUME NEW name
      PROVE  calls(name) = {k \in Of(made, HeaderOps) : Lower[made[k].name] = Lower[name]}
  BY DEF Of, HeaderOps
<1>1. /\ IsConfig(config) /\ Counted /\ Keeps(config, made)
      /\ sent.headers = ApplyHeaders(config, sent.key)
      /\ made \in Seq(Range(made))
  BY DEF AddressInv, SentAsConfigured, Counted
<1>2. PICK all, required, out, resolved :
        /\ all = AllHeaders(config) /\ required = RequiredHeaders(config.dialect)
        /\ out = sent.headers /\ resolved = ResolvedHeaders(config, sent.key)
  OBVIOUS
<1>3. PICK N, V, m, n : all \in Seq(Pairs(N, V)) /\ LaidOut(all, required, m, n)
  BY <1>1, <1>2, AllHeadersAre
<1>4. PICK reserved : reserved = Reserved(config, sent.key)
  OBVIOUS
<1>5. resolved = Pick(all, LastOfName(all, reserved))
  BY <1>2, <1>4 DEF ResolvedHeaders
<1>6. /\ resolved \in Seq(Pairs(N, V))
      /\ \A k \in DOMAIN resolved : /\ Lower[resolved[k].name] \notin reserved
                                    /\ \E i \in DOMAIN all : resolved[k] = all[i]
      /\ \A name : \A i \in Named(all, name) :
           Lower[name] \notin reserved /\ (\A l \in Named(all, name) : l <= i)
             => \E k \in DOMAIN resolved : Named(resolved, name) = {k} /\ resolved[k] = all[i]
  BY <1>3, <1>5, LastIsKept
<1>7. AppliedTo(out, resolved, sent.key)
  BY <1>1, <1>2, <1>6, HeadersAreApplied
<1>8. PICK r \in Nat : r = Len(resolved) /\ DOMAIN resolved = 1 .. r
  BY <1>6
<1>9. /\ \A k \in 1 .. r : out[k].name = resolved[k].name /\ out[k].value = resolved[k].value
      /\ reserved = {} => DOMAIN out = 1 .. r
      /\ reserved # {} => /\ DOMAIN out = 1 .. r + 1
                          /\ out[r + 1].name = config.auth.name /\ out[r + 1].value = "key"
      /\ \A name : taken(name) <=> Lower[name] \in reserved
  <2>1. \A name, value, sensitive : /\ Header(name, value, sensitive).name = name
                                    /\ Header(name, value, sensitive).value = value
    BY DEF Header
  <2>2. /\ \A k \in 1 .. r :
             out[k] = Header(resolved[k].name, resolved[k].value,
                             IsSecretHeader(config, resolved[k].name))
        /\ reserved = {} => DOMAIN out = 1 .. r
        /\ reserved # {} => /\ DOMAIN out = 1 .. r + 1
                            /\ out[r + 1] = Header(config.auth.name, "key", TRUE)
    BY <1>4, <1>7, <1>8 DEF AppliedTo
  <2>3. \A name : taken(name) <=> Lower[name] \in reserved
    BY <1>4 DEF Reserved
  <2>4. \A k \in 1 .. r : out[k].name = resolved[k].name /\ out[k].value = resolved[k].value
    BY <2>1, <2>2
  <2>5. ASSUME reserved # {} PROVE out[r + 1].name = config.auth.name /\ out[r + 1].value = "key"
    <3>1. PICK h : h = Header(config.auth.name, "key", TRUE)
      OBVIOUS
    <3>2. out[r + 1] = h
      BY <2>2, <2>5, <3>1
    <3>3. h.name = config.auth.name /\ h.value = "key"
      BY <3>1 DEF Header
    <3>. QED BY <3>2, <3>3
  <2>. HIDE DEF taken
  <2>. QED BY <2>2, <2>3, <2>4, <2>5
<1>. HIDE DEF taken
<1>10. ASSUME NEW name, taken(name) PROVE carries(name, "key")
  <2>1. reserved # {} /\ Lower[name] = Lower[config.auth.name] /\ Lower[name] \in reserved
    BY <1>9, <1>10 DEF taken
  <2>2. r + 1 \in holder(name)
    BY <1>2, <1>9, <2>1 DEF Named
  <2>3. \A k \in 1 .. r : k \notin holder(name)
    BY <1>2, <1>6, <1>8, <1>9, <2>1 DEF Named
  <2>4. holder(name) \subseteq 1 .. r + 1
    BY <1>2, <1>9, <2>1 DEF Named
  <2>5. holder(name) = {r + 1}
    BY <2>2, <2>3, <2>4
  <2>6. r + 1 \in DOMAIN sent.headers /\ sent.headers[r + 1].value = "key"
    BY <1>2, <1>9, <2>1
  <2>. QED BY <2>5, <2>6
<1>11. ASSUME NEW name, ~taken(name) PROVE holder(name) = Named(resolved, name)
  <2>1. \A k \in 1 .. r : k \in holder(name) <=> k \in Named(resolved, name)
    BY <1>2, <1>8, <1>9 DEF Named
  <2>2. Named(resolved, name) \subseteq 1 .. r
    BY <1>8 DEF Named
  <2>3. ASSUME NEW k \in holder(name) PROVE k \in 1 .. r
    <3>1. k \in DOMAIN out /\ Lower[out[k].name] = Lower[name]
      BY <1>2 DEF Named
    <3>2. CASE reserved = {}
      BY <1>9, <3>1, <3>2
    <3>3. CASE reserved # {}
      <4>1. k # r + 1
        <5>1. reserved = {Lower[config.auth.name]}
          BY <1>4, <3>3 DEF Reserved
        <5>2. Lower[name] # Lower[config.auth.name]
          BY <1>9, <1>11, <5>1
        <5>. QED BY <1>9, <3>1, <3>3, <5>2
      <4>. QED BY <1>9, <3>1, <3>3, <4>1
    <3>. QED BY <3>2, <3>3
  <2>. QED BY <2>1, <2>2, <2>3
<1>12. ASSUME NEW name, ~taken(name), Named(all, name) # {}
       PROVE  \E i \in Named(all, name) : /\ carries(name, all[i].value)
                                          /\ \A l \in Named(all, name) : l <= i
  <2>1. PICK i \in Named(all, name) : \A l \in Named(all, name) : l <= i
    BY <1>3, <1>12, LastIsThere
  <2>2. PICK k \in DOMAIN resolved : Named(resolved, name) = {k} /\ resolved[k] = all[i]
    BY <1>6, <1>9, <1>12, <2>1
  <2>3. holder(name) = {k}
    BY <1>11, <1>12, <2>2
  <2>4. k \in DOMAIN sent.headers /\ sent.headers[k].value = all[i].value
    BY <1>2, <1>8, <1>9, <2>2, <2>3 DEF Named
  <2>. QED BY <2>1, <2>3, <2>4
<1>13. ASSUME NEW name, ~taken(name), NEW last \in calls(name), \A l \in calls(name) : l <= last
       PROVE  carries(name, made[last].value)
  <2>1. Named(all, name) # {}
    <3>0. last \in Of(made, HeaderOps) /\ Lower[made[last].name] = Lower[name]
      BY <1>0, <1>13
    <3>1. PICK k \in 1 .. n : SaidBy(k) = last /\ all[m + k] = Pair(made[last].name, made[last].value)
      <4>1. PICK k \in 1 .. n : SaidBy(k) = last
        BY <1>3, <3>0 DEF LaidOut
      <4>2. all[m + k] = Pair(made[SaidBy(k)].name, made[SaidBy(k)].value)
        BY <1>3 DEF LaidOut
      <4>. QED BY <4>1, <4>2
    <3>2. m + k \in DOMAIN all
      BY <1>3 DEF LaidOut
    <3>3. PICK pair : pair = all[m + k]
      OBVIOUS
    <3>4. pair.name = made[last].name
      BY <3>1, <3>3 DEF Pair
    <3>. QED BY <3>0, <3>2, <3>3, <3>4 DEF Named
  <2>2. PICK i \in Named(all, name) : /\ carries(name, all[i].value)
                                      /\ \A l \in Named(all, name) : l <= i
    BY <1>12, <1>13, <2>1
  <2>3. all[i].value = made[last].value
    <3>1. PICK C : C = calls(name)
      OBVIOUS
    <3>2. C = {k \in Of(made, HeaderOps) : Lower[made[k].name] = Lower[name]}
      BY <1>0, <3>1
    <3>3. last \in C /\ \A l \in C : l <= last
      BY <1>13, <3>1
    <3>4. \A l \in Named(all, name) : l <= i
      BY <2>2
    <3>5. LaidOut(all, required, m, n) /\ made \in Seq(Range(made))
      BY <1>1, <1>3
    <3>. HIDE DEF calls, carries
    <3>. QED BY <3>2, <3>3, <3>4, <3>5, LastIsSaid
  <2>. QED BY <2>2, <2>3
<1>14. ASSUME NEW name, ~taken(name), calls(name) = {}, NEW j \in holder(name)
       PROVE  holder(name) = {j} /\ sent.headers[j].value = "required"
  <2>1. j \in DOMAIN resolved /\ Lower[resolved[j].name] = Lower[name]
    BY <1>11, <1>14 DEF Named
  <2>2. Named(all, name) # {}
    BY <1>6, <2>1 DEF Named
  <2>3. PICK i \in Named(all, name) : /\ carries(name, all[i].value)
                                      /\ \A l \in Named(all, name) : l <= i
    BY <1>12, <1>14, <2>2
  <2>4. all[i].value = "required"
    <3>1. PICK C : C = calls(name)
      OBVIOUS
    <3>2. C = {k \in Of(made, HeaderOps) : Lower[made[k].name] = Lower[name]}
      BY <1>0, <3>1
    <3>. QED BY <1>1, <1>3, <1>14, <2>3, <3>1, <3>2, LastIsSaid
  <2>. QED BY <1>14, <2>3, <2>4
<1>15. ASSUME NEW k \in DOMAIN required PROVE holder(required[k].name) # {}
  <2>1. CASE taken(required[k].name)
    BY <1>10, <2>1
  <2>2. CASE ~taken(required[k].name)
    <3>1. k \in DOMAIN all /\ all[k] = required[k]
      BY <1>3 DEF LaidOut
    <3>2. k \in Named(all, required[k].name)
      BY <3>1 DEF Named
    <3>. QED BY <1>12, <2>2, <3>2
  <2>. QED BY <2>1, <2>2
<1>16. ASSUME NEW name, calls(name) # {}
       PROVE  \E last \in calls(name) : \A l \in calls(name) : l <= last
  <2>1. Len(made) \in Nat /\ calls(name) \in SUBSET (0 .. Len(made))
    BY <1>1 DEF Of
  <2>. QED BY <1>16, <2>1, BoundedSetHasAGreatest
<1>17. ASSUME NEW name, ~taken(name), calls(name) # {}
       PROVE  carries(name, made[CHOOSE k \in calls(name) : \A l \in calls(name) : l <= k].value)
  <2>1. PICK last : last = CHOOSE k \in calls(name) : \A l \in calls(name) : l <= k
    OBVIOUS
  <2>2. last \in calls(name) /\ \A l \in calls(name) : l <= last
    BY <1>16, <1>17, <2>1
  <2>3. carries(name, made[last].value)
    BY <1>13, <1>17, <2>2
  <2>. QED BY <2>1, <2>3
<1>18. taken(config.auth.name) => carries(config.auth.name, "key")
  BY <1>10
<1>. HIDE DEF carries, calls, holder
<1>19. ASSUME NEW name
       PROVE  CASE taken(name) -> carries(name, "key")
                [] ~taken(name) /\ calls(name) # {} ->
                     carries(name, made[CHOOSE k \in calls(name) : \A l \in calls(name) : l <= k].value)
                [] OTHER -> \A k \in holder(name) : holder(name) = {k} /\ sent.headers[k].value = "required"
  BY <1>10, <1>14, <1>17
<1>20. \A k \in DOMAIN RequiredHeaders(config.dialect) :
         holder(RequiredHeaders(config.dialect)[k].name) # {}
  BY <1>2, <1>15
<1>. QED BY <1>18, <1>19, <1>20 DEF HeadersGoOutOnce, carries, calls, holder, taken, Named

THEOREM HeadersAlwaysGoOutOnce == AddressSpec => []HeadersGoOutOnce
BY AddressInvHolds, InvGivesHeaders, PTL

-----------------------------------------------------------------------------
(* The address *)

\* What a parameter of the configuration reads as.
Reads(k, reveal) ==
  Pair(config.query[k].name,
       Withheld(config.query[k].value, ~reveal /\ IsSecretQuery(config, config.query[k].name)))

\* A query is the b parameters of the base, the n said, and the dialect's own.
QueryIs(query, extra, reveal, b, n) ==
  /\ b \in Nat /\ n \in Nat /\ Len(extra) \in Nat
  /\ DOMAIN BaseParts.query = 1 .. b /\ DOMAIN config.query = 1 .. n
  /\ DOMAIN query = 1 .. b + n + Len(extra)
  /\ \A k \in 1 .. b : query[k] = BaseParts.query[k]
  /\ \A k \in 1 .. n : query[b + k] = Reads(k, reveal)
  /\ \A k \in 1 .. Len(extra) : query[b + n + k] = extra[k]

\* The names and values there are.
BaseNames  == {pair.name : pair \in Range(BaseParts.query)}
BaseValues == ValuesOf(BaseParts.query) \ {"key"}
AnyName    == BaseNames \cup NamesIn(made) \cup {"alt", config.auth.name}
AnyValue   == BaseValues \cup ValuesIn(made) \cup {"sse", "REDACTED", "key"}

(* What is kept of the calls of some kind is what they brought. *)
LEMMA WhatIsSaid ==
  ASSUME Counted, NEW ops, NEW said, said = Pick(Said(made), Of(made, ops))
  PROVE  /\ said \in Seq(Pairs(NamesIn(made), ValuesIn(made)))
         /\ \A k \in DOMAIN said :
              \E i \in Of(made, ops) : said[k].name = made[i].name /\ said[k].value = made[i].value
         /\ \A i \in Of(made, ops) : \E k \in DOMAIN said :
              said[k].name = made[i].name /\ said[k].value = made[i].value
<1>1. PICK S : S = Of(made, ops)
  OBVIOUS
<1>2. PICK C, calls : calls = made /\ calls \in Seq(C)
  BY DEF Counted
<1>3. /\ Said(made) \in Seq(Pairs(NamesIn(made), ValuesIn(made)))
      /\ DOMAIN Said(made) = DOMAIN made
      /\ S \in SUBSET DOMAIN made
  BY <1>1, <1>2, SaidIs
<1>4. said = Pick(Said(made), S)
  BY <1>1
<1>5. /\ said \in Seq(Pairs(NamesIn(made), ValuesIn(made)))
      /\ \A k \in DOMAIN said : Nth(S, k) \in S /\ said[k] = Said(made)[Nth(S, k)]
      /\ \A i \in S : \E k \in DOMAIN said : Nth(S, k) = i
  BY <1>3, <1>4, Picked
<1>6. \A i \in DOMAIN made : Said(made)[i].name = made[i].name /\ Said(made)[i].value = made[i].value
  BY DEF Said, Pair
<1>7. \A k \in DOMAIN said : \E i \in S : said[k].name = made[i].name /\ said[k].value = made[i].value
  BY <1>3, <1>5, <1>6
<1>8. \A i \in S : \E k \in DOMAIN said : said[k].name = made[i].name /\ said[k].value = made[i].value
  BY <1>3, <1>5, <1>6
<1>. QED BY <1>1, <1>5, <1>7, <1>8

LEMMA QueriesAreBuilt ==
  ASSUME Counted, Keeps(config, made), BaseParts.parses, NEW reveal \in BOOLEAN, NEW stream,
         NEW extra, extra = StreamExtra(config, stream),
         NEW query, query = BuildUrl(config, extra, reveal).query
  PROVE  /\ query \in Seq(Pairs(AnyName, AnyValue)) /\ extra \in {<<>>, <<Pair("alt", "sse")>>}
         /\ QueryIs(query, extra, reveal, Len(BaseParts.query), Len(config.query))
<1>. DEFINE shown(pair) ==
              Pair(pair.name, Withheld(pair.value, ~reveal /\ IsSecretQuery(config, pair.name)))
<1>1. PICK base, said : base = BaseParts.query /\ said = config.query
  OBVIOUS
<1>2. PICK P : P = Pairs(AnyName, AnyValue)
  OBVIOUS
<1>3. base \in Seq(P)
  <2>1. PICK B : B = [name : BaseNames, value : BaseValues]
    OBVIOUS
  <2>2. base \in Seq(B)
    BY <1>1, <2>1, ValuesTellCallsApart DEF BaseNames, BaseValues
  <2>3. B \subseteq P
    BY <1>2, <2>1 DEF Pairs, AnyName, AnyValue
  <2>. QED BY <2>2, <2>3
<1>4. said \in Seq(Pairs(NamesIn(made), ValuesIn(made)))
  BY <1>1, WhatIsSaid DEF Keeps
<1>5. PICK n \in Nat : n = Len(said) /\ DOMAIN said = 1 .. n
  BY <1>4
<1>6. PICK mid : mid = [k \in DOMAIN said |-> shown(said[k])]
  OBVIOUS
<1>7. /\ mid \in Seq(P) /\ Len(mid) = n /\ DOMAIN mid = 1 .. n
      /\ \A k \in 1 .. n : mid[k] = Reads(k, reveal)
  <2>1. \A k \in 1 .. n : said[k].name \in NamesIn(made) /\ said[k].value \in ValuesIn(made)
    <3>1. \A k \in 1 .. n : said[k] \in Pairs(NamesIn(made), ValuesIn(made))
      BY <1>4, <1>5
    <3>. QED BY <3>1 DEF Pairs
  <2>2. \A value, secret : Withheld(value, secret) \in {value, "REDACTED"}
    BY DEF Withheld
  <2>3. ASSUME NEW k \in 1 .. n PROVE shown(said[k]) \in P
    <3>1. PICK v : v = Withheld(said[k].value, ~reveal /\ IsSecretQuery(config, said[k].name))
      OBVIOUS
    <3>2. v \in AnyValue /\ said[k].name \in AnyName
      <4>1. v \in {said[k].value, "REDACTED"}
        BY <3>1 DEF Withheld
      <4>. QED BY <2>1, <4>1 DEF AnyName, AnyValue
    <3>3. shown(said[k]) = Pair(said[k].name, v)
      BY <3>1
    <3>. QED BY <1>2, <3>2, <3>3 DEF Pair, Pairs
  <2>4. \A k \in 1 .. n : shown(said[k]) = Reads(k, reveal)
    BY <1>1 DEF Reads
  <2>. HIDE DEF shown
  <2>5. mid \in [1 .. n -> P] /\ \A k \in 1 .. n : mid[k] = shown(said[k])
    BY <1>5, <1>6, <2>3
  <2>6. mid \in Seq(P) /\ Len(mid) = n
    BY <2>5
  <2>. QED BY <2>4, <2>5, <2>6
<1>8. extra \in Seq(P)
  <2>1. PICK alt : alt = Pair("alt", "sse")
    OBVIOUS
  <2>2. extra \in {<<>>, <<alt>>}
    BY <1>1, <2>1 DEF StreamExtra, StreamQuery
  <2>3. alt \in P
    BY <1>2, <2>1 DEF Pair, Pairs, AnyName, AnyValue
  <2>4. <<>> \in Seq(P)
    OBVIOUS
  <2>5. <<alt>> \in Seq(P)
    BY <2>3
  <2>. QED BY <2>2, <2>4, <2>5
<1>9. PICK front : front = base \o mid /\ query = front \o extra
  BY <1>1, <1>6 DEF BuildUrl
<1>10. front \in Seq(P) /\ IsEndedBy(front, base, mid)
  BY <1>3, <1>7, <1>9, EndedWith
<1>11. query \in Seq(P) /\ IsEndedBy(query, front, extra)
  BY <1>8, <1>9, <1>10, EndedWith
<1>12. PICK b \in Nat : b = Len(base) /\ DOMAIN base = 1 .. b
  BY <1>3
<1>13. QueryIs(query, extra, reveal, b, n)
  <2>1. /\ DOMAIN front = 1 .. b + n
        /\ \A k \in 1 .. b : front[k] = base[k]
        /\ \A k \in 1 .. n : front[b + k] = mid[k]
    BY <1>7, <1>10, <1>12 DEF IsEndedBy
  <2>2. Len(front) = b + n
    BY <1>10, <2>1 DEF IsEndedBy
  <2>3. /\ Len(extra) \in Nat /\ DOMAIN query = 1 .. b + n + Len(extra)
        /\ \A k \in 1 .. b + n : query[k] = front[k]
        /\ \A k \in 1 .. Len(extra) : query[b + n + k] = extra[k]
    BY <1>11, <2>1, <2>2 DEF IsEndedBy
  <2>4. /\ \A k \in 1 .. b : k \in 1 .. b + n
        /\ \A k \in 1 .. n : b + k \in 1 .. b + n
    OBVIOUS
  <2>5. \A k \in 1 .. b : query[k] = BaseParts.query[k]
    BY <1>1, <2>1, <2>3, <2>4
  <2>6. \A k \in 1 .. n : query[b + k] = Reads(k, reveal)
    <3>. TAKE k \in 1 .. n
    <3>1. query[b + k] = front[b + k]
      BY <2>3, <2>4
    <3>2. front[b + k] = mid[k]
      BY <2>1
    <3>3. mid[k] = Reads(k, reveal)
      BY <1>7
    <3>. QED BY <3>1, <3>2, <3>3
  <2>7. DOMAIN BaseParts.query = 1 .. b /\ DOMAIN config.query = 1 .. n
    BY <1>1, <1>5, <1>12
  <2>. QED BY <2>3, <2>5, <2>6, <2>7 DEF QueryIs
<1>14. extra \in {<<>>, <<Pair("alt", "sse")>>}
  BY DEF StreamExtra, StreamQuery
<1>. QED BY <1>1, <1>2, <1>5, <1>11, <1>12, <1>13, <1>14

(* What is printed of the address is what is sent but for the values withheld. *)
LEMMA PrintedLikeSent ==
  ASSUME Counted, Keeps(config, made), BaseParts.parses, NEW stream,
         NEW printed, printed = PrintedUrl(config, stream).query,
         NEW query, query = SendUrl(config, stream).query
  PROVE  /\ printed \in Seq(Pairs(AnyName, AnyValue)) /\ query \in Seq(Pairs(AnyName, AnyValue))
         /\ DOMAIN printed = DOMAIN query
         /\ \A k \in DOMAIN printed : /\ printed[k].name = query[k].name
                                      /\ printed[k].value \in {query[k].value, "REDACTED"}
<1>1. PICK extra, b, n : /\ extra = StreamExtra(config, stream)
                         /\ b = Len(BaseParts.query) /\ n = Len(config.query)
  OBVIOUS
<1>2. printed \in Seq(Pairs(AnyName, AnyValue)) /\ QueryIs(printed, extra, FALSE, b, n)
  BY <1>1, QueriesAreBuilt DEF PrintedUrl
<1>3. query \in Seq(Pairs(AnyName, AnyValue)) /\ QueryIs(query, extra, TRUE, b, n)
  BY <1>1, QueriesAreBuilt DEF SendUrl
<1>4. PICK e : e = Len(extra)
  OBVIOUS
<1>5. /\ b \in Nat /\ n \in Nat /\ e \in Nat
      /\ DOMAIN printed = 1 .. b + n + e /\ DOMAIN query = 1 .. b + n + e
      /\ \A k \in 1 .. b : printed[k] = query[k]
      /\ \A k \in 1 .. e : printed[b + n + k] = query[b + n + k]
      /\ \A k \in 1 .. n : printed[b + k] = Reads(k, FALSE) /\ query[b + k] = Reads(k, TRUE)
  <2>1. /\ b \in Nat /\ n \in Nat /\ e \in Nat
        /\ DOMAIN printed = 1 .. b + n + e /\ DOMAIN query = 1 .. b + n + e
    BY <1>2, <1>3, <1>4 DEF QueryIs
  <2>2. /\ \A k \in 1 .. b : printed[k] = query[k]
        /\ \A k \in 1 .. n : printed[b + k] = Reads(k, FALSE) /\ query[b + k] = Reads(k, TRUE)
    BY <1>2, <1>3 DEF QueryIs
  <2>3. \A k \in 1 .. e : printed[b + n + k] = query[b + n + k]
    BY <1>2, <1>3, <1>4 DEF QueryIs
  <2>. QED BY <2>1, <2>2, <2>3
<1>6. ASSUME NEW k \in 1 .. n
      PROVE  /\ printed[b + k].name = query[b + k].name
             /\ printed[b + k].value \in {query[b + k].value, "REDACTED"}
  <2>1. /\ \A reveal : /\ Reads(k, reveal).name = config.query[k].name
                       /\ Reads(k, reveal).value \in {config.query[k].value, "REDACTED"}
        /\ Reads(k, TRUE).value = config.query[k].value
    BY DEF Reads, Pair, Withheld
  <2>2. printed[b + k] = Reads(k, FALSE) /\ query[b + k] = Reads(k, TRUE)
    BY <1>5
  <2>. QED BY <2>1, <2>2
<1>7. ASSUME NEW k \in 1 .. b + n + e
      PROVE  /\ printed[k].name = query[k].name
             /\ printed[k].value \in {query[k].value, "REDACTED"}
  <2>1. CASE k <= b
    BY <1>5, <2>1
  <2>2. CASE k > b /\ k <= b + n
    <3>1. PICK j : j = k - b
      OBVIOUS
    <3>2. j \in 1 .. n /\ b + j = k
      BY <1>5, <2>2, <3>1
    <3>. QED BY <1>6, <3>2
  <2>3. CASE k > b + n
    <3>1. PICK j : j = k - (b + n)
      OBVIOUS
    <3>2. j \in 1 .. e /\ b + n + j = k
      BY <1>5, <2>3, <3>1
    <3>. QED BY <1>5, <3>2
  <2>. QED BY <1>5, <2>1, <2>2, <2>3
<1>. QED BY <1>2, <1>3, <1>5, <1>7

(* The address that is printed is the one that is sent (PrintedUrlIsTheSentOne, url). *)
LEMMA InvGivesPrintedUrl == AddressInv => PrintedUrlIsTheSentOne
<1>. SUFFICES ASSUME AddressInv, sent.done PROVE PrintedUrlIsTheSentOne
  BY DEF PrintedUrlIsTheSentOne
<1>1. /\ Counted /\ Keeps(config, made)
      /\ sent.url = ApplyQueryAuth(SendUrl(config, sent.stream), config, sent.key)
  BY DEF AddressInv, SentAsConfigured
<1>2. PICK shown, send : shown = PrintedUrl(config, sent.stream) /\ send = SendUrl(config, sent.stream)
  OBVIOUS
<1>3. PICK name, secret : name = config.auth.name /\ secret = Pair(name, "key")
  OBVIOUS
<1>4. PICK P : P = Pairs(AnyName, AnyValue)
  OBVIOUS
<1>5. /\ shown.parses = BaseParts.parses /\ send.parses = BaseParts.parses
      /\ shown.path = send.path
      /\ send = [parses |-> send.parses, path |-> send.path, query |-> send.query]
      /\ ~BaseParts.parses => shown.query = <<>> /\ send.query = <<>>
  BY <1>2 DEF PrintedUrl, SendUrl, BuildUrl
<1>6. BaseParts.parses \in BOOLEAN
  BY ValuesTellCallsApart
<1>7. /\ shown.query \in Seq(P) /\ send.query \in Seq(P)
      /\ DOMAIN shown.query = DOMAIN send.query
      /\ \A k \in DOMAIN shown.query :
           /\ shown.query[k].name = send.query[k].name
           /\ shown.query[k].value \in {send.query[k].value, "REDACTED"}
  <2>1. CASE BaseParts.parses
    BY <1>1, <1>2, <1>4, <2>1, PrintedLikeSent
  <2>2. CASE ~BaseParts.parses
    <3>1. <<>> \in Seq(P) /\ DOMAIN <<>> = {}
      OBVIOUS
    <3>. QED BY <1>5, <2>2, <3>1
  <2>. QED BY <1>6, <2>1, <2>2
<1>8. PICK mine : mine <=> sent.key # {} /\ config.auth.kind = "query" /\ shown.parses
  OBVIOUS
<1>9. CASE ~mine
  <2>1. sent.url = send
    BY <1>1, <1>2, <1>5, <1>8, <1>9 DEF ApplyQueryAuth
  <2>2. Len(shown.query) = Len(send.query)
    BY <1>7
  <2>. QED BY <1>2, <1>5, <1>7, <1>8, <1>9, <2>1, <2>2 DEF PrintedUrlIsTheSentOne
<1>10. CASE mine
  <2>1. PICK rest : rest = Others(send.query, name)
    OBVIOUS
  <2>2. PICK url : url = sent.url
    OBVIOUS
  <2>3. url = [send EXCEPT !.query = Append(rest, secret)]
    BY <1>1, <1>2, <1>3, <1>5, <1>8, <1>10, <2>1, <2>2 DEF ApplyQueryAuth
  <2>4. url.path = send.path /\ url.query = Append(rest, secret)
    BY <1>5, <2>3
  <2>5. /\ rest \in Seq(P) /\ \A k \in DOMAIN rest : rest[k].name # name
    BY <1>4, <1>7, <2>1, OthersAre
  <2>6. secret \in P /\ secret.name = name
    BY <1>3, <1>4 DEF Pair, Pairs, AnyName, AnyValue
  <2>7. /\ Others(url.query, name) = rest
        /\ {k \in DOMAIN url.query : url.query[k].name = name} = {Len(rest) + 1}
    BY <1>4, <2>4, <2>5, <2>6, OthersOfOthers
  <2>8. Cardinality({k \in DOMAIN url.query : url.query[k].name = name}) = 1
    BY <2>7, FS_Singleton
  <2>9. /\ Len(Others(shown.query, name)) = Len(rest)
        /\ \A k \in DOMAIN Others(shown.query, name) :
             \E i \in DOMAIN shown.query : /\ Others(shown.query, name)[k] = shown.query[i]
                                           /\ rest[k] = send.query[i]
    BY <1>4, <1>7, <2>1, OthersAlike
  <2>10. \A k \in DOMAIN Others(shown.query, name) :
           /\ Others(shown.query, name)[k].name = rest[k].name
           /\ Others(shown.query, name)[k].value \in {rest[k].value, "REDACTED"}
    BY <1>7, <2>9
  <2>11. PICK a, b : a = Others(shown.query, name) /\ b = Others(url.query, name)
    OBVIOUS
  <2>12. /\ Len(a) = Len(b)
         /\ \A k \in DOMAIN a : a[k].name = b[k].name /\ a[k].value \in {b[k].value, "REDACTED"}
    BY <2>7, <2>9, <2>10, <2>11
  <2>13. shown.path = url.path
    BY <1>5, <2>4
  <2>14. /\ sent.key # {} /\ config.auth.kind = "query"
         /\ PrintedUrl(config, sent.stream).parses
         /\ PrintedUrl(config, sent.stream).path = sent.url.path
    BY <1>2, <1>8, <1>10, <2>2, <2>13
  <2>15. /\ a = Others(PrintedUrl(config, sent.stream).query, config.auth.name)
         /\ b = Others(sent.url.query, config.auth.name)
    BY <1>2, <1>3, <2>2, <2>11
  <2>16. Cardinality({k \in DOMAIN sent.url.query :
                        sent.url.query[k].name = config.auth.name}) = 1
    BY <1>3, <2>2, <2>8
  <2>. QED BY <2>12, <2>14, <2>15, <2>16 DEF PrintedUrlIsTheSentOne
<1>. QED BY <1>9, <1>10

(* An address is printed as it is sent, whatever was configured. *)
THEOREM PrintedUrlIsAlwaysTheSentOne == AddressSpec => []PrintedUrlIsTheSentOne
BY AddressInvHolds, InvGivesPrintedUrl, PTL

-----------------------------------------------------------------------------
(* What is printed *)

SecretOps == {"secret_header", "secret_query"}

SecretValues == {"key"} \cup {made[k].value : k \in Of(made, SecretOps)}
OpenValues   == BaseValues \cup {"sse", "REDACTED"}
                  \cup {made[k].value : k \in Of(made, {"header", "query"})}

(* Nothing secret is also brought by a call that does not classify it. *)
LEMMA SecretsAreApart ==
  ASSUME Counted
  PROVE  /\ SecretValues \cap (OpenValues \cup {"required"}) = {}
         /\ \A k \in Of(made, HeaderOps) : made[k].value \in SecretValues => made[k].op = "secret_header"
<1>1. /\ made \in Seq(Range(made)) /\ Len(made) <= MaxCalls[concern]
      /\ concern \in DOMAIN MaxCalls /\ MaxCalls[concern] \in Nat
  BY ValuesTellCallsApart DEF Counted
<1>2. \A k \in DOMAIN made : k \in 1 .. MaxCalls[concern]
  BY <1>1
<1>3. \A k \in DOMAIN made :
        /\ Value(k) \notin {"key", "REDACTED", "required", "sse"} \cup ValuesOf(BaseParts.query)
        /\ \A l \in DOMAIN made : Value(k) = Value(l) => k = l
  BY <1>1, <1>2, ValuesTellCallsApart
<1>4. \A k \in DOMAIN made :
        made[k].op \in HeaderOps \cup QueryOps => made[k].value = Value(k)
  BY DEF Counted, Of
<1>5. \A k \in Of(made, SecretOps) :
        /\ k \in DOMAIN made /\ made[k].op \in {"secret_header", "secret_query"}
        /\ made[k].value = Value(k)
  BY <1>4 DEF Of, SecretOps, HeaderOps, QueryOps
<1>6. \A k \in Of(made, {"header", "query"}) :
        /\ k \in DOMAIN made /\ made[k].op \in {"header", "query"} /\ made[k].value = Value(k)
  BY <1>4 DEF Of, HeaderOps, QueryOps
<1>7. "key" \notin OpenValues \cup {"required"}
  <2>1. "key" \notin {made[k].value : k \in Of(made, {"header", "query"})}
    BY <1>3, <1>6
  <2>2. "key" \notin {"sse", "REDACTED", "required"} /\ "key" \notin BaseValues
    BY DEF BaseValues
  <2>. QED BY <2>1, <2>2 DEF OpenValues
<1>8. ASSUME NEW k \in Of(made, SecretOps) PROVE made[k].value \notin OpenValues \cup {"required"}
  <2>1. made[k].value \notin {made[l].value : l \in Of(made, {"header", "query"})}
    BY <1>3, <1>5, <1>6
  <2>2. made[k].value \notin {"sse", "REDACTED", "required"} /\ made[k].value \notin BaseValues
    BY <1>3, <1>5 DEF BaseValues
  <2>. QED BY <2>1, <2>2 DEF OpenValues
<1>9. ASSUME NEW k \in Of(made, HeaderOps), made[k].value \in SecretValues
      PROVE  made[k].op = "secret_header"
  <2>1. k \in DOMAIN made /\ made[k].op \in HeaderOps /\ made[k].value = Value(k)
    BY <1>4 DEF Of
  <2>2. PICK l \in Of(made, SecretOps) : made[k].value = made[l].value
    BY <1>3, <1>9, <2>1 DEF SecretValues
  <2>3. k = l
    BY <1>3, <1>5, <2>1, <2>2
  <2>. QED BY <1>5, <2>1, <2>3 DEF HeaderOps
<1>. QED BY <1>7, <1>8, <1>9 DEF SecretValues

(* What the configuration holds is classified or open. *)
LEMMA KeptIsOpenOrSecret ==
  ASSUME Counted, Keeps(config, made)
  PROVE  /\ \A k \in DOMAIN config.query :
              IsSecretQuery(config, config.query[k].name) \/ config.query[k].value \in OpenValues
         /\ \A k \in DOMAIN config.headers :
              IsSecretHeader(config, config.headers[k].name) \/ config.headers[k].value \in OpenValues
<1>1. ASSUME NEW k \in DOMAIN config.query
      PROVE  IsSecretQuery(config, config.query[k].name) \/ config.query[k].value \in OpenValues
  <2>1. PICK i \in Of(made, QueryOps) : /\ config.query[k].name = made[i].name
                                        /\ config.query[k].value = made[i].value
    BY WhatIsSaid DEF Keeps
  <2>2. CASE made[i].op = "query"
    BY <2>1, <2>2 DEF OpenValues, Of
  <2>3. CASE made[i].op = "secret_query"
    <3>1. made[i].name \in config.secretQuery
      BY <2>1, <2>3 DEF Keeps, Of
    <3>. QED BY <2>1, <3>1 DEF IsSecretQuery
  <2>. QED BY <2>1, <2>2, <2>3 DEF Of, QueryOps
<1>2. ASSUME NEW k \in DOMAIN config.headers
      PROVE  IsSecretHeader(config, config.headers[k].name) \/ config.headers[k].value \in OpenValues
  <2>1. PICK i \in Of(made, HeaderOps) : /\ config.headers[k].name = made[i].name
                                         /\ config.headers[k].value = made[i].value
    BY WhatIsSaid DEF Keeps
  <2>2. CASE made[i].op = "header"
    BY <2>1, <2>2 DEF OpenValues, Of
  <2>3. CASE made[i].op = "secret_header"
    <3>1. Lower[made[i].name] \in config.secretHeaders
      BY <2>1, <2>3 DEF Keeps, Of
    <3>. QED BY <2>1, <3>1 DEF IsSecretHeader
  <2>. QED BY <2>1, <2>2, <2>3 DEF Of, HeaderOps
<1>. QED BY <1>1, <1>2

(* In the address that is printed every value is open; in the one that is sent
   those that are not have a name that is secret. *)
LEMMA AddressIsOpenOrSecret ==
  ASSUME Counted, Keeps(config, made), BaseParts.parses, NEW stream, NEW reveal \in BOOLEAN,
         NEW query, query = BuildUrl(config, StreamExtra(config, stream), reveal).query
  PROVE  \A k \in DOMAIN query : \/ query[k].value \in OpenValues
                                 \/ reveal /\ IsSecretQuery(config, query[k].name)
<1>1. PICK extra, b, n : /\ extra = StreamExtra(config, stream)
                         /\ b = Len(BaseParts.query) /\ n = Len(config.query)
  OBVIOUS
<1>2. QueryIs(query, extra, reveal, b, n) /\ extra \in {<<>>, <<Pair("alt", "sse")>>}
  BY <1>1, QueriesAreBuilt
<1>3. PICK e : e = Len(extra)
  OBVIOUS
<1>4. /\ b \in Nat /\ n \in Nat /\ e \in Nat
      /\ DOMAIN query = 1 .. b + n + e
      /\ DOMAIN BaseParts.query = 1 .. b /\ DOMAIN config.query = 1 .. n
      /\ \A k \in 1 .. b : query[k] = BaseParts.query[k]
      /\ \A k \in 1 .. e : query[b + n + k] = extra[k]
      /\ \A k \in 1 .. n : query[b + k] = Reads(k, reveal)
  BY <1>2, <1>3 DEF QueryIs
<1>5. ASSUME NEW k \in 1 .. b PROVE query[k].value \in OpenValues
  <2>1. PICK B : B = [name : BaseNames, value : BaseValues]
    OBVIOUS
  <2>2. BaseParts.query \in Seq(B)
    BY <2>1, ValuesTellCallsApart DEF BaseNames, BaseValues
  <2>3. BaseParts.query[k] \in B
    BY <1>4, <2>2
  <2>4. BaseParts.query[k].value \in BaseValues
    BY <2>1, <2>3
  <2>. QED BY <1>4, <2>4 DEF OpenValues
<1>6. ASSUME NEW k \in 1 .. n
      PROVE  \/ query[b + k].value \in OpenValues
             \/ reveal /\ IsSecretQuery(config, query[b + k].name)
  <2>1. PICK pair : pair = config.query[k]
    OBVIOUS
  <2>2. IsSecretQuery(config, pair.name) \/ pair.value \in OpenValues
    BY <1>4, <2>1, KeptIsOpenOrSecret
  <2>3. query[b + k] = Pair(pair.name, Withheld(pair.value, ~reveal /\ IsSecretQuery(config, pair.name)))
    BY <1>4, <2>1 DEF Reads
  <2>4. PICK v : v = Withheld(pair.value, ~reveal /\ IsSecretQuery(config, pair.name))
    OBVIOUS
  <2>5. query[b + k].name = pair.name /\ query[b + k].value = v
    BY <2>3, <2>4 DEF Pair
  <2>6. "REDACTED" \in OpenValues
    BY DEF OpenValues
  <2>. QED BY <2>2, <2>4, <2>5, <2>6 DEF Withheld
<1>7. ASSUME NEW k \in 1 .. e PROVE query[b + n + k].value \in OpenValues
  <2>1. PICK alt : alt = Pair("alt", "sse")
    OBVIOUS
  <2>2. extra[k] = alt /\ alt.value = "sse"
    BY <1>2, <1>3, <2>1 DEF Pair
  <2>. QED BY <1>4, <2>2 DEF OpenValues
<1>8. ASSUME NEW k \in 1 .. b + n + e
      PROVE  query[k].value \in OpenValues \/ (reveal /\ IsSecretQuery(config, query[k].name))
  <2>1. CASE k <= b
    BY <1>4, <1>5, <2>1
  <2>2. CASE k > b /\ k <= b + n
    <3>1. PICK j : j = k - b
      OBVIOUS
    <3>2. j \in 1 .. n /\ b + j = k
      BY <1>4, <2>2, <3>1
    <3>. QED BY <1>6, <3>2
  <2>3. CASE k > b + n
    <3>1. PICK j : j = k - (b + n)
      OBVIOUS
    <3>2. j \in 1 .. e /\ b + n + j = k
      BY <1>4, <2>3, <3>1
    <3>. QED BY <1>7, <3>2
  <2>. QED BY <1>4, <2>1, <2>2, <2>3
<1>. QED BY <1>4, <1>8

(* All of what is printed is open. *)
LEMMA PrintedIsOpen ==
  ASSUME AddressInv, sent.done
  PROVE  /\ ValuesOf(PrintedUrl(config, sent.stream).query) \subseteq OpenValues
         /\ ValuesOf(RedactUrlIn(sent.url, config)) \subseteq OpenValues
         /\ DebugConfig(config) \subseteq OpenValues
<1>1. /\ Counted /\ Keeps(config, made) /\ IsConfig(config)
      /\ sent.url = ApplyQueryAuth(SendUrl(config, sent.stream), config, sent.key)
  BY DEF AddressInv, SentAsConfigured
<1>2. PICK shown, send : shown = PrintedUrl(config, sent.stream) /\ send = SendUrl(config, sent.stream)
  OBVIOUS
<1>3. /\ send.parses = BaseParts.parses
      /\ send = [parses |-> send.parses, path |-> send.path, query |-> send.query]
      /\ ~BaseParts.parses => shown.query = <<>> /\ send.query = <<>>
      /\ BaseParts.parses \in BOOLEAN
  BY <1>2, ValuesTellCallsApart DEF PrintedUrl, SendUrl, BuildUrl
<1>4. /\ \A k \in DOMAIN shown.query : shown.query[k].value \in OpenValues
      /\ \A k \in DOMAIN send.query : \/ send.query[k].value \in OpenValues
                                      \/ IsSecretQuery(config, send.query[k].name)
  <2>1. CASE BaseParts.parses
    <3>1. \A k \in DOMAIN shown.query : shown.query[k].value \in OpenValues
      BY <1>1, <1>2, <2>1, AddressIsOpenOrSecret DEF PrintedUrl
    <3>2. \A k \in DOMAIN send.query : \/ send.query[k].value \in OpenValues
                                       \/ IsSecretQuery(config, send.query[k].name)
      BY <1>1, <1>2, <2>1, AddressIsOpenOrSecret DEF SendUrl
    <3>. QED BY <3>1, <3>2
  <2>2. CASE ~BaseParts.parses
    <3>1. DOMAIN shown.query = {} /\ DOMAIN send.query = {}
      BY <1>3, <2>2
    <3>. QED BY <3>1
  <2>. QED BY <1>3, <2>1, <2>2
<1>5. PICK url : url = sent.url
  OBVIOUS
<1>6. \A k \in DOMAIN url.query : \/ url.query[k].value \in OpenValues
                                  \/ IsSecretQuery(config, url.query[k].name)
  <2>1. CASE config.auth.kind # "query" \/ sent.key = {} \/ ~send.parses
    <3>1. url = send
      BY <1>1, <1>2, <1>5, <2>1 DEF ApplyQueryAuth
    <3>. QED BY <1>4, <3>1
  <2>2. CASE config.auth.kind = "query" /\ sent.key # {} /\ send.parses
    <3>1. PICK name, secret, rest, P :
            /\ name = config.auth.name /\ secret = Pair(name, "key")
            /\ rest = Others(send.query, name) /\ P = Pairs(AnyName, AnyValue)
      OBVIOUS
    <3>2. url = [send EXCEPT !.query = Append(rest, secret)]
      BY <1>1, <1>2, <1>5, <2>2, <3>1 DEF ApplyQueryAuth
    <3>3. url.query = Append(rest, secret)
      BY <1>3, <3>2
    <3>4. send.query \in Seq(P)
      BY <1>1, <1>2, <1>3, <2>2, <3>1, PrintedLikeSent
    <3>5. /\ rest \in Seq(P)
          /\ \A k \in DOMAIN rest : \E i \in DOMAIN send.query : rest[k] = send.query[i]
      BY <3>1, <3>4, OthersAre
    <3>6. \A k \in DOMAIN rest : \/ rest[k].value \in OpenValues
                                 \/ IsSecretQuery(config, rest[k].name)
      BY <1>4, <3>5
    <3>7. IsSecretQuery(config, secret.name)
      <4>1. config.auth = QueryAuth(name)
        BY <1>1, <2>2, <3>1 DEF IsConfig, Bearer, HeaderAuth, QueryAuth, NoAuth
      <4>2. secret.name = name
        BY <3>1 DEF Pair
      <4>. QED BY <4>1, <4>2 DEF IsSecretQuery
    <3>8. \A k \in DOMAIN Append(rest, secret) :
            (k \in DOMAIN rest /\ Append(rest, secret)[k] = rest[k]) \/ Append(rest, secret)[k] = secret
      BY <3>5
    <3>9. \A k \in DOMAIN url.query :
            (k \in DOMAIN rest /\ url.query[k] = rest[k]) \/ url.query[k] = secret
      BY <3>3, <3>8
    <3>. QED BY <3>6, <3>7, <3>9
  <2>. QED BY <2>1, <2>2
<1>7. \A value, secret : value \in OpenValues \/ secret => Withheld(value, secret) \in OpenValues
  BY DEF Withheld, OpenValues
<1>8. ValuesOf(RedactUrlIn(sent.url, config)) \subseteq OpenValues
  <2>1. PICK red : red = RedactUrlIn(url, config)
    OBVIOUS
  <2>2. DOMAIN red = DOMAIN url.query
    BY <2>1 DEF RedactUrlIn
  <2>3. ASSUME NEW k \in DOMAIN url.query PROVE red[k].value \in OpenValues
    <3>1. PICK v : v = Withheld(url.query[k].value, IsSecretName(url.query[k].name)
                                                      \/ IsSecretQuery(config, url.query[k].name))
      OBVIOUS
    <3>2. red[k] = Pair(url.query[k].name, v)
      BY <2>1, <3>1 DEF RedactUrlIn
    <3>3. v \in OpenValues
      BY <1>6, <1>7, <3>1
    <3>. QED BY <3>2, <3>3 DEF Pair
  <2>. QED BY <1>5, <2>1, <2>2, <2>3 DEF ValuesOf
<1>9. DebugConfig(config) \subseteq OpenValues
  <2>1. /\ \A pair \in Range(config.query) : IsSecretQuery(config, pair.name) \/ pair.value \in OpenValues
        /\ \A pair \in Range(config.headers) : IsSecretHeader(config, pair.name) \/ pair.value \in OpenValues
    BY <1>1, KeptIsOpenOrSecret DEF Range
  <2>. QED BY <1>7, <2>1 DEF DebugConfig
<1>10. ValuesOf(shown.query) \subseteq OpenValues
  BY <1>4 DEF ValuesOf
<1>. QED BY <1>2, <1>8, <1>9, <1>10

(* A header that holds a secret is marked. *)
LEMMA SecretHeadersAreMarked ==
  ASSUME AddressInv, sent.done, NEW k \in DOMAIN sent.headers,
         sent.headers[k].value \in SecretValues
  PROVE  sent.headers[k].sensitive
<1>1. /\ Counted /\ Keeps(config, made) /\ IsConfig(config)
      /\ sent.headers = ApplyHeaders(config, sent.key)
  BY DEF AddressInv, SentAsConfigured
<1>2. PICK all, required, resolved, out :
        /\ all = AllHeaders(config) /\ required = RequiredHeaders(config.dialect)
        /\ resolved = ResolvedHeaders(config, sent.key) /\ out = sent.headers
  OBVIOUS
<1>3. PICK N, V, m, n : all \in Seq(Pairs(N, V)) /\ LaidOut(all, required, m, n)
  BY <1>1, <1>2, AllHeadersAre
<1>4. /\ resolved \in Seq(Pairs(N, V))
      /\ \A j \in DOMAIN resolved : \E i \in DOMAIN all : resolved[j] = all[i]
  <2>1. PICK reserved : reserved = Reserved(config, sent.key)
    OBVIOUS
  <2>2. resolved = Pick(all, LastOfName(all, reserved))
    BY <1>2, <2>1 DEF ResolvedHeaders
  <2>. QED BY <1>3, <2>2, LastIsKept
<1>5. AppliedTo(out, resolved, sent.key)
  BY <1>1, <1>2, <1>4, HeadersAreApplied
<1>6. \A name, value, sensitive : /\ Header(name, value, sensitive).value = value
                                  /\ Header(name, value, sensitive).sensitive = sensitive
  BY DEF Header
<1>7. CASE k \in DOMAIN resolved
  <2>1. PICK pair : pair = resolved[k]
    OBVIOUS
  <2>2. PICK marked : marked = IsSecretHeader(config, pair.name)
    OBVIOUS
  <2>3. out[k] = Header(pair.name, pair.value, marked)
    BY <1>5, <1>7, <2>1, <2>2 DEF AppliedTo
  <2>4. out[k].value = pair.value /\ out[k].sensitive = marked
    BY <1>6, <2>3
  <2>5. PICK i \in DOMAIN all : pair = all[i]
    BY <1>4, <1>7, <2>1
  <2>6. pair.value \in SecretValues
    BY <1>2, <2>4
  <2>7. /\ m \in Nat /\ n \in Nat /\ DOMAIN all = 1 .. m + n
        /\ \A j \in 1 .. m : all[j] = required[j] /\ required[j].value = "required"
        /\ \A j \in 1 .. n : /\ SaidBy(j) \in Of(made, HeaderOps)
                             /\ all[m + j] = Pair(made[SaidBy(j)].name, made[SaidBy(j)].value)
    BY <1>3 DEF LaidOut
  <2>8. i \notin 1 .. m
    BY <1>1, <2>5, <2>6, <2>7, SecretsAreApart
  <2>9. PICK j : j = i - m
    OBVIOUS
  <2>10. j \in 1 .. n /\ m + j = i
    BY <2>5, <2>7, <2>8, <2>9
  <2>11. PICK saying : saying = made[SaidBy(j)]
    OBVIOUS
  <2>12. pair.name = saying.name /\ pair.value = saying.value
    <3>1. pair = Pair(saying.name, saying.value)
      BY <2>5, <2>7, <2>10, <2>11
    <3>. QED BY <3>1 DEF Pair
  <2>13. saying.op = "secret_header"
    BY <1>1, <2>6, <2>7, <2>10, <2>11, <2>12, SecretsAreApart
  <2>14. Lower[saying.name] \in config.secretHeaders
    BY <1>1, <2>7, <2>10, <2>11, <2>13 DEF Keeps, Of
  <2>15. IsSecretHeader(config, pair.name)
    BY <2>12, <2>14 DEF IsSecretHeader
  <2>. QED BY <1>2, <2>2, <2>4, <2>15
<1>8. CASE k \notin DOMAIN resolved
  <2>1. out[k] = Header(config.auth.name, "key", TRUE)
    <3>1. PICK r : r = Len(resolved)
      OBVIOUS
    <3>2. /\ r \in Nat /\ DOMAIN resolved = 1 .. r
          /\ Reserved(config, sent.key) = {} => DOMAIN out = DOMAIN resolved
          /\ Reserved(config, sent.key) # {} => /\ DOMAIN out = 1 .. r + 1
                                           /\ out[r + 1] = Header(config.auth.name, "key", TRUE)
      BY <1>5, <3>1 DEF AppliedTo
    <3>3. k \in DOMAIN out /\ k \notin 1 .. r
      BY <1>2, <1>8, <3>2
    <3>4. Reserved(config, sent.key) # {}
      BY <3>2, <3>3
    <3>5. k \in 1 .. r + 1
      BY <3>2, <3>3, <3>4
    <3>6. k = r + 1
      BY <3>2, <3>3, <3>5
    <3>. QED BY <3>2, <3>4, <3>6
  <2>2. PICK h : h = Header(config.auth.name, "key", TRUE)
    OBVIOUS
  <2>3. h.sensitive = TRUE
    BY <2>2 DEF Header
  <2>. QED BY <1>2, <2>1, <2>2, <2>3
<1>. QED BY <1>7, <1>8

(* What is not classified, and is not named like a credential, is printed as it is. *)
LEMMA OpenIsPrinted ==
  ASSUME AddressInv, sent.done, sent.url.parses,
         NEW k \in DOMAIN made, made[k].op = "query", Lower[made[k].name] \notin Telling
  PROVE  \/ made[k].value \in ValuesOf(PrintedUrl(config, sent.stream).query)
         \/ config.auth = QueryAuth(made[k].name)
         \/ \E l \in DOMAIN made : made[l].op = "secret_query" /\ made[l].name = made[k].name
<1>1. /\ Counted /\ Keeps(config, made)
      /\ sent.url = ApplyQueryAuth(SendUrl(config, sent.stream), config, sent.key)
  BY DEF AddressInv, SentAsConfigured
<1>2. BaseParts.parses
  <2>1. PICK send : send = SendUrl(config, sent.stream)
    OBVIOUS
  <2>2. /\ send.parses = BaseParts.parses
        /\ send = [parses |-> send.parses, path |-> send.path, query |-> send.query]
    BY <2>1 DEF SendUrl, BuildUrl
  <2>3. sent.url.parses = send.parses
    <3>1. PICK more : more = Append(Others(send.query, config.auth.name), Pair(config.auth.name, "key"))
      OBVIOUS
    <3>2. sent.url = send \/ sent.url = [send EXCEPT !.query = more]
      BY <1>1, <2>1, <3>1 DEF ApplyQueryAuth
    <3>. QED BY <2>2, <3>2
  <2>. QED BY <2>2, <2>3
<1>3. k \in Of(made, QueryOps)
  BY DEF Of, QueryOps
<1>4. PICK j \in DOMAIN config.query : /\ config.query[j].name = made[k].name
                                       /\ config.query[j].value = made[k].value
  BY <1>1, <1>3, WhatIsSaid DEF Keeps
<1>5. SUFFICES ASSUME config.auth # QueryAuth(made[k].name),
                      \A l \in DOMAIN made : made[l].op = "secret_query" => made[l].name # made[k].name
               PROVE  made[k].value \in ValuesOf(PrintedUrl(config, sent.stream).query)
  OBVIOUS
<1>6. ~IsSecretQuery(config, made[k].name)
  <2>1. made[k].name \notin config.secretQuery
    BY <1>1, <1>5 DEF Keeps, Of
  <2>. QED BY <1>5, <2>1 DEF IsSecretQuery, IsSecretName
<1>7. PICK query, extra, b, n :
        /\ query = PrintedUrl(config, sent.stream).query
        /\ extra = StreamExtra(config, sent.stream)
        /\ b = Len(BaseParts.query) /\ n = Len(config.query)
  OBVIOUS
<1>8. QueryIs(query, extra, FALSE, b, n)
  BY <1>1, <1>2, <1>7, QueriesAreBuilt DEF PrintedUrl
<1>9. b + j \in DOMAIN query /\ query[b + j] = Reads(j, FALSE)
  <2>1. PICK e : e = Len(extra)
    OBVIOUS
  <2>2. /\ b \in Nat /\ n \in Nat /\ e \in Nat
        /\ DOMAIN query = 1 .. b + n + e /\ DOMAIN config.query = 1 .. n
        /\ \A l \in 1 .. n : query[b + l] = Reads(l, FALSE)
    BY <1>8, <2>1 DEF QueryIs
  <2>3. j \in 1 .. n
    BY <2>2
  <2>4. b + j \in 1 .. b + n + e
    BY <2>2, <2>3
  <2>5. query[b + j] = Reads(j, FALSE)
    BY <2>2, <2>3
  <2>. QED BY <2>2, <2>4, <2>5
<1>10. Reads(j, FALSE).value = made[k].value
  BY <1>4, <1>6 DEF Reads, Pair, Withheld
<1>. QED BY <1>7, <1>9, <1>10 DEF ValuesOf

(* Nothing secret is printed (SecretsAreNeverPrinted; Debug, url, redact_url_in). *)
LEMMA InvKeepsSecrets == AddressInv => SecretsAreNeverPrinted
<1>. SUFFICES ASSUME AddressInv, sent.done PROVE SecretsAreNeverPrinted
  BY DEF SecretsAreNeverPrinted
<1>1. PICK secret : secret = {"key"} \cup {made[k].value : k \in {l \in DOMAIN made :
                                              made[l].op \in {"secret_header", "secret_query"}}}
  OBVIOUS
<1>2. secret = SecretValues
  BY <1>1 DEF SecretValues, SecretOps, Of
<1>3. PICK shown, red, debug : /\ shown = ValuesOf(PrintedUrl(config, sent.stream).query)
                               /\ red = ValuesOf(RedactUrlIn(sent.url, config))
                               /\ debug = DebugConfig(config)
  OBVIOUS
<1>4. shown \subseteq OpenValues /\ red \subseteq OpenValues /\ debug \subseteq OpenValues
  BY <1>3, PrintedIsOpen
<1>5. SecretValues \cap OpenValues = {}
  BY SecretsAreApart DEF AddressInv
<1>6. secret \cap ((shown \cup red) \cup debug) = {}
  BY <1>2, <1>4, <1>5
<1>7. \A k \in DOMAIN sent.headers :
        sent.headers[k].value \in secret => sent.headers[k].sensitive
  BY <1>2, SecretHeadersAreMarked
<1>8. \A k \in DOMAIN made :
        sent.url.parses /\ made[k].op = "query" /\ Lower[made[k].name] \notin Telling =>
          \/ made[k].value \in shown
          \/ config.auth = QueryAuth(made[k].name)
          \/ \E l \in DOMAIN made : made[l].op = "secret_query" /\ made[l].name = made[k].name
  BY <1>3, OpenIsPrinted
<1>. QED BY <1>1, <1>3, <1>6, <1>7, <1>8 DEF SecretsAreNeverPrinted

(* Whatever is configured, and in whatever order, what the caller classified and
   the key are printed nowhere. *)
THEOREM NoSecretIsEverPrinted == AddressSpec => []SecretsAreNeverPrinted
BY AddressInvHolds, InvKeepsSecrets, PTL

-----------------------------------------------------------------------------
(* Where a call goes, and what comes back *)

\* The URLs a call may be sent to.
Known == {Home} \cup Urls

\* Where a request that is out has been: home first, and never elsewhere.
Visits ==
  /\ visited \in Seq(Known)
  /\ phase \in {"sent", "reading"} => visited # <<>>
  /\ CredentialStaysHome

(* One more hop to the same origin stays at home, whichever of the two URLs
   writes its port in full. *)
LEMMA SameOriginIsAtHome ==
  ASSUME NEW a, NEW b, AtHome(a), SameOrigin(a, b)
  PROVE  AtHome(b)
<1>1. /\ b.scheme = Home.scheme /\ b.host = Home.host /\ a.scheme = b.scheme
      /\ PortOf(a) = PortOf(b)
  BY DEF AtHome, SameOrigin
<1>2. PortOf(a) = PortOf(Home)
  BY <1>1 DEF AtHome, DefaultPort, PortOf
<1>. QED BY <1>1, <1>2 DEF AtHome, DefaultPort, PortOf

(* No step of a call or of the loop sends the credential elsewhere. *)
LEMMA VisitsAreKept ==
  ASSUME Visits, [RetryNext]_vars
  PROVE  Visits'
<1>. USE DEF Visits, CredentialStaysHome
<1>1. CASE Send
  <2>1. AtHome(Home)
    BY DEF AtHome
  <2>2. Home \in Known
    BY DEF Known
  <2>3. <<Home>> \in Seq(Known) /\ <<Home>> # <<>> /\ \A k \in DOMAIN <<Home>> : <<Home>>[k] = Home
    BY <2>2
  <2>4. CASE phase' = "sent" /\ visited' = <<Home>>
    BY <2>1, <2>3, <2>4 DEF AtHome, DefaultPort
  <2>5. CASE phase' = "returned" /\ visited' = <<>>
    BY <2>5
  <2>. QED BY <1>1, <2>4, <2>5 DEF Send, Return
<1>2. ASSUME NEW url \in Urls, NEW code, NEW arriving, Redirected(url, code, arriving)
      PROVE  Visits'
  <2>1. CASE visited' = visited
    BY <1>2, <2>1 DEF Redirected, AtHome, DefaultPort
  <2>2. CASE SameOrigin(Last(visited), url) /\ visited' = Append(visited, url)
    <3>1. visited # <<>> /\ Len(visited) \in Nat \ {0}
      BY <1>2 DEF Redirected
    <3>2. AtHome(Last(visited))
      BY <3>1 DEF Last
    <3>3. AtHome(url)
      BY <2>2, <3>2, SameOriginIsAtHome
    <3>4. visited' \in Seq(Known) /\ visited' # <<>>
      BY <2>2, <3>1 DEF Known
    <3>5. \A k \in DOMAIN visited' : visited'[k] = url \/ \E l \in DOMAIN visited : visited'[k] = visited[l]
      BY <2>2
    <3>. QED BY <3>3, <3>4, <3>5 DEF AtHome, DefaultPort
  <2>. QED BY <1>2, <2>1, <2>2 DEF Redirected
<1>3. ASSUME visited' = visited, phase' \in {"sent", "reading"} => phase \in {"sent", "reading"}
      PROVE  Visits'
  BY <1>3 DEF AtHome, DefaultPort
<1>4. CASE Answered /\ ~\E url \in Urls, code \in Statuses, arriving \in Bodies : Redirected(url, code, arriving)
  <2>1. ASSUME NEW flags, SendFails(flags) \/ BodyBreaks(flags) PROVE Visits'
    BY <1>3, <2>1 DEF SendFails, BodyBreaks, Return
  <2>2. ASSUME NEW code, NEW header, NEW number, NEW arriving, HeadArrives(code, header, number, arriving)
        PROVE  Visits'
    BY <1>3, <2>2 DEF HeadArrives, Return
  <2>3. ASSUME NEW n, ChunkArrives(n) PROVE Visits'
    BY <1>3, <2>3 DEF ChunkArrives, Return
  <2>4. CASE BodyEnds
    BY <1>3, <2>4 DEF BodyEnds, Return
  <2>. QED BY <1>4, <2>1, <2>2, <2>3, <2>4 DEF Answered
<1>5. CASE Finish \/ Sleep \/ Wake \/ UNCHANGED vars
  BY <1>3, <1>5 DEF Finish, Sleep, Wake, vars, exchangeVars
<1>. QED BY <1>1, <1>2, <1>4, <1>5 DEF RetryNext, Answered

(* The credential goes to no origin but the one it was configured for, whatever
   the endpoint redirects to and however long the chain (same_origin_redirects). *)
THEOREM CredentialNeverLeaves == RetrySpec => []CredentialStaysHome
<1>1. RetryInit => Visits
  BY DEF RetryInit, ExchangeInit, Visits, CredentialStaysHome
<1>2. Visits /\ [RetryNext]_vars => Visits'
  BY VisitsAreKept
<1>3. Visits => CredentialStaysHome
  BY DEF Visits
<1>. QED BY <1>1, <1>2, <1>3, PTL DEF RetrySpec

-----------------------------------------------------------------------------
(* Where an outcome comes from *)

\* What ends a call before its body is read, or a body that is no answer.
Early == {"UnsupportedCapability", "InvalidRequest", "InvalidResponse", "Stream"}

\* The outcome is what the status of a whole answer comes to.
Judged ==
  /\ status \in Statuses /\ ~Success /\ visited # <<>>
  /\ read = ByteLen(body.chars)
  /\ outcome = FromStatus(status, ParseRetryAfter, body)

Complete == Success /\ body.parses /\ read = ByteLen(body.chars)

Origin ==
  \/ outcome.variant \in Early
  \/ outcome.variant \in {"Response", "OutputMismatch"} /\ Complete
  \/ outcome.variant = "Http" /\ visited # <<>>
  \/ Judged

OutcomeInv ==
  /\ fits \in {"fits", "UnsupportedCapability", "InvalidRequest"}
  /\ phase \in CallPhases
  /\ read \in Nat /\ read <= MaxBody /\ attempt \in Nat
  /\ asked = "seconds" => seconds \in Nat
  /\ phase \in {"sent", "reading"} => visited # <<>>
  /\ phase = "reading" => status \in Statuses
  /\ IF phase = "returned" THEN Origin
     ELSE outcome.variant \notin {"Response", "OutputMismatch"}
  /\ caller = "sleeping" =>
       phase = "returned" /\ IsRetryable(outcome) /\ wait = Wait(outcome)

\* The parts of an error that are made from its variant alone.
LEMMA Made ==
  /\ \A v : Refusal(v).variant = v
  /\ \A flags : Http(flags).variant = "Http"
BY DEF Refusal, Http, Err

\* A status is one of these errors, and only a rate limit has a delay.
LEMMA FromStatusIs ==
  ASSUME NEW code \in Int, NEW delay, NEW arriving
  PROVE  LET e == FromStatus(code, delay, arriving)
         IN /\ e.status = code
            /\ e.variant \in {"BadRequest", "Unauthorized", "NotFound", "QuotaExceeded",
                              "RateLimit", "ServerError", "Api"}
            /\ e.variant = "RateLimit" => code = 429 /\ ~arriving.quota /\ e.delay = delay
            /\ e.variant = "ServerError" => code >= 500
            /\ code = 429 => e.variant \in {"RateLimit", "QuotaExceeded"}
BY DEF FromStatus, Err

(* Every step of a call, and of the loop, leaves an outcome of a known origin. *)
LEMMA OutcomeIsKept ==
  ASSUME OutcomeInv, [RetryNext]_vars
  PROVE  OutcomeInv'
<1>. USE DEF OutcomeInv, CallPhases
<1>. USE ExchangeAssumption
<1>1. CASE Send /\ UNCHANGED retryVars
  <2>1. <<Home>> # <<>>
    OBVIOUS
  <2>2. caller # "sleeping" /\ caller' = caller /\ attempt' = attempt
    BY <1>1 DEF Send, retryVars
  <2>3. CASE fits = "fits"
    BY <1>1, <2>1, <2>2, <2>3 DEF Send
  <2>4. CASE fits # "fits"
    <3>1. outcome'.variant \in Early
      BY <1>1, <2>4, Made DEF Send, Return, Early
    <3>. QED BY <1>1, <2>2, <2>4, <3>1 DEF Send, Return, Origin
  <2>. QED BY <2>3, <2>4
<1>2. CASE Answered /\ UNCHANGED retryVars
  <2>. SUFFICES ASSUME caller # "sleeping", caller' = caller, attempt' = attempt, Answered
                PROVE  OutcomeInv'
    BY <1>2 DEF Answered, SendFails, BodyBreaks, HeadArrives, Redirected, ChunkArrives, BodyEnds, retryVars
  <2>1. ASSUME NEW flags, SendFails(flags) \/ BodyBreaks(flags) PROVE OutcomeInv'
    <3>1. outcome'.variant = "Http" /\ phase' = "returned" /\ visited' = visited /\ visited # <<>>
      BY <2>1, Made DEF SendFails, BodyBreaks, Return
    <3>. QED BY <2>1, <3>1 DEF SendFails, BodyBreaks, Return, Origin, answerVars
  <2>2. ASSUME NEW code \in Statuses, NEW header, NEW number \in Nat, NEW arriving \in Bodies,
               HeadArrives(code, header, number, arriving)
        PROVE  OutcomeInv'
    <3>1. CASE phase' = "returned"
      <4>1. outcome'.variant \in Early
        BY <2>2, <3>1, Made DEF HeadArrives, Return, Ok, Early
      <4>. QED BY <2>2, <3>1, <4>1 DEF HeadArrives, Return, Origin
    <3>2. CASE phase' = "reading" /\ outcome' = outcome
      BY <2>2, <3>2 DEF HeadArrives
    <3>. QED BY <2>2, <3>1, <3>2 DEF HeadArrives, Return
  <2>3. ASSUME NEW url \in Urls, NEW code \in Statuses, NEW arriving \in Bodies, Redirected(url, code, arriving)
        PROVE  OutcomeInv'
    <3>1. CASE phase' = "returned"
      <4>1. outcome'.variant = "Http" /\ visited' = visited /\ visited # <<>>
        BY <2>3, <3>1, Made DEF Redirected, Return
      <4>. QED BY <2>3, <3>1, <4>1 DEF Redirected, Return, Origin
    <3>2. CASE phase' # "returned"
      <4>1. visited' = visited \/ visited' = Append(visited, url)
        BY <2>3 DEF Redirected
      <4>. QED BY <2>3, <3>2, <4>1 DEF Redirected, Return
    <3>. QED BY <3>1, <3>2
  <2>4. ASSUME NEW n \in 1 .. MaxBody + 1, ChunkArrives(n) PROVE OutcomeInv'
    <3>1. CASE read + n > MaxBody
      <4>1. outcome'.variant \in Early
        BY <2>4, <3>1, Made DEF ChunkArrives, Return, Early
      <4>. QED BY <2>4, <3>1, <4>1 DEF ChunkArrives, Return, Origin, answerVars
    <3>2. CASE ~(read + n > MaxBody)
      BY <2>4, <3>2 DEF ChunkArrives, answerVars
    <3>. QED BY <3>1, <3>2
  <2>5. CASE BodyEnds
    <3>1. /\ phase = "reading" /\ phase' = "returned" /\ read = ByteLen(body.chars)
          /\ UNCHANGED <<fits, visited, status, asked, seconds, body, read>>
      BY <2>5 DEF BodyEnds, Return, answerVars
    <3>2. CASE Success
      <4>1. outcome' = Parsed
        BY <2>5, <3>2 DEF BodyEnds, Return
      <4>2. Parsed.variant \in Early \/ (Parsed.variant \in {"Response", "OutputMismatch"} /\ body.parses)
        BY Made DEF Parsed, Early, Ok
      <4>. QED BY <3>1, <3>2, <4>1, <4>2 DEF Origin, Complete, Success
    <3>3. CASE ~Success
      <4>1. outcome' = FromStatus(status, ParseRetryAfter, body)
        BY <2>5, <3>3 DEF BodyEnds, Return
      <4>2. Judged'
        BY <3>1, <3>3, <4>1 DEF Judged, Success, ParseRetryAfter
      <4>. QED BY <3>1, <4>2 DEF Origin
    <3>. QED BY <3>2, <3>3
  <2>. QED BY <2>1, <2>2, <2>3, <2>4, <2>5 DEF Answered
<1>3. CASE Finish
  BY <1>3 DEF Finish, exchangeVars, Origin, Judged, Complete, Success, ParseRetryAfter
<1>4. CASE Sleep
  BY <1>4 DEF Sleep, exchangeVars, Origin, Judged, Complete, Success, ParseRetryAfter, Wait
<1>5. CASE Wake
  <2>1. outcome.variant \notin {"Response", "OutputMismatch"}
    BY <1>5 DEF Wake, IsRetryable
  <2>. QED BY <1>5, <2>1 DEF Wake, answerVars
<1>6. CASE UNCHANGED vars
  <2>1. UNCHANGED <<call, fits, phase, visited, status, asked, seconds, body, read, outcome,
                    attempt, wait, caller>>
    BY <1>6 DEF vars, exchangeVars, retryVars
  <2>2. Origin => Origin'
    BY <2>1 DEF Origin, Judged, Complete, Success, ParseRetryAfter
  <2>3. wait = Wait(outcome) => wait' = Wait(outcome)'
    BY <2>1 DEF Wait
  <2>. QED BY <2>1, <2>2, <2>3
<1>. QED BY <1>1, <1>2, <1>3, <1>4, <1>5, <1>6 DEF RetryNext

LEMMA OutcomeAtFirst == RetryInit => OutcomeInv
<1>1. Pending.variant = "pending"
  BY Made DEF Pending
<1>. QED BY <1>1, ExchangeAssumption DEF RetryInit, ExchangeInit, OutcomeInv, CallPhases

LEMMA OutcomeHolds == RetrySpec => []OutcomeInv
BY OutcomeAtFirst, OutcomeIsKept, PTL DEF RetrySpec

(* What a caller is given as an answer is the whole body of a success, and no
   call holds more of a body than its ceiling, whatever is sent (read_body). *)
THEOREM AnswersAreAlwaysWhole == RetrySpec => []AnswersAreWhole
<1>1. OutcomeInv => AnswersAreWhole
  <2>. SUFFICES ASSUME OutcomeInv PROVE AnswersAreWhole
    OBVIOUS
  <2>1. read <= MaxBody
    BY DEF OutcomeInv
  <2>2. ASSUME outcome.variant \in {"Response", "OutputMismatch"} PROVE Complete
    <3>1. Origin
      BY <2>2 DEF OutcomeInv
    <3>2. ~Judged
      <4>. SUFFICES ASSUME Judged PROVE FALSE
        OBVIOUS
      <4>1. status \in Int
        BY ExchangeAssumption DEF Judged
      <4>. QED BY <2>2, <4>1, FromStatusIs DEF Judged
    <3>. QED BY <2>2, <3>1, <3>2 DEF Origin, Early
  <2>. QED BY <2>1, <2>2 DEF AnswersAreWhole, Complete
<1>. QED BY <1>1, OutcomeHolds, PTL

(* A sleeping caller has heard of a failure that may pass. *)
LEMMA SleepsOnWhatMayPass ==
  ASSUME OutcomeInv, caller = "sleeping"
  PROVE  /\ visited # <<>> /\ wait = Wait(outcome)
         /\ \/ outcome.variant = "Http" /\ outcome.kind \in {"Timeout", "Body"}
            \/ Judged /\ (outcome.variant = "RateLimit" \/ status >= 500)
<1>1. Origin /\ IsRetryable(outcome) /\ wait = Wait(outcome)
  BY DEF OutcomeInv
<1>2. CASE Judged
  BY <1>1, <1>2, FromStatusIs, ExchangeAssumption DEF Judged, IsRetryable
<1>3. CASE ~Judged
  BY <1>1, <1>3 DEF Origin, IsRetryable, Early
<1>. QED BY <1>1, <1>2, <1>3 DEF Judged

(* A request is repeated only when that could help, for any statuses and bodies
   (is_retryable, from_status). *)
THEOREM RetriesAreAlwaysWarranted == RetrySpec => []RetriesAreWarranted
<1>1. OutcomeInv => RetriesAreWarranted
  <2>. SUFFICES ASSUME OutcomeInv, caller = "sleeping"
                PROVE  /\ visited # <<>>
                       /\ IF AnsweredInFull
                          THEN status >= 500 \/ (status = 429 /\ ~body.quota)
                          ELSE outcome.variant = "Http" /\ outcome.kind \in {"Timeout", "Body"}
    BY DEF RetriesAreWarranted
  <2>1. CASE outcome.variant = "Http" /\ outcome.kind \in {"Timeout", "Body"}
    BY <2>1, SleepsOnWhatMayPass DEF AnsweredInFull
  <2>2. CASE Judged /\ (outcome.variant = "RateLimit" \/ status >= 500)
    <3>1. status \in Int /\ status # 0
      BY <2>2, ExchangeAssumption DEF Judged
    <3>2. outcome.variant = "RateLimit" => status = 429 /\ ~body.quota
      BY <2>2, <3>1, FromStatusIs DEF Judged
    <3>3. outcome.variant # "Http"
      BY <2>2, <3>1, FromStatusIs DEF Judged
    <3>. QED BY <2>2, <3>1, <3>2, <3>3 DEF Judged, AnsweredInFull
  <2>. QED BY <2>1, <2>2, SleepsOnWhatMayPass
<1>. QED BY <1>1, OutcomeHolds, PTL

(* The wait is never longer than the caller's limit and, for a rate limit, never
   shorter than asked unless a limit cuts it (parse_retry_after, retry_after). *)
THEOREM WaitAlwaysFollowsTheEndpoint == RetrySpec => []WaitFollowsTheEndpoint
<1>1. OutcomeInv => WaitFollowsTheEndpoint
  <2>. SUFFICES ASSUME OutcomeInv, caller = "sleeping"
                PROVE  /\ wait <= MaxBackoff
                       /\ (AnsweredInFull /\ status = 429 /\ asked = "seconds") =>
                            \/ wait = seconds
                            \/ seconds > wait /\ wait \in {MaxBackoff, MaxRetryAfter}
    BY DEF WaitFollowsTheEndpoint
  <2>1. wait = Wait(outcome)
    BY SleepsOnWhatMayPass
  <2>2. wait <= MaxBackoff
    <3>1. Backoff(attempt) \in Int
      BY DEF OutcomeInv, Backoff
    <3>2. RetryAfter(outcome) \subseteq Int
      <4>1. CASE outcome.variant = "RateLimit" /\ Judged
        <5>1. status \in Int
          BY <4>1, ExchangeAssumption DEF Judged
        <5>2. RetryAfter(outcome) = ParseRetryAfter
          BY <4>1, <5>1, FromStatusIs DEF RetryAfter, Judged
        <5>. QED BY <5>2, ErrorsAssumption DEF ParseRetryAfter, OutcomeInv
      <4>2. CASE outcome.variant # "RateLimit"
        BY <4>2 DEF RetryAfter
      <4>. QED BY <4>1, <4>2, SleepsOnWhatMayPass
    <3>. QED BY <2>1, <3>1, <3>2, RetryAssumption DEF Wait
  <2>3. ASSUME AnsweredInFull, status = 429, asked = "seconds"
        PROVE  \/ wait = seconds
               \/ seconds > wait /\ wait \in {MaxBackoff, MaxRetryAfter}
    <3>1. Judged /\ seconds \in Nat
      BY <2>3, SleepsOnWhatMayPass DEF AnsweredInFull, OutcomeInv
    <3>2. outcome.variant = "RateLimit"
      BY <2>3, <3>1, FromStatusIs DEF OutcomeInv, IsRetryable, Judged
    <3>3. RetryAfter(outcome) = ParseRetryAfter
      BY <2>3, <3>1, <3>2, FromStatusIs DEF RetryAfter, Judged
    <3>4. RetryAfter(outcome) = {IF seconds < MaxRetryAfter THEN seconds ELSE MaxRetryAfter}
      BY <2>3, <3>3 DEF ParseRetryAfter
    <3>5. (CHOOSE d \in RetryAfter(outcome) : TRUE)
            = IF seconds < MaxRetryAfter THEN seconds ELSE MaxRetryAfter
      BY <3>4
    <3>6. wait = LET pace == IF seconds < MaxRetryAfter THEN seconds ELSE MaxRetryAfter
                 IN IF pace < MaxBackoff THEN pace ELSE MaxBackoff
      BY <2>1, <3>4, <3>5 DEF Wait
    <3>. QED BY <3>1, <3>6, RetryAssumption, ErrorsAssumption
  <2>. QED BY <2>2, <2>3
<1>. QED BY <1>1, OutcomeHolds, PTL

-----------------------------------------------------------------------------
(* What is printed of a body *)

(* The ends of the characters of a text, one behind the other. *)
LEMMA EndsAre ==
  ASSUME NEW chars \in Seq(Nat)
  PROVE  /\ EndOf(chars, 0) = 0
         /\ \A k \in 1 .. Len(chars) : EndOf(chars, k) = EndOf(chars, k - 1) + chars[k]
         /\ \A k \in 0 .. Len(chars) : EndOf(chars, k) \in Nat
<1>. DEFINE n     == Len(chars)
            Is(f) == f = [i \in 0 .. n |-> IF i = 0 THEN 0 ELSE f[i - 1] + chars[i]]
            end   == CHOOSE f : Is(f)
<1>1. n \in Nat /\ chars \in [1 .. n -> Nat]
  OBVIOUS
<1>2. \A k : EndOf(chars, k) = end[k]
  BY DEF EndOf
<1>. HIDE DEF n
<1>3. PICK f \in [0 .. n -> Nat] : f[0] = 0 /\ \A k \in 1 .. n : f[k] = f[k - 1] + chars[k]
  BY <1>1, SumsExist
<1>4. \A k \in 1 .. n : k \in 0 .. n /\ k - 1 \in 0 .. n /\ k # 0
  BY <1>1
<1>5. Is(f)
  <2>1. \A i \in 0 .. n : f[i] = IF i = 0 THEN 0 ELSE f[i - 1] + chars[i]
    BY <1>1, <1>3
  <2>. QED BY <1>3, <2>1
<1>6. Is(end)
  <2>. HIDE DEF Is
  <2>. QED BY <1>5
<1>. HIDE DEF end
<1>7. end[0] = 0 /\ \A k \in 1 .. n : end[k] = end[k - 1] + chars[k]
  BY <1>1, <1>4, <1>6
<1>8. \A k \in 0 .. n : end[k] \in Nat
  <2>. DEFINE Good == {k \in 0 .. n : end[k] \in Nat}
  <2>1. 0 \in Good
    BY <1>1, <1>7
  <2>2. ASSUME NEW k \in 1 .. n, k - 1 \in Good PROVE k \in Good
    <3>1. end[k] = end[k - 1] + chars[k] /\ chars[k] \in Nat /\ end[k - 1] \in Nat
      BY <1>1, <1>7, <2>2
    <3>2. k \in 0 .. n
      BY <1>4
    <3>. QED BY <3>1, <3>2
  <2>3. \A k \in 0 .. n : k \in Good
    <3>1. \A k \in 1 .. n : k - 1 \in Good => k \in Good
      BY <2>2
    <3>. HIDE DEF Good
    <3>. QED BY <1>1, <2>1, <3>1, CountingUp
  <2>. QED BY <2>3
<1>. QED BY <1>2, <1>7, <1>8 DEF n

(* A text is as long as any part of it, or longer. *)
LEMMA TheLastEndIsTheGreatest ==
  ASSUME NEW chars \in Seq(Nat), NEW k \in 0 .. Len(chars)
  PROVE  EndOf(chars, k) <= ByteLen(chars)
<1>. DEFINE n    == Len(chars)
            Good == {m \in 0 .. n : m >= k => EndOf(chars, k) <= EndOf(chars, m)}
<1>1. n \in Nat /\ \A m \in 1 .. n : chars[m] \in Nat
  OBVIOUS
<1>2. 0 \in Good
  BY <1>1, EndsAre
<1>3. ASSUME NEW m \in 1 .. n, m - 1 \in Good PROVE m \in Good
  <2>1. /\ EndOf(chars, m) = EndOf(chars, m - 1) + chars[m] /\ chars[m] \in Nat
        /\ EndOf(chars, m - 1) \in Nat /\ EndOf(chars, m) \in Nat /\ EndOf(chars, k) \in Nat
    <3>1. m - 1 \in 0 .. Len(chars) /\ m \in 0 .. Len(chars) /\ m \in 1 .. Len(chars)
      BY <1>1
    <3>. QED BY <1>1, <3>1, EndsAre
  <2>2. m >= k => m = k \/ m - 1 >= k
    BY <1>1
  <2>. QED BY <1>3, <2>1, <2>2
<1>4. \A m \in 1 .. n : m - 1 \in Good => m \in Good
  BY <1>3
<1>5. \A m \in 0 .. n : m \in Good
  <2>. HIDE DEF Good
  <2>. QED BY <1>1, <1>2, <1>4, CountingUp
<1>6. n \in 0 .. n
  BY <1>1
<1>. QED BY <1>5, <1>6 DEF ByteLen

(* A cut text is the longest part of it that is within the limit. *)
LEMMA CappedIsReadable ==
  ASSUME NEW chars \in Seq(Nat)
  PROVE  LET fit == {k \in 0 .. Len(chars) : EndOf(chars, k) <= BodyInMessage}
         IN /\ \E k \in fit : Capped(chars) = EndOf(chars, k)
            /\ \A k \in fit : EndOf(chars, k) <= Capped(chars)
<1>. DEFINE n    == Len(chars)
            fit  == {k \in 0 .. n : EndOf(chars, k) <= BodyInMessage}
            ends == {EndOf(chars, k) : k \in fit}
<1>1. n \in Nat /\ BodyInMessage \in Nat /\ \A k \in 0 .. n : EndOf(chars, k) \in Nat
  BY EndsAre, ErrorsAssumption
<1>2. CASE ByteLen(chars) <= BodyInMessage
  <2>1. Capped(chars) = EndOf(chars, n) /\ n \in fit
    BY <1>1, <1>2 DEF Capped, ByteLen
  <2>2. \A k \in fit : EndOf(chars, k) <= Capped(chars)
    BY <2>1, TheLastEndIsTheGreatest DEF ByteLen
  <2>. QED BY <2>1, <2>2
<1>3. CASE ~(ByteLen(chars) <= BodyInMessage)
  <2>1. ends \in SUBSET (0 .. BodyInMessage)
    <3>1. \A k \in fit : EndOf(chars, k) \in 0 .. BodyInMessage
      BY <1>1
    <3>. QED BY <3>1
  <2>2. ends # {}
    <3>1. 0 \in fit
      BY <1>1, EndsAre
    <3>. QED BY <3>1
  <2>3. PICK most \in ends : \A e \in ends : e <= most
    <3>. HIDE DEF ends
    <3>. QED BY <1>1, <2>1, <2>2, BoundedSetHasAGreatest
  <2>. DEFINE Fits(m) == /\ Boundary(chars, m)
                         /\ \A l \in m + 1 .. BodyInMessage : ~Boundary(chars, l)
  <2>4. most \in 0 .. BodyInMessage /\ Fits(most)
    <3>1. most \in 0 .. BodyInMessage
      BY <2>1, <2>3
    <3>2. Boundary(chars, most)
      BY <2>3 DEF Boundary
    <3>3. ASSUME NEW l \in most + 1 .. BodyInMessage, Boundary(chars, l) PROVE FALSE
      <4>1. PICK k \in 0 .. n : l = EndOf(chars, k)
        BY <3>3 DEF Boundary
      <4>2. l \in Int /\ l <= BodyInMessage /\ ~(l <= most)
        BY <1>1, <3>1
      <4>3. l \in ends
        BY <4>1, <4>2
      <4>. QED BY <2>3, <4>2, <4>3
    <3>. QED BY <3>1, <3>2, <3>3
  <2>5. Capped(chars) = CHOOSE m \in 0 .. BodyInMessage : Fits(m)
    BY <1>3 DEF Capped
  <2>6. Capped(chars) \in 0 .. BodyInMessage /\ Fits(Capped(chars))
    <3>. HIDE DEF Fits
    <3>. QED BY <2>4, <2>5
  <2>7. PICK k \in 0 .. n : Capped(chars) = EndOf(chars, k)
    BY <2>6 DEF Boundary
  <2>8. k \in fit
    BY <1>1, <2>6, <2>7
  <2>9. ASSUME NEW l \in fit PROVE EndOf(chars, l) <= Capped(chars)
    <3>1. Boundary(chars, EndOf(chars, l)) /\ EndOf(chars, l) \in Nat /\ EndOf(chars, l) <= BodyInMessage
      BY <1>1 DEF Boundary
    <3>2. EndOf(chars, l) \notin Capped(chars) + 1 .. BodyInMessage
      BY <2>6, <3>1
    <3>3. Capped(chars) \in Nat
      BY <1>1, <2>6
    <3>. QED BY <1>1, <3>1, <3>2, <3>3
  <2>. QED BY <2>7, <2>8, <2>9
<1>. QED BY <1>2, <1>3

(* A text can be cut: what an answer brought, and what an error carries of it. *)
BodiesAreTexts == body.chars \in Seq(Nat) /\ outcome.body.chars \in Seq(Nat)

(* The body of an error is that of the answer it was made from, or none. *)
LEMMA CarriedBodies ==
  /\ \A v : Refusal(v).body.chars \in Seq(Nat)
  /\ \A flags : Http(flags).body.chars \in Seq(Nat)
  /\ \A code, delay, arriving : FromStatus(code, delay, arriving).body = arriving
<1>1. <<>> \in Seq(Nat)
  OBVIOUS
<1>2. ASSUME NEW v PROVE Refusal(v).body.chars \in Seq(Nat)
  BY <1>1 DEF Refusal, Err, NoBody
<1>3. ASSUME NEW flags PROVE Http(flags).body.chars \in Seq(Nat)
  BY <1>1 DEF Http, Err, NoBody
<1>4. ASSUME NEW code, NEW delay, NEW arriving PROVE FromStatus(code, delay, arriving).body = arriving
  BY DEF FromStatus, Err
<1>. QED BY <1>2, <1>3, <1>4

LEMMA BodiesStayTexts ==
  ASSUME BodiesAreTexts, [RetryNext]_vars
  PROVE  BodiesAreTexts'
<1>. USE DEF BodiesAreTexts
<1>1. CASE Send
  <2>1. Empty.chars \in Seq(Nat)
    BY DEF Empty
  <2>. QED BY <1>1, <2>1, CarriedBodies DEF Send, Return
<1>2. CASE Answered
  <2>1. ASSUME NEW flags, SendFails(flags) \/ BodyBreaks(flags) PROVE BodiesAreTexts'
    BY <2>1, CarriedBodies DEF SendFails, BodyBreaks, Return, answerVars
  <2>2. ASSUME NEW code, NEW header, NEW number, NEW arriving \in Bodies,
               HeadArrives(code, header, number, arriving)
        PROVE  BodiesAreTexts'
    <3>1. body' = arriving /\ arriving.chars \in Seq(Nat)
      <4>1. body' = arriving
        BY <2>2 DEF HeadArrives
      <4>. QED BY <4>1, ExchangeAssumption
    <3>2. outcome' = outcome \/ outcome' = Refusal("Stream")
      BY <2>2 DEF HeadArrives, Return, Ok
    <3>. QED BY <3>1, <3>2, CarriedBodies
  <2>3. ASSUME NEW url, NEW code, NEW arriving \in Bodies, Redirected(url, code, arriving)
        PROVE  BodiesAreTexts'
    BY <2>3, CarriedBodies, ExchangeAssumption DEF Redirected, Return
  <2>4. ASSUME NEW n, ChunkArrives(n) PROVE BodiesAreTexts'
    BY <2>4, CarriedBodies DEF ChunkArrives, Return, answerVars
  <2>5. CASE BodyEnds
    <3>1. body' = body /\ outcome' \in {Parsed, FromStatus(status, ParseRetryAfter, body)}
      BY <2>5 DEF BodyEnds, Return, answerVars
    <3>2. Parsed.body.chars \in Seq(Nat)
      BY CarriedBodies DEF Parsed, Ok
    <3>. QED BY <3>1, <3>2, CarriedBodies
  <2>. QED BY <1>2, <2>1, <2>2, <2>3, <2>4, <2>5 DEF Answered
<1>3. CASE Finish \/ Sleep \/ Wake \/ UNCHANGED vars
  BY <1>3 DEF Finish, Sleep, Wake, vars, exchangeVars, answerVars
<1>. QED BY <1>1, <1>2, <1>3 DEF RetryNext

(* What an error prints of a body, whatever the body and the limit, is the most
   of it that splits no character (capped). *)
THEOREM PrintedIsAlwaysReadable == RetrySpec => []PrintedBodiesAreReadable
<1>1. RetryInit => BodiesAreTexts
  <2>1. Empty.chars \in Seq(Nat) /\ Pending.body.chars \in Seq(Nat)
    BY CarriedBodies DEF Empty, Pending
  <2>. QED BY <2>1 DEF RetryInit, ExchangeInit, BodiesAreTexts
<1>2. BodiesAreTexts /\ [RetryNext]_vars => BodiesAreTexts'
  BY BodiesStayTexts
<1>3. BodiesAreTexts => PrintedBodiesAreReadable
  BY CappedIsReadable DEF BodiesAreTexts, PrintedBodiesAreReadable, Printed
<1>. QED BY <1>1, <1>2, <1>3, PTL DEF RetrySpec

=============================================================================
