----------------------- MODULE StreamedResponse_proofs -----------------------
(***************************************************************************)
(* A stream that is drained is the response that generate would have       *)
(* returned for the same answer, and one whose status is not incomplete    *)
(* has all of its content: whatever is answered, in any of the four        *)
(* dialects, with any number of parts, calls and fragments, and wherever   *)
(* its bytes are cut or stop.                                              *)
(*                                                                         *)
(* The frames of an answer lead the decoder and the assembler from one     *)
(* state at rest to the next.  Each dialect is taken one part at a time:   *)
(* its frames add just that part, whatever came before them, and only the  *)
(* frames after the last part tell how the answer ended.  The frames of    *)
(* all parts lead to the response then, and wherever they stop the status  *)
(* is still incomplete or the content is whole.                            *)
(***************************************************************************)
EXTENDS EventStream_proofs

-----------------------------------------------------------------------------
(* dialect/gemini *)

GHolds(i, step, signature) == [steps |-> One(i, [step |-> step, signature |-> signature])]

LEMMA GeminiReads ==
  ASSUME NEW d, NEW p, NEW i, NEW delta
  PROVE  /\ Decode("gemini", d, Frame("none", p)) = GeminiDecode(d, Frame("none", p))
         /\ Payload(Frame("none", p)) = p
         /\ Decode("gemini", d, GeminiPiece(i, delta)) = GeminiDelta(d, i, delta)
<1>1. \A q : /\ Decode("gemini", d, Frame("none", q)) = GeminiDecode(d, Frame("none", q))
             /\ Payload(Frame("none", q)) = q
  BY DEF Decode, Frame, Payload, HasPayload
<1>2. PICK q : q = [event |-> "step.delta", index |-> i, delta |-> delta]
  OBVIOUS
<1>3. GeminiPiece(i, delta) = Frame("none", q)
  BY <1>2 DEF GeminiPiece
<1>4. GeminiDecode(d, Frame("none", q)) = GeminiDelta(d, i, delta)
  BY <1>1, <1>2 DEF GeminiDecode
<1>. QED BY <1>1, <1>3, <1>4

LEMMA GeminiStarts ==
  ASSUME NEW i, NEW step, NEW p, p.event = "step.start", p.index = i, p.step = step
  PROVE  /\ step.type = "function_call" =>
              Decode("gemini", GeminiDecoder, Frame("none", p))
                = Yields(GHolds(i, step, <<>>), <<RawToolStart(i, step.id)>>)
         /\ step.type # "function_call" =>
              Decode("gemini", GeminiDecoder, Frame("none", p)) = Ignores(GHolds(i, step, <<>>))
<1>1. PICK d, m, h : d = GeminiDecoder /\ h = [step |-> step, signature |-> <<>>] /\ m = Inserted(d.steps, i, h)
  OBVIOUS
<1>2. d = [steps |-> <<>>] /\ d.steps = <<>>
  BY <1>1 DEF GeminiDecoder
<1>3. m = One(i, h)
  BY <1>1, <1>2, OneInserted
<1>4. [d EXCEPT !.steps = m] = GHolds(i, step, <<>>)
  BY <1>1, <1>2, <1>3 DEF GHolds
<1>5. GeminiDecode(d, Frame("none", p)) = GeminiStart(d, i, step)
  BY GeminiReads DEF GeminiDecode
<1>6. GeminiStart(d, i, step) =
        IF step.type = "function_call"
        THEN Yields([d EXCEPT !.steps = m], <<RawToolStart(i, step.id)>>)
        ELSE Ignores([d EXCEPT !.steps = m])
  BY <1>1 DEF GeminiStart
<1>. QED BY <1>1, <1>4, <1>5, <1>6, GeminiReads

LEMMA GeminiStops ==
  ASSUME NEW i, NEW step, NEW sig, NEW p, p.event = "step.stop", p.index = i
  PROVE  Decode("gemini", GHolds(i, step, sig), Frame("none", p)) =
           Yields(GeminiDecoder, <<StepEnded(i, [step |-> step, signature |-> sig])>>)
<1>1. PICK d, h, m : d = GHolds(i, step, sig) /\ h = [step |-> step, signature |-> sig] /\ m = d.steps
  OBVIOUS
<1>2. d = [steps |-> m] /\ m = One(i, h)
  BY <1>1 DEF GHolds
<1>3. DOMAIN m = {i} /\ m[i] = h
  BY <1>2 DEF One
<1>4. Restrict(m, DOMAIN m \ {i}) = <<>>
  <2>1. DOMAIN m \ {i} = {}
    BY <1>3
  <2>. QED BY <2>1, NoMap
<1>5. GeminiDecode(d, Frame("none", p)) = GeminiStop(d, i)
  BY GeminiReads DEF GeminiDecode
<1>6. PICK r : r = Restrict(m, DOMAIN m \ {i})
  OBVIOUS
<1>7. [d EXCEPT !.steps = r] = GeminiDecoder
  BY <1>2, <1>4, <1>6 DEF GeminiDecoder
<1>8. GeminiStop(d, i) = Yields([d EXCEPT !.steps = r], <<StepEnded(i, h)>>)
  BY <1>1, <1>3, <1>6 DEF GeminiStop
<1>. QED BY <1>1, <1>5, <1>7, <1>8, GeminiReads

LEMMA GeminiTells ==
  ASSUME NEW d, NEW i, NEW delta
  PROVE  /\ delta.type = "text" => GeminiDelta(d, i, delta) = Yields(d, <<RawText(delta.text)>>)
         /\ delta.type = "arguments_delta" =>
              GeminiDelta(d, i, delta) = Yields(d, <<RawToolArgs(i, delta.json)>>)
         /\ delta.type = "thought_summary" =>
              GeminiDelta(d, i, delta) = Yields(d, <<RawReasoningText(delta.text)>>)
BY DEF GeminiDelta

LEMMA GeminiSigns ==
  ASSUME NEW i, NEW step, step.type = "thought", NEW sig, NEW delta,
         delta.type = "thought_signature"
  PROVE  GeminiDelta(GHolds(i, step, sig), i, delta)
           = Ignores(GHolds(i, step, Append(sig, delta.signature)))
<1>1. PICK d, h, m : d = GHolds(i, step, sig) /\ h = [step |-> step, signature |-> sig] /\ m = d.steps
  OBVIOUS
<1>2. d = [steps |-> m] /\ m = [s \in {i} |-> h]
  BY <1>1 DEF GHolds, One
<1>3. Holds(d, i, {"thought"})
  BY <1>1, <1>2 DEF Holds
<1>4. PICK e : e = [d EXCEPT !.steps[i].signature = Append(@, delta.signature)]
  OBVIOUS
<1>5. PICK new : new = Append(sig, delta.signature)
  OBVIOUS
<1>6. [h EXCEPT !.signature = Append(h.signature, delta.signature)] = [step |-> step, signature |-> new]
  BY <1>1, <1>5
<1>7. e = [steps |-> [s \in {i} |-> [h EXCEPT !.signature = Append(h.signature, delta.signature)]]]
  BY <1>2, <1>4
<1>8. e = GHolds(i, step, new)
  BY <1>6, <1>7 DEF GHolds, One
<1>9. GeminiDelta(d, i, delta) = Ignores(e)
  BY <1>3, <1>4 DEF GeminiDelta
<1>. QED BY <1>1, <1>5, <1>8, <1>9

LEMMA GeminiMerges ==
  ASSUME NEW i, NEW step, step.type \notin GeminiModelled, NEW sig, NEW delta,
         delta.type \in {"code", "result"}
  PROVE  GeminiDelta(GHolds(i, step, sig), i, delta) = Ignores(GHolds(i, MergeDelta(step, delta), sig))
<1>1. PICK d, h, m : d = GHolds(i, step, sig) /\ h = [step |-> step, signature |-> sig] /\ m = d.steps
  OBVIOUS
<1>2. d = [steps |-> m] /\ m = [s \in {i} |-> h]
  BY <1>1 DEF GHolds, One
<1>3. i \in DOMAIN d.steps /\ ~Holds(d, i, GeminiModelled)
  BY <1>1, <1>2 DEF Holds
<1>4. PICK e : e = [d EXCEPT !.steps[i].step = MergeDelta(@, delta)]
  OBVIOUS
<1>5. PICK new : new = MergeDelta(step, delta)
  OBVIOUS
<1>6. [h EXCEPT !.step = MergeDelta(h.step, delta)] = [step |-> new, signature |-> sig]
  BY <1>1, <1>5
<1>7. e = [steps |-> [s \in {i} |-> [h EXCEPT !.step = MergeDelta(h.step, delta)]]]
  BY <1>2, <1>4
<1>8. e = GHolds(i, new, sig)
  BY <1>6, <1>7 DEF GHolds, One
<1>9. GeminiDelta(d, i, delta) = Ignores(e)
  BY <1>3, <1>4 DEF GeminiDelta
<1>. QED BY <1>1, <1>5, <1>8, <1>9

LEMMA GeminiText ==
  ASSUME NEW nz, NEW no, no = FALSE, NEW us, NEW C, Listed(C),
         NEW i, NEW step, step.type = "model_output", IsStep(step)
  PROVE  /\ Listed(GeminiStepFrames(i, step))
         /\ Leads("gemini", At(GeminiDecoder, Held(nz, <<>>, C, us, no)), GeminiStepFrames(i, step),
                  At(GeminiDecoder, Held(nz, <<>>, Append(C, TextPart(step.text)), us, no)))
<1>1. PICK g, d, txt : /\ g = GeminiStarted(step) /\ d = GHolds(i, g, <<>>)
                       /\ txt = step.text
  OBVIOUS
<1>2. PICK p, q : /\ p = [event |-> "step.start", index |-> i, step |-> g]
                  /\ q = [event |-> "step.stop", index |-> i]
  OBVIOUS
<1>4. Listed(txt) /\ txt # <<>>
  BY <1>1 DEF IsStep, IsSaid, IsList, Listed
<1>n. PICK n \in Nat : n = Len(txt)
  BY <1>4, ListHas
<1>3. PICK F : F = GeminiPieces(i, step)
  OBVIOUS
<1>5. g.type = "model_output"
  BY <1>1 DEF GeminiStarted, IsStep
<1>6. F = [k \in 1 .. n |-> GeminiPiece(i, [type |-> "text", text |-> txt[k]])]
  <2>1. DOMAIN txt = 1 .. n
    BY <1>3, <1>4, <1>n, ListHas
  <2>. QED BY <1>1, <1>3, <2>1 DEF GeminiPieces
<1>7. Listed(F) /\ Len(F) = n
  <2>1. F = [k \in 1 .. n |-> F[k]]
    BY <1>6
  <2>. QED BY <2>1, MappedList
<1>8. \A k \in 1 .. n : Decode("gemini", d, F[k]) = Yields(d, <<RawText(txt[k])>>)
  <2>. TAKE k \in 1 .. n
  <2>1. PICK delta : delta = [type |-> "text", text |-> txt[k]]
    OBVIOUS
  <2>2. F[k] = GeminiPiece(i, delta) /\ delta.type = "text" /\ delta.text = txt[k]
    BY <1>6, <2>1
  <2>3. GeminiDelta(d, i, delta) = Yields(d, <<RawText(delta.text)>>)
    BY <2>2, GeminiTells
  <2>. QED BY <2>2, <2>3, GeminiReads
<1>9. PICK a, b, c : /\ a = Held(nz, <<>>, C, us, no) /\ b = WithText(nz, <<>>, C, us, txt)
                     /\ c = Held(nz, <<>>, Append(C, TextPart(txt)), us, no)
  OBVIOUS
<1>10. Leads("gemini", At(GeminiDecoder, a), <<Frame("none", p)>>, At(d, a))
  <2>1. Decode("gemini", GeminiDecoder, Frame("none", p)) = Ignores(d)
    BY <1>1, <1>2, <1>5, GeminiStarts
  <2>2. KeptOf(Decode("gemini", GeminiDecoder, Frame("none", p)), d)
    BY <2>1 DEF KeptOf
  <2>. QED BY <1>9, <2>2, OneKept
<1>11. Leads("gemini", At(d, a), F, At(d, b))
  <2>1. WithText(nz, <<>>, C, us, <<>>) = a
    BY <1>9, TextBegins
  <2>2. Leads("gemini", At(d, WithText(nz, <<>>, C, us, <<>>)), F, At(d, WithText(nz, <<>>, C, us, txt)))
    BY <1>n, <1>3, <1>4, <1>7, <1>8, TextRuns
  <2>. QED BY <1>9, <2>1, <2>2
<1>12. Leads("gemini", At(d, b), <<Frame("none", q)>>, At(GeminiDecoder, c))
  <2>1. PICK h : h = [step |-> g, signature |-> <<>>]
    OBVIOUS
  <2>2. Decode("gemini", d, Frame("none", q)) = Yields(GeminiDecoder, <<StepEnded(i, h)>>)
    BY <1>1, <1>2, <2>1, GeminiStops
  <2>3. StepEnded(i, h) = RawTextEnd
    BY <1>5, <2>1 DEF StepEnded
  <2>4. Quiet(Absorb(b, RawTextEnd)) = c
    BY <1>4, <1>9, TextEnds
  <2>5. b.status = "incomplete" /\ c.status = "incomplete"
    BY <1>9, WithTextHas
  <2>. QED BY <2>2, <2>3, <2>4, <2>5, OneLeads
<1>13. GeminiStepFrames(i, step) = <<Frame("none", p)>> \o F \o <<Frame("none", q)>>
  BY <1>1, <1>2, <1>3 DEF GeminiStepFrames
<1>. QED BY <1>1, <1>7, <1>9, <1>10, <1>11, <1>12, <1>13, Between

LEMMA GeminiCall ==
  ASSUME NEW nz, NEW open, NEW us, NEW C,
         NEW i, NEW step, step.type = "function_call", IsStep(step)
  PROVE  /\ Listed(GeminiStepFrames(i, step))
         /\ Leads("gemini", At(GeminiDecoder, Held(nz, <<>>, C, us, open)), GeminiStepFrames(i, step),
                  At(GeminiDecoder, Held(nz, <<>>, Append(C, CallPart(step.id, Ended(nz, step.input))), us, open)))
<1>1. PICK g, d, id, args : /\ g = GeminiStarted(step) /\ d = GHolds(i, g, <<>>)
                            /\ id = step.id /\ args = step.input
  OBVIOUS
<1>2. PICK p, q : /\ p = [event |-> "step.start", index |-> i, step |-> g]
                  /\ q = [event |-> "step.stop", index |-> i]
  OBVIOUS
<1>3. Listed(args) /\ IsObject(args)
  BY <1>1 DEF IsStep, IsSpelled, IsList, Listed
<1>n. PICK n \in Nat : n = Len(args)
  BY <1>3, ListHas
<1>4. PICK F : F = GeminiPieces(i, step)
  OBVIOUS
<1>5. g.type = "function_call" /\ g.id = id
  BY <1>1 DEF GeminiStarted, IsStep
<1>6. F = [k \in 1 .. n |-> GeminiPiece(i, [type |-> "arguments_delta", json |-> <<args[k]>>])]
  <2>1. DOMAIN args = 1 .. n
    BY <1>3, <1>4, <1>n, ListHas
  <2>. QED BY <1>1, <1>4, <2>1 DEF GeminiPieces
<1>7. Listed(F) /\ Len(F) = n
  <2>1. F = [k \in 1 .. n |-> F[k]]
    BY <1>6
  <2>. QED BY <2>1, MappedList
<1>8. \A k \in 1 .. n : Decode("gemini", d, F[k]) = Yields(d, <<RawToolArgs(i, <<args[k]>>)>>)
  <2>. TAKE k \in 1 .. n
  <2>1. PICK delta : delta = [type |-> "arguments_delta", json |-> <<args[k]>>]
    OBVIOUS
  <2>2. F[k] = GeminiPiece(i, delta) /\ delta.type = "arguments_delta" /\ delta.json = <<args[k]>>
    BY <1>6, <2>1
  <2>3. GeminiDelta(d, i, delta) = Yields(d, <<RawToolArgs(i, delta.json)>>)
    BY <2>2, GeminiTells
  <2>. QED BY <2>2, <2>3, GeminiReads
<1>9. PICK a, b, c, e : /\ a = Held(nz, <<>>, C, us, open)
                        /\ b = Held(nz, One(i, Begun(id, <<>>)), C, us, open)
                        /\ c = Held(nz, One(i, Begun(id, args)), C, us, open)
                        /\ e = Held(nz, <<>>, Append(C, CallPart(id, Ended(nz, args))), us, open)
  OBVIOUS
<1>10. /\ a.status = "incomplete" /\ b.status = "incomplete"
       /\ c.status = "incomplete" /\ e.status = "incomplete"
  BY <1>9, WithTextHas
<1>11. Leads("gemini", At(GeminiDecoder, a), <<Frame("none", p)>>, At(d, b))
  <2>1. Decode("gemini", GeminiDecoder, Frame("none", p)) = Yields(d, <<RawToolStart(i, id)>>)
    BY <1>1, <1>2, <1>5, GeminiStarts
  <2>2. Quiet(Absorb(a, RawToolStart(i, id))) = b
    BY <1>9, CallStarted
  <2>. QED BY <1>10, <2>1, <2>2, OneLeads
<1>12. Leads("gemini", At(d, b), F, At(d, c))
  BY <1>n, <1>3, <1>4, <1>7, <1>8, <1>9, ArgumentsRun
<1>13. Leads("gemini", At(d, c), <<Frame("none", q)>>, At(GeminiDecoder, e))
  <2>1. PICK h : h = [step |-> g, signature |-> <<>>]
    OBVIOUS
  <2>2. Decode("gemini", d, Frame("none", q)) = Yields(GeminiDecoder, <<StepEnded(i, h)>>)
    BY <1>1, <1>2, <2>1, GeminiStops
  <2>3. StepEnded(i, h) = RawToolEnd(i)
    BY <1>5, <2>1 DEF StepEnded
  <2>4. Quiet(Absorb(c, RawToolEnd(i))) = e
    BY <1>9, CallOver
  <2>. QED BY <1>10, <2>2, <2>3, <2>4, OneLeads
<1>15. GeminiStepFrames(i, step) = <<Frame("none", p)>> \o F \o <<Frame("none", q)>>
  BY <1>1, <1>2, <1>4 DEF GeminiStepFrames
<1>16. /\ Listed(GeminiStepFrames(i, step))
       /\ Leads("gemini", At(GeminiDecoder, a), GeminiStepFrames(i, step), At(GeminiDecoder, e))
  BY <1>7, <1>11, <1>12, <1>13, <1>15, Between
<1>. QED BY <1>1, <1>9, <1>16

LEMMA EndedSorted ==
  ASSUME NEW nz, nz = TRUE, NEW args, IsSpelled(args)
  PROVE  Ended(nz, args) = Canonical(args)
<1>1. args # <<>> /\ IsObject(args)
  <2>1. Listed(args) /\ IsObject(args)
    BY DEF IsSpelled, IsList, Listed
  <2>. QED BY <2>1, ListHas DEF IsObject
<1>. QED BY <1>1 DEF Ended

LEMMA GeminiThought ==
  ASSUME NEW nz, NEW open, NEW us, NEW C,
         NEW i, NEW step, step.type = "thought", IsStep(step)
  PROVE  /\ Listed(GeminiStepFrames(i, step))
         /\ Leads("gemini", At(GeminiDecoder, Held(nz, <<>>, C, us, open)), GeminiStepFrames(i, step),
                  At(GeminiDecoder, Held(nz, <<>>, Append(C, ReasoningPart(step)), us, open)))
<1>1. PICK g, sig : g = GeminiStarted(step) /\ sig = step.signature
  OBVIOUS
<1>2. PICK p, q : /\ p = [event |-> "step.start", index |-> i, step |-> g]
                  /\ q = [event |-> "step.stop", index |-> i]
  OBVIOUS
<1>3. step = [type |-> "thought", signature |-> sig] /\ Listed(sig)
  BY <1>1 DEF IsStep, IsList, Listed
<1>4. g = [type |-> "thought", signature |-> <<>>] /\ g.type = "thought"
  BY <1>1, <1>3 DEF GeminiStarted
<1>5. PICK n \in Nat : n = Len(sig)
  BY <1>3, ListHas
<1>6. PICK S : S = [k \in 1 .. n |-> GeminiPiece(i, [type |-> "thought_signature", signature |-> sig[k]])]
  OBVIOUS
<1>7. PICK t : t = GeminiPiece(i, [type |-> "thought_summary", text |-> "t"])
  OBVIOUS
<1>8. PICK F : F = GeminiPieces(i, step)
  OBVIOUS
<1>9. F = <<t>> \o S
  <2>1. DOMAIN sig = 1 .. n
    BY <1>3, <1>5, ListHas
  <2>. QED BY <1>1, <1>6, <1>7, <1>8, <2>1 DEF GeminiPieces
<1>10. Listed(S) /\ Len(S) = n
  <2>1. S = [k \in 1 .. n |-> S[k]]
    BY <1>6
  <2>. QED BY <2>1, MappedList
<1>11. PICK d : d = [k \in 0 .. n |-> GHolds(i, g, SubSeq(sig, 1, k))]
  OBVIOUS
<1>12. d[0] = GHolds(i, g, <<>>) /\ d[n] = GHolds(i, g, sig)
  <2>1. 0 \in 0 .. n /\ n \in 0 .. n
    OBVIOUS
  <2>. QED BY <1>3, <1>5, <1>11, <2>1, FrontGrows
<1>13. \A k \in 1 .. n : KeptOf(Decode("gemini", d[k - 1], S[k]), d[k])
  <2>. TAKE k \in 1 .. n
  <2>1. k \in 0 .. n /\ k - 1 \in 0 .. n
    OBVIOUS
  <2>2. PICK delta : delta = [type |-> "thought_signature", signature |-> sig[k]]
    OBVIOUS
  <2>3. PICK before : before = SubSeq(sig, 1, k - 1)
    OBVIOUS
  <2>4. S[k] = GeminiPiece(i, delta) /\ delta.type = "thought_signature" /\ delta.signature = sig[k]
    BY <1>6, <2>2
  <2>5. d[k - 1] = GHolds(i, g, before) /\ d[k] = GHolds(i, g, Append(before, sig[k]))
    BY <1>3, <1>5, <1>11, <2>1, <2>3, FrontGrows
  <2>6. GeminiDelta(GHolds(i, g, before), i, delta) = Ignores(GHolds(i, g, Append(before, delta.signature)))
    BY <1>4, <2>4, GeminiSigns
  <2>7. Decode("gemini", d[k - 1], S[k]) = Ignores(d[k])
    BY <2>4, <2>5, <2>6, GeminiReads
  <2>. QED BY <2>7 DEF KeptOf
<1>14. PICK a, b : /\ a = Held(nz, <<>>, C, us, open)
                   /\ b = Held(nz, <<>>, Append(C, ReasoningPart(step)), us, open)
  OBVIOUS
<1>15. Leads("gemini", At(GeminiDecoder, a), <<Frame("none", p)>>, At(d[0], a))
  <2>1. Decode("gemini", GeminiDecoder, Frame("none", p)) = Ignores(d[0])
    <3>1. p.event = "step.start" /\ p.index = i /\ p.step = g /\ g.type # "function_call"
      BY <1>2, <1>4
    <3>2. Decode("gemini", GeminiDecoder, Frame("none", p)) = Ignores(GHolds(i, g, <<>>))
      BY <3>1, GeminiStarts
    <3>. QED BY <1>12, <3>2
  <2>2. KeptOf(Decode("gemini", GeminiDecoder, Frame("none", p)), d[0])
    BY <2>1 DEF KeptOf
  <2>. QED BY <1>14, <2>2, OneKept
<1>16. Leads("gemini", At(d[0], a), <<t>>, At(d[0], a))
  <2>1. PICK delta : delta = [type |-> "thought_summary", text |-> "t"]
    OBVIOUS
  <2>2. t = GeminiPiece(i, delta) /\ delta.type = "thought_summary"
    BY <1>7, <2>1
  <2>3. GeminiDelta(d[0], i, delta) = Yields(d[0], <<RawReasoningText(delta.text)>>)
    BY <2>2, GeminiTells
  <2>4. KeptOf(Decode("gemini", d[0], t), d[0])
    BY <2>2, <2>3, GeminiReads DEF KeptOf
  <2>. QED BY <1>14, <2>4, OneKept
<1>17. Leads("gemini", At(d[0], a), S, At(d[n], a))
  BY <1>10, <1>13, <1>14, KeptRuns
<1>18. Leads("gemini", At(d[0], a), F, At(d[n], a)) /\ Listed(F)
  <2>1. PICK T : T = <<t>>
    OBVIOUS
  <2>2. Listed(T) /\ F = T \o S
    BY <1>9, <2>1, OneListed
  <2>. QED BY <1>10, <1>16, <1>17, <2>1, <2>2, LeadsOn, Joined
<1>19. Leads("gemini", At(d[n], a), <<Frame("none", q)>>, At(GeminiDecoder, b))
  <2>1. PICK h : h = [step |-> g, signature |-> sig]
    OBVIOUS
  <2>2. Decode("gemini", d[n], Frame("none", q)) = Yields(GeminiDecoder, <<StepEnded(i, h)>>)
    BY <1>2, <1>12, <2>1, GeminiStops
  <2>3. StepEnded(i, h) = RawReasoningBlob(step)
    <3>1. h.step = g /\ h.signature = sig
      BY <2>1
    <3>2. [g EXCEPT !.signature = sig] = step
      BY <1>3, <1>4
    <3>3. sig = <<>> => g = step
      BY <1>3, <1>4
    <3>4. StepEnded(i, h) = RawReasoningBlob(IF sig = <<>> THEN g ELSE [g EXCEPT !.signature = sig])
      BY <1>4, <3>1 DEF StepEnded
    <3>. QED BY <3>2, <3>3, <3>4
  <2>4. Quiet(Absorb(a, RawReasoningBlob(step))) = b
    BY <1>14, BlobTold
  <2>5. a.status = "incomplete" /\ b.status = "incomplete"
    BY <1>14, WithTextHas
  <2>. QED BY <2>2, <2>3, <2>4, <2>5, OneLeads
<1>20. GeminiStepFrames(i, step) = <<Frame("none", p)>> \o F \o <<Frame("none", q)>>
  BY <1>1, <1>2, <1>8 DEF GeminiStepFrames
<1>21. /\ Listed(GeminiStepFrames(i, step))
       /\ Leads("gemini", At(GeminiDecoder, a), GeminiStepFrames(i, step), At(GeminiDecoder, b))
  BY <1>15, <1>18, <1>19, <1>20, Between
<1>. QED BY <1>14, <1>21

\* A step that Freyja does not model.
Unmodelled(type, code, result) == [type |-> type, code |-> code, result |-> result]

LEMMA GeminiOther ==
  ASSUME NEW nz, NEW open, NEW us, NEW C,
         NEW i, NEW step, step.type \notin GeminiModelled, IsStep(step)
  PROVE  /\ Listed(GeminiStepFrames(i, step))
         /\ Leads("gemini", At(GeminiDecoder, Held(nz, <<>>, C, us, open)), GeminiStepFrames(i, step),
                  At(GeminiDecoder, Held(nz, <<>>, Append(C, ReasoningPart(step)), us, open)))
<1>1. PICK g, type, code, result :
        g = GeminiStarted(step) /\ type = step.type /\ code = step.code /\ result = step.result
  OBVIOUS
<1>2. PICK p, q : /\ p = [event |-> "step.start", index |-> i, step |-> g]
                  /\ q = [event |-> "step.stop", index |-> i]
  OBVIOUS
<1>3. step = Unmodelled(type, code, result) /\ Listed(code)
  BY <1>1 DEF IsStep, IsList, Listed, GeminiModelled, Unmodelled
<1>4. g = Unmodelled(type, <<>>, "none")
  <2>1. g = [step EXCEPT !.code = <<>>, !.result = "none"]
    BY <1>1 DEF GeminiStarted, GeminiModelled
  <2>. QED BY <1>3, <2>1 DEF Unmodelled
<1>5. \A c, r : Unmodelled(type, c, r).type = type /\ type \notin GeminiModelled
  BY <1>1 DEF Unmodelled
<1>6. PICK n \in Nat : n = Len(code)
  BY <1>3, ListHas
<1>7. PICK S : S = [k \in 1 .. n |-> GeminiPiece(i, [type |-> "code", code |-> code[k]])]
  OBVIOUS
<1>8. PICK t : t = GeminiPiece(i, [type |-> "result", result |-> result])
  OBVIOUS
<1>9. PICK F : F = GeminiPieces(i, step)
  OBVIOUS
<1>10. F = S \o <<t>>
  <2>1. DOMAIN code = 1 .. n
    BY <1>3, <1>6, ListHas
  <2>. QED BY <1>1, <1>7, <1>8, <1>9, <2>1 DEF GeminiPieces, GeminiModelled
<1>11. Listed(S) /\ Len(S) = n
  <2>1. S = [k \in 1 .. n |-> S[k]]
    BY <1>7
  <2>. QED BY <2>1, MappedList
<1>12. PICK s : s = [k \in 0 .. n |-> Unmodelled(type, SubSeq(code, 1, k), "none")]
  OBVIOUS
<1>13. PICK d : d = [k \in 0 .. n |-> GHolds(i, s[k], <<>>)]
  OBVIOUS
<1>14. s[0] = g /\ s[n] = Unmodelled(type, code, "none") /\ d[0] = GHolds(i, g, <<>>) /\ d[n] = GHolds(i, s[n], <<>>)
  <2>1. 0 \in 0 .. n /\ n \in 0 .. n
    OBVIOUS
  <2>2. SubSeq(code, 1, 0) = <<>> /\ SubSeq(code, 1, n) = code
    BY <1>3, <1>6, FrontGrows
  <2>3. s[0] = g /\ s[n] = Unmodelled(type, code, "none")
    BY <1>4, <1>12, <2>1, <2>2
  <2>. QED BY <1>13, <2>1, <2>3
<1>15. \A k \in 1 .. n : KeptOf(Decode("gemini", d[k - 1], S[k]), d[k])
  <2>. TAKE k \in 1 .. n
  <2>1. k \in 0 .. n /\ k - 1 \in 0 .. n
    OBVIOUS
  <2>2. PICK delta : delta = [type |-> "code", code |-> code[k]]
    OBVIOUS
  <2>3. PICK before, x : before = SubSeq(code, 1, k - 1) /\ x = s[k - 1]
    OBVIOUS
  <2>4. S[k] = GeminiPiece(i, delta) /\ delta.type = "code" /\ delta.code = code[k]
    BY <1>7, <2>2
  <2>5. SubSeq(code, 1, k) = Append(before, code[k])
    BY <1>3, <1>6, <2>3, FrontGrows
  <2>6. x = Unmodelled(type, before, "none") /\ s[k] = Unmodelled(type, Append(before, code[k]), "none")
    BY <1>12, <2>1, <2>3, <2>5
  <2>7. MergeDelta(x, delta) = s[k]
    <3>1. PICK y : y = Append(before, code[k])
      OBVIOUS
    <3>2. MergeDelta(x, delta) = [x EXCEPT !.code = Append(x.code, delta.code)]
      BY <2>4 DEF MergeDelta
    <3>3. x.code = before
      BY <2>6 DEF Unmodelled
    <3>4. MergeDelta(x, delta) = [x EXCEPT !.code = y]
      BY <2>4, <3>1, <3>2, <3>3
    <3>5. [x EXCEPT !.code = y] = Unmodelled(type, y, "none")
      BY <2>6 DEF Unmodelled
    <3>. QED BY <2>6, <3>1, <3>4, <3>5
  <2>8. GeminiDelta(GHolds(i, x, <<>>), i, delta) = Ignores(GHolds(i, MergeDelta(x, delta), <<>>))
    BY <1>5, <2>4, <2>6, GeminiMerges
  <2>9. d[k - 1] = GHolds(i, x, <<>>) /\ d[k] = GHolds(i, s[k], <<>>)
    BY <1>13, <2>1, <2>3
  <2>10. Decode("gemini", d[k - 1], S[k]) = GeminiDelta(d[k - 1], i, delta)
    BY <2>4, GeminiReads
  <2>. QED BY <2>7, <2>8, <2>9, <2>10 DEF KeptOf
<1>16. PICK a, b, e : /\ a = Held(nz, <<>>, C, us, open)
                      /\ b = Held(nz, <<>>, Append(C, ReasoningPart(step)), us, open)
                      /\ e = GHolds(i, step, <<>>)
  OBVIOUS
<1>17. Leads("gemini", At(GeminiDecoder, a), <<Frame("none", p)>>, At(d[0], a))
  <2>1. Decode("gemini", GeminiDecoder, Frame("none", p)) = Ignores(d[0])
    <3>1. p.event = "step.start" /\ p.index = i /\ p.step = g
      BY <1>2
    <3>2. g.type # "function_call"
      BY <1>4, <1>5 DEF GeminiModelled
    <3>3. Decode("gemini", GeminiDecoder, Frame("none", p)) = Ignores(GHolds(i, g, <<>>))
      BY <3>1, <3>2, GeminiStarts
    <3>. QED BY <1>14, <3>3
  <2>2. KeptOf(Decode("gemini", GeminiDecoder, Frame("none", p)), d[0])
    BY <2>1 DEF KeptOf
  <2>. QED BY <1>16, <2>2, OneKept
<1>18. Leads("gemini", At(d[0], a), S, At(d[n], a))
  BY <1>11, <1>15, <1>16, KeptRuns
<1>19. Leads("gemini", At(d[n], a), <<t>>, At(e, a))
  <2>1. PICK delta, x : delta = [type |-> "result", result |-> result] /\ x = s[n]
    OBVIOUS
  <2>2. t = GeminiPiece(i, delta) /\ delta.type = "result" /\ delta.result = result
    BY <1>8, <2>1
  <2>3. x = Unmodelled(type, code, "none") /\ d[n] = GHolds(i, x, <<>>)
    BY <1>14, <2>1
  <2>4. MergeDelta(x, delta) = step
    BY <1>3, <2>2, <2>3 DEF MergeDelta, Unmodelled
  <2>5. GeminiDelta(GHolds(i, x, <<>>), i, delta) = Ignores(GHolds(i, MergeDelta(x, delta), <<>>))
    BY <1>5, <2>2, <2>3, GeminiMerges
  <2>6. Decode("gemini", d[n], t) = GeminiDelta(d[n], i, delta)
    BY <2>2, GeminiReads
  <2>7. KeptOf(Decode("gemini", d[n], t), e)
    BY <1>16, <2>3, <2>4, <2>5, <2>6 DEF KeptOf
  <2>. QED BY <1>16, <2>7, OneKept
<1>20. Leads("gemini", At(d[0], a), F, At(e, a)) /\ Listed(F)
  <2>1. PICK T : T = <<t>>
    OBVIOUS
  <2>2. Listed(T) /\ F = S \o T
    BY <1>10, <2>1, OneListed
  <2>. QED BY <1>11, <1>18, <1>19, <2>1, <2>2, LeadsOn, Joined
<1>21. Leads("gemini", At(e, a), <<Frame("none", q)>>, At(GeminiDecoder, b))
  <2>1. PICK h : h = [step |-> step, signature |-> <<>>]
    OBVIOUS
  <2>2. Decode("gemini", e, Frame("none", q)) = Yields(GeminiDecoder, <<StepEnded(i, h)>>)
    <3>1. q.event = "step.stop" /\ q.index = i
      BY <1>2
    <3>. QED BY <1>16, <2>1, <3>1, GeminiStops
  <2>3. StepEnded(i, h) = RawReasoningBlob(step)
    BY <2>1 DEF StepEnded, GeminiModelled
  <2>4. Quiet(Absorb(a, RawReasoningBlob(step))) = b
    BY <1>16, BlobTold
  <2>5. a.status = "incomplete" /\ b.status = "incomplete"
    BY <1>16, WithTextHas
  <2>. QED BY <2>2, <2>3, <2>4, <2>5, OneLeads
<1>22. GeminiStepFrames(i, step) = <<Frame("none", p)>> \o F \o <<Frame("none", q)>>
  BY <1>1, <1>2, <1>9 DEF GeminiStepFrames
<1>23. /\ Listed(GeminiStepFrames(i, step))
       /\ Leads("gemini", At(GeminiDecoder, a), GeminiStepFrames(i, step), At(GeminiDecoder, b))
  BY <1>17, <1>20, <1>21, <1>22, Between
<1>. QED BY <1>16, <1>23

LEMMA GeminiStepRuns ==
  ASSUME NEW nz, NEW no, no = FALSE, NEW us, NEW C, Listed(C), NEW i, NEW step, IsStep(step),
         \A args : IsSpelled(args) => Ended(nz, args) = Canonical(args)
  PROVE  /\ Listed(GeminiStepFrames(i, step))
         /\ Leads("gemini", At(GeminiDecoder, Held(nz, <<>>, C, us, no)), GeminiStepFrames(i, step),
                  At(GeminiDecoder, Held(nz, <<>>, Append(C, ConvertStep(step)), us, no)))
<1>1. CASE step.type = "model_output"
  <2>1. ConvertStep(step) = TextPart(step.text)
    BY <1>1 DEF ConvertStep
  <2>. QED BY <1>1, <2>1, GeminiText
<1>2. CASE step.type = "function_call"
  <2>1. ConvertStep(step) = CallPart(step.id, Ended(nz, step.input))
    BY <1>2 DEF ConvertStep, IsStep
  <2>. QED BY <1>2, <2>1, GeminiCall
<1>3. CASE step.type = "thought"
  <2>1. ConvertStep(step) = ReasoningPart(step)
    BY <1>3 DEF ConvertStep
  <2>. QED BY <1>3, <2>1, GeminiThought
<1>4. CASE step.type \notin GeminiModelled
  <2>1. ConvertStep(step) = ReasoningPart(step)
    BY <1>4 DEF ConvertStep, GeminiModelled
  <2>. QED BY <1>4, <2>1, GeminiOther
<1>. QED BY <1>1, <1>2, <1>3, <1>4 DEF GeminiModelled

-----------------------------------------------------------------------------
(* How an answer ends *)

\* A body that ended here would give all of the content of the response, unless
\* the status said that it does not.
Settled(a, response) == a.status # "incomplete" => Closed(a).captured = response.content

Settles(dialect, s, frames, t, response) ==
  \E p : Runs(p, dialect, s, frames, t) /\ \A k \in 0 .. Len(frames) : Settled(p[k].asm, response)

\* frames make of s the response.
Ends(dialect, s, frames, response) ==
  \E t : Settles(dialect, s, frames, t, response) /\ Assembled(Closed(t.asm)) = response

LEMMA LeadsSettles ==
  ASSUME NEW dialect, NEW s, NEW F, NEW t, Leads(dialect, s, F, t), NEW response
  PROVE  Settles(dialect, s, F, t, response)
<1>1. PICK p : /\ Path(p, dialect, F) /\ p[0] = s /\ p[Len(F)] = t
               /\ \A k \in 0 .. Len(F) : p[k].asm.status = "incomplete"
  BY DEF Leads
<1>2. Runs(p, dialect, s, F, t) /\ \A k \in 0 .. Len(F) : Settled(p[k].asm, response)
  BY <1>1 DEF Runs, Settled
<1>. QED BY <1>2 DEF Settles

LEMMA SettlesOn ==
  ASSUME NEW dialect, NEW s, NEW t, NEW u, NEW F, NEW G, Listed(F), Listed(G), NEW response,
         Settles(dialect, s, F, t, response), Settles(dialect, t, G, u, response)
  PROVE  Settles(dialect, s, F \o G, u, response)
<1>1. PICK m \in Nat, n \in Nat : m = Len(F) /\ n = Len(G)
  BY ListHas
<1>2. PICK p : Runs(p, dialect, s, F, t) /\ \A k \in 0 .. m : Settled(p[k].asm, response)
  BY <1>1 DEF Settles
<1>3. PICK q : Runs(q, dialect, t, G, u) /\ \A k \in 0 .. n : Settled(q[k].asm, response)
  BY <1>1 DEF Settles
<1>4. PICK r : Runs(r, dialect, s, F \o G, u) /\ Chained(r, p, m, q, n)
  <2>1. m = Len(F) /\ n = Len(G) /\ Runs(p, dialect, s, F, t) /\ Runs(q, dialect, t, G, u)
    BY <1>1, <1>2, <1>3
  <2>. QED BY <2>1, RunsOn
<1>5. Len(F \o G) = m + n
  BY <1>1, Joined
<1>6. \A k \in 0 .. m + n : Settled(r[k].asm, response)
  BY <1>2, <1>3, <1>4, Halves DEF Chained
<1>. QED BY <1>4, <1>5, <1>6 DEF Settles

LEMMA SettlesByOne ==
  ASSUME NEW dialect, NEW s, NEW f, NEW response, Settled(s.asm, response),
         NEW t, t = Fed(dialect, s, f), Settled(t.asm, response)
  PROVE  Settles(dialect, s, <<f>>, t, response)
<1>1. PICK p : p = [k \in 0 .. 1 |-> IF k = 0 THEN s ELSE t]
  OBVIOUS
<1>2. PICK frames : frames = <<f>>
  OBVIOUS
<1>3. Len(frames) = 1 /\ frames[1] = f
  BY <1>2, OneListed
<1>4. p[0] = s /\ p[1] = t /\ (\A k \in 1 .. 1 : k = 1 /\ k - 1 = 0) /\ \A k \in 0 .. 1 : k = 0 \/ k = 1
  BY <1>1
<1>5. Path(p, dialect, frames)
  BY <1>3, <1>4 DEF Path
<1>. QED BY <1>2, <1>3, <1>4, <1>5 DEF Settles, Runs

LEMMA LeadsToEnd ==
  ASSUME NEW dialect, NEW s, NEW t, NEW F, NEW G, Listed(F), Listed(G), NEW response,
         Leads(dialect, s, F, t), Ends(dialect, t, G, response)
  PROVE  Ends(dialect, s, F \o G, response)
<1>1. PICK u : Settles(dialect, t, G, u, response) /\ Assembled(Closed(u.asm)) = response
  BY DEF Ends
<1>2. Settles(dialect, s, F, t, response)
  BY LeadsSettles
<1>3. Settles(dialect, s, F \o G, u, response)
  BY <1>1, <1>2, SettlesOn
<1>. QED BY <1>1, <1>3 DEF Ends

LEMMA EndsByOne ==
  ASSUME NEW dialect, NEW s, NEW f, NEW response, Settled(s.asm, response),
         NEW t, t = Fed(dialect, s, f), Assembled(Closed(t.asm)) = response
  PROVE  Ends(dialect, s, <<f>>, response)
<1>1. Settled(t.asm, response)
  <2>1. PICK b : b = Closed(t.asm)
    OBVIOUS
  <2>2. Assembled(b).content = b.captured
    BY DEF Assembled
  <2>. QED BY <2>1, <2>2 DEF Settled
<1>2. Settles(dialect, s, <<f>>, t, response)
  BY <1>1, SettlesByOne
<1>. QED BY <1>2 DEF Ends

LEMMA EndsByTwo ==
  ASSUME NEW dialect, NEW s, NEW f, NEW g, NEW response, Settled(s.asm, response),
         NEW t, t = Fed(dialect, s, f), Settled(t.asm, response), Ends(dialect, t, <<g>>, response)
  PROVE  Ends(dialect, s, <<f>> \o <<g>>, response)
<1>1. PICK F, G : F = <<f>> /\ G = <<g>>
  OBVIOUS
<1>2. Listed(F) /\ Listed(G)
  BY <1>1, OneListed
<1>3. PICK u : Settles(dialect, t, G, u, response) /\ Assembled(Closed(u.asm)) = response
  BY <1>1 DEF Ends
<1>4. Settles(dialect, s, F, t, response)
  BY <1>1, SettlesByOne
<1>5. Settles(dialect, s, F \o G, u, response)
  BY <1>2, <1>3, <1>4, SettlesOn
<1>. QED BY <1>1, <1>3, <1>5 DEF Ends

\* An assembler whose answer has said how it ended.
Ending(normalize, pending, captured, status, usage, open) ==
  [normalize |-> normalize, pending |-> pending, captured |-> captured,
   status |-> status, usage |-> usage,
   finished |-> FALSE, textOpen |-> open, out |-> <<>>]

\* What one count or status leaves of those before it.
LaterUsage(before, usage)   == IF usage = NoUsage THEN before ELSE usage
LaterStatus(before, status) == IF status = "none" THEN before ELSE status

LEMMA EndingHas ==
  ASSUME NEW nz, NEW pending, NEW C, NEW st, NEW us, NEW open, NEW a,
         a = Ending(nz, pending, C, st, us, open)
  PROVE  /\ DOMAIN a = AsmFields /\ a = [x \in AsmFields |-> a[x]]
         /\ a.normalize = nz /\ a.pending = pending /\ a.captured = C /\ a.usage = us
         /\ a.textOpen = open /\ a.status = st /\ a.out = <<>>
<1>1. DOMAIN a = AsmFields /\ a = [x \in AsmFields |-> a[x]]
  BY DEF Ending, AsmFields
<1>2. /\ a.normalize = nz /\ a.pending = pending /\ a.captured = C /\ a.usage = us
      /\ a.textOpen = open /\ a.status = st /\ a.out = <<>>
  BY DEF Ending
<1>. QED BY <1>1, <1>2

LEMMA HeldIsEnding ==
  ASSUME NEW nz, NEW pending, NEW C, NEW us, NEW open
  PROVE  Held(nz, pending, C, us, open) = Ending(nz, pending, C, "incomplete", us, open)
BY DEF Held, Ending

LEMMA MetaTold ==
  ASSUME NEW nz, NEW pending, NEW C, NEW st, NEW us, NEW open, NEW a,
         a = Ending(nz, pending, C, st, us, open), NEW status, NEW usage
  PROVE  Quiet(Absorb(a, RawMeta(status, usage)))
           = Ending(nz, pending, C, LaterStatus(st, status), LaterUsage(us, usage), open)
<1>1. PICK s2, u2, g : /\ s2 = LaterStatus(st, status) /\ u2 = LaterUsage(us, usage)
                       /\ g = Ending(nz, pending, C, s2, u2, open)
  OBVIOUS
<1>2. Absorb(a, RawMeta(status, usage)) = AbsorbMeta(a, status, usage)
  BY AbsorbsOne
<1>3. AbsorbMeta(a, status, usage) = [a EXCEPT !.status = s2, !.usage = u2]
  <2>1. a.status = st /\ a.usage = us
    BY EndingHas
  <2>2. /\ s2 = IF status = "none" THEN a.status ELSE status
        /\ u2 = IF usage = NoUsage THEN a.usage ELSE usage
    BY <1>1, <2>1 DEF LaterStatus, LaterUsage
  <2>. QED BY <2>2 DEF AbsorbMeta
<1>4. PICK b, q : b = [a EXCEPT !.status = s2, !.usage = u2] /\ q = Quiet(b)
  OBVIOUS
<1>5. DOMAIN a = AsmFields
  BY EndingHas
<1>6. /\ DOMAIN b = AsmFields /\ b.status = s2 /\ b.usage = u2
      /\ b.normalize = a.normalize /\ b.finished = a.finished
      /\ b.pending = a.pending /\ b.captured = a.captured /\ b.textOpen = a.textOpen
  BY <1>4, <1>5 DEF AsmFields
<1>7. DOMAIN q = AsmFields /\ q = [x \in AsmFields |-> q[x]]
  BY <1>4, <1>6 DEF Quiet
<1>8. /\ q.pending = b.pending /\ q.captured = b.captured /\ q.out = <<>>
      /\ q.normalize = b.normalize /\ q.usage = b.usage /\ q.status = b.status
      /\ q.textOpen = b.textOpen /\ q.finished = b.finished
  BY <1>4, <1>6 DEF Quiet, AsmFields
<1>9. a.finished = g.finished
  BY <1>1 DEF Ending
<1>10. /\ DOMAIN g = AsmFields /\ g = [x \in AsmFields |-> g[x]]
       /\ g.normalize = nz /\ g.pending = pending /\ g.captured = C
       /\ g.usage = u2 /\ g.textOpen = open /\ g.status = s2 /\ g.out = <<>>
  BY <1>1, EndingHas
<1>11. q = g
  BY <1>6, <1>7, <1>8, <1>9, <1>10, EndingHas, SameFields
<1>. QED BY <1>1, <1>2, <1>3, <1>4, <1>11

\* Nothing is pending, and the end of the body adds nothing.
LEMMA NothingToFlush ==
  ASSUME NEW nz, NEW C, NEW st, NEW us, NEW open, NEW a,
         a = Ending(nz, <<>>, C, st, us, open)
  PROVE  /\ Closed(a).captured = C
         /\ Assembled(Closed(a)) = [content |-> C, status |-> st, usage |-> us]
<1>1. a.pending = <<>> /\ a.captured = C /\ a.status = st /\ a.usage = us /\ DOMAIN a = AsmFields
  BY EndingHas
<1>2. Cardinality(DOMAIN a.pending) = 0
  BY <1>1, FS_EmptySet
<1>3. PICK f : f = CHOOSE g : FlushLoop(g, a, 0)
  OBVIOUS
<1>4. FlushLoop(f, a, 0)
  BY <1>3, FlushLoopRuns
<1>5. f[0] = a
  <2>1. 0 \in 0 .. 0
    OBVIOUS
  <2>. QED BY <1>4, <2>1 DEF FlushLoop
<1>6. Flushed(a) = a
  BY <1>2, <1>3, <1>5 DEF Flushed, FlushLoop
<1>7. PICK b, e, yes : e = Append(a.out, Done(a.status, a.usage)) /\ yes = TRUE
                       /\ b = [a EXCEPT !.finished = yes, !.out = e]
  OBVIOUS
<1>8. Closed(a) = b
  BY <1>6, <1>7 DEF Closed
<1>9. b.captured = C /\ b.status = st /\ b.usage = us
  BY <1>1, <1>7 DEF AsmFields
<1>. QED BY <1>8, <1>9 DEF Assembled

-----------------------------------------------------------------------------
(* The parts of an answer, one after the other *)

\* frames add part to whatever came before them.
Adds(dialect, d, nz, us, no, frames, part) ==
  \A B : Listed(B) =>
    Leads(dialect, At(d, Held(nz, <<>>, B, us, no)), frames,
                   At(d, Held(nz, <<>>, Append(B, part), us, no)))

LEMMA PartsAdd ==
  ASSUME NEW dialect, NEW d, NEW nz, NEW us, NEW no, NEW C, Listed(C), NEW n \in Nat, n = Len(C),
         NEW pieces, pieces = [k \in 1 .. n |-> pieces[k]],
         \A k \in 1 .. n : Listed(pieces[k]) /\ Adds(dialect, d, nz, us, no, pieces[k], C[k])
  PROVE  /\ Listed(FlattenSeq(pieces))
         /\ Leads(dialect, At(d, Held(nz, <<>>, <<>>, us, no)), FlattenSeq(pieces),
                           At(d, Held(nz, <<>>, C, us, no)))
<1>1. PICK h : h = [k \in 0 .. n |-> Held(nz, <<>>, SubSeq(C, 1, k), us, no)]
  OBVIOUS
<1>2. PICK p : p = [k \in 0 .. n |-> At(d, h[k])]
  OBVIOUS
<1>3. Listed(pieces) /\ Len(pieces) = n
  BY MappedList
<1>4. ListOfLists(pieces)
  BY <1>3 DEF ListOfLists
<1>5. ASSUME NEW k \in 1 .. n PROVE Leads(dialect, p[k - 1], pieces[k], p[k])
  <2>1. k \in 0 .. n /\ k - 1 \in 0 .. n
    OBVIOUS
  <2>2. PICK B, c : B = SubSeq(C, 1, k - 1) /\ c = C[k]
    OBVIOUS
  <2>3. Listed(B) /\ SubSeq(C, 1, k) = Append(B, c)
    BY <2>1, <2>2, FrontGrows
  <2>4. h[k - 1] = Held(nz, <<>>, B, us, no) /\ h[k] = Held(nz, <<>>, Append(B, c), us, no)
    BY <1>1, <2>1, <2>2, <2>3
  <2>5. Adds(dialect, d, nz, us, no, pieces[k], c)
    BY <2>2
  <2>6. Leads(dialect, At(d, Held(nz, <<>>, B, us, no)), pieces[k],
                       At(d, Held(nz, <<>>, Append(B, c), us, no)))
    BY <2>3, <2>5 DEF Adds
  <2>. QED BY <1>2, <2>1, <2>4, <2>6
<1>6. h[0] = Held(nz, <<>>, <<>>, us, no) /\ h[n] = Held(nz, <<>>, C, us, no)
  <2>1. 0 \in 0 .. n /\ n \in 0 .. n
    OBVIOUS
  <2>. QED BY <1>1, <2>1, FrontGrows
<1>7. p[0] = At(d, h[0]) /\ p[n] = At(d, h[n]) /\ p[0].asm = h[0]
  <2>1. 0 \in 0 .. n /\ n \in 0 .. n
    OBVIOUS
  <2>. QED BY <1>2, <2>1 DEF At
<1>8. p[0].asm.status = "incomplete"
  <2>1. PICK a : a = Held(nz, <<>>, <<>>, us, no)
    OBVIOUS
  <2>2. a.status = "incomplete"
    BY <2>1, HeldHas
  <2>. QED BY <1>6, <1>7, <2>1, <2>2
<1>9. Leads(dialect, p[0], FlattenSeq(pieces), p[n]) /\ Listed(FlattenSeq(pieces))
  BY <1>3, <1>4, <1>5, <1>8, LeadsListwise
<1>. QED BY <1>6, <1>7, <1>9

\* One frame that says how the answer ended.
LEMMA FedMeta ==
  ASSUME NEW dialect, NEW d, NEW e, NEW nz, NEW pending, NEW C, NEW us, NEW open, NEW f,
         NEW status, status # "none", NEW usage,
         Decode(dialect, d, f) = Yields(e, <<RawMeta(status, usage)>>),
         NEW u, u = LaterUsage(us, usage),
         NEW a, a = Held(nz, pending, C, us, open),
         NEW b, b = Ending(nz, pending, C, status, u, open)
  PROVE  Fed(dialect, At(d, a), f) = At(e, b)
<1>1. PICK s : s = At(d, a)
  OBVIOUS
<1>2. s.decoder = d /\ s.asm = a
  BY <1>1 DEF At
<1>3. a = Ending(nz, pending, C, "incomplete", us, open)
  BY HeldIsEnding
<1>4. LaterStatus("incomplete", status) = status
  BY DEF LaterStatus
<1>5. Quiet(Absorb(a, RawMeta(status, usage)))
        = Ending(nz, pending, C, LaterStatus("incomplete", status), LaterUsage(us, usage), open)
  BY <1>3, MetaTold
<1>6. Quiet(Absorb(a, RawMeta(status, usage))) = b
  BY <1>4, <1>5
<1>7. Fed(dialect, s, f) = [decoder |-> e, asm |-> Quiet(Absorb(a, RawMeta(status, usage)))]
  BY <1>2, FedOne
<1>. QED BY <1>1, <1>6, <1>7 DEF At

\* Nothing is pending.
LEMMA EndsWithMeta ==
  ASSUME NEW dialect, NEW d, NEW e, NEW nz, NEW C, NEW us, NEW open, NEW f,
         NEW status, status # "none", NEW usage,
         Decode(dialect, d, f) = Yields(e, <<RawMeta(status, usage)>>),
         NEW response,
         response = [content |-> C, status |-> status, usage |-> LaterUsage(us, usage)]
  PROVE  Ends(dialect, At(d, Held(nz, <<>>, C, us, open)), <<f>>, response)
<1>1. PICK u : u = LaterUsage(us, usage)
  OBVIOUS
<1>2. PICK a : a = Held(nz, <<>>, C, us, open)
  OBVIOUS
<1>3. PICK b : b = Ending(nz, <<>>, C, status, u, open)
  OBVIOUS
<1>4. PICK s, t : s = At(d, a) /\ t = At(e, b)
  OBVIOUS
<1>5. s.asm = a /\ t.asm = b
  BY <1>4 DEF At
<1>6. Fed(dialect, s, f) = t
  BY <1>1, <1>2, <1>3, <1>4, FedMeta
<1>7. Settled(s.asm, response)
  <2>1. a.status = "incomplete"
    BY <1>2, WithTextHas
  <2>. QED BY <1>5, <2>1 DEF Settled
<1>8. Assembled(Closed(b)) = response
  <2>1. Assembled(Closed(b)) = [content |-> C, status |-> status, usage |-> u]
    BY <1>3, NothingToFlush
  <2>. QED BY <1>1, <2>1
<1>9. Ends(dialect, s, <<f>>, response)
  BY <1>5, <1>6, <1>7, <1>8, EndsByOne
<1>. QED BY <1>2, <1>4, <1>9

LEMMA GeminiEnds ==
  ASSUME NEW nz, NEW no, no = FALSE, NEW r, IsInteraction(r),
         \A args : IsSpelled(args) => Ended(nz, args) = Canonical(args)
  PROVE  /\ Listed(GeminiFrames(r))
         /\ Ends("gemini", At(GeminiDecoder, Held(nz, <<>>, <<>>, NoUsage, no)),
                 GeminiFrames(r), GeminiParse(r))
<1>1. PICK steps : steps = r.steps
  OBVIOUS
<1>2. Listed(steps) /\ \A step \in Range(steps) : IsStep(step)
  BY <1>1 DEF IsInteraction, IsList, Listed
<1>3. PICK n \in Nat : n = Len(steps)
  BY <1>2, ListHas
<1>4. DOMAIN steps = 1 .. n /\ \A k \in 1 .. n : IsStep(steps[k])
  <2>1. DOMAIN steps = 1 .. n
    BY <1>2, <1>3, ListHas
  <2>. QED BY <1>2, <2>1 DEF Range
<1>5. PICK C : C = [k \in 1 .. n |-> ConvertStep(steps[k])]
  OBVIOUS
<1>6. PICK pieces : pieces = [k \in 1 .. n |-> GeminiStepFrames(k - 1, steps[k])]
  OBVIOUS
<1>7. Listed(C) /\ Len(C) = n
  <2>1. C = [k \in 1 .. n |-> C[k]]
    BY <1>5
  <2>. QED BY <2>1, MappedList
<1>8. \A k \in 1 .. n : Listed(pieces[k]) /\ Adds("gemini", GeminiDecoder, nz, NoUsage, no, pieces[k], C[k])
  <2>. TAKE k \in 1 .. n
  <2>1. PICK i, step : i = k - 1 /\ step = steps[k]
    OBVIOUS
  <2>2. IsStep(step) /\ pieces[k] = GeminiStepFrames(i, step) /\ C[k] = ConvertStep(step)
    BY <1>4, <1>5, <1>6, <2>1
  <2>3. \A B : Listed(B) =>
           /\ Listed(GeminiStepFrames(i, step))
           /\ Leads("gemini", At(GeminiDecoder, Held(nz, <<>>, B, NoUsage, no)), GeminiStepFrames(i, step),
                  At(GeminiDecoder, Held(nz, <<>>, Append(B, ConvertStep(step)), NoUsage, no)))
    BY <2>2, GeminiStepRuns
  <2>4. Listed(pieces[k])
    BY <2>2, <2>3, Nothing
  <2>. QED BY <2>2, <2>3, <2>4 DEF Adds
<1>9. PICK F : F = FlattenSeq(pieces)
  OBVIOUS
<1>10. PICK s, t : /\ s = At(GeminiDecoder, Held(nz, <<>>, <<>>, NoUsage, no))
                   /\ t = At(GeminiDecoder, Held(nz, <<>>, C, NoUsage, no))
  OBVIOUS
<1>11. Listed(F) /\ Leads("gemini", s, F, t)
  <2>1. pieces = [k \in 1 .. n |-> pieces[k]]
    BY <1>6
  <2>. QED BY <1>7, <1>8, <1>9, <1>10, <2>1, PartsAdd
<1>12. PICK p, f, status : /\ p = [event |-> "interaction.completed", index |-> 0,
                                   status |-> r.status, usage |-> r.usage]
                           /\ f = Frame("none", p) /\ status = GeminiStatus(r.status)
  OBVIOUS
<1>13. Decode("gemini", GeminiDecoder, f) = Yields(GeminiDecoder, <<RawMeta(status, r.usage)>>)
  <2>1. p.event = "interaction.completed" /\ p.status = r.status /\ p.usage = r.usage
    BY <1>12
  <2>2. Payload(f) = p /\ Decode("gemini", GeminiDecoder, f) = GeminiDecode(GeminiDecoder, f)
    BY <1>12, GeminiReads
  <2>. QED BY <1>12, <2>1, <2>2 DEF GeminiDecode
<1>14. status # "none"
  BY <1>12 DEF GeminiStatus
<1>15. GeminiParse(r) = [content |-> C, status |-> status, usage |-> LaterUsage(NoUsage, r.usage)]
  <2>1. LaterUsage(NoUsage, r.usage) = r.usage
    BY DEF LaterUsage
  <2>. QED BY <1>1, <1>4, <1>5, <1>12, <2>1 DEF GeminiParse
<1>16. Ends("gemini", t, <<f>>, GeminiParse(r))
  BY <1>10, <1>13, <1>14, <1>15, EndsWithMeta
<1>17. GeminiFrames(r) = F \o <<f>>
  BY <1>1, <1>4, <1>6, <1>9, <1>12 DEF GeminiFrames
<1>18. PICK L : L = <<f>>
  OBVIOUS
<1>19. Listed(L) /\ Listed(F \o L)
  BY <1>11, <1>18, OneListed, Joined
<1>20. Ends("gemini", s, F \o L, GeminiParse(r))
  BY <1>11, <1>16, <1>18, <1>19, LeadsToEnd
<1>. QED BY <1>10, <1>17, <1>18, <1>19, <1>20

-----------------------------------------------------------------------------
(* dialect/anthropic *)

Reader(tools, texts, thinking, opaque, input) ==
  [tools |-> tools, texts |-> texts, thinking |-> thinking, opaque |-> opaque, input |-> input]

\* Between two blocks, and within one of each kind.
ReadsNothing(input)            == Reader({}, {}, <<>>, <<>>, input)
ReadsTool(i, input)            == Reader({i}, {}, <<>>, <<>>, input)
ReadsText(i, input)            == Reader({}, {i}, <<>>, <<>>, input)
ReadsThinking(i, block, input) == Reader({}, {}, One(i, block), <<>>, input)
ReadsOpaque(i, block, json, input) ==
  Reader({}, {}, <<>>, One(i, [block |-> block, json |-> json]), input)

Thinking(thinking, signature) ==
  [type |-> "thinking", thinking |-> thinking, signature |-> signature]

LEMMA NoSlots == DOMAIN <<>> = {}
<1>1. PICK s : s = <<>>
  OBVIOUS
<1>2. DOMAIN s = 1 .. 0
  BY <1>1
<1>. QED BY <1>1, <1>2

LEMMA ReaderHas ==
  ASSUME NEW tools, NEW texts, NEW thinking, NEW opaque, NEW input, NEW d,
         d = Reader(tools, texts, thinking, opaque, input)
  PROVE  /\ d.tools = tools /\ d.texts = texts /\ d.thinking = thinking
         /\ d.opaque = opaque /\ d.input = input
BY DEF Reader

\* With one of its fields changed.
ToolsNow(d, x)    == [d EXCEPT !.tools = x]
TextsNow(d, x)    == [d EXCEPT !.texts = x]
ThinkingNow(d, x) == [d EXCEPT !.thinking = x]
OpaqueNow(d, x)   == [d EXCEPT !.opaque = x]
InputNow(d, x)    == [d EXCEPT !.input = x]

LEMMA ReaderChanges ==
  ASSUME NEW tools, NEW texts, NEW thinking, NEW opaque, NEW input, NEW d,
         d = Reader(tools, texts, thinking, opaque, input), NEW x
  PROVE  /\ ToolsNow(d, x) = Reader(x, texts, thinking, opaque, input)
         /\ TextsNow(d, x) = Reader(tools, x, thinking, opaque, input)
         /\ ThinkingNow(d, x) = Reader(tools, texts, x, opaque, input)
         /\ OpaqueNow(d, x) = Reader(tools, texts, thinking, x, input)
         /\ InputNow(d, x) = Reader(tools, texts, thinking, opaque, x)
BY DEF Reader, ToolsNow, TextsNow, ThinkingNow, OpaqueNow, InputNow

Joining(S, i) == S \cup {i}
Leaving(S, i) == S \ {i}

\* A slot is used for one block, of one kind.
OnlyTool(d, i) == i \in d.tools /\ i \notin DOMAIN d.thinking \cup DOMAIN d.opaque \cup d.texts
OnlyText(d, i) == i \in d.texts /\ i \notin DOMAIN d.thinking \cup DOMAIN d.opaque \cup d.tools
OnlyThinking(d, i) == i \in DOMAIN d.thinking /\ i \notin d.tools \cup DOMAIN d.opaque \cup d.texts
OnlyOpaque(d, i) == i \in DOMAIN d.opaque /\ i \notin d.tools \cup DOMAIN d.thinking \cup d.texts

LEMMA StopChanges ==
  ASSUME NEW d, NEW i
  PROVE  /\ OnlyTool(d, i) =>
              AnthropicStop(d, i) = Yields(ToolsNow(d, Leaving(d.tools, i)), <<RawToolEnd(i)>>)
         /\ OnlyThinking(d, i) =>
              AnthropicStop(d, i) = Yields(ThinkingNow(d, Without(d.thinking, i)),
                                           <<RawReasoningBlob(d.thinking[i])>>)
         /\ OnlyOpaque(d, i) =>
              AnthropicStop(d, i) = Yields(OpaqueNow(d, Without(d.opaque, i)),
                                           <<RawReasoningBlob(OpaqueAsStreamed(d.opaque[i]))>>)
         /\ OnlyText(d, i) =>
              AnthropicStop(d, i) = Yields(TextsNow(d, Leaving(d.texts, i)), <<RawTextEnd>>)
<1>1. OnlyTool(d, i) =>
        AnthropicStop(d, i) = Yields(ToolsNow(d, Leaving(d.tools, i)), <<RawToolEnd(i)>>)
  BY DEF AnthropicStop, ToolsNow, Leaving, OnlyTool
<1>2. OnlyThinking(d, i) =>
        AnthropicStop(d, i) = Yields(ThinkingNow(d, Without(d.thinking, i)),
                                     <<RawReasoningBlob(d.thinking[i])>>)
  BY DEF AnthropicStop, ThinkingNow, OnlyThinking
<1>3. OnlyOpaque(d, i) =>
        AnthropicStop(d, i) = Yields(OpaqueNow(d, Without(d.opaque, i)),
                                     <<RawReasoningBlob(OpaqueAsStreamed(d.opaque[i]))>>)
  BY DEF AnthropicStop, OpaqueNow, OnlyOpaque
<1>4. OnlyText(d, i) =>
        AnthropicStop(d, i) = Yields(TextsNow(d, Leaving(d.texts, i)), <<RawTextEnd>>)
  BY DEF AnthropicStop, TextsNow, Leaving, OnlyText
<1>. QED BY <1>1, <1>2, <1>3, <1>4

LEMMA AnthropicReads ==
  ASSUME NEW d, NEW event, NEW p
  PROVE  /\ Decode("anthropic", d, Frame(event, p)) = AnthropicDecode(d, Frame(event, p))
         /\ Payload(Frame(event, p)) = p /\ Frame(event, p).event = event
BY DEF Decode, Frame, Payload, HasPayload

LEMMA AnthropicReadsPiece ==
  ASSUME NEW d, NEW i, NEW delta
  PROVE  Decode("anthropic", d, AnthropicPiece(i, delta)) = AnthropicDelta(d, i, delta)
<1>1. PICK p : p = [index |-> i, delta |-> delta]
  OBVIOUS
<1>2. PICK f : f = Frame("content_block_delta", p)
  OBVIOUS
<1>3. Payload(f) = p /\ f.event = "content_block_delta" /\ Decode("anthropic", d, f) = AnthropicDecode(d, f)
  BY <1>2, AnthropicReads
<1>4. AnthropicDecode(d, f) = AnthropicDelta(d, p.index, p.delta)
  BY <1>3 DEF AnthropicDecode
<1>5. AnthropicPiece(i, delta) = f /\ p.index = i /\ p.delta = delta
  BY <1>1, <1>2 DEF AnthropicPiece
<1>. QED BY <1>3, <1>4, <1>5

LEMMA AnthropicReadsStart ==
  ASSUME NEW d, NEW p
  PROVE  Decode("anthropic", d, Frame("content_block_start", p)) = AnthropicStart(d, p.index, p.block)
<1>1. PICK f : f = Frame("content_block_start", p)
  OBVIOUS
<1>2. Payload(f) = p /\ f.event = "content_block_start" /\ Decode("anthropic", d, f) = AnthropicDecode(d, f)
  BY <1>1, AnthropicReads
<1>3. AnthropicDecode(d, f) = AnthropicStart(d, p.index, p.block)
  BY <1>2 DEF AnthropicDecode
<1>. QED BY <1>1, <1>2, <1>3

LEMMA AnthropicReadsStop ==
  ASSUME NEW d, NEW p
  PROVE  Decode("anthropic", d, Frame("content_block_stop", p)) = AnthropicStop(d, p.index)
<1>1. PICK f : f = Frame("content_block_stop", p)
  OBVIOUS
<1>2. Payload(f) = p /\ f.event = "content_block_stop" /\ Decode("anthropic", d, f) = AnthropicDecode(d, f)
  BY <1>1, AnthropicReads
<1>3. AnthropicDecode(d, f) = AnthropicStop(d, p.index)
  BY <1>2 DEF AnthropicDecode
<1>. QED BY <1>1, <1>2, <1>3

LEMMA AnthropicStarts ==
  ASSUME NEW input, NEW i, NEW block, NEW d, d = ReadsNothing(input)
  PROVE  /\ block.type = "tool_use" =>
              AnthropicStart(d, i, block) = Yields(ReadsTool(i, input), <<RawToolStart(i, block.id)>>)
         /\ block.type = "thinking" =>
              AnthropicStart(d, i, block) = Ignores(ReadsThinking(i, Thinking(<<>>, <<>>), input))
         /\ block.type = "text" => AnthropicStart(d, i, block) = Ignores(ReadsText(i, input))
         /\ block.type \notin {"tool_use", "thinking", "text"} =>
              AnthropicStart(d, i, block) = Ignores(ReadsOpaque(i, block, <<>>, input))
<1>1. d = Reader({}, {}, <<>>, <<>>, input)
  BY DEF ReadsNothing
<1>2. d.tools = {} /\ d.texts = {} /\ d.thinking = <<>> /\ d.opaque = <<>>
  BY <1>1, ReaderHas
<1>3. ASSUME block.type = "tool_use"
      PROVE  AnthropicStart(d, i, block) = Yields(ReadsTool(i, input), <<RawToolStart(i, block.id)>>)
  <2>1. Joining(d.tools, i) = {i}
    BY <1>2 DEF Joining
  <2>2. ToolsNow(d, {i}) = ReadsTool(i, input)
    BY <1>1, ReaderChanges DEF ReadsTool
  <2>3. AnthropicStart(d, i, block)
          = Yields(ToolsNow(d, Joining(d.tools, i)), <<RawToolStart(i, block.id)>>)
    BY <1>3 DEF AnthropicStart, ToolsNow, Joining
  <2>. QED BY <2>1, <2>2, <2>3
<1>4. ASSUME block.type = "thinking"
      PROVE  AnthropicStart(d, i, block) = Ignores(ReadsThinking(i, Thinking(<<>>, <<>>), input))
  <2>1. PICK t : t = Thinking(<<>>, <<>>)
    OBVIOUS
  <2>2. Inserted(d.thinking, i, t) = One(i, t)
    BY <1>2, OneInserted
  <2>3. ThinkingNow(d, One(i, t)) = ReadsThinking(i, t, input)
    BY <1>1, ReaderChanges DEF ReadsThinking
  <2>4. AnthropicStart(d, i, block) = Ignores(ThinkingNow(d, Inserted(d.thinking, i, t)))
    BY <1>4, <2>1 DEF AnthropicStart, ThinkingNow, Thinking
  <2>. QED BY <2>1, <2>2, <2>3, <2>4
<1>5. ASSUME block.type = "text"
      PROVE  AnthropicStart(d, i, block) = Ignores(ReadsText(i, input))
  <2>1. Joining(d.texts, i) = {i}
    BY <1>2 DEF Joining
  <2>2. TextsNow(d, {i}) = ReadsText(i, input)
    BY <1>1, ReaderChanges DEF ReadsText
  <2>3. AnthropicStart(d, i, block) = Ignores(TextsNow(d, Joining(d.texts, i)))
    BY <1>5 DEF AnthropicStart, TextsNow, Joining
  <2>. QED BY <2>1, <2>2, <2>3
<1>6. ASSUME block.type \notin {"tool_use", "thinking", "text"}
      PROVE  AnthropicStart(d, i, block) = Ignores(ReadsOpaque(i, block, <<>>, input))
  <2>1. PICK h : h = [block |-> block, json |-> <<>>]
    OBVIOUS
  <2>2. Inserted(d.opaque, i, h) = One(i, h)
    BY <1>2, OneInserted
  <2>3. OpaqueNow(d, One(i, h)) = Reader({}, {}, <<>>, One(i, h), input)
    BY <1>1, ReaderChanges
  <2>4. ReadsOpaque(i, block, <<>>, input) = Reader({}, {}, <<>>, One(i, h), input)
    BY <2>1 DEF ReadsOpaque
  <2>5. AnthropicStart(d, i, block) = Ignores(OpaqueNow(d, Inserted(d.opaque, i, h)))
    BY <1>6, <2>1 DEF AnthropicStart, OpaqueNow
  <2>. QED BY <2>2, <2>3, <2>4, <2>5
<1>. QED BY <1>3, <1>4, <1>5, <1>6

LEMMA OneSlot ==
  ASSUME NEW i, NEW x
  PROVE  /\ DOMAIN One(i, x) = {i} /\ One(i, x)[i] = x
         /\ Without(One(i, x), i) = <<>>
<1>1. DOMAIN One(i, x) = {i} /\ One(i, x)[i] = x
  BY DEF One
<1>2. PICK m : m = One(i, x)
  OBVIOUS
<1>3. DOMAIN m \ {i} = {}
  BY <1>1, <1>2
<1>4. Restrict(m, DOMAIN m \ {i}) = <<>>
  BY <1>3, NoMap
<1>. QED BY <1>1, <1>2, <1>4 DEF Without

LEMMA AnthropicStops ==
  ASSUME NEW input, NEW i
  PROVE  /\ AnthropicStop(ReadsTool(i, input), i) = Yields(ReadsNothing(input), <<RawToolEnd(i)>>)
         /\ AnthropicStop(ReadsText(i, input), i) = Yields(ReadsNothing(input), <<RawTextEnd>>)
         /\ \A block : AnthropicStop(ReadsThinking(i, block, input), i)
                         = Yields(ReadsNothing(input), <<RawReasoningBlob(block)>>)
<1>1. AnthropicStop(ReadsTool(i, input), i) = Yields(ReadsNothing(input), <<RawToolEnd(i)>>)
  <2>1. PICK d : d = ReadsTool(i, input)
    OBVIOUS
  <2>2. d = Reader({i}, {}, <<>>, <<>>, input)
    BY <2>1 DEF ReadsTool
  <2>3. d.tools = {i} /\ d.texts = {} /\ d.thinking = <<>> /\ d.opaque = <<>>
    BY <2>2, ReaderHas
  <2>4. OnlyTool(d, i) /\ Leaving(d.tools, i) = {}
    BY <2>3, NoSlots DEF Leaving, OnlyTool
  <2>5. ToolsNow(d, {}) = ReadsNothing(input)
    BY <2>2, ReaderChanges DEF ReadsNothing
  <2>. QED BY <2>1, <2>4, <2>5, StopChanges
<1>2. AnthropicStop(ReadsText(i, input), i) = Yields(ReadsNothing(input), <<RawTextEnd>>)
  <2>1. PICK d : d = ReadsText(i, input)
    OBVIOUS
  <2>2. d = Reader({}, {i}, <<>>, <<>>, input)
    BY <2>1 DEF ReadsText
  <2>3. d.tools = {} /\ d.texts = {i} /\ d.thinking = <<>> /\ d.opaque = <<>>
    BY <2>2, ReaderHas
  <2>4. OnlyText(d, i) /\ Leaving(d.texts, i) = {}
    BY <2>3, NoSlots DEF Leaving, OnlyText
  <2>5. TextsNow(d, {}) = ReadsNothing(input)
    BY <2>2, ReaderChanges DEF ReadsNothing
  <2>. QED BY <2>1, <2>4, <2>5, StopChanges
<1>3. ASSUME NEW block
      PROVE  AnthropicStop(ReadsThinking(i, block, input), i)
               = Yields(ReadsNothing(input), <<RawReasoningBlob(block)>>)
  <2>1. PICK d, m : d = ReadsThinking(i, block, input) /\ m = One(i, block)
    OBVIOUS
  <2>2. d = Reader({}, {}, m, <<>>, input)
    BY <2>1 DEF ReadsThinking
  <2>3. d.tools = {} /\ d.thinking = m /\ d.opaque = <<>> /\ d.texts = {}
    BY <2>2, ReaderHas
  <2>4. Without(m, i) = <<>> /\ DOMAIN m = {i} /\ m[i] = block
    BY <2>1, OneSlot
  <2>5. ThinkingNow(d, <<>>) = ReadsNothing(input)
    BY <2>2, ReaderChanges DEF ReadsNothing
  <2>6. OnlyThinking(d, i) /\ d.thinking[i] = block
    BY <2>3, <2>4, NoSlots DEF OnlyThinking
  <2>7. AnthropicStop(d, i) = Yields(ThinkingNow(d, Without(d.thinking, i)),
                                     <<RawReasoningBlob(d.thinking[i])>>)
    BY <2>6, StopChanges
  <2>8. Without(d.thinking, i) = <<>>
    BY <2>3, <2>4
  <2>. QED BY <2>1, <2>5, <2>6, <2>7, <2>8
<1>. QED BY <1>1, <1>2, <1>3

LEMMA AnthropicStopsOpaque ==
  ASSUME NEW input, NEW i, NEW block, NEW json, NEW held, held = [block |-> block, json |-> json]
  PROVE  AnthropicStop(ReadsOpaque(i, block, json, input), i)
           = Yields(ReadsNothing(input), <<RawReasoningBlob(OpaqueAsStreamed(held))>>)
<1>1. PICK d, m : d = ReadsOpaque(i, block, json, input) /\ m = One(i, held)
  OBVIOUS
<1>2. d = Reader({}, {}, <<>>, m, input)
  BY <1>1 DEF ReadsOpaque
<1>3. d.tools = {} /\ d.thinking = <<>> /\ d.opaque = m /\ d.texts = {}
  BY <1>2, ReaderHas
<1>4. Without(m, i) = <<>> /\ DOMAIN m = {i} /\ m[i] = held
  BY <1>1, OneSlot
<1>5. OpaqueNow(d, <<>>) = ReadsNothing(input)
  BY <1>2, ReaderChanges DEF ReadsNothing
<1>6. OnlyOpaque(d, i) /\ d.opaque[i] = held
  BY <1>3, <1>4, NoSlots DEF OnlyOpaque
<1>7. AnthropicStop(d, i) = Yields(OpaqueNow(d, Without(d.opaque, i)),
                                   <<RawReasoningBlob(OpaqueAsStreamed(d.opaque[i]))>>)
  BY <1>6, StopChanges
<1>8. Without(d.opaque, i) = <<>>
  BY <1>3, <1>4
<1>. QED BY <1>1, <1>5, <1>6, <1>7, <1>8

LEMMA AnthropicTells ==
  ASSUME NEW d, NEW i, NEW delta
  PROVE  /\ delta.type = "text_delta" => AnthropicDelta(d, i, delta) = Yields(d, <<RawText(delta.text)>>)
         /\ delta.type = "input_json_delta" /\ i \notin DOMAIN d.opaque =>
              AnthropicDelta(d, i, delta) = Yields(d, <<RawToolArgs(i, delta.json)>>)
BY DEF AnthropicDelta

LEMMA AnthropicThinks ==
  ASSUME NEW input, NEW i, NEW delta, NEW th, NEW sig
  PROVE  /\ delta.type = "thinking_delta" =>
              AnthropicDelta(ReadsThinking(i, Thinking(th, sig), input), i, delta)
                = Yields(ReadsThinking(i, Thinking(Append(th, delta.thinking), sig), input),
                         <<RawReasoningText(delta.thinking)>>)
         /\ delta.type = "signature_delta" =>
              AnthropicDelta(ReadsThinking(i, Thinking(th, sig), input), i, delta)
                = Ignores(ReadsThinking(i, Thinking(th, Append(sig, delta.signature)), input))
<1>1. PICK b : b = Thinking(th, sig)
  OBVIOUS
<1>2. PICK d, m : d = ReadsThinking(i, b, input) /\ m = [s \in {i} |-> b]
  OBVIOUS
<1>3. d = [tools |-> {}, texts |-> {}, thinking |-> m, opaque |-> <<>>, input |-> input]
  BY <1>2 DEF ReadsThinking, Reader, One
<1>4. i \in DOMAIN d.thinking /\ b.thinking = th /\ b.signature = sig
  BY <1>1, <1>2, <1>3 DEF Thinking
<1>5. ASSUME delta.type = "thinking_delta"
      PROVE  AnthropicDelta(d, i, delta)
                = Yields(ReadsThinking(i, Thinking(Append(th, delta.thinking), sig), input),
                         <<RawReasoningText(delta.thinking)>>)
  <2>1. PICK x, c, n, e : /\ x = Append(b.thinking, delta.thinking) /\ c = Thinking(x, sig)
                          /\ n = [s \in {i} |-> c]
                          /\ e = [d EXCEPT !.thinking[i].thinking = x]
    OBVIOUS
  <2>2. [b EXCEPT !.thinking = x] = c
    <3>1. b = [type |-> "thinking", thinking |-> th, signature |-> sig]
      BY <1>1 DEF Thinking
    <3>2. c = [type |-> "thinking", thinking |-> x, signature |-> sig]
      BY <2>1 DEF Thinking
    <3>. QED BY <3>1, <3>2
  <2>3. [m EXCEPT ![i].thinking = x] = n
    BY <1>2, <2>1, <2>2
  <2>4. e = [d EXCEPT !.thinking = n]
    BY <1>3, <2>1, <2>3
  <2>5. e = ReadsThinking(i, c, input)
    BY <1>3, <2>1, <2>4 DEF ReadsThinking, Reader, One
  <2>6. AnthropicDelta(d, i, delta) = Yields(e, <<RawReasoningText(delta.thinking)>>)
    <3>1. d.thinking[i].thinking = b.thinking
      BY <1>2, <1>3
    <3>2. e = [d EXCEPT !.thinking[i].thinking = Append(@, delta.thinking)]
      BY <2>1, <3>1
    <3>. QED BY <1>4, <1>5, <3>2 DEF AnthropicDelta
  <2>. QED BY <1>4, <2>1, <2>5, <2>6
<1>6. ASSUME delta.type = "signature_delta"
      PROVE  AnthropicDelta(d, i, delta)
                = Ignores(ReadsThinking(i, Thinking(th, Append(sig, delta.signature)), input))
  <2>1. PICK x, c, n, e : /\ x = Append(b.signature, delta.signature) /\ c = Thinking(th, x)
                          /\ n = [s \in {i} |-> c]
                          /\ e = [d EXCEPT !.thinking[i].signature = x]
    OBVIOUS
  <2>2. [b EXCEPT !.signature = x] = c
    <3>1. b = [type |-> "thinking", thinking |-> th, signature |-> sig]
      BY <1>1 DEF Thinking
    <3>2. c = [type |-> "thinking", thinking |-> th, signature |-> x]
      BY <2>1 DEF Thinking
    <3>. QED BY <3>1, <3>2
  <2>3. [m EXCEPT ![i].signature = x] = n
    BY <1>2, <2>1, <2>2
  <2>4. e = [d EXCEPT !.thinking = n]
    BY <1>3, <2>1, <2>3
  <2>5. e = ReadsThinking(i, c, input)
    BY <1>3, <2>1, <2>4 DEF ReadsThinking, Reader, One
  <2>6. AnthropicDelta(d, i, delta) = Ignores(e)
    <3>1. d.thinking[i].signature = b.signature
      BY <1>2, <1>3
    <3>2. e = [d EXCEPT !.thinking[i].signature = Append(@, delta.signature)]
      BY <2>1, <3>1
    <3>. QED BY <1>4, <1>6, <3>2 DEF AnthropicDelta
  <2>. QED BY <1>4, <2>1, <2>5, <2>6
<1>. QED BY <1>1, <1>2, <1>5, <1>6

LEMMA AnthropicKeeps ==
  ASSUME NEW input, NEW i, NEW delta, delta.type = "input_json_delta", NEW block, NEW json
  PROVE  AnthropicDelta(ReadsOpaque(i, block, json, input), i, delta)
           = Ignores(ReadsOpaque(i, block, json \o delta.json, input))
<1>1. PICK h : h = [block |-> block, json |-> json]
  OBVIOUS
<1>2. PICK d, m : d = ReadsOpaque(i, block, json, input) /\ m = [s \in {i} |-> h]
  OBVIOUS
<1>3. d = [tools |-> {}, texts |-> {}, thinking |-> <<>>, opaque |-> m, input |-> input]
  BY <1>1, <1>2 DEF ReadsOpaque, Reader, One
<1>4. i \in DOMAIN d.opaque /\ h.json = json /\ h.block = block
  BY <1>1, <1>2, <1>3
<1>5. PICK x : x = json \o delta.json
  OBVIOUS
<1>6. PICK c : c = [block |-> block, json |-> x]
  OBVIOUS
<1>7. PICK n : n = [s \in {i} |-> c]
  OBVIOUS
<1>8. PICK e : e = [d EXCEPT !.opaque[i].json = x]
  OBVIOUS
<1>9. [h EXCEPT !.json = x] = c
  BY <1>1, <1>6
<1>10. [m EXCEPT ![i].json = x] = n
  BY <1>2, <1>7, <1>9
<1>11. e = [d EXCEPT !.opaque = n]
  BY <1>3, <1>8, <1>10
<1>12. e = ReadsOpaque(i, block, x, input)
  BY <1>3, <1>6, <1>7, <1>11 DEF ReadsOpaque, Reader, One
<1>13. AnthropicDelta(d, i, delta) = Ignores(e)
  <2>1. d.opaque[i].json = json
    BY <1>2, <1>3, <1>4
  <2>2. e = [d EXCEPT !.opaque[i].json = @ \o delta.json]
    BY <1>5, <1>8, <2>1
  <2>. QED BY <1>4, <2>2 DEF AnthropicDelta
<1>. QED BY <1>2, <1>5, <1>12, <1>13

LEMMA AnthropicFramed ==
  ASSUME NEW i, NEW block
  PROVE  \E p, q : /\ AnthropicBlockFrames(i, block)
                        = <<Frame("content_block_start", p)>> \o AnthropicPieces(i, block)
                            \o <<Frame("content_block_stop", q)>>
                   /\ p.index = i /\ p.block = AnthropicStarted(block) /\ q.index = i
<1>1. PICK p, q : p = [index |-> i, block |-> AnthropicStarted(block)] /\ q = [index |-> i]
  OBVIOUS
<1>2. AnthropicBlockFrames(i, block)
        = <<Frame("content_block_start", p)>> \o AnthropicPieces(i, block)
            \o <<Frame("content_block_stop", q)>>
  BY <1>1 DEF AnthropicBlockFrames
<1>3. p.index = i /\ p.block = AnthropicStarted(block) /\ q.index = i
  BY <1>1
<1>. QED BY <1>2, <1>3

LEMMA AnthropicText ==
  ASSUME NEW nz, NEW no, no = FALSE, NEW us, NEW C, Listed(C), NEW input,
         NEW i, NEW block, block.type = "text", IsBlock(block)
  PROVE  /\ Listed(AnthropicBlockFrames(i, block))
         /\ Leads("anthropic", At(ReadsNothing(input), Held(nz, <<>>, C, us, no)),
                  AnthropicBlockFrames(i, block),
                  At(ReadsNothing(input), Held(nz, <<>>, Append(C, TextPart(block.text)), us, no)))
<1>1. PICK g, d, o, txt : /\ g = AnthropicStarted(block) /\ d = ReadsText(i, input)
                          /\ o = ReadsNothing(input) /\ txt = block.text
  OBVIOUS
<1>0. PICK p, q : /\ AnthropicBlockFrames(i, block)
                       = <<Frame("content_block_start", p)>> \o AnthropicPieces(i, block)
                           \o <<Frame("content_block_stop", q)>>
                  /\ p.index = i /\ p.block = AnthropicStarted(block) /\ q.index = i
  BY AnthropicFramed
<1>2. /\ AnthropicBlockFrames(i, block)
           = <<Frame("content_block_start", p)>> \o AnthropicPieces(i, block)
               \o <<Frame("content_block_stop", q)>>
      /\ p.index = i /\ p.block = g /\ q.index = i
  BY <1>0, <1>1
<1>3. Listed(txt) /\ txt # <<>>
  BY <1>1 DEF IsBlock, IsSaid, IsList, Listed
<1>4. PICK n \in Nat : n = Len(txt)
  BY <1>3, ListHas
<1>5. g.type = "text"
  BY <1>1 DEF AnthropicStarted, IsBlock
<1>6. PICK F : F = AnthropicPieces(i, block)
  OBVIOUS
<1>7. F = [k \in 1 .. n |-> AnthropicPiece(i, [type |-> "text_delta", text |-> txt[k]])]
  <2>1. DOMAIN txt = 1 .. n
    BY <1>3, <1>4, ListHas
  <2>. QED BY <1>1, <1>6, <2>1 DEF AnthropicPieces
<1>8. Listed(F) /\ Len(F) = n
  <2>1. F = [k \in 1 .. n |-> F[k]]
    BY <1>7
  <2>. QED BY <2>1, MappedList
<1>9. \A k \in 1 .. n : Decode("anthropic", d, F[k]) = Yields(d, <<RawText(txt[k])>>)
  <2>. TAKE k \in 1 .. n
  <2>1. PICK delta : delta = [type |-> "text_delta", text |-> txt[k]]
    OBVIOUS
  <2>2. F[k] = AnthropicPiece(i, delta) /\ delta.type = "text_delta" /\ delta.text = txt[k]
    BY <1>7, <2>1
  <2>3. AnthropicDelta(d, i, delta) = Yields(d, <<RawText(delta.text)>>)
    BY <2>2, AnthropicTells
  <2>. QED BY <2>2, <2>3, AnthropicReadsPiece
<1>10. PICK a, b, c : /\ a = Held(nz, <<>>, C, us, no) /\ b = WithText(nz, <<>>, C, us, txt)
                      /\ c = Held(nz, <<>>, Append(C, TextPart(txt)), us, no)
  OBVIOUS
<1>11. Leads("anthropic", At(o, a), <<Frame("content_block_start", p)>>, At(d, a))
  <2>1. AnthropicStart(o, i, g) = Ignores(d)
    BY <1>1, <1>5, AnthropicStarts
  <2>2. Decode("anthropic", o, Frame("content_block_start", p)) = AnthropicStart(o, p.index, p.block)
    BY AnthropicReadsStart
  <2>3. KeptOf(Decode("anthropic", o, Frame("content_block_start", p)), d)
    BY <1>2, <2>1, <2>2 DEF KeptOf
  <2>. QED BY <1>10, <2>3, OneKept
<1>12. Leads("anthropic", At(d, a), F, At(d, b))
  <2>1. WithText(nz, <<>>, C, us, <<>>) = a
    BY <1>10, TextBegins
  <2>2. Leads("anthropic", At(d, WithText(nz, <<>>, C, us, <<>>)), F, At(d, WithText(nz, <<>>, C, us, txt)))
    BY <1>3, <1>4, <1>8, <1>9, TextRuns
  <2>. QED BY <1>10, <2>1, <2>2
<1>13. Leads("anthropic", At(d, b), <<Frame("content_block_stop", q)>>, At(o, c))
  <2>1. Decode("anthropic", d, Frame("content_block_stop", q)) = AnthropicStop(d, q.index)
    BY AnthropicReadsStop
  <2>2. AnthropicStop(d, i) = Yields(o, <<RawTextEnd>>)
    BY <1>1, AnthropicStops
  <2>3. Decode("anthropic", d, Frame("content_block_stop", q)) = Yields(o, <<RawTextEnd>>)
    BY <1>2, <2>1, <2>2
  <2>4. Quiet(Absorb(b, RawTextEnd)) = c
    BY <1>3, <1>10, TextEnds
  <2>5. b.status = "incomplete" /\ c.status = "incomplete"
    BY <1>10, WithTextHas
  <2>. QED BY <2>3, <2>4, <2>5, OneLeads
<1>14. /\ Listed(AnthropicBlockFrames(i, block))
       /\ Leads("anthropic", At(o, a), AnthropicBlockFrames(i, block), At(o, c))
  BY <1>2, <1>6, <1>8, <1>11, <1>12, <1>13, Between
<1>. QED BY <1>1, <1>10, <1>14

LEMMA AnthropicCall ==
  ASSUME NEW nz, NEW open, NEW us, NEW C, NEW input,
         NEW i, NEW block, block.type = "tool_use", IsBlock(block)
  PROVE  /\ Listed(AnthropicBlockFrames(i, block))
         /\ Leads("anthropic", At(ReadsNothing(input), Held(nz, <<>>, C, us, open)),
                  AnthropicBlockFrames(i, block),
                  At(ReadsNothing(input),
                     Held(nz, <<>>, Append(C, CallPart(block.id, Ended(nz, block.input))), us, open)))
<1>1. PICK g, d, o, id, args : /\ g = AnthropicStarted(block) /\ d = ReadsTool(i, input)
                               /\ o = ReadsNothing(input) /\ id = block.id /\ args = block.input
  OBVIOUS
<1>0. PICK p, q : /\ AnthropicBlockFrames(i, block)
                       = <<Frame("content_block_start", p)>> \o AnthropicPieces(i, block)
                           \o <<Frame("content_block_stop", q)>>
                  /\ p.index = i /\ p.block = AnthropicStarted(block) /\ q.index = i
  BY AnthropicFramed
<1>2. /\ AnthropicBlockFrames(i, block)
           = <<Frame("content_block_start", p)>> \o AnthropicPieces(i, block)
               \o <<Frame("content_block_stop", q)>>
      /\ p.index = i /\ p.block = g /\ q.index = i
  BY <1>0, <1>1
<1>3. Listed(args)
  BY <1>1 DEF IsBlock, IsSpelled, IsList, Listed
<1>4. PICK n \in Nat : n = Len(args)
  BY <1>3, ListHas
<1>5. g.type = "tool_use" /\ g.id = id
  BY <1>1 DEF AnthropicStarted, IsBlock
<1>6. PICK F : F = AnthropicPieces(i, block)
  OBVIOUS
<1>7. F = [k \in 1 .. n |-> AnthropicPiece(i, [type |-> "input_json_delta", json |-> <<args[k]>>])]
  <2>1. DOMAIN args = 1 .. n
    BY <1>3, <1>4, ListHas
  <2>. QED BY <1>1, <1>6, <2>1 DEF AnthropicPieces
<1>8. Listed(F) /\ Len(F) = n
  <2>1. F = [k \in 1 .. n |-> F[k]]
    BY <1>7
  <2>. QED BY <2>1, MappedList
<1>9. i \notin DOMAIN d.opaque
  <2>1. d = Reader({i}, {}, <<>>, <<>>, input)
    BY <1>1 DEF ReadsTool
  <2>2. d.opaque = <<>>
    BY <2>1, ReaderHas
  <2>. QED BY <2>2, NoSlots
<1>10. \A k \in 1 .. n : Decode("anthropic", d, F[k]) = Yields(d, <<RawToolArgs(i, <<args[k]>>)>>)
  <2>. TAKE k \in 1 .. n
  <2>1. PICK delta : delta = [type |-> "input_json_delta", json |-> <<args[k]>>]
    OBVIOUS
  <2>2. F[k] = AnthropicPiece(i, delta) /\ delta.type = "input_json_delta" /\ delta.json = <<args[k]>>
    BY <1>7, <2>1
  <2>3. AnthropicDelta(d, i, delta) = Yields(d, <<RawToolArgs(i, delta.json)>>)
    BY <1>9, <2>2, AnthropicTells
  <2>. QED BY <2>2, <2>3, AnthropicReadsPiece
<1>11. PICK a, b, c, e : /\ a = Held(nz, <<>>, C, us, open)
                         /\ b = Held(nz, One(i, Begun(id, <<>>)), C, us, open)
                         /\ c = Held(nz, One(i, Begun(id, args)), C, us, open)
                         /\ e = Held(nz, <<>>, Append(C, CallPart(id, Ended(nz, args))), us, open)
  OBVIOUS
<1>12. /\ a.status = "incomplete" /\ b.status = "incomplete"
       /\ c.status = "incomplete" /\ e.status = "incomplete"
  BY <1>11, WithTextHas
<1>13. Leads("anthropic", At(o, a), <<Frame("content_block_start", p)>>, At(d, b))
  <2>1. AnthropicStart(o, i, g) = Yields(d, <<RawToolStart(i, id)>>)
    BY <1>1, <1>5, AnthropicStarts
  <2>2. Decode("anthropic", o, Frame("content_block_start", p)) = AnthropicStart(o, p.index, p.block)
    BY AnthropicReadsStart
  <2>3. Decode("anthropic", o, Frame("content_block_start", p)) = Yields(d, <<RawToolStart(i, id)>>)
    BY <1>2, <2>1, <2>2
  <2>4. Quiet(Absorb(a, RawToolStart(i, id))) = b
    BY <1>11, CallStarted
  <2>. QED BY <1>12, <2>3, <2>4, OneLeads
<1>14. Leads("anthropic", At(d, b), F, At(d, c))
  BY <1>3, <1>4, <1>8, <1>10, <1>11, ArgumentsRun
<1>15. Leads("anthropic", At(d, c), <<Frame("content_block_stop", q)>>, At(o, e))
  <2>1. Decode("anthropic", d, Frame("content_block_stop", q)) = AnthropicStop(d, q.index)
    BY AnthropicReadsStop
  <2>2. AnthropicStop(d, i) = Yields(o, <<RawToolEnd(i)>>)
    BY <1>1, AnthropicStops
  <2>3. Decode("anthropic", d, Frame("content_block_stop", q)) = Yields(o, <<RawToolEnd(i)>>)
    BY <1>2, <2>1, <2>2
  <2>4. Quiet(Absorb(c, RawToolEnd(i))) = e
    BY <1>11, CallOver
  <2>. QED BY <1>12, <2>3, <2>4, OneLeads
<1>16. /\ Listed(AnthropicBlockFrames(i, block))
       /\ Leads("anthropic", At(o, a), AnthropicBlockFrames(i, block), At(o, e))
  BY <1>2, <1>6, <1>8, <1>13, <1>14, <1>15, Between
<1>. QED BY <1>1, <1>11, <1>16

LEMMA AnthropicThought ==
  ASSUME NEW nz, NEW open, NEW us, NEW C, NEW input,
         NEW i, NEW block, block.type = "thinking", IsBlock(block)
  PROVE  /\ Listed(AnthropicBlockFrames(i, block))
         /\ Leads("anthropic", At(ReadsNothing(input), Held(nz, <<>>, C, us, open)),
                  AnthropicBlockFrames(i, block),
                  At(ReadsNothing(input), Held(nz, <<>>, Append(C, ReasoningPart(block)), us, open)))
<1>1. PICK g, o, th, sig : /\ g = AnthropicStarted(block) /\ o = ReadsNothing(input)
                           /\ th = block.thinking /\ sig = block.signature
  OBVIOUS
<1>0. PICK p, q : /\ AnthropicBlockFrames(i, block)
                       = <<Frame("content_block_start", p)>> \o AnthropicPieces(i, block)
                           \o <<Frame("content_block_stop", q)>>
                  /\ p.index = i /\ p.block = AnthropicStarted(block) /\ q.index = i
  BY AnthropicFramed
<1>2. /\ AnthropicBlockFrames(i, block)
           = <<Frame("content_block_start", p)>> \o AnthropicPieces(i, block)
               \o <<Frame("content_block_stop", q)>>
      /\ p.index = i /\ p.block = g /\ q.index = i
  BY <1>0, <1>1
<1>3. block = Thinking(th, sig) /\ Listed(th) /\ Listed(sig)
  BY <1>1 DEF IsBlock, IsList, Listed, Thinking
<1>4. g.type = "thinking"
  BY <1>1, <1>3 DEF AnthropicStarted, Thinking
<1>5. PICK m \in Nat : m = Len(th)
  BY <1>3, ListHas
<1>6. PICK n \in Nat : n = Len(sig)
  BY <1>3, ListHas
<1>7. PICK T : T = [k \in 1 .. m |-> AnthropicPiece(i, [type |-> "thinking_delta", thinking |-> th[k]])]
  OBVIOUS
<1>8. PICK S : S = [k \in 1 .. n |-> AnthropicPiece(i, [type |-> "signature_delta", signature |-> sig[k]])]
  OBVIOUS
<1>9. PICK F : F = AnthropicPieces(i, block)
  OBVIOUS
<1>10. F = T \o S
  <2>1. DOMAIN sig = 1 .. n /\ DOMAIN th = 1 .. m
    BY <1>3, <1>5, <1>6, ListHas
  <2>. QED BY <1>1, <1>7, <1>8, <1>9, <2>1 DEF AnthropicPieces
<1>11. Listed(T) /\ Len(T) = m /\ Listed(S) /\ Len(S) = n
  <2>1. T = [k \in 1 .. m |-> T[k]]
    BY <1>7
  <2>2. S = [k \in 1 .. n |-> S[k]]
    BY <1>8
  <2>. QED BY <2>1, <2>2, MappedList
<1>12. PICK d : d = [k \in 0 .. m |-> ReadsThinking(i, Thinking(SubSeq(th, 1, k), <<>>), input)]
  OBVIOUS
<1>13. PICK e : e = [k \in 0 .. n |-> ReadsThinking(i, Thinking(th, SubSeq(sig, 1, k)), input)]
  OBVIOUS
<1>14. /\ d[0] = ReadsThinking(i, Thinking(<<>>, <<>>), input)
       /\ d[m] = ReadsThinking(i, Thinking(th, <<>>), input)
  <2>1. 0 \in 0 .. m /\ m \in 0 .. m
    OBVIOUS
  <2>. QED BY <1>3, <1>5, <1>12, <2>1, FrontGrows
<1>15. e[0] = ReadsThinking(i, Thinking(th, <<>>), input) /\ e[n] = ReadsThinking(i, block, input)
  <2>1. 0 \in 0 .. n /\ n \in 0 .. n
    OBVIOUS
  <2>. QED BY <1>3, <1>6, <1>13, <2>1, FrontGrows
<1>16. \A k \in 1 .. m : KeptOf(Decode("anthropic", d[k - 1], T[k]), d[k])
  <2>. TAKE k \in 1 .. m
  <2>1. k \in 0 .. m /\ k - 1 \in 0 .. m
    OBVIOUS
  <2>2. PICK delta : delta = [type |-> "thinking_delta", thinking |-> th[k]]
    OBVIOUS
  <2>3. PICK before : before = SubSeq(th, 1, k - 1)
    OBVIOUS
  <2>4. T[k] = AnthropicPiece(i, delta) /\ delta.type = "thinking_delta" /\ delta.thinking = th[k]
    BY <1>7, <2>2
  <2>5. /\ d[k - 1] = ReadsThinking(i, Thinking(before, <<>>), input)
        /\ d[k] = ReadsThinking(i, Thinking(Append(before, th[k]), <<>>), input)
    BY <1>3, <1>5, <1>12, <2>1, <2>3, FrontGrows
  <2>6. AnthropicDelta(ReadsThinking(i, Thinking(before, <<>>), input), i, delta)
          = Yields(ReadsThinking(i, Thinking(Append(before, delta.thinking), <<>>), input),
                   <<RawReasoningText(delta.thinking)>>)
    BY <2>4, AnthropicThinks
  <2>7. Decode("anthropic", d[k - 1], T[k]) = Yields(d[k], <<RawReasoningText(delta.thinking)>>)
    BY <2>4, <2>5, <2>6, AnthropicReadsPiece
  <2>. QED BY <2>7 DEF KeptOf
<1>17. \A k \in 1 .. n : KeptOf(Decode("anthropic", e[k - 1], S[k]), e[k])
  <2>. TAKE k \in 1 .. n
  <2>1. k \in 0 .. n /\ k - 1 \in 0 .. n
    OBVIOUS
  <2>2. PICK delta : delta = [type |-> "signature_delta", signature |-> sig[k]]
    OBVIOUS
  <2>3. PICK before : before = SubSeq(sig, 1, k - 1)
    OBVIOUS
  <2>4. S[k] = AnthropicPiece(i, delta) /\ delta.type = "signature_delta" /\ delta.signature = sig[k]
    BY <1>8, <2>2
  <2>5. /\ e[k - 1] = ReadsThinking(i, Thinking(th, before), input)
        /\ e[k] = ReadsThinking(i, Thinking(th, Append(before, sig[k])), input)
    BY <1>3, <1>6, <1>13, <2>1, <2>3, FrontGrows
  <2>6. AnthropicDelta(ReadsThinking(i, Thinking(th, before), input), i, delta)
          = Ignores(ReadsThinking(i, Thinking(th, Append(before, delta.signature)), input))
    BY <2>4, AnthropicThinks
  <2>7. Decode("anthropic", e[k - 1], S[k]) = Ignores(e[k])
    BY <2>4, <2>5, <2>6, AnthropicReadsPiece
  <2>. QED BY <2>7 DEF KeptOf
<1>18. PICK a, b : /\ a = Held(nz, <<>>, C, us, open)
                   /\ b = Held(nz, <<>>, Append(C, ReasoningPart(block)), us, open)
  OBVIOUS
<1>19. Leads("anthropic", At(o, a), <<Frame("content_block_start", p)>>, At(d[0], a))
  <2>1. AnthropicStart(o, i, g) = Ignores(ReadsThinking(i, Thinking(<<>>, <<>>), input))
    BY <1>1, <1>4, AnthropicStarts
  <2>2. Decode("anthropic", o, Frame("content_block_start", p)) = AnthropicStart(o, p.index, p.block)
    BY AnthropicReadsStart
  <2>3. KeptOf(Decode("anthropic", o, Frame("content_block_start", p)), d[0])
    BY <1>2, <1>14, <2>1, <2>2 DEF KeptOf
  <2>. QED BY <1>18, <2>3, OneKept
<1>20. Leads("anthropic", At(d[0], a), T, At(d[m], a))
  BY <1>11, <1>16, <1>18, KeptRuns
<1>21. Leads("anthropic", At(e[0], a), S, At(e[n], a))
  BY <1>11, <1>17, <1>18, KeptRuns
<1>22. Leads("anthropic", At(d[0], a), F, At(e[n], a)) /\ Listed(F)
  BY <1>10, <1>11, <1>14, <1>15, <1>20, <1>21, LeadsOn, Joined
<1>23. Leads("anthropic", At(e[n], a), <<Frame("content_block_stop", q)>>, At(o, b))
  <2>1. Decode("anthropic", e[n], Frame("content_block_stop", q)) = AnthropicStop(e[n], q.index)
    BY AnthropicReadsStop
  <2>2. AnthropicStop(e[n], i) = Yields(o, <<RawReasoningBlob(block)>>)
    BY <1>1, <1>15, AnthropicStops
  <2>3. Decode("anthropic", e[n], Frame("content_block_stop", q)) = Yields(o, <<RawReasoningBlob(block)>>)
    BY <1>2, <2>1, <2>2
  <2>4. Quiet(Absorb(a, RawReasoningBlob(block))) = b
    BY <1>18, BlobTold
  <2>5. a.status = "incomplete" /\ b.status = "incomplete"
    BY <1>18, WithTextHas
  <2>. QED BY <2>3, <2>4, <2>5, OneLeads
<1>24. /\ Listed(AnthropicBlockFrames(i, block))
       /\ Leads("anthropic", At(o, a), AnthropicBlockFrames(i, block), At(o, b))
  BY <1>2, <1>9, <1>19, <1>22, <1>23, Between
<1>. QED BY <1>1, <1>18, <1>24

LEMMA AnthropicInput ==
  ASSUME NEW nz, NEW open, NEW us, NEW C, NEW input,
         NEW i, NEW block, block.type = "server_tool_use", IsBlock(block)
  PROVE  /\ Listed(AnthropicBlockFrames(i, block))
         /\ Leads("anthropic", At(ReadsNothing(input), Held(nz, <<>>, C, us, open)),
                  AnthropicBlockFrames(i, block),
                  At(ReadsNothing(input),
                     Held(nz, <<>>, Append(C, ReasoningPart(AnthropicOpaque(block))), us, open)))
<1>1. PICK g, o, args, whole : /\ g = AnthropicStarted(block) /\ o = ReadsNothing(input)
                               /\ args = block.input /\ whole = AnthropicOpaque(block)
  OBVIOUS
<1>0. PICK p, q : /\ AnthropicBlockFrames(i, block)
                       = <<Frame("content_block_start", p)>> \o AnthropicPieces(i, block)
                           \o <<Frame("content_block_stop", q)>>
                  /\ p.index = i /\ p.block = AnthropicStarted(block) /\ q.index = i
  BY AnthropicFramed
<1>2. /\ AnthropicBlockFrames(i, block)
           = <<Frame("content_block_start", p)>> \o AnthropicPieces(i, block)
               \o <<Frame("content_block_stop", q)>>
      /\ p.index = i /\ p.block = g /\ q.index = i
  BY <1>0, <1>1
<1>3. Listed(args) /\ IsObject(args) /\ block = [type |-> block.type, id |-> block.id, input |-> args]
  BY <1>1 DEF IsBlock, IsSpelled, IsList, Listed
<1>4. PICK n \in Nat : n = Len(args)
  BY <1>3, ListHas
<1>5. g.type = "server_tool_use" /\ g = [block EXCEPT !.input = EmptyObject]
  BY <1>1, <1>3 DEF AnthropicStarted
<1>6. PICK F : F = AnthropicPieces(i, block)
  OBVIOUS
<1>7. F = [k \in 1 .. n |-> AnthropicPiece(i, [type |-> "input_json_delta", json |-> <<args[k]>>])]
  <2>1. DOMAIN args = 1 .. n
    BY <1>3, <1>4, ListHas
  <2>. QED BY <1>1, <1>6, <2>1 DEF AnthropicPieces
<1>8. Listed(F) /\ Len(F) = n
  <2>1. F = [k \in 1 .. n |-> F[k]]
    BY <1>7
  <2>. QED BY <2>1, MappedList
<1>9. PICK d : d = [k \in 0 .. n |-> ReadsOpaque(i, g, SubSeq(args, 1, k), input)]
  OBVIOUS
<1>10. d[0] = ReadsOpaque(i, g, <<>>, input) /\ d[n] = ReadsOpaque(i, g, args, input)
  <2>1. 0 \in 0 .. n /\ n \in 0 .. n
    OBVIOUS
  <2>. QED BY <1>3, <1>4, <1>9, <2>1, FrontGrows
<1>11. \A k \in 1 .. n : KeptOf(Decode("anthropic", d[k - 1], F[k]), d[k])
  <2>. TAKE k \in 1 .. n
  <2>1. k \in 0 .. n /\ k - 1 \in 0 .. n
    OBVIOUS
  <2>2. PICK delta : delta = [type |-> "input_json_delta", json |-> <<args[k]>>]
    OBVIOUS
  <2>3. PICK before : before = SubSeq(args, 1, k - 1)
    OBVIOUS
  <2>4. F[k] = AnthropicPiece(i, delta) /\ delta.type = "input_json_delta" /\ delta.json = <<args[k]>>
    BY <1>7, <2>2
  <2>5. SubSeq(args, 1, k) = before \o delta.json
    <3>1. SubSeq(args, 1, k) = Append(before, args[k]) /\ Listed(before)
      BY <1>3, <1>4, <2>1, <2>3, FrontGrows
    <3>2. Append(before, args[k]) = before \o <<args[k]>>
      BY <3>1, JoinedWithOne
    <3>3. before \o <<args[k]>> = before \o delta.json
      BY <2>4
    <3>. QED BY <3>1, <3>2, <3>3
  <2>6. d[k - 1] = ReadsOpaque(i, g, before, input) /\ d[k] = ReadsOpaque(i, g, before \o delta.json, input)
    BY <1>9, <2>1, <2>3, <2>5
  <2>7. AnthropicDelta(ReadsOpaque(i, g, before, input), i, delta)
          = Ignores(ReadsOpaque(i, g, before \o delta.json, input))
    BY <2>4, AnthropicKeeps
  <2>8. Decode("anthropic", d[k - 1], F[k]) = Ignores(d[k])
    BY <2>4, <2>6, <2>7, AnthropicReadsPiece
  <2>. QED BY <2>8 DEF KeptOf
<1>12. PICK a, b : /\ a = Held(nz, <<>>, C, us, open)
                   /\ b = Held(nz, <<>>, Append(C, ReasoningPart(whole)), us, open)
  OBVIOUS
<1>13. Leads("anthropic", At(o, a), <<Frame("content_block_start", p)>>, At(d[0], a))
  <2>1. AnthropicStart(o, i, g) = Ignores(ReadsOpaque(i, g, <<>>, input))
    BY <1>1, <1>5, AnthropicStarts
  <2>2. Decode("anthropic", o, Frame("content_block_start", p)) = AnthropicStart(o, p.index, p.block)
    BY AnthropicReadsStart
  <2>3. KeptOf(Decode("anthropic", o, Frame("content_block_start", p)), d[0])
    BY <1>2, <1>10, <2>1, <2>2 DEF KeptOf
  <2>. QED BY <1>12, <2>3, OneKept
<1>14. Leads("anthropic", At(d[0], a), F, At(d[n], a))
  BY <1>8, <1>11, <1>12, KeptRuns
<1>15. Leads("anthropic", At(d[n], a), <<Frame("content_block_stop", q)>>, At(o, b))
  <2>1. Decode("anthropic", d[n], Frame("content_block_stop", q)) = AnthropicStop(d[n], q.index)
    BY AnthropicReadsStop
  <2>2. PICK h : h = [block |-> g, json |-> args]
    OBVIOUS
  <2>3. AnthropicStop(d[n], i) = Yields(o, <<RawReasoningBlob(OpaqueAsStreamed(h))>>)
    BY <1>1, <1>10, <2>2, AnthropicStopsOpaque
  <2>4. OpaqueAsStreamed(h) = whole
    <3>1. PICK x : x = Canonical(args)
      OBVIOUS
    <3>2. OpaqueAsStreamed(h) = [g EXCEPT !.input = x]
      BY <1>3, <2>2, <3>1 DEF OpaqueAsStreamed
    <3>3. whole = [block EXCEPT !.input = x]
      BY <1>1, <3>1 DEF AnthropicOpaque
    <3>. QED BY <1>3, <1>5, <3>2, <3>3
  <2>5. Decode("anthropic", d[n], Frame("content_block_stop", q)) = Yields(o, <<RawReasoningBlob(whole)>>)
    BY <1>2, <2>1, <2>3, <2>4
  <2>6. Quiet(Absorb(a, RawReasoningBlob(whole))) = b
    BY <1>12, BlobTold
  <2>7. a.status = "incomplete" /\ b.status = "incomplete"
    BY <1>12, WithTextHas
  <2>. QED BY <2>5, <2>6, <2>7, OneLeads
<1>16. /\ Listed(AnthropicBlockFrames(i, block))
       /\ Leads("anthropic", At(o, a), AnthropicBlockFrames(i, block), At(o, b))
  BY <1>2, <1>6, <1>8, <1>13, <1>14, <1>15, Between
<1>. QED BY <1>1, <1>12, <1>16

AnthropicModelled == {"text", "tool_use", "thinking", "server_tool_use"}

LEMMA AnthropicOther ==
  ASSUME NEW nz, NEW open, NEW us, NEW C, NEW input,
         NEW i, NEW block, block.type \notin AnthropicModelled
  PROVE  /\ Listed(AnthropicBlockFrames(i, block))
         /\ Leads("anthropic", At(ReadsNothing(input), Held(nz, <<>>, C, us, open)),
                  AnthropicBlockFrames(i, block),
                  At(ReadsNothing(input), Held(nz, <<>>, Append(C, ReasoningPart(block)), us, open)))
<1>1. PICK g, o, d : /\ g = AnthropicStarted(block) /\ o = ReadsNothing(input)
                     /\ d = ReadsOpaque(i, block, <<>>, input)
  OBVIOUS
<1>0. PICK p, q : /\ AnthropicBlockFrames(i, block)
                       = <<Frame("content_block_start", p)>> \o AnthropicPieces(i, block)
                           \o <<Frame("content_block_stop", q)>>
                  /\ p.index = i /\ p.block = AnthropicStarted(block) /\ q.index = i
  BY AnthropicFramed
<1>2. /\ AnthropicBlockFrames(i, block)
           = <<Frame("content_block_start", p)>> \o AnthropicPieces(i, block)
               \o <<Frame("content_block_stop", q)>>
      /\ p.index = i /\ p.block = g /\ q.index = i
  BY <1>0, <1>1
<1>3. g = block /\ AnthropicPieces(i, block) = <<>>
  BY <1>1 DEF AnthropicStarted, AnthropicPieces, AnthropicModelled
<1>4. PICK a, b : /\ a = Held(nz, <<>>, C, us, open)
                  /\ b = Held(nz, <<>>, Append(C, ReasoningPart(block)), us, open)
  OBVIOUS
<1>5. a.status = "incomplete" /\ b.status = "incomplete"
  BY <1>4, WithTextHas
<1>6. Leads("anthropic", At(o, a), <<Frame("content_block_start", p)>>, At(d, a))
  <2>1. block.type \notin {"tool_use", "thinking", "text"}
    BY DEF AnthropicModelled
  <2>2. AnthropicStart(o, i, block) = Ignores(d)
    BY <1>1, <2>1, AnthropicStarts
  <2>3. Decode("anthropic", o, Frame("content_block_start", p)) = AnthropicStart(o, p.index, p.block)
    BY AnthropicReadsStart
  <2>4. KeptOf(Decode("anthropic", o, Frame("content_block_start", p)), d)
    BY <1>2, <1>3, <2>2, <2>3 DEF KeptOf
  <2>. QED BY <1>4, <2>4, OneKept
<1>7. Leads("anthropic", At(d, a), <<>>, At(d, a))
  <2>1. PICK s : s = At(d, a)
    OBVIOUS
  <2>2. s.asm.status = "incomplete"
    BY <1>5, <2>1 DEF At
  <2>. QED BY <2>1, <2>2, LeadsNowhere
<1>8. Leads("anthropic", At(d, a), <<Frame("content_block_stop", q)>>, At(o, b))
  <2>1. Decode("anthropic", d, Frame("content_block_stop", q)) = AnthropicStop(d, q.index)
    BY AnthropicReadsStop
  <2>2. PICK h : h = [block |-> block, json |-> <<>>]
    OBVIOUS
  <2>3. AnthropicStop(d, i) = Yields(o, <<RawReasoningBlob(OpaqueAsStreamed(h))>>)
    BY <1>1, <2>2, AnthropicStopsOpaque
  <2>4. OpaqueAsStreamed(h) = block
    <3>1. ~IsObject(<<>>)
      BY Nothing DEF IsObject
    <3>. QED BY <2>2, <3>1 DEF OpaqueAsStreamed
  <2>5. Decode("anthropic", d, Frame("content_block_stop", q)) = Yields(o, <<RawReasoningBlob(block)>>)
    BY <1>2, <2>1, <2>3, <2>4
  <2>6. Quiet(Absorb(a, RawReasoningBlob(block))) = b
    BY <1>4, BlobTold
  <2>. QED BY <1>5, <2>5, <2>6, OneLeads
<1>9. /\ Listed(AnthropicBlockFrames(i, block))
      /\ Leads("anthropic", At(o, a), AnthropicBlockFrames(i, block), At(o, b))
  <2>1. PICK none : none = <<>>
    OBVIOUS
  <2>2. Listed(none) /\ AnthropicPieces(i, block) = none
    BY <1>3, <2>1, Nothing
  <2>3. PICK s, t, u : s = At(o, a) /\ t = At(d, a) /\ u = At(o, b)
    OBVIOUS
  <2>4. Leads("anthropic", t, none, t)
    BY <1>7, <2>1, <2>3
  <2>5. Leads("anthropic", s, <<Frame("content_block_start", p)>>, t)
    BY <1>6, <2>3
  <2>6. Leads("anthropic", t, <<Frame("content_block_stop", q)>>, u)
    BY <1>8, <2>3
  <2>7. AnthropicBlockFrames(i, block)
          = <<Frame("content_block_start", p)>> \o none \o <<Frame("content_block_stop", q)>>
    BY <1>2, <2>2
  <2>8. /\ Listed(<<Frame("content_block_start", p)>> \o none \o <<Frame("content_block_stop", q)>>)
        /\ Leads("anthropic", s,
                 <<Frame("content_block_start", p)>> \o none \o <<Frame("content_block_stop", q)>>, u)
    BY <2>2, <2>4, <2>5, <2>6, Between
  <2>. QED BY <2>3, <2>7, <2>8
<1>. QED BY <1>1, <1>4, <1>9

LEMMA AnthropicBlockRuns ==
  ASSUME NEW nz, NEW no, no = FALSE, NEW us, NEW C, Listed(C), NEW input,
         NEW i, NEW block, IsBlock(block),
         \A args : IsSpelled(args) => Ended(nz, args) = Canonical(args)
  PROVE  /\ Listed(AnthropicBlockFrames(i, block))
         /\ Leads("anthropic", At(ReadsNothing(input), Held(nz, <<>>, C, us, no)),
                  AnthropicBlockFrames(i, block),
                  At(ReadsNothing(input), Held(nz, <<>>, Append(C, ConvertBlock(block)), us, no)))
<1>1. CASE block.type = "text"
  <2>1. ConvertBlock(block) = TextPart(block.text)
    BY <1>1 DEF ConvertBlock
  <2>. QED BY <1>1, <2>1, AnthropicText
<1>2. CASE block.type = "tool_use"
  <2>1. ConvertBlock(block) = CallPart(block.id, Ended(nz, block.input))
    BY <1>2 DEF ConvertBlock, IsBlock
  <2>. QED BY <1>2, <2>1, AnthropicCall
<1>3. CASE block.type = "thinking"
  <2>1. ConvertBlock(block) = ReasoningPart(block)
    BY <1>3 DEF ConvertBlock, AnthropicOpaque
  <2>. QED BY <1>3, <2>1, AnthropicThought
<1>4. CASE block.type = "server_tool_use"
  <2>1. ConvertBlock(block) = ReasoningPart(AnthropicOpaque(block))
    BY <1>4 DEF ConvertBlock
  <2>. QED BY <1>4, <2>1, AnthropicInput
<1>5. CASE block.type \notin AnthropicModelled
  <2>1. ConvertBlock(block) = ReasoningPart(block)
    BY <1>5 DEF ConvertBlock, AnthropicOpaque, AnthropicModelled
  <2>. QED BY <1>5, <2>1, AnthropicOther
<1>. QED BY <1>1, <1>2, <1>3, <1>4, <1>5 DEF AnthropicModelled

LEMMA QuietAlready ==
  ASSUME NEW nz, NEW pending, NEW C, NEW st, NEW us, NEW open, NEW a,
         a = Ending(nz, pending, C, st, us, open)
  PROVE  Quiet(a) = a
<1>1. DOMAIN a = AsmFields /\ a = [x \in AsmFields |-> a[x]] /\ a.out = <<>>
  BY EndingHas
<1>. QED BY <1>1 DEF Quiet

\* A last frame that is read and tells nothing.
LEMMA LastSaysNothing ==
  ASSUME NEW dialect, NEW d, NEW f, Decode(dialect, d, f) = Ignores(d),
         NEW nz, NEW pending, NEW C, NEW st, NEW us, NEW open, NEW a,
         a = Ending(nz, pending, C, st, us, open), NEW response,
         Assembled(Closed(a)) = response
  PROVE  Ends(dialect, At(d, a), <<f>>, response)
<1>1. PICK s : s = At(d, a)
  OBVIOUS
<1>2. s.decoder = d /\ s.asm = a /\ s = [decoder |-> d, asm |-> a]
  BY <1>1 DEF At
<1>3. Quiet(a) = a
  BY QuietAlready
<1>4. Fed(dialect, s, f) = s
  BY <1>2, <1>3, FedNothing
<1>5. Settled(s.asm, response)
  <2>1. PICK b : b = Closed(s.asm)
    OBVIOUS
  <2>2. Assembled(b).content = b.captured
    BY DEF Assembled
  <2>. QED BY <1>2, <2>1, <2>2 DEF Settled
<1>6. Ends(dialect, s, <<f>>, response)
  BY <1>2, <1>4, <1>5, EndsByOne
<1>. QED BY <1>1, <1>6

\* One frame that says how the answer ended, and one that says nothing.
LEMMA EndsWithMetaAndMore ==
  ASSUME NEW dialect, NEW d, NEW e, NEW nz, NEW C, NEW us, NEW open, NEW f, NEW g,
         NEW status, status # "none", NEW usage,
         Decode(dialect, d, f) = Yields(e, <<RawMeta(status, usage)>>),
         Decode(dialect, e, g) = Ignores(e),
         NEW response,
         response = [content |-> C, status |-> status, usage |-> LaterUsage(us, usage)]
  PROVE  Ends(dialect, At(d, Held(nz, <<>>, C, us, open)), <<f>> \o <<g>>, response)
<1>1. PICK u : u = LaterUsage(us, usage)
  OBVIOUS
<1>2. PICK a : a = Held(nz, <<>>, C, us, open)
  OBVIOUS
<1>3. PICK b : b = Ending(nz, <<>>, C, status, u, open)
  OBVIOUS
<1>4. PICK s, t : s = At(d, a) /\ t = At(e, b)
  OBVIOUS
<1>5. s.asm = a /\ t.asm = b
  BY <1>4 DEF At
<1>6. Fed(dialect, s, f) = t
  BY <1>1, <1>2, <1>3, <1>4, FedMeta
<1>7. Closed(b).captured = C /\ Assembled(Closed(b)) = response
  <2>1. Closed(b).captured = C /\ Assembled(Closed(b)) = [content |-> C, status |-> status, usage |-> u]
    BY <1>3, NothingToFlush
  <2>. QED BY <1>1, <2>1
<1>8. Settled(s.asm, response) /\ Settled(t.asm, response)
  <2>1. a.status = "incomplete"
    BY <1>2, WithTextHas
  <2>. QED BY <1>5, <1>7, <2>1 DEF Settled
<1>9. Ends(dialect, t, <<g>>, response)
  BY <1>3, <1>4, <1>7, LastSaysNothing
<1>10. Ends(dialect, s, <<f>> \o <<g>>, response)
  BY <1>6, <1>8, <1>9, EndsByTwo
<1>. QED BY <1>2, <1>4, <1>10

\* The counts of an answer, and those its first and last frames have.
InputOf(usage) == IF usage = <<>> THEN 0 ELSE usage[1] + usage[2] + usage[3]

CountsAt(input, usage) ==
  IF usage = <<>> THEN NoUsage ELSE <<input, usage[1], input + usage[1]>>

LEMMA AnthropicCounts ==
  ASSUME NEW u, u = NoUsage \/ u \in [1 .. 4 -> Nat]
  PROVE  CountsAt(InputOf(Counts(u, 1, 3)), Counts(u, 4, 4))
           = IF u = NoUsage THEN NoUsage ELSE AnthropicUsage(u)
<1>1. CASE u = NoUsage
  <2>1. Counts(u, 4, 4) = <<>>
    BY <1>1 DEF Counts, NoUsage
  <2>. QED BY <1>1, <2>1 DEF CountsAt
<1>2. CASE u # NoUsage
  <2>1. u \in Seq(Range(u)) /\ Len(u) = 4
    <3>1. u = [k \in 1 .. 4 |-> u[k]]
      BY <1>2
    <3>. QED BY <3>1, MappedList DEF Listed
  <2>2. PICK v, w : v = SubSeq(u, 1, 3) /\ w = SubSeq(u, 4, 4)
    OBVIOUS
  <2>3. Len(v) = 3 /\ v[1] = u[1] /\ v[2] = u[2] /\ v[3] = u[3]
    BY <2>1, <2>2
  <2>4. Len(w) = 1 /\ w[1] = u[4]
    BY <2>1, <2>2
  <2>5. v # <<>> /\ w # <<>>
    BY <2>3, <2>4
  <2>6. Counts(u, 1, 3) = v /\ Counts(u, 4, 4) = w
    BY <1>2, <2>2 DEF Counts
  <2>7. InputOf(v) = u[1] + u[2] + u[3]
    BY <2>3, <2>5 DEF InputOf
  <2>8. CountsAt(u[1] + u[2] + u[3], w) = AnthropicUsage(u)
    BY <2>4, <2>5 DEF CountsAt, AnthropicUsage
  <2>. QED BY <1>2, <2>6, <2>7, <2>8
<1>. QED BY <1>1, <1>2

LEMMA AnthropicBegins ==
  ASSUME NEW p, NEW input, input = InputOf(p.usage)
  PROVE  Decode("anthropic", AnthropicDecoder, Frame("message_start", p)) = Ignores(ReadsNothing(input))
<1>1. PICK f, d : f = Frame("message_start", p) /\ d = ReadsNothing(0)
  OBVIOUS
<1>2. AnthropicDecoder = d
  BY <1>1 DEF AnthropicDecoder, ReadsNothing, Reader
<1>3. Payload(f) = p /\ f.event = "message_start" /\ Decode("anthropic", d, f) = AnthropicDecode(d, f)
  BY <1>1, AnthropicReads
<1>4. AnthropicDecode(d, f) = Ignores(InputNow(d, input))
  BY <1>3 DEF AnthropicDecode, InputNow, InputOf
<1>5. InputNow(d, input) = ReadsNothing(input)
  BY <1>1, ReaderChanges DEF ReadsNothing
<1>. QED BY <1>1, <1>2, <1>3, <1>4, <1>5

LEMMA AnthropicFinishes ==
  ASSUME NEW input, NEW d, d = ReadsNothing(input), NEW p, NEW q
  PROVE  /\ Decode("anthropic", d, Frame("message_delta", p))
              = Yields(d, <<RawMeta(AnthropicStatus(p.stop), CountsAt(input, p.usage))>>)
         /\ Decode("anthropic", d, Frame("message_stop", q)) = Ignores(d)
<1>1. PICK f, g : f = Frame("message_delta", p) /\ g = Frame("message_stop", q)
  OBVIOUS
<1>2. d.input = input
  BY ReaderHas DEF ReadsNothing
<1>3. Payload(f) = p /\ f.event = "message_delta" /\ Decode("anthropic", d, f) = AnthropicDecode(d, f)
  BY <1>1, AnthropicReads
<1>4. g.event = "message_stop" /\ Decode("anthropic", d, g) = AnthropicDecode(d, g)
  BY <1>1, AnthropicReads
<1>5. AnthropicDecode(d, f) = AnthropicEnd(d, p.stop, p.usage)
  BY <1>3 DEF AnthropicDecode
<1>6. AnthropicEnd(d, p.stop, p.usage)
        = Yields(d, <<RawMeta(AnthropicStatus(p.stop), CountsAt(input, p.usage))>>)
  BY <1>2 DEF AnthropicEnd, CountsAt
<1>7. AnthropicDecode(d, g) = Ignores(d)
  BY <1>4 DEF AnthropicDecode
<1>. QED BY <1>1, <1>3, <1>4, <1>5, <1>6, <1>7

LEMMA AnthropicEnds ==
  ASSUME NEW nz, NEW no, no = FALSE, NEW r, IsAnthropicAnswer(r),
         \A args : IsSpelled(args) => Ended(nz, args) = Canonical(args)
  PROVE  /\ Listed(AnthropicFrames(r))
         /\ Ends("anthropic", At(AnthropicDecoder, Held(nz, <<>>, <<>>, NoUsage, no)),
                 AnthropicFrames(r), AnthropicParse(r))
<1>1. PICK blocks : blocks = r.content
  OBVIOUS
<1>2. Listed(blocks) /\ \A block \in Range(blocks) : IsBlock(block)
  BY <1>1 DEF IsAnthropicAnswer, IsList, Listed
<1>3. PICK n \in Nat : n = Len(blocks)
  BY <1>2, ListHas
<1>4. DOMAIN blocks = 1 .. n /\ \A k \in 1 .. n : IsBlock(blocks[k])
  <2>1. DOMAIN blocks = 1 .. n
    BY <1>2, <1>3, ListHas
  <2>. QED BY <1>2, <2>1 DEF Range
<1>5. PICK C : C = [k \in 1 .. n |-> ConvertBlock(blocks[k])]
  OBVIOUS
<1>6. PICK pieces : pieces = [k \in 1 .. n |-> AnthropicBlockFrames(k - 1, blocks[k])]
  OBVIOUS
<1>7. Listed(C) /\ Len(C) = n
  <2>1. C = [k \in 1 .. n |-> C[k]]
    BY <1>5
  <2>. QED BY <2>1, MappedList
<1>8. PICK first, last : first = Counts(r.usage, 1, 3) /\ last = Counts(r.usage, 4, 4)
  OBVIOUS
<1>9. PICK input, d : input = InputOf(first) /\ d = ReadsNothing(input)
  OBVIOUS
<1>10. \A k \in 1 .. n : Listed(pieces[k]) /\ Adds("anthropic", d, nz, NoUsage, no, pieces[k], C[k])
  <2>. TAKE k \in 1 .. n
  <2>1. PICK i, block : i = k - 1 /\ block = blocks[k]
    OBVIOUS
  <2>2. IsBlock(block) /\ pieces[k] = AnthropicBlockFrames(i, block) /\ C[k] = ConvertBlock(block)
    BY <1>4, <1>5, <1>6, <2>1
  <2>3. \A B : Listed(B) =>
           /\ Listed(AnthropicBlockFrames(i, block))
           /\ Leads("anthropic", At(ReadsNothing(input), Held(nz, <<>>, B, NoUsage, no)),
                    AnthropicBlockFrames(i, block),
                    At(ReadsNothing(input), Held(nz, <<>>, Append(B, ConvertBlock(block)), NoUsage, no)))
    BY <2>2, AnthropicBlockRuns
  <2>4. Listed(pieces[k])
    BY <2>2, <2>3, Nothing
  <2>. QED BY <1>9, <2>2, <2>3, <2>4 DEF Adds
<1>11. PICK F : F = FlattenSeq(pieces)
  OBVIOUS
<1>12. PICK a : a = Held(nz, <<>>, <<>>, NoUsage, no)
  OBVIOUS
<1>13. PICK s, s1, t : /\ s = At(AnthropicDecoder, a) /\ s1 = At(d, a)
                       /\ t = At(d, Held(nz, <<>>, C, NoUsage, no))
  OBVIOUS
<1>14. Listed(F) /\ Leads("anthropic", s1, F, t)
  <2>1. pieces = [k \in 1 .. n |-> pieces[k]]
    BY <1>6
  <2>. QED BY <1>7, <1>10, <1>11, <1>12, <1>13, <2>1, PartsAdd
<1>15. PICK p0, p1, p2 : /\ p0 = [usage |-> first] /\ p1 = [stop |-> r.stop, usage |-> last]
                         /\ p2 = [index |-> 0]
  OBVIOUS
<1>16. PICK f0, f1, f2 : /\ f0 = Frame("message_start", p0) /\ f1 = Frame("message_delta", p1)
                         /\ f2 = Frame("message_stop", p2)
  OBVIOUS
<1>17. Leads("anthropic", s, <<f0>>, s1)
  <2>1. Decode("anthropic", AnthropicDecoder, f0) = Ignores(d)
    BY <1>9, <1>15, <1>16, AnthropicBegins
  <2>2. KeptOf(Decode("anthropic", AnthropicDecoder, f0), d)
    BY <2>1 DEF KeptOf
  <2>. QED BY <1>12, <1>13, <2>2, OneKept
<1>18. PICK status, usage : status = AnthropicStatus(r.stop) /\ usage = CountsAt(input, last)
  OBVIOUS
<1>19. Decode("anthropic", d, f1) = Yields(d, <<RawMeta(status, usage)>>) /\ Decode("anthropic", d, f2) = Ignores(d)
  <2>1. p1.stop = r.stop /\ p1.usage = last
    BY <1>15
  <2>. QED BY <1>9, <1>16, <1>18, <2>1, AnthropicFinishes
<1>20. status # "none"
  BY <1>18 DEF AnthropicStatus
<1>21. AnthropicParse(r) = [content |-> C, status |-> status, usage |-> LaterUsage(NoUsage, usage)]
  <2>1. LaterUsage(NoUsage, usage) = usage
    BY DEF LaterUsage
  <2>2. usage = IF r.usage = NoUsage THEN NoUsage ELSE AnthropicUsage(r.usage)
    <3>1. r.usage = NoUsage \/ r.usage \in [1 .. 4 -> Nat]
      BY DEF IsAnthropicAnswer
    <3>. QED BY <1>8, <1>9, <1>18, <3>1, AnthropicCounts
  <2>. QED BY <1>1, <1>4, <1>5, <1>18, <2>1, <2>2 DEF AnthropicParse
<1>22. Ends("anthropic", t, <<f1>> \o <<f2>>, AnthropicParse(r))
  BY <1>13, <1>19, <1>20, <1>21, EndsWithMetaAndMore
<1>23. PICK L0, L1, L2 : L0 = <<f0>> /\ L1 = <<f1>> /\ L2 = <<f2>>
  OBVIOUS
<1>24. Listed(L0) /\ Listed(L1) /\ Listed(L2)
  BY <1>23, OneListed
<1>25. Listed(L1 \o L2) /\ Listed(L0 \o F)
  BY <1>14, <1>24, Joined
<1>26. Listed((L0 \o F) \o (L1 \o L2))
  BY <1>25, Joined
<1>27. AnthropicFrames(r) = (L0 \o F) \o (L1 \o L2)
  <2>1. L1 \o L2 = <<f1, f2>>
    <3>1. L1 \o <<f2>> = Append(L1, f2)
      BY <1>24, JoinedWithOne
    <3>2. Append(<<f1>>, f2) = <<f1, f2>>
      BY PairIs
    <3>. QED BY <1>23, <3>1, <3>2
  <2>. QED BY <1>1, <1>4, <1>6, <1>8, <1>11, <1>15, <1>16, <1>23, <2>1 DEF AnthropicFrames
<1>28. Leads("anthropic", s, L0 \o F, t)
  BY <1>14, <1>17, <1>23, <1>24, LeadsOn
<1>29. Ends("anthropic", s, (L0 \o F) \o (L1 \o L2), AnthropicParse(r))
  BY <1>22, <1>23, <1>25, <1>28, LeadsToEnd
<1>. QED BY <1>12, <1>13, <1>26, <1>27, <1>29

-----------------------------------------------------------------------------
(* Lists of parts, of which no two refusals are side by side *)

Apart(C) == \A k \in 2 .. Len(C) : ~(C[k - 1].part = "refusal" /\ C[k].part = "refusal")

LEMMA ApartBefore ==
  ASSUME NEW s, NEW t, Listed(s), Listed(t), Apart(s \o t)
  PROVE  Apart(s)
<1>1. PICK m \in Nat : m = Len(s)
  BY ListHas
<1>0. PICK n \in Nat : n = Len(t)
  BY ListHas
<1>2. PICK all : all = s \o t
  OBVIOUS
<1>3. Len(all) = m + n /\ \A k \in 1 .. m : all[k] = s[k]
  BY <1>0, <1>1, <1>2, Joined
<1>. SUFFICES ASSUME NEW k \in 2 .. m PROVE ~(s[k - 1].part = "refusal" /\ s[k].part = "refusal")
  BY <1>1 DEF Apart
<1>4. k \in 1 .. m /\ k - 1 \in 1 .. m /\ k \in 2 .. m + n
  OBVIOUS
<1>. QED BY <1>2, <1>3, <1>4 DEF Apart

LEMMA ApartLast ==
  ASSUME NEW B, Listed(B), NEW x, x.part = "refusal", Apart(Append(B, x)), B # <<>>
  PROVE  Last(B).part # "refusal"
<1>1. PICK m \in Nat : m = Len(B)
  BY ListHas
<1>2. PICK all : all = Append(B, x)
  OBVIOUS
<1>3. Len(all) = m + 1 /\ all[m + 1] = x /\ \A k \in 1 .. m : all[k] = B[k]
  BY <1>1, <1>2, JoinedWithOne
<1>4. m # 0
  BY <1>1, ListHas
<1>5. m + 1 \in 2 .. m + 1 /\ m \in 1 .. m /\ (m + 1) - 1 = m
  BY <1>4
<1>6. ~(all[m].part = "refusal" /\ all[m + 1].part = "refusal")
  BY <1>2, <1>3, <1>5 DEF Apart
<1>7. Last(B) = B[m]
  BY <1>1 DEF Last
<1>. QED BY <1>3, <1>5, <1>6, <1>7

LEMMA NothingBefore ==
  ASSUME NEW s, Listed(s)
  PROVE  <<>> \o s = s
<1>1. s \in Seq(Range(s))
  BY DEF Listed
<1>. QED BY <1>1

\* frames add parts to whatever came before them.
AddsAll(dialect, d, nz, us, no, frames, parts) ==
  \A B : Listed(B) /\ Apart(B \o parts) =>
    Leads(dialect, At(d, Held(nz, <<>>, B, us, no)), frames,
                   At(d, Held(nz, <<>>, B \o parts, us, no)))

\* x[1], x[2] and so on, put end to end.
Fronts(g, n, x) ==
  /\ g[0] = <<>>
  /\ \A k \in 1 .. n : g[k] = g[k - 1] \o x[k] /\ Listed(x[k])
  /\ \A k \in 0 .. n : Listed(g[k])

LEMMA FrontsAdd ==
  ASSUME NEW dialect, NEW d, NEW nz, NEW us, NEW no, NEW n \in Nat,
         NEW pieces, ListOfLists(pieces), Len(pieces) = n,
         NEW x, NEW g, Fronts(g, n, x),
         \A k \in 1 .. n : AddsAll(dialect, d, nz, us, no, pieces[k], x[k])
  PROVE  AddsAll(dialect, d, nz, us, no, FlattenSeq(pieces), g[n])
<1>. SUFFICES ASSUME NEW B, Listed(B), Apart(B \o g[n])
              PROVE  Leads(dialect, At(d, Held(nz, <<>>, B, us, no)), FlattenSeq(pieces),
                                    At(d, Held(nz, <<>>, B \o g[n], us, no)))
  BY DEF AddsAll
<1>1. PICK b : b = [k \in 0 .. n |-> B \o g[k]]
  OBVIOUS
<1>2. b[0] = B /\ b[n] = B \o g[n]
  <2>1. 0 \in 0 .. n /\ n \in 0 .. n
    OBVIOUS
  <2>. QED BY <1>1, <2>1, JoinedWithNothing DEF Fronts
<1>3. \A k \in 0 .. n : Listed(b[k])
  <2>. TAKE k \in 0 .. n
  <2>1. Listed(g[k]) /\ b[k] = B \o g[k]
    BY <1>1 DEF Fronts
  <2>. QED BY <2>1, Joined
<1>4. \A k \in 1 .. n : b[k] = b[k - 1] \o x[k]
  <2>. TAKE k \in 1 .. n
  <2>1. k \in 0 .. n /\ k - 1 \in 0 .. n
    OBVIOUS
  <2>2. PICK h, y : h = g[k - 1] /\ y = x[k]
    OBVIOUS
  <2>3. g[k] = h \o y /\ Listed(h) /\ Listed(y)
    BY <2>1, <2>2 DEF Fronts
  <2>4. B \o (h \o y) = (B \o h) \o y
    BY <2>3, JoinedInARow
  <2>. QED BY <1>1, <2>1, <2>2, <2>3, <2>4
<1>. DEFINE Good == {j \in 0 .. n : Apart(b[n - j])}
<1>5. 0 \in Good
  <2>1. 0 \in 0 .. n /\ n - 0 = n
    OBVIOUS
  <2>2. Apart(b[n - 0])
    BY <1>2, <2>1
  <2>. QED BY <2>1, <2>2
<1>6. ASSUME NEW j \in 1 .. n, j - 1 \in Good PROVE j \in Good
  <2>1. PICK k \in 1 .. n : k = n - (j - 1)
    <3>1. n - (j - 1) \in 1 .. n
      OBVIOUS
    <3>. QED BY <3>1
  <2>2. k - 1 = n - j /\ k - 1 \in 0 .. n /\ j \in 0 .. n
    BY <2>1
  <2>3. Apart(b[k - 1] \o x[k])
    BY <1>4, <1>6, <2>1
  <2>4. Listed(b[k - 1]) /\ Listed(x[k])
    BY <1>3, <2>2 DEF Fronts
  <2>5. Apart(b[k - 1])
    BY <2>3, <2>4, ApartBefore
  <2>. QED BY <2>2, <2>5
<1>7. \A j \in 0 .. n : j \in Good
  <2>1. \A j \in 1 .. n : j - 1 \in Good => j \in Good
    BY <1>6
  <2>. HIDE DEF Good
  <2>. QED BY <1>5, <2>1, CountingUp
<1>8. \A k \in 0 .. n : Apart(b[k])
  <2>. TAKE k \in 0 .. n
  <2>1. n - k \in 0 .. n /\ n - (n - k) = k
    OBVIOUS
  <2>2. n - k \in Good
    BY <1>7, <2>1
  <2>. QED BY <2>1, <2>2
<1>9. PICK h : h = [k \in 0 .. n |-> Held(nz, <<>>, b[k], us, no)]
  OBVIOUS
<1>10. PICK p : p = [k \in 0 .. n |-> At(d, h[k])]
  OBVIOUS
<1>11. ASSUME NEW k \in 1 .. n PROVE Leads(dialect, p[k - 1], pieces[k], p[k])
  <2>1. k \in 0 .. n /\ k - 1 \in 0 .. n
    OBVIOUS
  <2>2. PICK c, y : c = b[k - 1] /\ y = x[k]
    OBVIOUS
  <2>3. Listed(c) /\ b[k] = c \o y /\ Apart(c \o y)
    BY <1>3, <1>4, <1>8, <2>1, <2>2
  <2>4. AddsAll(dialect, d, nz, us, no, pieces[k], y)
    BY <2>2
  <2>5. Leads(dialect, At(d, Held(nz, <<>>, c, us, no)), pieces[k],
                       At(d, Held(nz, <<>>, c \o y, us, no)))
    BY <2>3, <2>4 DEF AddsAll
  <2>. QED BY <1>9, <1>10, <2>1, <2>2, <2>3, <2>5
<1>12. p[0] = At(d, h[0]) /\ p[n] = At(d, h[n]) /\ p[0].asm = h[0]
  <2>1. 0 \in 0 .. n /\ n \in 0 .. n
    OBVIOUS
  <2>. QED BY <1>10, <2>1 DEF At
<1>13. h[0] = Held(nz, <<>>, B, us, no) /\ h[n] = Held(nz, <<>>, B \o g[n], us, no)
  <2>1. 0 \in 0 .. n /\ n \in 0 .. n
    OBVIOUS
  <2>. QED BY <1>2, <1>9, <2>1
<1>14. p[0].asm.status = "incomplete"
  <2>1. Held(nz, <<>>, B, us, no).status = "incomplete"
    BY WithTextHas
  <2>. QED BY <1>12, <1>13, <2>1
<1>15. Leads(dialect, p[0], FlattenSeq(pieces), p[n])
  BY <1>11, <1>14, LeadsListwise
<1>. QED BY <1>12, <1>13, <1>15

LEMMA FlatIsListed ==
  ASSUME NEW s, ListOfLists(s)
  PROVE  Listed(FlattenSeq(s))
BY Nothing, OneMoreList

LEMMA FlattenFronts ==
  ASSUME NEW s, ListOfLists(s), NEW n \in Nat, n = Len(s)
  PROVE  \E g : Fronts(g, n, s) /\ FlattenSeq(s) = g[n]
<1>1. PICK S : S = UNION {Range(s[k]) : k \in 1 .. n}
  OBVIOUS
<1>2. \A k \in 1 .. n : s[k] \in Seq(S)
  <2>. TAKE k \in 1 .. n
  <2>1. Range(s[k]) \subseteq S
    BY <1>1
  <2>. QED BY <2>1, ListIn DEF ListOfLists
<1>3. s \in Seq(Seq(S))
  BY <1>2 DEF ListOfLists, Listed
<1>4. PICK g : EndToEnd(g, s, S)
  BY <1>3, FlattenRuns
<1>5. FlattenSeq(s) = g[n]
  BY <1>3, <1>4, FlattenIs
<1>6. \A k \in 0 .. n : Listed(g[k])
  <2>1. \A k \in 0 .. n : g[k] \in Seq(S)
    BY <1>4 DEF EndToEnd
  <2>. QED BY <2>1, ListIs
<1>7. Fronts(g, n, s)
  BY <1>4, <1>6 DEF EndToEnd, Fronts, ListOfLists
<1>. QED BY <1>5, <1>7

LEMMA FrontsOfList ==
  ASSUME NEW P, Listed(P), NEW n \in Nat, n = Len(P),
         NEW x, \A k \in 1 .. n : x[k] = <<P[k]>>
  PROVE  \E g : Fronts(g, n, x) /\ g[n] = P
<1>1. PICK g : g = [k \in 0 .. n |-> SubSeq(P, 1, k)]
  OBVIOUS
<1>2. /\ SubSeq(P, 1, 0) = <<>> /\ SubSeq(P, 1, n) = P
      /\ \A k \in 0 .. n : Listed(SubSeq(P, 1, k))
      /\ \A k \in 1 .. n : SubSeq(P, 1, k) = Append(SubSeq(P, 1, k - 1), P[k])
  BY FrontGrows
<1>3. g[0] = <<>> /\ g[n] = P
  <2>1. 0 \in 0 .. n /\ n \in 0 .. n
    OBVIOUS
  <2>. QED BY <1>1, <1>2, <2>1
<1>4. \A k \in 0 .. n : Listed(g[k])
  BY <1>1, <1>2
<1>5. ASSUME NEW k \in 1 .. n PROVE g[k] = g[k - 1] \o x[k] /\ Listed(x[k])
  <2>1. k \in 0 .. n /\ k - 1 \in 0 .. n
    OBVIOUS
  <2>2. PICK h, y : h = g[k - 1] /\ y = P[k]
    OBVIOUS
  <2>3. g[k] = Append(h, y) /\ Listed(h)
    BY <1>1, <1>2, <1>4, <2>1, <2>2
  <2>4. Append(h, y) = h \o <<y>> /\ Listed(<<y>>)
    BY <2>3, JoinedWithOne, OneListed
  <2>. QED BY <2>2, <2>3, <2>4
<1>6. Fronts(g, n, x)
  BY <1>3, <1>4, <1>5 DEF Fronts
<1>. QED BY <1>3, <1>6

-----------------------------------------------------------------------------
(* dialect/openai_responses *)

LEMMA ResponsesReads ==
  ASSUME NEW d, NEW event, event # "error", NEW p
  PROVE  Decode("responses", d, Frame(event, p)) = Yields(d, ResponsesDeltas(event, p))
<1>1. PICK f : f = Frame(event, p)
  OBVIOUS
<1>2. f.event = event /\ Payload(f) = p /\ HasPayload(f)
  BY <1>1 DEF Frame, Payload, HasPayload
<1>3. Decode("responses", d, f) = ResponsesDecode(d, f)
  BY <1>2 DEF Decode
<1>4. ResponsesDecode(d, f) = Yields(d, ResponsesDeltas(event, p))
  BY <1>2 DEF ResponsesDecode
<1>. QED BY <1>1, <1>3, <1>4

LEMMA ResponsesTells ==
  ASSUME NEW d, NEW p
  PROVE  /\ Decode("responses", d, Frame("response.output_text.delta", p)) = Yields(d, <<RawText(p.text)>>)
         /\ Decode("responses", d, Frame("response.output_text.done", p)) = Yields(d, <<RawTextEnd>>)
         /\ Decode("responses", d, Frame("response.refusal.delta", p)) = Yields(d, <<RawRefusal(p.text)>>)
         /\ Decode("responses", d, Frame("response.refusal.done", p)) = Ignores(d)
         /\ Decode("responses", d, Frame("response.reasoning_summary_text.delta", p))
              = Yields(d, <<RawReasoningText(p.text)>>)
         /\ Decode("responses", d, Frame("response.function_call_arguments.delta", p))
              = Yields(d, <<RawToolArgs(p.index, p.json)>>)
         /\ Decode("responses", d, Frame("response.function_call_arguments.done", p))
              = Yields(d, <<RawToolReplace(p.index, p.json), RawToolEnd(p.index)>>)
         /\ Decode("responses", d, Frame("response.completed", p))
              = Yields(d, <<RawMeta(ResponsesStatus(p.status), p.usage)>>)
<1>1. /\ ResponsesDeltas("response.output_text.delta", p) = <<RawText(p.text)>>
      /\ ResponsesDeltas("response.output_text.done", p) = <<RawTextEnd>>
  BY DEF ResponsesDeltas
<1>2. /\ ResponsesDeltas("response.refusal.delta", p) = <<RawRefusal(p.text)>>
      /\ ResponsesDeltas("response.refusal.done", p) = <<>>
  BY DEF ResponsesDeltas
<1>3. ResponsesDeltas("response.reasoning_summary_text.delta", p) = <<RawReasoningText(p.text)>>
  BY DEF ResponsesDeltas
<1>4. /\ ResponsesDeltas("response.function_call_arguments.delta", p) = <<RawToolArgs(p.index, p.json)>>
      /\ ResponsesDeltas("response.function_call_arguments.done", p)
           = <<RawToolReplace(p.index, p.json), RawToolEnd(p.index)>>
  BY DEF ResponsesDeltas
<1>5. ResponsesDeltas("response.completed", p) = <<RawMeta(ResponsesStatus(p.status), p.usage)>>
  BY DEF ResponsesDeltas
<1>6. Ignores(d) = Yields(d, <<>>)
  BY DEF Ignores
<1>. QED BY <1>1, <1>2, <1>3, <1>4, <1>5, <1>6, ResponsesReads

\* The frames before and after what an item has.
LEMMA ResponsesItemTold ==
  ASSUME NEW d, NEW p
  PROVE  /\ p.item.type = "function_call" =>
              Decode("responses", d, Frame("response.output_item.added", p))
                = Yields(d, <<RawToolStart(p.index, p.item.id)>>)
         /\ p.item.type # "function_call" =>
              Decode("responses", d, Frame("response.output_item.added", p)) = Ignores(d)
         /\ p.item.type \in {"message", "function_call"} =>
              Decode("responses", d, Frame("response.output_item.done", p)) = Ignores(d)
         /\ p.item.type \notin {"message", "function_call"} =>
              Decode("responses", d, Frame("response.output_item.done", p))
                = Yields(d, <<RawReasoningBlob(p.item)>>)
<1>1. /\ ResponsesDeltas("response.output_item.added", p) =
           IF p.item.type = "function_call" THEN <<RawToolStart(p.index, p.item.id)>> ELSE <<>>
      /\ ResponsesDeltas("response.output_item.done", p) =
           IF p.item.type \in {"message", "function_call"} THEN <<>>
           ELSE <<RawReasoningBlob(p.item)>>
  BY DEF ResponsesDeltas
<1>2. Ignores(d) = Yields(d, <<>>)
  BY DEF Ignores
<1>3. /\ Decode("responses", d, Frame("response.output_item.added", p))
           = Yields(d, ResponsesDeltas("response.output_item.added", p))
      /\ Decode("responses", d, Frame("response.output_item.done", p))
           = Yields(d, ResponsesDeltas("response.output_item.done", p))
  BY ResponsesReads
<1>. QED BY <1>1, <1>2, <1>3

\* Some frames, and one after them.
LEMMA AndOne ==
  ASSUME NEW dialect, NEW s, NEW t, NEW u, NEW F, NEW g, Listed(F),
         Leads(dialect, s, F, t), Leads(dialect, t, <<g>>, u)
  PROVE  Leads(dialect, s, F \o <<g>>, u)
<1>1. PICK L : L = <<g>>
  OBVIOUS
<1>2. Listed(L)
  BY <1>1, OneListed
<1>3. Leads(dialect, s, F \o L, u)
  BY <1>1, <1>2, LeadsOn
<1>. QED BY <1>1, <1>3

LEMMA ListedAndOne ==
  ASSUME NEW F, Listed(F), NEW g
  PROVE  Listed(F \o <<g>>)
<1>1. PICK L : L = <<g>>
  OBVIOUS
<1>2. Listed(L)
  BY <1>1, OneListed
<1>. QED BY <1>1, <1>2, Joined

LEMMA ResponsesText ==
  ASSUME NEW d, NEW nz, NEW no, no = FALSE, NEW us, NEW i, NEW part,
         part.type = "output_text", IsSaid(part.text), NEW B, Listed(B)
  PROVE  /\ Listed(ResponsesPartFrames(i, part))
         /\ Leads("responses", At(d, Held(nz, <<>>, B, us, no)), ResponsesPartFrames(i, part),
                  At(d, Held(nz, <<>>, Append(B, TextPart(part.text)), us, no)))
<1>1. PICK txt : txt = part.text
  OBVIOUS
<1>2. Listed(txt) /\ txt # <<>>
  BY <1>1 DEF IsSaid, IsList, Listed
<1>3. PICK n \in Nat : n = Len(txt)
  BY <1>2, ListHas
<1>4. PICK F : F = [k \in 1 .. n |-> Frame("response.output_text.delta", [index |-> i, text |-> txt[k]])]
  OBVIOUS
<1>5. PICK g : g = Frame("response.output_text.done", [index |-> i])
  OBVIOUS
<1>6. ResponsesPartFrames(i, part) = F \o <<g>>
  <2>1. DOMAIN txt = 1 .. n
    BY <1>2, <1>3, ListHas
  <2>2. PICK kind : kind = <<"response.output_text.delta", "response.output_text.done">>
    OBVIOUS
  <2>3. kind[1] = "response.output_text.delta" /\ kind[2] = "response.output_text.done"
    BY <2>2
  <2>4. ResponsesPartFrames(i, part)
          = [k \in DOMAIN part.text |-> Frame(kind[1], [index |-> i, text |-> part.text[k]])]
              \o <<Frame(kind[2], [index |-> i])>>
    BY <2>2 DEF ResponsesPartFrames
  <2>. QED BY <1>1, <1>4, <1>5, <2>1, <2>3, <2>4
<1>7. Listed(F) /\ Len(F) = n
  <2>1. F = [k \in 1 .. n |-> F[k]]
    BY <1>4
  <2>. QED BY <2>1, MappedList
<1>8. \A k \in 1 .. n : Decode("responses", d, F[k]) = Yields(d, <<RawText(txt[k])>>)
  <2>. TAKE k \in 1 .. n
  <2>1. PICK p : p = [index |-> i, text |-> txt[k]]
    OBVIOUS
  <2>2. F[k] = Frame("response.output_text.delta", p) /\ p.text = txt[k]
    BY <1>4, <2>1
  <2>. QED BY <2>2, ResponsesTells
<1>9. PICK a, b, c : /\ a = Held(nz, <<>>, B, us, no) /\ b = WithText(nz, <<>>, B, us, txt)
                     /\ c = Held(nz, <<>>, Append(B, TextPart(txt)), us, no)
  OBVIOUS
<1>10. Leads("responses", At(d, a), F, At(d, b))
  <2>1. WithText(nz, <<>>, B, us, <<>>) = a
    BY <1>9, TextBegins
  <2>2. Leads("responses", At(d, WithText(nz, <<>>, B, us, <<>>)), F, At(d, WithText(nz, <<>>, B, us, txt)))
    BY <1>2, <1>3, <1>7, <1>8, TextRuns
  <2>. QED BY <1>9, <2>1, <2>2
<1>11. Leads("responses", At(d, b), <<g>>, At(d, c))
  <2>1. Decode("responses", d, g) = Yields(d, <<RawTextEnd>>)
    BY <1>5, ResponsesTells
  <2>2. Quiet(Absorb(b, RawTextEnd)) = c
    BY <1>2, <1>9, TextEnds
  <2>3. b.status = "incomplete" /\ c.status = "incomplete"
    BY <1>9, WithTextHas
  <2>. QED BY <2>1, <2>2, <2>3, OneLeads
<1>12. Listed(F \o <<g>>) /\ Leads("responses", At(d, a), F \o <<g>>, At(d, c))
  BY <1>7, <1>10, <1>11, AndOne, ListedAndOne
<1>. QED BY <1>1, <1>6, <1>9, <1>12

LEMMA ResponsesRefusal ==
  ASSUME NEW d, NEW nz, NEW no, NEW us, NEW i, NEW part,
         part.type # "output_text", IsSaid(part.text), NEW B, Listed(B),
         B # <<>> => Last(B).part # "refusal"
  PROVE  /\ Listed(ResponsesPartFrames(i, part))
         /\ Leads("responses", At(d, Held(nz, <<>>, B, us, no)), ResponsesPartFrames(i, part),
                  At(d, Held(nz, <<>>, Append(B, RefusalPart(part.text)), us, no)))
<1>1. PICK txt : txt = part.text
  OBVIOUS
<1>2. Listed(txt) /\ txt # <<>>
  BY <1>1 DEF IsSaid, IsList, Listed
<1>3. PICK n \in Nat : n = Len(txt)
  BY <1>2, ListHas
<1>4. PICK F : F = [k \in 1 .. n |-> Frame("response.refusal.delta", [index |-> i, text |-> txt[k]])]
  OBVIOUS
<1>5. PICK g : g = Frame("response.refusal.done", [index |-> i])
  OBVIOUS
<1>6. ResponsesPartFrames(i, part) = F \o <<g>>
  <2>1. DOMAIN txt = 1 .. n
    BY <1>2, <1>3, ListHas
  <2>2. PICK kind : kind = <<"response.refusal.delta", "response.refusal.done">>
    OBVIOUS
  <2>3. kind[1] = "response.refusal.delta" /\ kind[2] = "response.refusal.done"
    BY <2>2
  <2>4. ResponsesPartFrames(i, part)
          = [k \in DOMAIN part.text |-> Frame(kind[1], [index |-> i, text |-> part.text[k]])]
              \o <<Frame(kind[2], [index |-> i])>>
    BY <2>2 DEF ResponsesPartFrames
  <2>. QED BY <1>1, <1>4, <1>5, <2>1, <2>3, <2>4
<1>7. Listed(F) /\ Len(F) = n
  <2>1. F = [k \in 1 .. n |-> F[k]]
    BY <1>4
  <2>. QED BY <2>1, MappedList
<1>8. \A k \in 1 .. n : Decode("responses", d, F[k]) = Yields(d, <<RawRefusal(txt[k])>>)
  <2>. TAKE k \in 1 .. n
  <2>1. PICK p : p = [index |-> i, text |-> txt[k]]
    OBVIOUS
  <2>2. F[k] = Frame("response.refusal.delta", p) /\ p.text = txt[k]
    BY <1>4, <2>1
  <2>. QED BY <2>2, ResponsesTells
<1>9. PICK a, c : /\ a = Held(nz, <<>>, B, us, no)
                  /\ c = Held(nz, <<>>, Append(B, RefusalPart(txt)), us, no)
  OBVIOUS
<1>10. Leads("responses", At(d, a), F, At(d, c))
  <2>1. WithRefusal(nz, <<>>, B, us, no, txt) = c
    BY <1>2, <1>9 DEF WithRefusal
  <2>2. Leads("responses", At(d, Held(nz, <<>>, B, us, no)), F,
                           At(d, WithRefusal(nz, <<>>, B, us, no, txt)))
    BY <1>2, <1>3, <1>7, <1>8, RefusalRuns
  <2>. QED BY <1>9, <2>1, <2>2
<1>11. Leads("responses", At(d, c), <<g>>, At(d, c))
  <2>1. Decode("responses", d, g) = Ignores(d)
    BY <1>5, ResponsesTells
  <2>2. KeptOf(Decode("responses", d, g), d)
    BY <2>1 DEF KeptOf
  <2>. QED BY <1>9, <2>2, OneKept
<1>12. Listed(F \o <<g>>) /\ Leads("responses", At(d, a), F \o <<g>>, At(d, c))
  BY <1>7, <1>10, <1>11, AndOne, ListedAndOne
<1>. QED BY <1>1, <1>6, <1>9, <1>12

OnePart(part) == <<ResponsesPart(part)>>

LEMMA ResponsesPartRuns ==
  ASSUME NEW d, NEW nz, NEW no, no = FALSE, NEW us, NEW i, NEW part,
         IsSaid(part.text), NEW B, Listed(B), Apart(B \o OnePart(part))
  PROVE  Leads("responses", At(d, Held(nz, <<>>, B, us, no)), ResponsesPartFrames(i, part),
                            At(d, Held(nz, <<>>, B \o OnePart(part), us, no)))
<1>1. PICK F, x : F = ResponsesPartFrames(i, part) /\ x = ResponsesPart(part)
  OBVIOUS
<1>2. OnePart(part) = <<x>>
  BY <1>1 DEF OnePart
<1>3. B \o OnePart(part) = Append(B, x)
  BY <1>2, JoinedWithOne
<1>4. CASE part.type = "output_text"
  <2>1. x = TextPart(part.text)
    BY <1>1, <1>4 DEF ResponsesPart
  <2>2. Leads("responses", At(d, Held(nz, <<>>, B, us, no)), F,
                           At(d, Held(nz, <<>>, Append(B, TextPart(part.text)), us, no)))
    BY <1>1, <1>4, ResponsesText
  <2>. QED BY <1>1, <1>3, <2>1, <2>2
<1>5. CASE part.type # "output_text"
  <2>1. x = RefusalPart(part.text)
    BY <1>1, <1>5 DEF ResponsesPart
  <2>2. x.part = "refusal"
    BY <2>1 DEF RefusalPart
  <2>3. B # <<>> => Last(B).part # "refusal"
    BY <1>3, <2>2, ApartLast
  <2>4. Leads("responses", At(d, Held(nz, <<>>, B, us, no)), F,
                           At(d, Held(nz, <<>>, Append(B, RefusalPart(part.text)), us, no)))
    BY <1>1, <1>5, <2>3, ResponsesRefusal
  <2>. QED BY <1>1, <1>3, <2>1, <2>4
<1>. QED BY <1>4, <1>5

LEMMA ResponsesPartListed ==
  ASSUME NEW i, NEW part, IsSaid(part.text)
  PROVE  Listed(ResponsesPartFrames(i, part))
<1>2. CASE part.type = "output_text"
  BY <1>2, Nothing, ResponsesText
<1>3. CASE part.type # "output_text"
  BY <1>3, Nothing, ResponsesRefusal
<1>. QED BY <1>2, <1>3

\* p is what the first and the last frame of an item carry.
ItemFramed(i, item, p) ==
  /\ ResponsesItemFrames(i, item)
       = <<Frame("response.output_item.added", p)>> \o ResponsesItemPieces(i, item)
           \o <<Frame("response.output_item.done", p)>>
  /\ p.index = i /\ p.item = item

LEMMA ResponsesFramed ==
  ASSUME NEW i, NEW item
  PROVE  \E p : ItemFramed(i, item, p)
<1>1. PICK p : p = [index |-> i, item |-> item]
  OBVIOUS
<1>2. p.index = i /\ p.item = item
  BY <1>1
<1>3. ResponsesItemFrames(i, item)
        = <<Frame("response.output_item.added", p)>> \o ResponsesItemPieces(i, item)
            \o <<Frame("response.output_item.done", p)>>
  BY <1>1 DEF ResponsesItemFrames
<1>. QED BY <1>2, <1>3 DEF ItemFramed

LEMMA ResponsesMessage ==
  ASSUME NEW d, NEW nz, NEW no, no = FALSE, NEW us, NEW i, NEW item,
         item.type = "message", IsItem(item)
  PROVE  /\ Listed(ResponsesItemFrames(i, item)) /\ Listed(ConvertItem(item))
         /\ AddsAll("responses", d, nz, us, no, ResponsesItemFrames(i, item), ConvertItem(item))
<1>1. PICK parts : parts = item.parts
  OBVIOUS
<1>2. /\ Listed(parts)
      /\ \A part \in Range(parts) : part.type \in {"output_text", "refusal"} /\ IsSaid(part.text)
  BY <1>1 DEF IsItem, IsList, Listed
<1>3. PICK n \in Nat : n = Len(parts)
  BY <1>2, ListHas
<1>4. /\ DOMAIN parts = 1 .. n
      /\ \A k \in 1 .. n : parts[k].type \in {"output_text", "refusal"} /\ IsSaid(parts[k].text)
  <2>1. DOMAIN parts = 1 .. n
    BY <1>2, <1>3, ListHas
  <2>. QED BY <1>2, <2>1 DEF Range
<1>5. PICK P : P = [k \in 1 .. n |-> ResponsesPart(parts[k])]
  OBVIOUS
<1>6. PICK pieces : pieces = [k \in 1 .. n |-> ResponsesPartFrames(i, parts[k])]
  OBVIOUS
<1>7. PICK x : x = [k \in 1 .. n |-> <<P[k]>>]
  OBVIOUS
<1>8. Listed(P) /\ Len(P) = n /\ Listed(pieces) /\ Len(pieces) = n
  <2>1. P = [k \in 1 .. n |-> P[k]] /\ pieces = [k \in 1 .. n |-> pieces[k]]
    BY <1>5, <1>6
  <2>. QED BY <2>1, MappedList
<1>9. ConvertItem(item) = P
  BY <1>1, <1>4, <1>5 DEF ConvertItem
<1>10. \A k \in 1 .. n : Listed(pieces[k]) /\ AddsAll("responses", d, nz, us, no, pieces[k], x[k])
  <2>. TAKE k \in 1 .. n
  <2>1. PICK part, one : part = parts[k] /\ one = x[k]
    OBVIOUS
  <2>2. one = OnePart(part) /\ pieces[k] = ResponsesPartFrames(i, part)
    BY <1>5, <1>6, <1>7, <2>1 DEF OnePart
  <2>3. part.type \in {"output_text", "refusal"} /\ IsSaid(part.text)
    BY <1>4, <2>1
  <2>4. \A B : Listed(B) /\ Apart(B \o OnePart(part)) =>
          Leads("responses", At(d, Held(nz, <<>>, B, us, no)), ResponsesPartFrames(i, part),
                             At(d, Held(nz, <<>>, B \o OnePart(part), us, no)))
    BY <2>3, ResponsesPartRuns
  <2>5. Listed(ResponsesPartFrames(i, part))
    BY <2>3, ResponsesPartListed
  <2>. QED BY <2>1, <2>2, <2>4, <2>5 DEF AddsAll
<1>11. PICK g : Fronts(g, n, x) /\ g[n] = P
  <2>1. \A k \in 1 .. n : x[k] = <<P[k]>>
    BY <1>7
  <2>. QED BY <1>8, <2>1, FrontsOfList
<1>12. ListOfLists(pieces)
  BY <1>8, <1>10 DEF ListOfLists
<1>13. PICK F : F = FlattenSeq(pieces)
  OBVIOUS
<1>14. AddsAll("responses", d, nz, us, no, F, P) /\ Listed(F)
  <2>1. AddsAll("responses", d, nz, us, no, FlattenSeq(pieces), g[n])
    BY <1>8, <1>10, <1>11, <1>12, FrontsAdd
  <2>. QED BY <1>11, <1>12, <1>13, <2>1, FlatIsListed
<1>0. PICK p : ItemFramed(i, item, p)
  BY ResponsesFramed
<1>15. /\ ResponsesItemFrames(i, item)
             = <<Frame("response.output_item.added", p)>> \o ResponsesItemPieces(i, item)
                 \o <<Frame("response.output_item.done", p)>>
       /\ p.index = i /\ p.item = item
  BY <1>0 DEF ItemFramed
<1>16. PICK f, h : f = Frame("response.output_item.added", p) /\ h = Frame("response.output_item.done", p)
  OBVIOUS
<1>17. ResponsesItemFrames(i, item) = <<f>> \o F \o <<h>>
  <2>1. ResponsesItemPieces(i, item) = F
    BY <1>1, <1>4, <1>6, <1>13 DEF ResponsesItemPieces
  <2>. QED BY <1>15, <1>16, <2>1
<1>18. KeptOf(Decode("responses", d, f), d) /\ KeptOf(Decode("responses", d, h), d)
  <2>1. p.item.type = "message"
    BY <1>15
  <2>2. Decode("responses", d, f) = Ignores(d) /\ Decode("responses", d, h) = Ignores(d)
    BY <1>16, <2>1, ResponsesItemTold
  <2>. QED BY <2>2 DEF KeptOf
<1>19. ASSUME NEW B, Listed(B), Apart(B \o P)
       PROVE  Leads("responses", At(d, Held(nz, <<>>, B, us, no)), <<f>> \o F \o <<h>>,
                                 At(d, Held(nz, <<>>, B \o P, us, no)))
  <2>1. PICK a, c : a = Held(nz, <<>>, B, us, no) /\ c = Held(nz, <<>>, B \o P, us, no)
    OBVIOUS
  <2>2. Leads("responses", At(d, a), F, At(d, c))
    BY <1>14, <1>19, <2>1 DEF AddsAll
  <2>3. Leads("responses", At(d, a), <<f>>, At(d, a))
    BY <1>18, <2>1, OneKept
  <2>4. Leads("responses", At(d, c), <<h>>, At(d, c))
    BY <1>18, <2>1, OneKept
  <2>5. Leads("responses", At(d, a), <<f>> \o F \o <<h>>, At(d, c))
    BY <1>14, <2>2, <2>3, <2>4, Between
  <2>. QED BY <2>1, <2>5
<1>20. Listed(<<f>> \o F \o <<h>>)
  <2>1. PICK L : L = <<f>>
    OBVIOUS
  <2>2. Listed(L) /\ Listed(L \o F)
    BY <1>14, <2>1, OneListed, Joined
  <2>. QED BY <2>1, <2>2, ListedAndOne
<1>. QED BY <1>8, <1>9, <1>17, <1>19, <1>20 DEF AddsAll

\* What replaces the arguments of a call are those that streamed in.
LEMMA ReplacedBySame ==
  ASSUME NEW nz, NEW C, NEW us, NEW open, NEW slot, NEW id, NEW args, NEW a,
         a = Held(nz, One(slot, Begun(id, args)), C, us, open)
  PROVE  Absorb(a, RawToolReplace(slot, args)) = a
<1>1. PICK b : b = AbsorbToolReplace(a, slot, args)
  OBVIOUS
<1>2. Absorb(a, RawToolReplace(slot, args)) = b
  BY <1>1, AbsorbsOne
<1>3. Quiet(b) = a
  BY <1>1, ArgumentsReplaced
<1>4. DOMAIN a = AsmFields /\ a = [x \in AsmFields |-> a[x]] /\ a.out = <<>>
  BY HeldHas
<1>5. PICK q : q = [a EXCEPT !.pending[slot].arguments = args]
  OBVIOUS
<1>6. DOMAIN q = AsmFields /\ q = [x \in AsmFields |-> q[x]] /\ q.out = <<>>
  BY <1>4, <1>5 DEF AsmFields
<1>7. DOMAIN b = AsmFields /\ b = [x \in AsmFields |-> b[x]] /\ b.out = <<>>
  BY <1>1, <1>4, <1>5, <1>6 DEF AbsorbToolReplace
<1>8. Quiet(b) = b
  BY <1>7 DEF Quiet
<1>. QED BY <1>2, <1>3, <1>8

LEMMA ResponsesCall ==
  ASSUME NEW d, NEW nz, NEW no, NEW us, NEW i, NEW item,
         item.type = "function_call", IsItem(item),
         \A args : args # <<>> => Ended(nz, args) = args, NEW B, Listed(B)
  PROVE  /\ Listed(ResponsesItemFrames(i, item))
         /\ Leads("responses", At(d, Held(nz, <<>>, B, us, no)), ResponsesItemFrames(i, item),
                  At(d, Held(nz, <<>>, Append(B, CallPart(item.id, item.input)), us, no)))
<1>1. PICK args, id : args = item.input /\ id = item.id
  OBVIOUS
<1>2. Listed(args) /\ args # <<>>
  BY <1>1 DEF IsItem, IsSaid, IsList, Listed
<1>3. PICK n \in Nat : n = Len(args)
  BY <1>2, ListHas
<1>4. PICK F : F = [k \in 1 .. n |-> Frame("response.function_call_arguments.delta",
                                           [index |-> i, json |-> <<args[k]>>])]
  OBVIOUS
<1>5. PICK q, g : /\ q = [index |-> i, json |-> args]
                  /\ g = Frame("response.function_call_arguments.done", q)
  OBVIOUS
<1>6. Listed(F) /\ Len(F) = n
  <2>1. F = [k \in 1 .. n |-> F[k]]
    BY <1>4
  <2>. QED BY <2>1, MappedList
<1>7. ResponsesItemPieces(i, item) = F \o <<g>>
  <2>1. DOMAIN args = 1 .. n
    BY <1>2, <1>3, ListHas
  <2>. QED BY <1>1, <1>4, <1>5, <2>1 DEF ResponsesItemPieces
<1>8. \A k \in 1 .. n : Decode("responses", d, F[k]) = Yields(d, <<RawToolArgs(i, <<args[k]>>)>>)
  <2>. TAKE k \in 1 .. n
  <2>1. PICK p : p = [index |-> i, json |-> <<args[k]>>]
    OBVIOUS
  <2>2. F[k] = Frame("response.function_call_arguments.delta", p) /\ p.index = i /\ p.json = <<args[k]>>
    BY <1>4, <2>1
  <2>3. Decode("responses", d, Frame("response.function_call_arguments.delta", p))
          = Yields(d, <<RawToolArgs(p.index, p.json)>>)
    BY ResponsesTells
  <2>. QED BY <2>2, <2>3
<1>0. PICK p : ItemFramed(i, item, p)
  BY ResponsesFramed
<1>9. /\ ResponsesItemFrames(i, item)
            = <<Frame("response.output_item.added", p)>> \o ResponsesItemPieces(i, item)
                \o <<Frame("response.output_item.done", p)>>
      /\ p.index = i /\ p.item = item
  BY <1>0 DEF ItemFramed
<1>10. PICK f, h : f = Frame("response.output_item.added", p) /\ h = Frame("response.output_item.done", p)
  OBVIOUS
<1>11. PICK G : G = F \o <<g>>
  OBVIOUS
<1>12. ResponsesItemFrames(i, item) = <<f>> \o G \o <<h>> /\ Listed(G)
  BY <1>6, <1>7, <1>9, <1>10, <1>11, ListedAndOne
<1>13. PICK a, b0, b, c : /\ a = Held(nz, <<>>, B, us, no)
                          /\ b0 = Held(nz, One(i, Begun(id, <<>>)), B, us, no)
                          /\ b = Held(nz, One(i, Begun(id, args)), B, us, no)
                          /\ c = Held(nz, <<>>, Append(B, CallPart(id, args)), us, no)
  OBVIOUS
<1>14. a.status = "incomplete" /\ b0.status = "incomplete" /\ b.status = "incomplete" /\ c.status = "incomplete"
  <2>1. PICK more : more = Append(B, CallPart(id, args))
    OBVIOUS
  <2>2. c = Held(nz, <<>>, more, us, no)
    BY <1>13, <2>1
  <2>3. c.status = "incomplete"
    BY <2>2 DEF Held
  <2>4. a.status = "incomplete"
    BY <1>13 DEF Held
  <2>5. b0.status = "incomplete"
    BY <1>13, HeldHas
  <2>6. b.status = "incomplete"
    BY <1>13, HeldHas
  <2>. QED BY <2>3, <2>4, <2>5, <2>6
<1>15. Leads("responses", At(d, a), <<f>>, At(d, b0))
  <2>1. p.item.type = "function_call" /\ p.index = i /\ p.item.id = id
    BY <1>1, <1>9
  <2>2. Decode("responses", d, f) = Yields(d, <<RawToolStart(i, id)>>)
    BY <1>10, <2>1, ResponsesItemTold
  <2>3. Quiet(Absorb(a, RawToolStart(i, id))) = b0
    BY <1>13, CallStarted
  <2>. QED BY <1>14, <2>2, <2>3, OneLeads
<1>16. Leads("responses", At(d, b0), F, At(d, b))
  BY <1>2, <1>3, <1>6, <1>8, <1>13, ArgumentsRun
<1>17. Leads("responses", At(d, b), <<g>>, At(d, c))
  <2>1. PICK r, e : r = RawToolReplace(i, args) /\ e = RawToolEnd(i)
    OBVIOUS
  <2>2. Decode("responses", d, g) = Yields(d, <<r, e>>)
    <3>1. q.index = i /\ q.json = args
      BY <1>5
    <3>2. Decode("responses", d, g) = Yields(d, <<RawToolReplace(q.index, q.json), RawToolEnd(q.index)>>)
      BY <1>5, ResponsesTells
    <3>. QED BY <2>1, <3>1, <3>2
  <2>3. Absorb(b, r) = b
    BY <1>13, <2>1, ReplacedBySame
  <2>4. Quiet(Absorb(b, e)) = c
    <3>1. Quiet(Absorb(b, RawToolEnd(i)))
            = Held(nz, <<>>, Append(B, CallPart(id, Ended(nz, args))), us, no)
      BY <1>13, CallOver
    <3>2. Ended(nz, args) = args
      BY <1>2
    <3>. QED BY <1>13, <2>1, <3>1, <3>2
  <2>5. AbsorbAll(b, <<r, e>>) = Absorb(b, e)
    BY <2>3, AbsorbTwo
  <2>6. PICK s, t : s = At(d, b) /\ t = At(d, c)
    OBVIOUS
  <2>7. s.decoder = d /\ s.asm = b /\ t.asm = c /\ t = [decoder |-> d, asm |-> c]
    BY <2>6 DEF At
  <2>8. Decode("responses", d, g).decoder = d /\ Decode("responses", d, g).deltas = <<r, e>>
    BY <2>2 DEF Yields
  <2>9. Fed("responses", s, g) = t
    BY <2>4, <2>5, <2>7, <2>8 DEF Fed
  <2>10. Leads("responses", s, <<g>>, t)
    BY <1>14, <2>7, <2>9, LeadsByOne
  <2>. QED BY <2>6, <2>10
<1>18. Leads("responses", At(d, c), <<h>>, At(d, c))
  <2>1. p.item.type \in {"message", "function_call"}
    BY <1>9
  <2>2. Decode("responses", d, h) = Ignores(d)
    BY <1>10, <2>1, ResponsesItemTold
  <2>3. KeptOf(Decode("responses", d, h), d)
    BY <2>2 DEF KeptOf
  <2>. QED BY <1>13, <2>3, OneKept
<1>19. Leads("responses", At(d, b0), G, At(d, c))
  BY <1>6, <1>11, <1>16, <1>17, AndOne
<1>20. Listed(<<f>> \o G \o <<h>>) /\ Leads("responses", At(d, a), <<f>> \o G \o <<h>>, At(d, c))
  BY <1>12, <1>15, <1>18, <1>19, Between
<1>. QED BY <1>1, <1>12, <1>13, <1>20

LEMMA ResponsesOther ==
  ASSUME NEW d, NEW nz, NEW no, NEW us, NEW i, NEW item,
         item.type # "message", item.type # "function_call", NEW B
  PROVE  /\ Listed(ResponsesItemFrames(i, item))
         /\ Leads("responses", At(d, Held(nz, <<>>, B, us, no)), ResponsesItemFrames(i, item),
                  At(d, Held(nz, <<>>, Append(B, ReasoningPart(item)), us, no)))
<1>1. PICK q, g : /\ q = [index |-> i, text |-> "t"]
                  /\ g = Frame("response.reasoning_summary_text.delta", q)
  OBVIOUS
<1>2. PICK L : L = <<g>>
  OBVIOUS
<1>3. ResponsesItemPieces(i, item) = L /\ Listed(L)
  <2>1. Listed(L)
    BY <1>2, OneListed
  <2>. QED BY <1>1, <1>2, <2>1 DEF ResponsesItemPieces
<1>4. PICK p : ItemFramed(i, item, p)
  BY ResponsesFramed
<1>5. PICK f, h : f = Frame("response.output_item.added", p) /\ h = Frame("response.output_item.done", p)
  OBVIOUS
<1>6. p.item = item /\ ResponsesItemFrames(i, item) = <<f>> \o L \o <<h>>
  BY <1>3, <1>4, <1>5 DEF ItemFramed
<1>7. PICK a, c : /\ a = Held(nz, <<>>, B, us, no)
                  /\ c = Held(nz, <<>>, Append(B, ReasoningPart(item)), us, no)
  OBVIOUS
<1>8. a.status = "incomplete" /\ c.status = "incomplete"
  BY <1>7, WithTextHas
<1>9. Leads("responses", At(d, a), <<f>>, At(d, a))
  <2>1. Decode("responses", d, f) = Ignores(d)
    BY <1>5, <1>6, ResponsesItemTold
  <2>2. KeptOf(Decode("responses", d, f), d)
    BY <2>1 DEF KeptOf
  <2>. QED BY <1>7, <2>2, OneKept
<1>10. Leads("responses", At(d, a), L, At(d, a))
  <2>1. Decode("responses", d, g) = Yields(d, <<RawReasoningText(q.text)>>)
    BY <1>1, ResponsesTells
  <2>2. KeptOf(Decode("responses", d, g), d)
    BY <2>1 DEF KeptOf
  <2>. QED BY <1>2, <1>7, <2>2, OneKept
<1>11. Leads("responses", At(d, a), <<h>>, At(d, c))
  <2>1. p.item.type \notin {"message", "function_call"}
    BY <1>6
  <2>2. Decode("responses", d, h) = Yields(d, <<RawReasoningBlob(p.item)>>)
    BY <1>5, <2>1, ResponsesItemTold
  <2>3. Quiet(Absorb(a, RawReasoningBlob(item))) = c
    BY <1>7, BlobTold
  <2>. QED BY <1>6, <1>8, <2>2, <2>3, OneLeads
<1>12. Listed(<<f>> \o L \o <<h>>) /\ Leads("responses", At(d, a), <<f>> \o L \o <<h>>, At(d, c))
  BY <1>3, <1>9, <1>10, <1>11, Between
<1>. QED BY <1>6, <1>7, <1>12

LEMMA ResponsesItemListed ==
  ASSUME NEW nz, NEW no, no = FALSE, NEW i, NEW item, IsItem(item),
         \A args : args # <<>> => Ended(nz, args) = args
  PROVE  Listed(ResponsesItemFrames(i, item)) /\ Listed(ConvertItem(item))
<1>1. CASE item.type = "message"
  BY <1>1, ResponsesMessage
<1>2. CASE item.type = "function_call"
  <2>1. ConvertItem(item) = <<CallPart(item.id, item.input)>>
    BY <1>2 DEF ConvertItem
  <2>2. Listed(ResponsesItemFrames(i, item))
    BY <1>2, Nothing, ResponsesCall
  <2>. QED BY <2>1, <2>2, OneListed
<1>3. CASE item.type # "message" /\ item.type # "function_call"
  <2>1. ConvertItem(item) = <<ReasoningPart(item)>>
    BY <1>3 DEF ConvertItem
  <2>2. Listed(ResponsesItemFrames(i, item))
    BY <1>3, ResponsesOther
  <2>. QED BY <2>1, <2>2, OneListed
<1>. QED BY <1>1, <1>2, <1>3

LEMMA ResponsesItemRuns ==
  ASSUME NEW d, NEW nz, NEW no, no = FALSE, NEW us, NEW i, NEW item, IsItem(item),
         \A args : args # <<>> => Ended(nz, args) = args,
         NEW B, Listed(B), Apart(B \o ConvertItem(item))
  PROVE  Leads("responses", At(d, Held(nz, <<>>, B, us, no)), ResponsesItemFrames(i, item),
                            At(d, Held(nz, <<>>, B \o ConvertItem(item), us, no)))
<1>1. CASE item.type = "message"
  <2>1. AddsAll("responses", d, nz, us, no, ResponsesItemFrames(i, item), ConvertItem(item))
    BY <1>1, ResponsesMessage
  <2>. QED BY <2>1 DEF AddsAll
<1>2. CASE item.type = "function_call"
  <2>1. PICK x : x = CallPart(item.id, item.input)
    OBVIOUS
  <2>2. ConvertItem(item) = <<x>>
    BY <1>2, <2>1 DEF ConvertItem
  <2>3. B \o ConvertItem(item) = Append(B, x)
    BY <2>2, JoinedWithOne
  <2>4. Leads("responses", At(d, Held(nz, <<>>, B, us, no)), ResponsesItemFrames(i, item),
              At(d, Held(nz, <<>>, Append(B, CallPart(item.id, item.input)), us, no)))
    BY <1>2, ResponsesCall
  <2>. QED BY <2>1, <2>3, <2>4
<1>3. CASE item.type # "message" /\ item.type # "function_call"
  <2>1. PICK x : x = ReasoningPart(item)
    OBVIOUS
  <2>2. ConvertItem(item) = <<x>>
    BY <1>3, <2>1 DEF ConvertItem
  <2>3. B \o ConvertItem(item) = Append(B, x)
    BY <2>2, JoinedWithOne
  <2>4. Leads("responses", At(d, Held(nz, <<>>, B, us, no)), ResponsesItemFrames(i, item),
              At(d, Held(nz, <<>>, Append(B, ReasoningPart(item)), us, no)))
    BY <1>3, ResponsesOther
  <2>. QED BY <2>1, <2>3, <2>4
<1>. QED BY <1>1, <1>2, <1>3

LEMMA ResponsesEnds ==
  ASSUME NEW nz, NEW no, no = FALSE, NEW r, IsResponse(r),
         \A args : args # <<>> => Ended(nz, args) = args
  PROVE  /\ Listed(ResponsesFrames(r))
         /\ Ends("responses", At(ResponsesDecoder, Held(nz, <<>>, <<>>, NoUsage, no)),
                 ResponsesFrames(r), ResponsesParse(r))
<1>1. PICK items, d : items = r.output /\ d = ResponsesDecoder
  OBVIOUS
<1>2. Listed(items) /\ \A item \in Range(items) : IsItem(item)
  BY <1>1 DEF IsResponse, IsList, Listed
<1>3. PICK n \in Nat : n = Len(items)
  BY <1>2, ListHas
<1>4. DOMAIN items = 1 .. n /\ \A k \in 1 .. n : IsItem(items[k])
  <2>1. DOMAIN items = 1 .. n
    BY <1>2, <1>3, ListHas
  <2>. QED BY <1>2, <2>1 DEF Range
<1>5. PICK lists : lists = [k \in 1 .. n |-> ConvertItem(items[k])]
  OBVIOUS
<1>6. PICK pieces : pieces = [k \in 1 .. n |-> ResponsesItemFrames(k - 1, items[k])]
  OBVIOUS
<1>7. Listed(lists) /\ Len(lists) = n /\ Listed(pieces) /\ Len(pieces) = n
  <2>1. lists = [k \in 1 .. n |-> lists[k]] /\ pieces = [k \in 1 .. n |-> pieces[k]]
    BY <1>5, <1>6
  <2>. QED BY <2>1, MappedList
<1>8. ASSUME NEW k \in 1 .. n
      PROVE  /\ Listed(pieces[k]) /\ Listed(lists[k])
             /\ AddsAll("responses", d, nz, NoUsage, no, pieces[k], lists[k])
  <2>1. PICK i, item : i = k - 1 /\ item = items[k]
    OBVIOUS
  <2>2. IsItem(item) /\ pieces[k] = ResponsesItemFrames(i, item) /\ lists[k] = ConvertItem(item)
    BY <1>4, <1>5, <1>6, <2>1
  <2>3. \A B : Listed(B) /\ Apart(B \o ConvertItem(item)) =>
          Leads("responses", At(d, Held(nz, <<>>, B, NoUsage, no)), ResponsesItemFrames(i, item),
                             At(d, Held(nz, <<>>, B \o ConvertItem(item), NoUsage, no)))
    BY <2>2, ResponsesItemRuns
  <2>4. Listed(ResponsesItemFrames(i, item)) /\ Listed(ConvertItem(item))
    BY <2>2, ResponsesItemListed
  <2>. QED BY <2>2, <2>3, <2>4 DEF AddsAll
<1>9. ListOfLists(pieces) /\ ListOfLists(lists)
  BY <1>7, <1>8 DEF ListOfLists
<1>10. PICK g : Fronts(g, n, lists) /\ FlattenSeq(lists) = g[n]
  BY <1>7, <1>9, FlattenFronts
<1>11. PICK C, F : C = g[n] /\ F = FlattenSeq(pieces)
  OBVIOUS
<1>12. Listed(F) /\ Listed(C) /\ AddsAll("responses", d, nz, NoUsage, no, F, C)
  <2>1. AddsAll("responses", d, nz, NoUsage, no, FlattenSeq(pieces), g[n])
    BY <1>7, <1>8, <1>9, <1>10, FrontsAdd
  <2>2. Listed(FlattenSeq(pieces))
    BY <1>9, FlatIsListed
  <2>3. Listed(FlattenSeq(lists))
    BY <1>9, FlatIsListed
  <2>. QED BY <1>10, <1>11, <2>1, <2>2, <2>3
<1>13. ResponsesParse(r).content = C
  BY <1>1, <1>4, <1>5, <1>10, <1>11 DEF ResponsesParse
<1>14. Apart(C)
  BY <1>13 DEF IsResponse, Apart
<1>15. PICK s, t : /\ s = At(d, Held(nz, <<>>, <<>>, NoUsage, no))
                   /\ t = At(d, Held(nz, <<>>, C, NoUsage, no))
  OBVIOUS
<1>16. Leads("responses", s, F, t)
  <2>1. PICK none : none = <<>>
    OBVIOUS
  <2>2. Listed(none) /\ none \o C = C
    BY <1>12, <2>1, Nothing, NothingBefore
  <2>3. Leads("responses", At(d, Held(nz, <<>>, none, NoUsage, no)), F,
                           At(d, Held(nz, <<>>, none \o C, NoUsage, no)))
    BY <1>12, <1>14, <2>2 DEF AddsAll
  <2>. QED BY <1>15, <2>1, <2>2, <2>3
<1>17. PICK p, f, status : /\ p = [index |-> 0, status |-> r.status, usage |-> r.usage]
                           /\ f = Frame("response.completed", p) /\ status = ResponsesStatus(r.status)
  OBVIOUS
<1>18. Decode("responses", d, f) = Yields(d, <<RawMeta(status, r.usage)>>)
  <2>1. p.status = r.status /\ p.usage = r.usage
    BY <1>17
  <2>2. Decode("responses", d, f) = Yields(d, <<RawMeta(ResponsesStatus(p.status), p.usage)>>)
    BY <1>17, ResponsesTells
  <2>. QED BY <1>17, <2>1, <2>2
<1>19. status # "none"
  BY <1>17 DEF ResponsesStatus
<1>20. ResponsesParse(r) = [content |-> C, status |-> status, usage |-> LaterUsage(NoUsage, r.usage)]
  <2>1. LaterUsage(NoUsage, r.usage) = r.usage
    BY DEF LaterUsage
  <2>. QED BY <1>1, <1>4, <1>5, <1>10, <1>11, <1>17, <2>1 DEF ResponsesParse
<1>21. Ends("responses", t, <<f>>, ResponsesParse(r))
  BY <1>15, <1>18, <1>19, <1>20, EndsWithMeta
<1>22. ResponsesFrames(r) = F \o <<f>>
  BY <1>1, <1>4, <1>6, <1>11, <1>17 DEF ResponsesFrames
<1>23. PICK L : L = <<f>>
  OBVIOUS
<1>24. Listed(L) /\ Listed(F \o L)
  BY <1>12, <1>23, OneListed, Joined
<1>25. Ends("responses", s, F \o L, ResponsesParse(r))
  BY <1>12, <1>16, <1>21, <1>23, <1>24, LeadsToEnd
<1>. QED BY <1>1, <1>15, <1>22, <1>23, <1>24, <1>25

-----------------------------------------------------------------------------
(* dialect/openai_chat: every frame may have counts, and they are null before *)
(* the last                                                                   *)

With(a, usage) == [a EXCEPT !.usage = usage]

LEMMA HeldWith ==
  ASSUME NEW nz, NEW pending, NEW C, NEW us, NEW open, NEW later
  PROVE  With(Held(nz, pending, C, us, open), later) = Held(nz, pending, C, later, open)
<1>1. PICK a, b : a = Held(nz, pending, C, us, open) /\ b = Held(nz, pending, C, later, open)
  OBVIOUS
<1>2. PICK c : c = With(a, later)
  OBVIOUS
<1>3. /\ DOMAIN a = AsmFields /\ a.normalize = nz /\ a.pending = pending /\ a.captured = C
      /\ a.textOpen = open /\ a.status = "incomplete" /\ a.out = <<>>
  BY <1>1, HeldHas
<1>4. /\ DOMAIN b = AsmFields /\ b = [x \in AsmFields |-> b[x]] /\ b.normalize = nz
      /\ b.pending = pending /\ b.captured = C /\ b.usage = later
      /\ b.textOpen = open /\ b.status = "incomplete" /\ b.out = <<>>
  BY <1>1, HeldHas
<1>5. a.finished = b.finished
  BY <1>1 DEF Held
<1>6. /\ DOMAIN c = AsmFields /\ c = [x \in AsmFields |-> c[x]] /\ c.normalize = a.normalize
      /\ c.pending = a.pending /\ c.captured = a.captured /\ c.usage = later
      /\ c.textOpen = a.textOpen /\ c.status = a.status /\ c.out = a.out
      /\ c.finished = a.finished
  BY <1>2, <1>3 DEF With, AsmFields
<1>7. c = b
  BY <1>3, <1>4, <1>5, <1>6, SameFields
<1>. QED BY <1>1, <1>2, <1>7

LEMMA TextWith ==
  ASSUME NEW nz, NEW pending, NEW C, NEW us, NEW txt, NEW later
  PROVE  With(WithText(nz, pending, C, us, txt), later) = WithText(nz, pending, C, later, txt)
<1>1. CASE txt = <<>>
  <2>1. PICK no : no = FALSE
    OBVIOUS
  <2>2. /\ WithText(nz, pending, C, us, txt) = Held(nz, pending, C, us, no)
        /\ WithText(nz, pending, C, later, txt) = Held(nz, pending, C, later, no)
    BY <1>1, <2>1 DEF WithText
  <2>. QED BY <2>2, HeldWith
<1>2. CASE txt # <<>>
  <2>1. PICK yes : yes = TRUE
    OBVIOUS
  <2>2. PICK B : B = Append(C, TextPart(txt))
    OBVIOUS
  <2>3. /\ WithText(nz, pending, C, us, txt) = Held(nz, pending, B, us, yes)
        /\ WithText(nz, pending, C, later, txt) = Held(nz, pending, B, later, yes)
    BY <1>2, <2>1, <2>2 DEF WithText
  <2>. QED BY <2>3, HeldWith
<1>. QED BY <1>1, <1>2

LEMMA RefusalWith ==
  ASSUME NEW nz, NEW pending, NEW C, NEW us, NEW open, NEW txt, NEW later
  PROVE  With(WithRefusal(nz, pending, C, us, open, txt), later)
           = WithRefusal(nz, pending, C, later, open, txt)
<1>1. CASE txt = <<>>
  BY <1>1, HeldWith DEF WithRefusal
<1>2. CASE txt # <<>>
  BY <1>2, HeldWith DEF WithRefusal
<1>. QED BY <1>1, <1>2

\* One frame takes a to b, whatever the counts were.
Steps(d, z, a, f, b) ==
  \A us : Fed("chat", At(d, With(a, us)), f) = At(d, With(b, LaterUsage(us, z)))

\* So do some, and where they begin no counts but those are known.
Reaches(d, z, a, F, b) ==
  \A us : LaterUsage(us, z) = z =>
    \E later : /\ LaterUsage(later, z) = z
               /\ Leads("chat", At(d, With(a, us)), F, At(d, With(b, later)))

\* The counts of a frame, told after all else.
CountsTold(z) == IF z = NoUsage THEN <<>> ELSE <<RawMeta("none", z)>>

LEMMA CountsGoOn ==
  ASSUME NEW x, NEW b, DOMAIN b = AsmFields, NEW us, Quiet(x) = With(b, us), NEW z
  PROVE  Quiet(Absorb(x, RawMeta("none", z))) = With(b, LaterUsage(us, z))
<1>1. Absorb(x, RawMeta("none", z)) = AbsorbMeta(x, "none", z)
  BY AbsorbsOne
<1>2. PICK c, q : c = With(b, us) /\ q = Quiet(x)
  OBVIOUS
<1>3. DOMAIN c = AsmFields /\ c = [y \in AsmFields |-> c[y]] /\ c.usage = us
  BY <1>2 DEF With, AsmFields
<1>4. DOMAIN x = AsmFields
  <2>1. DOMAIN q = DOMAIN x
    BY <1>2 DEF Quiet
  <2>. QED BY <1>2, <1>3, <2>1
<1>5. PICK u : u = LaterUsage(us, z)
  OBVIOUS
<1>6. x.usage = us
  <2>1. q.usage = x.usage
    BY <1>2, <1>4 DEF Quiet, AsmFields
  <2>. QED BY <1>2, <1>3, <2>1
<1>7. PICK y : y = [x EXCEPT !.status = x.status, !.usage = u]
  OBVIOUS
<1>8. AbsorbMeta(x, "none", z) = y
  <2>1. u = IF z = NoUsage THEN x.usage ELSE z
    BY <1>5, <1>6 DEF LaterUsage
  <2>. QED BY <1>7, <2>1 DEF AbsorbMeta
<1>9. PICK yq, cu : yq = Quiet(y) /\ cu = With(b, u)
  OBVIOUS
<1>10. /\ DOMAIN y = AsmFields /\ y.status = x.status /\ y.usage = u
       /\ y.normalize = x.normalize /\ y.finished = x.finished
       /\ y.pending = x.pending /\ y.captured = x.captured /\ y.textOpen = x.textOpen
  BY <1>4, <1>7 DEF AsmFields
<1>11. /\ DOMAIN yq = AsmFields /\ yq = [e \in AsmFields |-> yq[e]]
       /\ yq.status = x.status /\ yq.usage = u /\ yq.out = <<>>
       /\ yq.normalize = x.normalize /\ yq.finished = x.finished
       /\ yq.pending = x.pending /\ yq.captured = x.captured /\ yq.textOpen = x.textOpen
  BY <1>9, <1>10 DEF Quiet, AsmFields
<1>12. /\ q.status = x.status /\ q.out = <<>> /\ q.normalize = x.normalize
       /\ q.finished = x.finished /\ q.pending = x.pending /\ q.captured = x.captured
       /\ q.textOpen = x.textOpen
  BY <1>2, <1>4 DEF Quiet, AsmFields
<1>13. /\ DOMAIN cu = AsmFields /\ cu = [e \in AsmFields |-> cu[e]]
       /\ cu.status = c.status /\ cu.usage = u /\ cu.out = c.out
       /\ cu.normalize = c.normalize /\ cu.finished = c.finished
       /\ cu.pending = c.pending /\ cu.captured = c.captured /\ cu.textOpen = c.textOpen
  BY <1>2, <1>9 DEF With, AsmFields
<1>14. yq = cu
  BY <1>2, <1>11, <1>12, <1>13, SameFields
<1>. QED BY <1>1, <1>5, <1>8, <1>9, <1>14

LEMMA StepsBy ==
  ASSUME NEW d, NEW z, NEW a, NEW b, DOMAIN b = AsmFields, NEW f, NEW ds, Listed(ds),
         Decode("chat", d, f) = Yields(d, ds \o CountsTold(z)),
         \A us : Quiet(AbsorbAll(With(a, us), ds)) = With(b, us)
  PROVE  Steps(d, z, a, f, b)
<1>. SUFFICES ASSUME NEW us
              PROVE  Fed("chat", At(d, With(a, us)), f) = At(d, With(b, LaterUsage(us, z)))
  BY DEF Steps
<1>1. PICK aa, bb, all : aa = With(a, us) /\ bb = With(b, LaterUsage(us, z)) /\ all = ds \o CountsTold(z)
  OBVIOUS
<1>2. PICK s, t : s = At(d, aa) /\ t = At(d, bb)
  OBVIOUS
<1>3. s.decoder = d /\ s.asm = aa /\ t = [decoder |-> d, asm |-> bb]
  BY <1>2 DEF At
<1>4. Decode("chat", d, f).decoder = d /\ Decode("chat", d, f).deltas = all
  BY <1>1 DEF Yields
<1>5. Quiet(AbsorbAll(aa, all)) = bb
  <2>1. CASE z = NoUsage
    <3>1. all = ds
      BY <1>1, <2>1, JoinedWithNothing DEF CountsTold
    <3>2. LaterUsage(us, z) = us
      BY <2>1 DEF LaterUsage
    <3>. QED BY <1>1, <3>1, <3>2
  <2>2. CASE z # NoUsage
    <3>1. PICK m, x : m = RawMeta("none", z) /\ x = AbsorbAll(aa, ds)
      OBVIOUS
    <3>2. all = Append(ds, m)
      <4>1. Append(ds, m) = ds \o <<m>>
        BY JoinedWithOne
      <4>. QED BY <1>1, <2>2, <3>1, <4>1 DEF CountsTold
    <3>3. AbsorbAll(aa, all) = Absorb(x, m)
      BY <3>1, <3>2, AbsorbMore
    <3>4. Quiet(x) = With(b, us)
      BY <1>1, <3>1
    <3>5. Quiet(Absorb(x, RawMeta("none", z))) = With(b, LaterUsage(us, z))
      BY <3>4, CountsGoOn
    <3>. QED BY <1>1, <3>1, <3>3, <3>5
  <2>. QED BY <2>1, <2>2
<1>6. Fed("chat", s, f) = t
  BY <1>3, <1>4, <1>5 DEF Fed
<1>. QED BY <1>1, <1>2, <1>6

LEMMA ReachesOn ==
  ASSUME NEW d, NEW z, NEW a, NEW b, NEW c, NEW F, NEW G, Listed(F), Listed(G),
         Reaches(d, z, a, F, b), Reaches(d, z, b, G, c)
  PROVE  Reaches(d, z, a, F \o G, c)
<1>. SUFFICES ASSUME NEW us, LaterUsage(us, z) = z
              PROVE  \E later : /\ LaterUsage(later, z) = z
                                /\ Leads("chat", At(d, With(a, us)), F \o G, At(d, With(c, later)))
  BY DEF Reaches
<1>1. PICK u : /\ LaterUsage(u, z) = z
               /\ Leads("chat", At(d, With(a, us)), F, At(d, With(b, u)))
  BY DEF Reaches
<1>2. PICK v : /\ LaterUsage(v, z) = z
               /\ Leads("chat", At(d, With(b, u)), G, At(d, With(c, v)))
  BY <1>1 DEF Reaches
<1>3. Leads("chat", At(d, With(a, us)), F \o G, At(d, With(c, v)))
  BY <1>1, <1>2, LeadsOn
<1>. QED BY <1>2, <1>3

LEMMA ReachesStepwise ==
  ASSUME NEW d, NEW z, NEW n \in Nat, NEW F, Len(F) = n, NEW a,
         \A k \in 0 .. n : DOMAIN a[k] = AsmFields /\ a[k].status = "incomplete",
         \A k \in 1 .. n : Steps(d, z, a[k - 1], F[k], a[k])
  PROVE  Reaches(d, z, a[0], F, a[n])
<1>. SUFFICES ASSUME NEW us, LaterUsage(us, z) = z
              PROVE  \E later : /\ LaterUsage(later, z) = z
                                /\ Leads("chat", At(d, With(a[0], us)), F, At(d, With(a[n], later)))
  BY DEF Reaches
<1>1. PICK u : u = [k \in 0 .. n |-> IF k = 0 THEN us ELSE z]
  OBVIOUS
<1>2. PICK h : h = [k \in 0 .. n |-> With(a[k], u[k])]
  OBVIOUS
<1>3. PICK p : p = [k \in 0 .. n |-> At(d, h[k])]
  OBVIOUS
<1>4. LaterUsage(z, z) = z
  BY DEF LaterUsage
<1>5. \A k \in 0 .. n : LaterUsage(u[k], z) = z
  BY <1>1, <1>4
<1>6. \A k \in 1 .. n : u[k] = z
  BY <1>1
<1>7. \A k \in 0 .. n : p[k].asm.status = "incomplete"
  <2>. TAKE k \in 0 .. n
  <2>1. PICK b, c : b = a[k] /\ c = With(b, u[k])
    OBVIOUS
  <2>2. c.status = b.status
    BY <2>1 DEF With, AsmFields
  <2>3. p[k].asm = c
    BY <1>2, <1>3, <2>1 DEF At
  <2>. QED BY <2>1, <2>2, <2>3
<1>8. ASSUME NEW k \in 1 .. n PROVE p[k] = Fed("chat", p[k - 1], F[k])
  <2>1. k \in 0 .. n /\ k - 1 \in 0 .. n
    OBVIOUS
  <2>2. PICK b, c, v : b = a[k - 1] /\ c = a[k] /\ v = u[k - 1]
    OBVIOUS
  <2>3. Fed("chat", At(d, With(b, v)), F[k]) = At(d, With(c, LaterUsage(v, z)))
    BY <2>2 DEF Steps
  <2>4. LaterUsage(v, z) = u[k]
    BY <1>5, <1>6, <2>1, <2>2
  <2>5. p[k - 1] = At(d, With(b, v)) /\ p[k] = At(d, With(c, u[k]))
    BY <1>2, <1>3, <2>1, <2>2
  <2>. QED BY <2>3, <2>4, <2>5
<1>9. Leads("chat", p[0], F, p[n])
  BY <1>7, <1>8, LeadsStepwise
<1>10. p[0] = At(d, With(a[0], us)) /\ p[n] = At(d, With(a[n], u[n])) /\ LaterUsage(u[n], z) = z
  <2>1. 0 \in 0 .. n /\ n \in 0 .. n
    OBVIOUS
  <2>. QED BY <1>1, <1>2, <1>3, <1>5, <2>1
<1>. QED BY <1>9, <1>10

-----------------------------------------------------------------------------
(* The chunks of a chat *)

Chunk(text, refusal, calls, finish, usage) ==
  [text |-> text, refusal |-> refusal, calls |-> calls, finish |-> finish,
   usage |-> usage, error |-> FALSE]

ChunkFields == {"text", "refusal", "calls", "finish", "usage", "error"}

LEMMA ChunkHas ==
  ASSUME NEW T, NEW R, NEW K, NEW F, NEW U, NEW p, p = Chunk(T, R, K, F, U)
  PROVE  /\ DOMAIN p = ChunkFields /\ p = [x \in ChunkFields |-> p[x]]
         /\ p.text = T /\ p.refusal = R /\ p.calls = K /\ p.finish = F /\ p.usage = U
BY DEF Chunk, ChunkFields

LEMMA SameChunk ==
  ASSUME NEW p, DOMAIN p = ChunkFields, p = [x \in ChunkFields |-> p[x]],
         NEW q, DOMAIN q = ChunkFields, q = [x \in ChunkFields |-> q[x]],
         p.text = q.text, p.refusal = q.refusal, p.calls = q.calls, p.finish = q.finish,
         p.usage = q.usage, p.error = q.error
  PROVE  p = q
<1>1. \A x \in ChunkFields : p[x] = q[x]
  BY DEF ChunkFields
<1>. QED BY <1>1

LEMMA ChunkWith ==
  ASSUME NEW T, NEW R, NEW K, NEW F, NEW U, NEW p, p = Chunk(T, R, K, F, U), NEW y
  PROVE  /\ [p EXCEPT !.text = y] = Chunk(y, R, K, F, U)
         /\ [p EXCEPT !.refusal = y] = Chunk(T, y, K, F, U)
         /\ [p EXCEPT !.calls = y] = Chunk(T, R, y, F, U)
         /\ [p EXCEPT !.finish = y] = Chunk(T, R, K, y, U)
         /\ [p EXCEPT !.usage = y] = Chunk(T, R, K, F, y)
<1>1. /\ DOMAIN p = ChunkFields
      /\ p.text = T /\ p.refusal = R /\ p.calls = K /\ p.finish = F /\ p.usage = U
  BY ChunkHas
<1>2. [p EXCEPT !.text = y] = Chunk(y, R, K, F, U)
  <2>1. PICK q, c : q = [p EXCEPT !.text = y] /\ c = Chunk(y, R, K, F, U)
    OBVIOUS
  <2>2. /\ DOMAIN c = ChunkFields /\ c = [x \in ChunkFields |-> c[x]]
        /\ c.text = y /\ c.refusal = R /\ c.calls = K /\ c.finish = F /\ c.usage = U
    BY <2>1, ChunkHas
  <2>4. c.error = p.error
    BY <2>1 DEF Chunk
  <2>3. /\ DOMAIN q = ChunkFields /\ q = [x \in ChunkFields |-> q[x]]
        /\ q.text = y /\ q.refusal = p.refusal /\ q.calls = p.calls /\ q.finish = p.finish
        /\ q.usage = p.usage /\ q.error = p.error
    BY <1>1, <2>1 DEF ChunkFields
  <2>5. q = c
    BY <1>1, <2>2, <2>3, <2>4, SameChunk
  <2>. QED BY <2>1, <2>5
<1>3. [p EXCEPT !.refusal = y] = Chunk(T, y, K, F, U)
  <2>1. PICK q, c : q = [p EXCEPT !.refusal = y] /\ c = Chunk(T, y, K, F, U)
    OBVIOUS
  <2>2. /\ DOMAIN c = ChunkFields /\ c = [x \in ChunkFields |-> c[x]]
        /\ c.text = T /\ c.refusal = y /\ c.calls = K /\ c.finish = F /\ c.usage = U
    BY <2>1, ChunkHas
  <2>4. c.error = p.error
    BY <2>1 DEF Chunk
  <2>3. /\ DOMAIN q = ChunkFields /\ q = [x \in ChunkFields |-> q[x]]
        /\ q.refusal = y /\ q.text = p.text /\ q.calls = p.calls /\ q.finish = p.finish /\ q.usage = p.usage /\ q.error = p.error
    BY <1>1, <2>1 DEF ChunkFields
  <2>5. q = c
    BY <1>1, <2>2, <2>3, <2>4, SameChunk
  <2>. QED BY <2>1, <2>5
<1>4. [p EXCEPT !.calls = y] = Chunk(T, R, y, F, U)
  <2>1. PICK q, c : q = [p EXCEPT !.calls = y] /\ c = Chunk(T, R, y, F, U)
    OBVIOUS
  <2>2. /\ DOMAIN c = ChunkFields /\ c = [x \in ChunkFields |-> c[x]]
        /\ c.text = T /\ c.refusal = R /\ c.calls = y /\ c.finish = F /\ c.usage = U
    BY <2>1, ChunkHas
  <2>4. c.error = p.error
    BY <2>1 DEF Chunk
  <2>3. /\ DOMAIN q = ChunkFields /\ q = [x \in ChunkFields |-> q[x]]
        /\ q.calls = y /\ q.text = p.text /\ q.refusal = p.refusal /\ q.finish = p.finish /\ q.usage = p.usage /\ q.error = p.error
    BY <1>1, <2>1 DEF ChunkFields
  <2>5. q = c
    BY <1>1, <2>2, <2>3, <2>4, SameChunk
  <2>. QED BY <2>1, <2>5
<1>5. [p EXCEPT !.finish = y] = Chunk(T, R, K, y, U)
  <2>1. PICK q, c : q = [p EXCEPT !.finish = y] /\ c = Chunk(T, R, K, y, U)
    OBVIOUS
  <2>2. /\ DOMAIN c = ChunkFields /\ c = [x \in ChunkFields |-> c[x]]
        /\ c.text = T /\ c.refusal = R /\ c.calls = K /\ c.finish = y /\ c.usage = U
    BY <2>1, ChunkHas
  <2>4. c.error = p.error
    BY <2>1 DEF Chunk
  <2>3. /\ DOMAIN q = ChunkFields /\ q = [x \in ChunkFields |-> q[x]]
        /\ q.finish = y /\ q.text = p.text /\ q.refusal = p.refusal /\ q.calls = p.calls /\ q.usage = p.usage /\ q.error = p.error
    BY <1>1, <2>1 DEF ChunkFields
  <2>5. q = c
    BY <1>1, <2>2, <2>3, <2>4, SameChunk
  <2>. QED BY <2>1, <2>5
<1>6. [p EXCEPT !.usage = y] = Chunk(T, R, K, F, y)
  <2>1. PICK q, c : q = [p EXCEPT !.usage = y] /\ c = Chunk(T, R, K, F, y)
    OBVIOUS
  <2>2. /\ DOMAIN c = ChunkFields /\ c = [x \in ChunkFields |-> c[x]]
        /\ c.text = T /\ c.refusal = R /\ c.calls = K /\ c.finish = F /\ c.usage = y
    BY <2>1, ChunkHas
  <2>4. c.error = p.error
    BY <2>1 DEF Chunk
  <2>3. /\ DOMAIN q = ChunkFields /\ q = [x \in ChunkFields |-> q[x]]
        /\ q.usage = y /\ q.text = p.text /\ q.refusal = p.refusal /\ q.calls = p.calls /\ q.finish = p.finish /\ q.error = p.error
    BY <1>1, <2>1 DEF ChunkFields
  <2>5. q = c
    BY <1>1, <2>2, <2>3, <2>4, SameChunk
  <2>. QED BY <2>1, <2>5
<1>. QED BY <1>2, <1>3, <1>4, <1>5, <1>6

LEMMA ChunkIs ==
  ASSUME NEW none, none = <<>>, NEW y
  PROVE  /\ [ChatChunk EXCEPT !.text = y] = Chunk(y, none, none, none, none)
         /\ [ChatChunk EXCEPT !.refusal = y] = Chunk(none, y, none, none, none)
         /\ [ChatChunk EXCEPT !.calls = y] = Chunk(none, none, y, none, none)
         /\ [ChatChunk EXCEPT !.finish = y] = Chunk(none, none, none, y, none)
         /\ [ChatChunk EXCEPT !.usage = y] = Chunk(none, none, none, none, y)
<1>1. ChatChunk = Chunk(none, none, none, none, none)
  BY DEF ChatChunk, Chunk
<1>2. PICK p : p = ChatChunk
  OBVIOUS
<1>. QED BY <1>1, <1>2, ChunkWith

\* What counts are before the last frame: absent, or null.
IsNulls(nulls) == nulls = <<>> \/ nulls = <<"null">>

Nulled(nulls, c) == IF nulls = <<>> THEN c ELSE [c EXCEPT !.usage = <<"null">>]

LEMMA NulledIs ==
  ASSUME NEW T, NEW R, NEW K, NEW F, NEW nulls, IsNulls(nulls)
  PROVE  Nulled(nulls, Chunk(T, R, K, F, <<>>)) = Chunk(T, R, K, F, nulls)
BY DEF Nulled, IsNulls, Chunk

LEMMA NullsCount ==
  ASSUME NEW nulls, IsNulls(nulls), NEW z, z = ChatUsage(nulls)
  PROVE  /\ nulls = <<>> => z = NoUsage
         /\ nulls # <<>> => z # NoUsage
<1>1. CASE nulls = <<>>
  BY <1>1 DEF ChatUsage
<1>2. CASE nulls # <<>>
  <2>1. nulls = <<"null">>
    BY <1>2 DEF IsNulls
  <2>2. z = <<0, 0, 0>>
    BY <1>2, <2>1 DEF ChatUsage
  <2>. QED BY <1>2, <2>2 DEF NoUsage
<1>. QED BY <1>1, <1>2

LEMMA ChatReads ==
  ASSUME NEW d, NEW T, NEW R, NEW K, NEW F, NEW U, NEW p, p = Chunk(T, R, K, F, U)
  PROVE  /\ Decode("chat", d, ChatFrame(p)) = Yields(d, ChatDeltas(p))
         /\ p.text = T /\ p.refusal = R /\ p.calls = K /\ p.finish = F /\ p.usage = U
<1>1. p.text = T /\ p.refusal = R /\ p.calls = K /\ p.finish = F /\ p.usage = U /\ ~p.error
      /\ DOMAIN p = {"text", "refusal", "calls", "finish", "usage", "error"}
  BY DEF Chunk
<1>2. PICK f, q, g : f = ChatFrame(p) /\ q = [sentinel |-> TRUE] /\ g = ChatFrame(q)
  OBVIOUS
<1>3. Payload(f) = p /\ HasPayload(f) /\ Payload(g) = q
  BY <1>2 DEF ChatFrame, Frame, Payload, HasPayload
<1>4. f # ChatSentinel
  <2>1. DOMAIN q = {"sentinel"}
    BY <1>2
  <2>2. p # q
    BY <1>1, <2>1
  <2>. QED BY <1>2, <1>3, <2>2 DEF ChatSentinel
<1>5. Decode("chat", d, f) = ChatDecode(d, f)
  BY <1>3 DEF Decode
<1>6. ChatDecode(d, f) = Yields(d, ChatDeltas(p))
  BY <1>1, <1>3, <1>4 DEF ChatDecode
<1>. QED BY <1>1, <1>2, <1>5, <1>6

LEMMA ChatSentinelIgnored ==
  ASSUME NEW d
  PROVE  Decode("chat", d, ChatSentinel) = Ignores(d)
<1>1. HasPayload(ChatSentinel)
  BY DEF ChatSentinel, ChatFrame, Frame, HasPayload
<1>. QED BY <1>1 DEF Decode, ChatDecode

\* One delta for each text, refusal and piece of a call, then the counts.
LEMMA ChatTellsText ==
  ASSUME NEW nulls, IsNulls(nulls), NEW z, z = ChatUsage(nulls), NEW d, NEW x, NEW p,
         NEW none, none = <<>>, NEW one, one = <<x>>,
         p = Chunk(one, none, none, none, nulls)
  PROVE  Decode("chat", d, ChatFrame(p)) = Yields(d, <<RawText(x)>> \o CountsTold(z))
<1>1. p.text = one /\ p.refusal = none /\ p.calls = none /\ p.finish = none /\ p.usage = nulls
  BY ChatReads
<1>2. [k \in DOMAIN none |-> RawText(none[k])] = <<>> /\ [k \in DOMAIN none |-> RawRefusal(none[k])] = <<>>
  OBVIOUS
<1>3. [k \in DOMAIN none |-> ChatCallDeltas(none[k])] = <<>>
  OBVIOUS
<1>4. [k \in DOMAIN one |-> RawText(one[k])] = <<RawText(x)>>
  OBVIOUS
<1>5. ChatMeta(p) = CountsTold(z)
  BY <1>1, NullsCount DEF ChatMeta, CountsTold
<1>6. PICK t : t = <<RawText(x)>>
  OBVIOUS
<1>7. Listed(t)
  BY <1>6, OneListed
<1>8. t \o <<>> = t /\ <<>> \o t = t
  BY <1>7, JoinedWithNothing, NothingBefore
<1>9. ChatDeltas(p) = ((t \o <<>>) \o FlattenSeq(<<>>)) \o ChatMeta(p)
  BY <1>1, <1>2, <1>3, <1>4, <1>6 DEF ChatDeltas
<1>10. ChatDeltas(p) = t \o CountsTold(z)
  BY <1>5, <1>8, <1>9, Nothing
<1>11. Decode("chat", d, ChatFrame(p)) = Yields(d, ChatDeltas(p))
  BY ChatReads
<1>. QED BY <1>6, <1>10, <1>11

LEMMA ChatTellsRefusal ==
  ASSUME NEW nulls, IsNulls(nulls), NEW z, z = ChatUsage(nulls), NEW d, NEW x, NEW p,
         NEW none, none = <<>>, NEW one, one = <<x>>,
         p = Chunk(none, one, none, none, nulls)
  PROVE  Decode("chat", d, ChatFrame(p)) = Yields(d, <<RawRefusal(x)>> \o CountsTold(z))
<1>1. p.text = none /\ p.refusal = one /\ p.calls = none /\ p.finish = none /\ p.usage = nulls
  BY ChatReads
<1>2. [k \in DOMAIN none |-> RawText(none[k])] = <<>> /\ [k \in DOMAIN none |-> RawRefusal(none[k])] = <<>>
  OBVIOUS
<1>3. [k \in DOMAIN none |-> ChatCallDeltas(none[k])] = <<>>
  OBVIOUS
<1>4. [k \in DOMAIN one |-> RawRefusal(one[k])] = <<RawRefusal(x)>>
  OBVIOUS
<1>5. ChatMeta(p) = CountsTold(z)
  BY <1>1, NullsCount DEF ChatMeta, CountsTold
<1>6. PICK t : t = <<RawRefusal(x)>>
  OBVIOUS
<1>7. Listed(t)
  BY <1>6, OneListed
<1>8. t \o <<>> = t /\ <<>> \o t = t
  BY <1>7, JoinedWithNothing, NothingBefore
<1>9. ChatDeltas(p) = ((<<>> \o t) \o FlattenSeq(<<>>)) \o ChatMeta(p)
  BY <1>1, <1>2, <1>3, <1>4, <1>6 DEF ChatDeltas
<1>10. ChatDeltas(p) = t \o CountsTold(z)
  BY <1>5, <1>8, <1>9, Nothing
<1>11. Decode("chat", d, ChatFrame(p)) = Yields(d, ChatDeltas(p))
  BY ChatReads
<1>. QED BY <1>6, <1>10, <1>11

CallDeltas(calls) == FlattenSeq([k \in DOMAIN calls |-> ChatCallDeltas(calls[k])])

LEMMA CallDeltasListed ==
  ASSUME NEW X, Listed(X)
  PROVE  Listed(CallDeltas(X))
<1>1. PICK n \in Nat : n = Len(X)
  BY ListHas
<1>2. PICK f : f = [k \in DOMAIN X |-> ChatCallDeltas(X[k])]
  OBVIOUS
<1>3. f = [k \in 1 .. n |-> f[k]] /\ \A k \in 1 .. n : f[k] = ChatCallDeltas(X[k])
  <2>1. DOMAIN X = 1 .. n
    BY <1>1, ListHas
  <2>. QED BY <1>2, <2>1
<1>4. \A c : Listed(ChatCallDeltas(c))
  <2>. TAKE c
  <2>1. PICK s, t : /\ s = IF c.id = <<>> THEN <<>> ELSE <<RawToolStart(c.index, c.id[1])>>
                    /\ t = IF c.json = <<>> THEN <<>> ELSE <<RawToolArgs(c.index, c.json)>>
    OBVIOUS
  <2>2. Listed(s) /\ Listed(t)
    BY <2>1, Nothing, OneListed
  <2>. QED BY <2>1, <2>2, Joined DEF ChatCallDeltas
<1>5. ListOfLists(f)
  BY <1>3, <1>4, MappedList DEF ListOfLists
<1>. QED BY <1>2, <1>5, FlatIsListed DEF CallDeltas

LEMMA ChatTellsCalls ==
  ASSUME NEW nulls, IsNulls(nulls), NEW z, z = ChatUsage(nulls), NEW d, NEW x, NEW p,
         NEW none, none = <<>>, Listed(x),
         p = Chunk(none, none, x, none, nulls)
  PROVE  Decode("chat", d, ChatFrame(p)) = Yields(d, CallDeltas(x) \o CountsTold(z))
<1>1. p.text = none /\ p.refusal = none /\ p.calls = x /\ p.finish = none /\ p.usage = nulls
  BY ChatReads
<1>2. [k \in DOMAIN none |-> RawText(none[k])] = <<>> /\ [k \in DOMAIN none |-> RawRefusal(none[k])] = <<>>
  OBVIOUS
<1>3. [k \in DOMAIN none |-> ChatCallDeltas(none[k])] = <<>>
  OBVIOUS
<1>5. ChatMeta(p) = CountsTold(z)
  BY <1>1, NullsCount DEF ChatMeta, CountsTold
<1>6. PICK t : t = CallDeltas(x)
  OBVIOUS
<1>7. Listed(t) /\ <<>> \o <<>> = <<>>
  BY <1>6, CallDeltasListed, Nothing, JoinedWithNothing
<1>8. <<>> \o t = t
  BY <1>7, NothingBefore
<1>9. ChatDeltas(p) = ((<<>> \o <<>>) \o t) \o ChatMeta(p)
  BY <1>1, <1>2, <1>6 DEF ChatDeltas, CallDeltas
<1>10. ChatDeltas(p) = t \o CountsTold(z)
  BY <1>5, <1>7, <1>8, <1>9
<1>11. Decode("chat", d, ChatFrame(p)) = Yields(d, ChatDeltas(p))
  BY ChatReads
<1>. QED BY <1>6, <1>10, <1>11

LEMMA HeldFields ==
  ASSUME NEW nz, NEW pending, NEW C, NEW us, NEW open, NEW txt
  PROVE  /\ DOMAIN Held(nz, pending, C, us, open) = AsmFields
         /\ DOMAIN WithText(nz, pending, C, us, txt) = AsmFields
         /\ DOMAIN WithRefusal(nz, pending, C, us, open, txt) = AsmFields
<1>1. \A B, o : DOMAIN Held(nz, pending, B, us, o) = AsmFields
  BY HeldHas
<1>. QED BY <1>1 DEF WithText, WithRefusal

LEMMA ChatTextStep ==
  ASSUME NEW d, NEW z, NEW nz, NEW pending, NEW C, Listed(C), NEW u, NEW txt, Listed(txt),
         NEW x, NEW f, Decode("chat", d, f) = Yields(d, <<RawText(x)>> \o CountsTold(z))
  PROVE  Steps(d, z, WithText(nz, pending, C, u, txt), f, WithText(nz, pending, C, u, Append(txt, x)))
<1>1. PICK a, b, ds : /\ a = WithText(nz, pending, C, u, txt)
                      /\ b = WithText(nz, pending, C, u, Append(txt, x))
                      /\ ds = <<RawText(x)>>
  OBVIOUS
<1>2. DOMAIN b = AsmFields
  BY <1>1, HeldFields
<1>3. Listed(ds) /\ Decode("chat", d, f) = Yields(d, ds \o CountsTold(z))
  BY <1>1, OneListed
<1>4. ASSUME NEW us PROVE Quiet(AbsorbAll(With(a, us), ds)) = With(b, us)
  <2>1. PICK w : w = With(a, us)
    OBVIOUS
  <2>2. w = WithText(nz, pending, C, us, txt)
    BY <1>1, <2>1, TextWith
  <2>3. With(b, us) = WithText(nz, pending, C, us, Append(txt, x))
    BY <1>1, TextWith
  <2>4. AbsorbAll(w, <<RawText(x)>>) = AbsorbText(w, x)
    <3>1. AbsorbAll(w, <<RawText(x)>>) = Absorb(w, RawText(x))
      BY AbsorbOne
    <3>2. Absorb(w, RawText(x)) = AbsorbText(w, x)
      BY AbsorbsOne
    <3>. QED BY <3>1, <3>2
  <2>5. Quiet(AbsorbText(w, x)) = WithText(nz, pending, C, us, Append(txt, x))
    BY <2>2, TextGoesOn
  <2>. QED BY <1>1, <2>1, <2>3, <2>4, <2>5
<1>5. Steps(d, z, a, f, b)
  BY <1>2, <1>3, <1>4, StepsBy
<1>. QED BY <1>1, <1>5

LEMMA ChatTextRuns ==
  ASSUME NEW d, NEW z, NEW nz, NEW pending, NEW C, Listed(C), NEW u,
         NEW txt, Listed(txt), NEW n \in Nat, n = Len(txt), NEW F, Len(F) = n,
         \A k \in 1 .. n : Decode("chat", d, F[k]) = Yields(d, <<RawText(txt[k])>> \o CountsTold(z))
  PROVE  Reaches(d, z, WithText(nz, pending, C, u, <<>>), F, WithText(nz, pending, C, u, txt))
<1>1. PICK a : a = [k \in 0 .. n |-> WithText(nz, pending, C, u, SubSeq(txt, 1, k))]
  OBVIOUS
<1>2. \A k \in 0 .. n : DOMAIN a[k] = AsmFields /\ a[k].status = "incomplete"
  BY <1>1, HeldFields, WithTextHas
<1>3. ASSUME NEW k \in 1 .. n PROVE Steps(d, z, a[k - 1], F[k], a[k])
  <2>1. k \in 0 .. n /\ k - 1 \in 0 .. n
    OBVIOUS
  <2>2. PICK s, x : s = SubSeq(txt, 1, k - 1) /\ x = txt[k]
    OBVIOUS
  <2>3. Listed(s) /\ SubSeq(txt, 1, k) = Append(s, x)
    BY <2>1, <2>2, FrontGrows
  <2>4. a[k - 1] = WithText(nz, pending, C, u, s) /\ a[k] = WithText(nz, pending, C, u, Append(s, x))
    BY <1>1, <2>1, <2>2, <2>3
  <2>5. Decode("chat", d, F[k]) = Yields(d, <<RawText(x)>> \o CountsTold(z))
    BY <2>2
  <2>. QED BY <2>3, <2>4, <2>5, ChatTextStep
<1>4. Reaches(d, z, a[0], F, a[n])
  BY <1>2, <1>3, ReachesStepwise
<1>5. a[0] = WithText(nz, pending, C, u, <<>>) /\ a[n] = WithText(nz, pending, C, u, txt)
  <2>1. 0 \in 0 .. n /\ n \in 0 .. n
    OBVIOUS
  <2>. QED BY <1>1, <2>1, FrontGrows
<1>. QED BY <1>4, <1>5

LEMMA ChatRefusalStep ==
  ASSUME NEW d, NEW z, NEW nz, NEW pending, NEW C, Listed(C), NEW u, NEW open, NEW txt, Listed(txt),
         C # <<>> => Last(C).part # "refusal",
         NEW x, NEW f, Decode("chat", d, f) = Yields(d, <<RawRefusal(x)>> \o CountsTold(z))
  PROVE  Steps(d, z, WithRefusal(nz, pending, C, u, open, txt), f,
                     WithRefusal(nz, pending, C, u, open, Append(txt, x)))
<1>1. PICK a, b, ds : /\ a = WithRefusal(nz, pending, C, u, open, txt)
                      /\ b = WithRefusal(nz, pending, C, u, open, Append(txt, x))
                      /\ ds = <<RawRefusal(x)>>
  OBVIOUS
<1>2. DOMAIN b = AsmFields
  BY <1>1, HeldFields
<1>3. Listed(ds) /\ Decode("chat", d, f) = Yields(d, ds \o CountsTold(z))
  BY <1>1, OneListed
<1>4. ASSUME NEW us PROVE Quiet(AbsorbAll(With(a, us), ds)) = With(b, us)
  <2>1. PICK w : w = With(a, us)
    OBVIOUS
  <2>2. w = WithRefusal(nz, pending, C, us, open, txt)
    BY <1>1, <2>1, RefusalWith
  <2>3. With(b, us) = WithRefusal(nz, pending, C, us, open, Append(txt, x))
    BY <1>1, RefusalWith
  <2>4. AbsorbAll(w, <<RawRefusal(x)>>) = AbsorbRefusal(w, x)
    <3>1. AbsorbAll(w, <<RawRefusal(x)>>) = Absorb(w, RawRefusal(x))
      BY AbsorbOne
    <3>2. Absorb(w, RawRefusal(x)) = AbsorbRefusal(w, x)
      BY AbsorbsOne
    <3>. QED BY <3>1, <3>2
  <2>5. Quiet(AbsorbRefusal(w, x)) = WithRefusal(nz, pending, C, us, open, Append(txt, x))
    BY <2>2, RefusalGoesOn
  <2>. QED BY <1>1, <2>1, <2>3, <2>4, <2>5
<1>5. Steps(d, z, a, f, b)
  BY <1>2, <1>3, <1>4, StepsBy
<1>. QED BY <1>1, <1>5

LEMMA ChatRefusalRuns ==
  ASSUME NEW d, NEW z, NEW nz, NEW pending, NEW C, Listed(C), NEW u, NEW open,
         C # <<>> => Last(C).part # "refusal",
         NEW txt, Listed(txt), NEW n \in Nat, n = Len(txt), NEW F, Len(F) = n,
         \A k \in 1 .. n : Decode("chat", d, F[k]) = Yields(d, <<RawRefusal(txt[k])>> \o CountsTold(z))
  PROVE  Reaches(d, z, Held(nz, pending, C, u, open), F, WithRefusal(nz, pending, C, u, open, txt))
<1>1. PICK a : a = [k \in 0 .. n |-> WithRefusal(nz, pending, C, u, open, SubSeq(txt, 1, k))]
  OBVIOUS
<1>2. \A k \in 0 .. n : DOMAIN a[k] = AsmFields /\ a[k].status = "incomplete"
  BY <1>1, HeldFields, WithTextHas
<1>3. ASSUME NEW k \in 1 .. n PROVE Steps(d, z, a[k - 1], F[k], a[k])
  <2>1. k \in 0 .. n /\ k - 1 \in 0 .. n
    OBVIOUS
  <2>2. PICK s, x : s = SubSeq(txt, 1, k - 1) /\ x = txt[k]
    OBVIOUS
  <2>3. Listed(s) /\ SubSeq(txt, 1, k) = Append(s, x)
    BY <2>1, <2>2, FrontGrows
  <2>4. /\ a[k - 1] = WithRefusal(nz, pending, C, u, open, s)
        /\ a[k] = WithRefusal(nz, pending, C, u, open, Append(s, x))
    BY <1>1, <2>1, <2>2, <2>3
  <2>5. Decode("chat", d, F[k]) = Yields(d, <<RawRefusal(x)>> \o CountsTold(z))
    BY <2>2
  <2>. QED BY <2>3, <2>4, <2>5, ChatRefusalStep
<1>4. Reaches(d, z, a[0], F, a[n])
  BY <1>2, <1>3, ReachesStepwise
<1>5. /\ a[0] = Held(nz, pending, C, u, open)
      /\ a[n] = WithRefusal(nz, pending, C, u, open, txt)
  <2>1. 0 \in 0 .. n /\ n \in 0 .. n
    OBVIOUS
  <2>. QED BY <1>1, <2>1, FrontGrows, WithTextHas
<1>. QED BY <1>4, <1>5

-----------------------------------------------------------------------------
(* The calls of a chat, side by side *)

\* What a frame has of one call, if anything, makes b of a.
Takes(a, list, b) ==
  \/ list = <<>> /\ b = a
  \/ \E c, d : list = <<c>> /\ ChatCallDeltas(c) = <<d>> /\ b = Absorb(a, d)

LEMMA CallDeltasGrow ==
  ASSUME NEW s, Listed(s), \A k \in 1 .. Len(s) : Listed(ChatCallDeltas(s[k])),
         NEW c, Listed(ChatCallDeltas(c))
  PROVE  /\ Listed(CallDeltas(s))
         /\ CallDeltas(Append(s, c)) = CallDeltas(s) \o ChatCallDeltas(c)
<1>1. PICK n \in Nat : n = Len(s)
  BY ListHas
<1>2. PICK t : t = Append(s, c)
  OBVIOUS
<1>3. DOMAIN s = 1 .. n /\ DOMAIN t = 1 .. n + 1 /\ t[n + 1] = c /\ \A k \in 1 .. n : t[k] = s[k]
  <2>1. Len(t) = n + 1 /\ Listed(t)
    BY <1>1, <1>2, JoinedWithOne
  <2>2. DOMAIN t = 1 .. n + 1
    BY <2>1, ListHas
  <2>. QED BY <1>1, <1>2, <2>2, ListHas, JoinedWithOne
<1>4. PICK f, g : /\ f = [k \in DOMAIN s |-> ChatCallDeltas(s[k])]
                  /\ g = [k \in DOMAIN t |-> ChatCallDeltas(t[k])]
  OBVIOUS
<1>5. f = [k \in 1 .. n |-> f[k]] /\ g = [k \in 1 .. n + 1 |-> g[k]]
  BY <1>3, <1>4
<1>6. \A k \in 1 .. n : Listed(f[k]) /\ g[k] = f[k]
  BY <1>1, <1>3, <1>4
<1>7. g[n + 1] = ChatCallDeltas(c)
  <2>1. n + 1 \in 1 .. n + 1
    OBVIOUS
  <2>. QED BY <1>3, <1>4, <2>1
<1>8. Listed(FlattenSeq(f)) /\ FlattenSeq(g) = FlattenSeq(f) \o g[n + 1]
  BY <1>5, <1>6, <1>7, PiecesGrow
<1>. QED BY <1>2, <1>4, <1>7, <1>8 DEF CallDeltas

\* A list of calls with what a frame may have of each.
EachTells(s) == Listed(s) /\ \A k \in 1 .. Len(s) : \E d : ChatCallDeltas(s[k]) = <<d>>

LEMMA CallTaken ==
  ASSUME NEW s, EachTells(s), NEW a, NEW b, b = AbsorbAll(a, CallDeltas(s)),
         NEW list, Listed(list), NEW c, Takes(b, list, c)
  PROVE  EachTells(s \o list) /\ c = AbsorbAll(a, CallDeltas(s \o list))
<1>1. CASE list = <<>> /\ c = b
  <2>1. s \o list = s
    BY <1>1, JoinedWithNothing DEF EachTells
  <2>. QED BY <1>1, <2>1
<1>2. CASE \E e, d : list = <<e>> /\ ChatCallDeltas(e) = <<d>> /\ c = Absorb(b, d)
  <2>1. PICK e, d : list = <<e>> /\ ChatCallDeltas(e) = <<d>> /\ c = Absorb(b, d)
    BY <1>2
  <2>2. Listed(s)
    BY DEF EachTells
  <2>3. PICK t : t = Append(s, e)
    OBVIOUS
  <2>4. s \o list = t
    BY <2>1, <2>2, <2>3, JoinedWithOne
  <2>5. \A k \in 1 .. Len(s) : Listed(ChatCallDeltas(s[k]))
    BY OneListed DEF EachTells
  <2>6. Listed(ChatCallDeltas(e))
    BY <2>1, OneListed
  <2>7. PICK ds : ds = CallDeltas(s)
    OBVIOUS
  <2>8. Listed(ds) /\ CallDeltas(t) = ds \o ChatCallDeltas(e)
    BY <2>2, <2>3, <2>5, <2>6, <2>7, CallDeltasGrow
  <2>9. CallDeltas(t) = Append(ds, d)
    <3>1. Append(ds, d) = ds \o <<d>>
      BY <2>8, JoinedWithOne
    <3>. QED BY <2>1, <2>8, <3>1
  <2>10. AbsorbAll(a, CallDeltas(t)) = c
    <3>1. Listed(ds)
      BY <2>8
    <3>2. AbsorbAll(a, Append(ds, d)) = Absorb(AbsorbAll(a, ds), d)
      BY <3>1, AbsorbMore
    <3>3. Absorb(AbsorbAll(a, ds), d) = c
      BY <2>1, <2>7
    <3>. QED BY <2>9, <3>2, <3>3
  <2>11. EachTells(t)
    <3>1. Listed(t) /\ Len(t) = Len(s) + 1 /\ t[Len(s) + 1] = e /\ \A k \in 1 .. Len(s) : t[k] = s[k]
      BY <2>2, <2>3, JoinedWithOne
    <3>2. PICK n \in Nat : n = Len(s)
      BY <2>2, ListHas
    <3>3. \A k \in 1 .. n + 1 : k \in 1 .. n \/ k = n + 1
      OBVIOUS
    <3>4. \A k \in 1 .. n : \E x : ChatCallDeltas(s[k]) = <<x>>
      BY <3>2 DEF EachTells
    <3>5. \A k \in 1 .. n + 1 : \E x : ChatCallDeltas(t[k]) = <<x>>
      BY <2>1, <3>1, <3>2, <3>3, <3>4
    <3>. QED BY <3>1, <3>2, <3>5 DEF EachTells
  <2>. QED BY <2>4, <2>10, <2>11
<1>. QED BY <1>1, <1>2 DEF Takes

TakesEach(h, L, n) == \A k \in 1 .. n : Takes(h[k - 1], L[k], h[k])

LEMMA CallsTaken ==
  ASSUME NEW n \in Nat, NEW L, NEW g, Fronts(g, n, L), NEW h, TakesEach(h, L, n)
  PROVE  /\ Listed(CallDeltas(g[n])) /\ EachTells(g[n])
         /\ AbsorbAll(h[0], CallDeltas(g[n])) = h[n]
<1>. DEFINE Good == {k \in 0 .. n : EachTells(g[k]) /\ h[k] = AbsorbAll(h[0], CallDeltas(g[k]))}
<1>1. 0 \in Good
  <2>1. g[0] = <<>> /\ 0 \in 0 .. n
    BY DEF Fronts
  <2>2. PICK none : none = <<>>
    OBVIOUS
  <2>3. Listed(none) /\ Len(none) = 0 /\ FlattenSeq(none) = <<>>
    BY <2>2, Nothing
  <2>4. EachTells(none)
    BY <2>3 DEF EachTells
  <2>5. CallDeltas(none) = <<>>
    <3>1. [k \in DOMAIN none |-> ChatCallDeltas(none[k])] = <<>>
      BY <2>2
    <3>. QED BY <3>1, Nothing DEF CallDeltas
  <2>6. h[0] = AbsorbAll(h[0], CallDeltas(none))
    BY <2>5, AbsorbNone
  <2>. QED BY <2>1, <2>2, <2>4, <2>6
<1>2. ASSUME NEW k \in 1 .. n, k - 1 \in Good PROVE k \in Good
  <2>1. k \in 0 .. n
    OBVIOUS
  <2>2. PICK s, list, b, c : s = g[k - 1] /\ list = L[k] /\ b = h[k - 1] /\ c = h[k]
    OBVIOUS
  <2>3. EachTells(s) /\ b = AbsorbAll(h[0], CallDeltas(s))
    BY <1>2, <2>2
  <2>4. Listed(list) /\ g[k] = s \o list /\ Takes(b, list, c)
    BY <2>2 DEF Fronts, TakesEach
  <2>5. EachTells(s \o list) /\ c = AbsorbAll(h[0], CallDeltas(s \o list))
    BY <2>3, <2>4, CallTaken
  <2>. QED BY <2>1, <2>2, <2>4, <2>5
<1>3. \A k \in 0 .. n : k \in Good
  <2>1. \A k \in 1 .. n : k - 1 \in Good => k \in Good
    BY <1>2
  <2>. HIDE DEF Good
  <2>. QED BY <1>1, <2>1, CountingUp
<1>4. n \in Good
  <2>1. n \in 0 .. n
    OBVIOUS
  <2>. HIDE DEF Good
  <2>. QED BY <1>3, <2>1
<1>5. PICK s : s = g[n]
  OBVIOUS
<1>6. EachTells(s) /\ h[n] = AbsorbAll(h[0], CallDeltas(s))
  BY <1>4, <1>5
<1>7. Listed(CallDeltas(s))
  BY <1>6, CallDeltasListed DEF EachTells
<1>. QED BY <1>5, <1>6, <1>7

Awaiting(a, calls) == [a EXCEPT !.pending = calls]

LEMMA PendingIs ==
  ASSUME NEW nz, NEW p, NEW C, NEW us, NEW open, NEW a, a = Held(nz, p, C, us, open),
         NEW q, NEW b, b = Awaiting(a, q)
  PROVE  b = Held(nz, q, C, us, open)
<1>1. PICK c : c = Held(nz, q, C, us, open)
  OBVIOUS
<1>2. /\ DOMAIN a = AsmFields
      /\ a.normalize = nz /\ a.captured = C /\ a.usage = us
      /\ a.textOpen = open /\ a.status = "incomplete" /\ a.out = <<>>
  BY HeldHas
<1>3. /\ DOMAIN c = AsmFields /\ c = [x \in AsmFields |-> c[x]]
      /\ c.normalize = nz /\ c.pending = q /\ c.captured = C /\ c.usage = us
      /\ c.textOpen = open /\ c.status = "incomplete" /\ c.out = <<>>
  BY <1>1, HeldHas
<1>4. a.finished = c.finished
  BY <1>1 DEF Held
<1>5. /\ DOMAIN b = AsmFields /\ b = [x \in AsmFields |-> b[x]]
      /\ b.normalize = a.normalize /\ b.pending = q /\ b.captured = a.captured /\ b.usage = a.usage
      /\ b.textOpen = a.textOpen /\ b.status = a.status /\ b.out = a.out /\ b.finished = a.finished
  BY <1>2 DEF Awaiting, AsmFields
<1>6. b = c
  BY <1>2, <1>3, <1>4, <1>5, SameFields
<1>. QED BY <1>1, <1>6

LEMMA CallIsBegun ==
  ASSUME NEW nz, NEW p, NEW C, NEW us, NEW open, NEW a, a = Held(nz, p, C, us, open),
         NEW slot, NEW id, NEW q, q = Inserted(p, slot, Begun(id, <<>>))
  PROVE  Absorb(a, RawToolStart(slot, id)) = Held(nz, q, C, us, open)
<1>1. a.pending = p
  BY HeldHas
<1>2. PICK b : b = Awaiting(a, q)
  OBVIOUS
<1>3. AbsorbToolStart(a, slot, id) = b
  BY <1>1, <1>2 DEF AbsorbToolStart, Begun, Awaiting
<1>4. Absorb(a, RawToolStart(slot, id)) = AbsorbToolStart(a, slot, id)
  BY AbsorbsOne
<1>5. b = Held(nz, q, C, us, open)
  BY <1>2, PendingIs
<1>. QED BY <1>3, <1>4, <1>5

LEMMA CallIsLonger ==
  ASSUME NEW nz, NEW p, NEW C, NEW us, NEW open, NEW a, a = Held(nz, p, C, us, open),
         p = [s \in DOMAIN p |-> p[s]],
         NEW slot, slot \in DOMAIN p, NEW id, NEW args, p[slot] = Begun(id, args), NEW more,
         NEW q, q = [s \in DOMAIN p |-> IF s = slot THEN Begun(id, args \o more) ELSE p[s]]
  PROVE  Absorb(a, RawToolArgs(slot, more)) = Held(nz, q, C, us, open)
<1>1. DOMAIN a = AsmFields /\ a.pending = p
  BY HeldHas
<1>2. PICK r : r = [p EXCEPT ![slot].arguments = p[slot].arguments \o more]
  OBVIOUS
<1>3. r = q
  <2>1. PICK new : new = args \o more
    OBVIOUS
  <2>2. p[slot].arguments \o more = new
    BY <2>1 DEF Begun
  <2>3. r = [p EXCEPT ![slot].arguments = new]
    BY <1>2, <2>2
  <2>4. [p[slot] EXCEPT !.arguments = new] = Begun(id, new)
    BY DEF Begun
  <2>5. \A s \in DOMAIN p : r[s] = IF s = slot THEN Begun(id, new) ELSE p[s]
    BY <2>3, <2>4
  <2>6. r = [s \in DOMAIN p |-> r[s]]
    BY <1>2
  <2>. QED BY <2>1, <2>5, <2>6
<1>4. PICK b : b = Awaiting(a, r)
  OBVIOUS
<1>5. AbsorbToolArgs(a, slot, more) = b
  BY <1>1, <1>2, <1>4 DEF AbsorbToolArgs, AsmFields, Awaiting
<1>6. Absorb(a, RawToolArgs(slot, more)) = AbsorbToolArgs(a, slot, more)
  BY AbsorbsOne
<1>7. b = Held(nz, q, C, us, open)
  BY <1>3, <1>4, PendingIs
<1>. QED BY <1>5, <1>6, <1>7

\* The first n calls, each with its id and what of its arguments has arrived.
Slots(n, ids, args) == [s \in 0 .. n - 1 |-> Begun(ids[s + 1], args[s + 1])]

LEMMA SlotsBegin ==
  ASSUME NEW n \in Nat, NEW k \in 1 .. n, NEW ids, NEW args, args[k] = <<>>,
         NEW id, id = ids[k]
  PROVE  Slots(k, ids, args) = Inserted(Slots(k - 1, ids, args), k - 1, Begun(id, <<>>))
<1>1. PICK m \in Nat : m = k - 1
  <2>1. k - 1 \in Nat
    OBVIOUS
  <2>. QED BY <2>1
<1>2. k = m + 1
  BY <1>1
<1>3. PICK f, g : f = Slots(m, ids, args) /\ g = Slots(k, ids, args)
  OBVIOUS
<1>4. DOMAIN f = 0 .. m - 1 /\ \A s \in 0 .. m - 1 : f[s] = Begun(ids[s + 1], args[s + 1])
  BY <1>3 DEF Slots
<1>5. g = [s \in 0 .. m |-> Begun(ids[s + 1], args[s + 1])]
  BY <1>1, <1>3 DEF Slots
<1>6. (0 .. m - 1) \cup {m} = 0 .. m
  OBVIOUS
<1>7. \A s \in 0 .. m : s \in 0 .. m - 1 \/ s = m
  OBVIOUS
<1>8. Inserted(f, m, Begun(id, <<>>)) = [s \in 0 .. m |-> IF s = m THEN Begun(id, <<>>) ELSE f[s]]
  BY <1>4, <1>6 DEF Inserted
<1>9. \A s \in 0 .. m : Begun(ids[s + 1], args[s + 1]) = IF s = m THEN Begun(id, <<>>) ELSE f[s]
  BY <1>2, <1>4, <1>7
<1>. QED BY <1>1, <1>3, <1>5, <1>8, <1>9

LEMMA SlotsGoOn ==
  ASSUME NEW nz, NEW C, NEW us, NEW open, NEW n \in Nat, NEW k \in 1 .. n,
         NEW ids, NEW args, NEW more, NEW later,
         \A j \in 1 .. n : later[j] = IF j = k THEN args[k] \o more ELSE args[j],
         NEW a, a = Held(nz, Slots(n, ids, args), C, us, open)
  PROVE  Absorb(a, RawToolArgs(k - 1, more)) = Held(nz, Slots(n, ids, later), C, us, open)
<1>1. PICK p, q : p = Slots(n, ids, args) /\ q = Slots(n, ids, later)
  OBVIOUS
<1>2. /\ DOMAIN p = 0 .. n - 1 /\ p = [s \in 0 .. n - 1 |-> p[s]]
      /\ \A s \in 0 .. n - 1 : p[s] = Begun(ids[s + 1], args[s + 1])
  BY <1>1 DEF Slots
<1>3. PICK slot : slot = k - 1
  OBVIOUS
<1>4. slot \in 0 .. n - 1 /\ slot + 1 = k
  BY <1>3
<1>5. PICK id, arg : id = ids[k] /\ arg = args[k]
  OBVIOUS
<1>6. p[slot] = Begun(id, arg)
  BY <1>2, <1>4, <1>5
<1>7. \A s \in 0 .. n - 1 : later[s + 1] = IF s = slot THEN arg \o more ELSE args[s + 1]
  <2>. TAKE s \in 0 .. n - 1
  <2>1. s + 1 \in 1 .. n /\ (s + 1 = k <=> s = slot)
    BY <1>4
  <2>. QED BY <1>5, <2>1
<1>8. \A s \in 0 .. n - 1 :
        Begun(ids[s + 1], later[s + 1]) = IF s = slot THEN Begun(id, arg \o more) ELSE p[s]
  BY <1>2, <1>4, <1>5, <1>7
<1>9. q = [s \in DOMAIN p |-> IF s = slot THEN Begun(id, arg \o more) ELSE p[s]]
  BY <1>1, <1>2, <1>8 DEF Slots
<1>10. slot \in DOMAIN p /\ p = [s \in DOMAIN p |-> p[s]]
  BY <1>2, <1>4
<1>11. Absorb(a, RawToolArgs(slot, more)) = Held(nz, q, C, us, open)
  BY <1>1, <1>6, <1>9, <1>10, CallIsLonger
<1>. QED BY <1>1, <1>3, <1>11

LEMMA SlotsAreNone ==
  ASSUME NEW ids, NEW args
  PROVE  Slots(0, ids, args) = <<>>
<1>1. 0 .. 0 - 1 = {}
  OBVIOUS
<1>. QED BY <1>1 DEF Slots

\* The first m fragments, or all of them.
Taken(s, m) == SubSeq(s, 1, IF m < Len(s) THEN m ELSE Len(s))

LEMMA TakenGrows ==
  ASSUME NEW s, Listed(s), NEW m \in Nat
  PROVE  /\ Taken(s, 0) = <<>>
         /\ Len(s) <= m => Taken(s, m) = s
         /\ m > Len(s) => Taken(s, m) = Taken(s, m - 1)
         /\ m > 0 /\ m <= Len(s) => Taken(s, m) = Taken(s, m - 1) \o <<s[m]>>
<1>1. PICK n \in Nat : n = Len(s)
  BY ListHas
<1>2. /\ SubSeq(s, 1, 0) = <<>> /\ SubSeq(s, 1, n) = s
      /\ \A k \in 0 .. n : Listed(SubSeq(s, 1, k))
      /\ \A k \in 1 .. n : SubSeq(s, 1, k) = Append(SubSeq(s, 1, k - 1), s[k])
  BY <1>1, FrontGrows
<1>3. Taken(s, 0) = <<>>
  <2>1. 0 < n \/ n = 0
    OBVIOUS
  <2>. QED BY <1>1, <1>2, <2>1 DEF Taken
<1>4. ASSUME n <= m PROVE Taken(s, m) = s
  <2>1. (IF m < n THEN m ELSE n) = n
    BY <1>4
  <2>. QED BY <1>1, <1>2, <2>1 DEF Taken
<1>5. ASSUME m > n PROVE Taken(s, m) = Taken(s, m - 1)
  <2>1. (IF m < n THEN m ELSE n) = n /\ (IF m - 1 < n THEN m - 1 ELSE n) = n
    BY <1>5
  <2>. QED BY <1>1, <2>1 DEF Taken
<1>6. ASSUME m > 0, m <= n PROVE Taken(s, m) = Taken(s, m - 1) \o <<s[m]>>
  <2>1. (IF m < n THEN m ELSE n) = m /\ (IF m - 1 < n THEN m - 1 ELSE n) = m - 1
    BY <1>6
  <2>2. m \in 1 .. n /\ m - 1 \in 0 .. n
    BY <1>6
  <2>3. PICK t, x : t = SubSeq(s, 1, m - 1) /\ x = s[m]
    OBVIOUS
  <2>4. Taken(s, m) = SubSeq(s, 1, m) /\ Taken(s, m - 1) = t
    BY <1>1, <2>1, <2>3 DEF Taken
  <2>5. SubSeq(s, 1, m) = Append(t, x) /\ Listed(t)
    BY <1>2, <2>2, <2>3
  <2>6. Append(t, x) = t \o <<x>>
    BY <2>5, JoinedWithOne
  <2>. QED BY <2>3, <2>4, <2>5, <2>6
<1>. QED BY <1>1, <1>3, <1>4, <1>5, <1>6

\* One frame in which all calls begin.
LEMMA ChatBegins ==
  ASSUME NEW d, NEW z, NEW nz, NEW C, NEW u, NEW open, NEW n \in Nat, NEW ids, NEW args,
         \A k \in 1 .. n : args[k] = <<>>,
         NEW X, Listed(X), Len(X) = n,
         \A k \in 1 .. n : ChatCallDeltas(X[k]) = <<RawToolStart(k - 1, ids[k])>>,
         NEW f, Decode("chat", d, f) = Yields(d, CallDeltas(X) \o CountsTold(z))
  PROVE  Steps(d, z, Held(nz, <<>>, C, u, open), f, Held(nz, Slots(n, ids, args), C, u, open))
<1>1. PICK a, b, ds : /\ a = Held(nz, <<>>, C, u, open)
                      /\ b = Held(nz, Slots(n, ids, args), C, u, open)
                      /\ ds = CallDeltas(X)
  OBVIOUS
<1>2. DOMAIN b = AsmFields
  BY <1>1, HeldFields
<1>3. PICK x : x = [k \in 1 .. n |-> <<X[k]>>]
  OBVIOUS
<1>4. PICK g : Fronts(g, n, x) /\ g[n] = X
  <2>1. \A k \in 1 .. n : x[k] = <<X[k]>>
    BY <1>3
  <2>. QED BY <2>1, FrontsOfList
<1>5. ASSUME NEW us PROVE Listed(ds) /\ Quiet(AbsorbAll(With(a, us), ds)) = With(b, us)
  <2>1. PICK h : h = [k \in 0 .. n |-> Held(nz, Slots(k, ids, args), C, us, open)]
    OBVIOUS
  <2>2. ASSUME NEW k \in 1 .. n PROVE Takes(h[k - 1], x[k], h[k])
    <3>1. k \in 0 .. n /\ k - 1 \in 0 .. n
      OBVIOUS
    <3>2. PICK id, c, delta, p, q : /\ id = ids[k] /\ c = X[k] /\ delta = RawToolStart(k - 1, id)
                                    /\ p = Slots(k - 1, ids, args) /\ q = Slots(k, ids, args)
      OBVIOUS
    <3>3. q = Inserted(p, k - 1, Begun(id, <<>>))
      BY <3>2, SlotsBegin
    <3>4. h[k - 1] = Held(nz, p, C, us, open) /\ h[k] = Held(nz, q, C, us, open)
      BY <2>1, <3>1, <3>2
    <3>5. Absorb(h[k - 1], delta) = h[k]
      BY <3>2, <3>3, <3>4, CallIsBegun
    <3>6. ChatCallDeltas(c) = <<delta>> /\ x[k] = <<c>>
      BY <1>3, <3>2
    <3>. QED BY <3>5, <3>6 DEF Takes
  <2>3. Listed(CallDeltas(g[n])) /\ AbsorbAll(h[0], CallDeltas(g[n])) = h[n]
    <3>1. Fronts(g, n, x)
      BY <1>4
    <3>2. TakesEach(h, x, n)
      BY <2>2 DEF TakesEach
    <3>3. /\ Listed(CallDeltas(g[n])) /\ EachTells(g[n])
          /\ AbsorbAll(h[0], CallDeltas(g[n])) = h[n]
      BY <3>1, <3>2, CallsTaken
    <3>. QED BY <3>3
  <2>4. h[0] = Held(nz, <<>>, C, us, open) /\ h[n] = Held(nz, Slots(n, ids, args), C, us, open)
    <3>1. 0 \in 0 .. n /\ n \in 0 .. n
      OBVIOUS
    <3>. QED BY <2>1, <3>1, SlotsAreNone
  <2>5. With(a, us) = h[0] /\ With(b, us) = h[n]
    BY <1>1, <2>4, HeldWith
  <2>6. Quiet(h[n]) = h[n]
    <3>1. PICK slots, e : slots = Slots(n, ids, args) /\ e = Held(nz, slots, C, us, open)
      OBVIOUS
    <3>2. e = Ending(nz, slots, C, "incomplete", us, open)
      BY <3>1, HeldIsEnding
    <3>3. Quiet(e) = e
      BY <3>2, QuietAlready
    <3>. QED BY <2>4, <3>1, <3>3
  <2>. QED BY <1>1, <1>4, <2>3, <2>5, <2>6
<1>6. Listed(ds) /\ Decode("chat", d, f) = Yields(d, ds \o CountsTold(z))
  BY <1>1, <1>5
<1>7. \A us : Quiet(AbsorbAll(With(a, us), ds)) = With(b, us)
  BY <1>5
<1>8. Steps(d, z, a, f, b)
  BY <1>2, <1>6, <1>7, StepsBy
<1>. QED BY <1>1, <1>8

\* What the frame of all m-th fragments has of the k-th call.
Gives(list, k, input, m) ==
  IF Len(input) < m THEN list = <<>>
  ELSE \E c : list = <<c>> /\ ChatCallDeltas(c) = <<RawToolArgs(k - 1, <<input[m]>>)>>

\* One frame with the m-th fragment of each call that has one.
LEMMA ChatGoesOn ==
  ASSUME NEW d, NEW z, NEW nz, NEW C, NEW u, NEW open, NEW n \in Nat, NEW ids, NEW inputs,
         \A k \in 1 .. n : Listed(inputs[k]), NEW m \in Nat, m > 0,
         NEW L, ListOfLists(L), Len(L) = n,
         \A k \in 1 .. n : Gives(L[k], k, inputs[k], m),
         NEW before, \A k \in 1 .. n : before[k] = Taken(inputs[k], m - 1),
         NEW after, \A k \in 1 .. n : after[k] = Taken(inputs[k], m),
         NEW f, Decode("chat", d, f) = Yields(d, CallDeltas(FlattenSeq(L)) \o CountsTold(z))
  PROVE  Steps(d, z, Held(nz, Slots(n, ids, before), C, u, open), f,
                     Held(nz, Slots(n, ids, after), C, u, open))
<1>1. PICK a, b, X : /\ a = Held(nz, Slots(n, ids, before), C, u, open)
                     /\ b = Held(nz, Slots(n, ids, after), C, u, open)
                     /\ X = FlattenSeq(L)
  OBVIOUS
<1>2. DOMAIN b = AsmFields
  BY <1>1, HeldFields
<1>3. PICK ds : ds = CallDeltas(X)
  OBVIOUS
<1>4. PICK g : Fronts(g, n, L) /\ X = g[n]
  BY <1>1, FlattenFronts
<1>5. PICK args : args = [k \in 0 .. n |-> [j \in 1 .. n |-> IF j <= k THEN after[j] ELSE before[j]]]
  OBVIOUS
<1>6. \A k \in 0 .. n : \A j \in 1 .. n : args[k][j] = IF j <= k THEN after[j] ELSE before[j]
  BY <1>5
<1>7. ASSUME NEW us PROVE Listed(ds) /\ Quiet(AbsorbAll(With(a, us), ds)) = With(b, us)
  <2>1. PICK h : h = [k \in 0 .. n |-> Held(nz, Slots(n, ids, args[k]), C, us, open)]
    OBVIOUS
  <2>2. ASSUME NEW k \in 1 .. n PROVE Takes(h[k - 1], L[k], h[k])
    <3>1. k \in 0 .. n /\ k - 1 \in 0 .. n
      OBVIOUS
    <3>2. PICK input, v, w : input = inputs[k] /\ v = args[k - 1] /\ w = args[k]
      OBVIOUS
    <3>3. h[k - 1] = Held(nz, Slots(n, ids, v), C, us, open) /\ h[k] = Held(nz, Slots(n, ids, w), C, us, open)
      BY <2>1, <3>1, <3>2
    <3>4. Listed(input) /\ before[k] = Taken(input, m - 1) /\ after[k] = Taken(input, m)
      BY <3>2
    <3>5. v[k] = before[k] /\ w[k] = after[k] /\ \A j \in 1 .. n : j # k => w[j] = v[j]
      <4>1. ~(k <= k - 1) /\ k <= k /\ \A j \in 1 .. n : j # k => (j <= k <=> j <= k - 1)
        OBVIOUS
      <4>. QED BY <1>6, <3>1, <3>2, <4>1
    <3>6. CASE Len(input) < m
      <4>1. L[k] = <<>>
        BY <3>2, <3>6 DEF Gives
      <4>2. PICK len \in Nat : len = Len(input)
        BY <3>4, ListHas
      <4>3. Taken(input, m) = Taken(input, m - 1)
        BY <3>4, <3>6, <4>2, TakenGrows
      <4>4. \A j \in 1 .. n : w[j] = v[j]
        BY <3>4, <3>5, <4>3
      <4>5. Slots(n, ids, w) = Slots(n, ids, v)
        <5>1. \A s \in 0 .. n - 1 : s + 1 \in 1 .. n
          OBVIOUS
        <5>. QED BY <4>4, <5>1 DEF Slots
      <4>. QED BY <3>3, <4>1, <4>5 DEF Takes
    <3>7. CASE ~(Len(input) < m)
      <4>1. PICK x, more : x = input[m] /\ more = <<x>>
        OBVIOUS
      <4>2. PICK delta : delta = RawToolArgs(k - 1, more)
        OBVIOUS
      <4>3. PICK c : L[k] = <<c>> /\ ChatCallDeltas(c) = <<delta>>
        BY <3>2, <3>7, <4>1, <4>2 DEF Gives
      <4>4. PICK len \in Nat : len = Len(input)
        BY <3>4, ListHas
      <4>5. Taken(input, m) = Taken(input, m - 1) \o more
        <5>1. m <= Len(input)
          BY <3>7, <4>4
        <5>. QED BY <3>4, <4>1, <5>1, TakenGrows
      <4>6. \A j \in 1 .. n : w[j] = IF j = k THEN v[k] \o more ELSE v[j]
        BY <3>4, <3>5, <4>5
      <4>7. Absorb(h[k - 1], RawToolArgs(k - 1, more)) = Held(nz, Slots(n, ids, w), C, us, open)
        BY <3>3, <4>6, SlotsGoOn
      <4>. QED BY <3>3, <4>2, <4>3, <4>7 DEF Takes
    <3>. QED BY <3>6, <3>7
  <2>3. Listed(CallDeltas(g[n])) /\ AbsorbAll(h[0], CallDeltas(g[n])) = h[n]
    <3>1. Fronts(g, n, L)
      BY <1>4
    <3>2. TakesEach(h, L, n)
      BY <2>2 DEF TakesEach
    <3>3. /\ Listed(CallDeltas(g[n])) /\ EachTells(g[n])
          /\ AbsorbAll(h[0], CallDeltas(g[n])) = h[n]
      BY <3>1, <3>2, CallsTaken
    <3>. QED BY <3>3
  <2>4. /\ h[0] = Held(nz, Slots(n, ids, before), C, us, open)
        /\ h[n] = Held(nz, Slots(n, ids, after), C, us, open)
    <3>1. 0 \in 0 .. n /\ n \in 0 .. n /\ \A s \in 0 .. n - 1 : s + 1 \in 1 .. n
      OBVIOUS
    <3>2. \A j \in 1 .. n : args[0][j] = before[j] /\ args[n][j] = after[j]
      <4>1. \A j \in 1 .. n : ~(j <= 0) /\ j <= n
        OBVIOUS
      <4>. QED BY <1>6, <3>1, <4>1
    <3>3. PICK v, w : v = args[0] /\ w = args[n]
      OBVIOUS
    <3>4. Slots(n, ids, v) = Slots(n, ids, before) /\ Slots(n, ids, w) = Slots(n, ids, after)
      BY <3>1, <3>2, <3>3 DEF Slots
    <3>. QED BY <2>1, <3>1, <3>3, <3>4
  <2>5. With(a, us) = h[0] /\ With(b, us) = h[n]
    BY <1>1, <2>4, HeldWith
  <2>6. Quiet(h[n]) = h[n]
    <3>1. PICK slots, e : slots = Slots(n, ids, after) /\ e = Held(nz, slots, C, us, open)
      OBVIOUS
    <3>2. e = Ending(nz, slots, C, "incomplete", us, open)
      BY <3>1, HeldIsEnding
    <3>3. Quiet(e) = e
      BY <3>2, QuietAlready
    <3>. QED BY <2>4, <3>1, <3>3
  <2>. QED BY <1>3, <1>4, <2>3, <2>5, <2>6
<1>8. Listed(ds) /\ Decode("chat", d, f) = Yields(d, ds \o CountsTold(z))
  BY <1>1, <1>3, <1>7
<1>9. \A us : Quiet(AbsorbAll(With(a, us), ds)) = With(b, us)
  BY <1>7
<1>10. Steps(d, z, a, f, b)
  BY <1>2, <1>8, <1>9, StepsBy
<1>. QED BY <1>1, <1>10

\* What the end of the body finds pending, but for the first t calls.
SlotsFrom(t, n, ids, args) == [s \in t .. n - 1 |-> Begun(ids[s + 1], args[s + 1])]

LeftOver(b, nz, pending, C, st, us) ==
  /\ DOMAIN b = AsmFields /\ b.normalize = nz /\ b.status = st /\ b.usage = us
  /\ b.pending = pending /\ b.captured = C

LEMMA LowestIs ==
  ASSUME NEW i \in Nat, NEW n \in Nat, i <= n - 1, NEW b, DOMAIN b.pending = i .. n - 1
  PROVE  LowestSlot(b) = i
<1>1. i \in i .. n - 1 /\ \A s \in i .. n - 1 : i <= s
  OBVIOUS
<1>2. \A j \in i .. n - 1 : (\A s \in i .. n - 1 : j <= s) => j = i
  BY <1>1
<1>. QED BY <1>1, <1>2 DEF LowestSlot

LEMMA FinishedOne ==
  ASSUME NEW nz, NEW p, NEW C, NEW st, NEW us, NEW b, LeftOver(b, nz, p, C, st, us),
         NEW slot, slot \in DOMAIN p, NEW id, NEW args, p[slot] = Begun(id, args),
         NEW q, q = Restrict(p, DOMAIN p \ {slot}),
         NEW part, part = CallPart(id, Ended(nz, args))
  PROVE  LeftOver(FinishCall(b, slot), nz, q, Append(C, part), st, us)
<1>1. /\ DOMAIN b = AsmFields /\ b.normalize = nz /\ b.status = st /\ b.usage = us
      /\ b.pending = p /\ b.captured = C
  BY DEF LeftOver
<1>2. PICK call, e : call = p[slot] /\ e = FinishedArguments(b, call.arguments)
  OBVIOUS
<1>3. call.id = id /\ call.arguments = args
  BY <1>2 DEF Begun
<1>4. e = Ended(nz, args)
  BY <1>1, <1>2, <1>3 DEF FinishedArguments, Ended
<1>5. PICK D, o, c : D = Append(b.captured, part) /\ o = Append(b.out, ToolCall(id, e))
                  /\ c = [b EXCEPT !.pending = q, !.captured = D, !.out = o]
  OBVIOUS
<1>6. FinishCall(b, slot) = c
  BY <1>1, <1>2, <1>3, <1>4, <1>5 DEF FinishCall, AsmFields
<1>7. /\ DOMAIN c = AsmFields /\ c.normalize = b.normalize /\ c.status = b.status
      /\ c.usage = b.usage /\ c.pending = q /\ c.captured = D
  BY <1>1, <1>5 DEF AsmFields
<1>. QED BY <1>1, <1>5, <1>6, <1>7 DEF LeftOver

\* What the end of the body makes of what has arrived.
ClosesTo(a, content, status, usage) ==
  /\ Closed(a).captured = content
  /\ Assembled(Closed(a)) = [content |-> content, status |-> status, usage |-> usage]

\* parts are the calls, each with all of its arguments.
CallsMade(parts, nz, n, ids, args) ==
  /\ Listed(parts) /\ Len(parts) = n
  /\ \A k \in 1 .. n : parts[k] = CallPart(ids[k], Ended(nz, args[k]))

LEMMA SlotsFlushed ==
  ASSUME NEW nz, NEW n \in Nat, NEW ids, NEW args, NEW C, Listed(C), NEW st, NEW us, NEW open,
         NEW a, a = Ending(nz, Slots(n, ids, args), C, st, us, open),
         NEW parts, CallsMade(parts, nz, n, ids, args)
  PROVE  ClosesTo(a, C \o parts, st, us)
<1>1. /\ DOMAIN a = AsmFields /\ a.normalize = nz /\ a.pending = Slots(n, ids, args)
      /\ a.captured = C /\ a.status = st /\ a.usage = us
  BY EndingHas
<1>2. Cardinality(DOMAIN a.pending) = n
  <2>1. DOMAIN a.pending = 0 .. n - 1
    BY <1>1 DEF Slots
  <2>2. Cardinality(0 .. n - 1) = IF 0 > n - 1 THEN 0 ELSE (n - 1) - 0 + 1
    <3>1. n - 1 \in Int /\ 0 \in Int
      OBVIOUS
    <3>. QED BY <3>1, FS_Interval
  <2>. QED BY <2>1, <2>2
<1>3. PICK f : f = CHOOSE g : FlushLoop(g, a, n)
  OBVIOUS
<1>4. FlushLoop(f, a, n)
  BY <1>3, FlushLoopRuns
<1>5. Flushed(a) = f[n]
  BY <1>2, <1>3 DEF Flushed, FlushLoop
<1>6. \A t \in 0 .. n : f[t] = IF t = 0 THEN a ELSE FinishCall(f[t - 1], LowestSlot(f[t - 1]))
  BY <1>4 DEF FlushLoop
<1>7. /\ Listed(parts) /\ Len(parts) = n 
      /\ \A k \in 1 .. n : parts[k] = CallPart(ids[k], Ended(nz, args[k]))
  BY DEF CallsMade
<1>8. /\ SubSeq(parts, 1, 0) = <<>> /\ SubSeq(parts, 1, n) = parts
      /\ \A k \in 0 .. n : Listed(SubSeq(parts, 1, k))
      /\ \A k \in 1 .. n : SubSeq(parts, 1, k) = Append(SubSeq(parts, 1, k - 1), parts[k])
  BY <1>7, FrontGrows
<1>. DEFINE Good == {t \in 0 .. n : LeftOver(f[t], nz, SlotsFrom(t, n, ids, args),
                                             C \o SubSeq(parts, 1, t), st, us)}
<1>9. 0 \in Good
  <2>1. 0 \in 0 .. n /\ f[0] = a
    BY <1>6
  <2>2. SlotsFrom(0, n, ids, args) = Slots(n, ids, args)
    BY DEF SlotsFrom, Slots
  <2>3. C \o SubSeq(parts, 1, 0) = C
    BY <1>8, JoinedWithNothing
  <2>4. LeftOver(a, nz, Slots(n, ids, args), C, st, us)
    BY <1>1 DEF LeftOver
  <2>. QED BY <2>1, <2>2, <2>3, <2>4
<1>10. ASSUME NEW t \in 1 .. n, t - 1 \in Good PROVE t \in Good
  <2>1. t \in 0 .. n /\ t - 1 \in 0 .. n
    OBVIOUS
  <2>2. PICK i \in Nat : i = t - 1
    <3>1. t - 1 \in Nat
      OBVIOUS
    <3>. QED BY <3>1
  <2>3. t = i + 1 /\ i <= n - 1 /\ i \in i .. n - 1 /\ i # n
    BY <2>2
  <2>4. PICK b, p, B, part : /\ b = f[i] /\ p = SlotsFrom(i, n, ids, args)
                             /\ B = C \o SubSeq(parts, 1, i) /\ part = parts[t]
    OBVIOUS
  <2>5. LeftOver(b, nz, p, B, st, us)
    BY <1>10, <2>2, <2>4
  <2>6. DOMAIN p = i .. n - 1 /\ \A s \in i .. n - 1 : p[s] = Begun(ids[s + 1], args[s + 1])
    BY <2>4 DEF SlotsFrom
  <2>7. LowestSlot(b) = i
    <3>1. DOMAIN b.pending = i .. n - 1
      BY <2>5, <2>6 DEF LeftOver
    <3>. QED BY <2>3, <3>1, LowestIs
  <2>8. f[t] = FinishCall(b, i)
    <3>1. t # 0
      OBVIOUS
    <3>. QED BY <1>6, <2>1, <2>2, <2>4, <2>7, <3>1
  <2>9. PICK q : q = Restrict(p, DOMAIN p \ {i})
    OBVIOUS
  <2>10. q = SlotsFrom(t, n, ids, args)
    <3>1. (i .. n - 1) \ {i} = t .. n - 1
      BY <2>3
    <3>2. \A s \in t .. n - 1 : s \in i .. n - 1
      BY <2>3
    <3>. QED BY <2>6, <2>9, <3>1, <3>2 DEF Restrict, SlotsFrom
  <2>11. PICK id, arg : id = ids[t] /\ arg = args[t]
    OBVIOUS
  <2>12. p[i] = Begun(id, arg) /\ part = CallPart(id, Ended(nz, arg))
    <3>1. t \in 1 .. n /\ i + 1 = t
      BY <2>3
    <3>2. parts[t] = CallPart(ids[t], Ended(nz, args[t]))
      BY <1>7, <3>1
    <3>3. p[i] = Begun(ids[t], args[t])
      BY <2>3, <2>4, <2>6, <3>1
    <3>. QED BY <2>4, <2>6, <2>11, <3>2, <3>3
  <2>13. LeftOver(FinishCall(b, i), nz, q, Append(B, part), st, us)
    BY <2>3, <2>5, <2>6, <2>9, <2>12, FinishedOne
  <2>14. Append(B, part) = C \o SubSeq(parts, 1, t)
    <3>1. PICK s, one : s = SubSeq(parts, 1, i) /\ one = <<part>>
      OBVIOUS
    <3>2. Listed(s) /\ SubSeq(parts, 1, t) = Append(s, part)
      BY <1>8, <2>1, <2>2, <2>4, <3>1
    <3>3. Append(s, part) = s \o one
      BY <3>1, <3>2, JoinedWithOne
    <3>4. Listed(B)
      BY <2>4, <3>1, <3>2, Joined
    <3>5. Append(B, part) = B \o one
      BY <3>1, <3>4, JoinedWithOne
    <3>6. Listed(one)
      BY <3>1, OneListed
    <3>7. C \o (s \o one) = (C \o s) \o one
      BY <3>2, <3>6, JoinedInARow
    <3>. QED BY <2>4, <3>1, <3>2, <3>3, <3>5, <3>7
  <2>. QED BY <2>1, <2>8, <2>10, <2>13, <2>14
<1>11. n \in Good
  <2>1. \A t \in 1 .. n : t - 1 \in Good => t \in Good
    BY <1>10
  <2>2. n \in 0 .. n
    OBVIOUS
  <2>. HIDE DEF Good
  <2>. QED BY <1>9, <2>1, <2>2, CountingUp
<1>12. PICK b, D : b = f[n] /\ D = C \o parts
  OBVIOUS
<1>13. DOMAIN b = AsmFields /\ b.captured = D /\ b.status = st /\ b.usage = us
  BY <1>8, <1>11, <1>12 DEF LeftOver
<1>14. PICK c, e, yes : e = Append(b.out, Done(b.status, b.usage)) /\ yes = TRUE
                        /\ c = [b EXCEPT !.finished = yes, !.out = e]
  OBVIOUS
<1>15. Closed(a) = [b EXCEPT !.finished = yes, !.out = Append(b.out, Done(a.status, a.usage))]
  BY <1>5, <1>12, <1>14 DEF Closed
<1>16. Closed(a) = c
  BY <1>1, <1>13, <1>14, <1>15
<1>17. c.captured = D /\ c.status = st /\ c.usage = us
  BY <1>13, <1>14 DEF AsmFields
<1>. QED BY <1>12, <1>16, <1>17 DEF ClosesTo, Assembled

LEMMA LongestIs ==
  ASSUME NEW calls, Listed(calls), NEW n \in Nat, n = Len(calls),
         \A k \in 1 .. n : Listed(calls[k].input)
  PROVE  /\ ChatLongest(calls) \in Nat
         /\ \A k \in 1 .. n : Len(calls[k].input) <= ChatLongest(calls)
         /\ n = 0 => ChatLongest(calls) = 0
<1>1. DOMAIN calls = 1 .. n
  BY ListHas
<1>2. PICK len : len = [k \in 1 .. n |-> Len(calls[k].input)]
  OBVIOUS
<1>3. \A k \in 1 .. n : len[k] \in Nat
  BY <1>2, ListHas
<1>4. PICK S : S = {0} \cup {len[k] : k \in 1 .. n}
  OBVIOUS
<1>. DEFINE Good == {k \in 0 .. n : \E m \in Nat : \A j \in 1 .. k : len[j] <= m}
<1>5. 0 \in Good
  <2>1. 0 \in Nat /\ 0 \in 0 .. n /\ \A j \in 1 .. 0 : len[j] <= 0
    OBVIOUS
  <2>. QED BY <2>1
<1>6. ASSUME NEW k \in 1 .. n, k - 1 \in Good PROVE k \in Good
  <2>1. PICK m \in Nat : \A j \in 1 .. k - 1 : len[j] <= m
    BY <1>6
  <2>2. PICK l \in Nat : l = len[k]
    BY <1>3
  <2>3. PICK both \in Nat : both = m + l
    OBVIOUS
  <2>4. ASSUME NEW j \in 1 .. k PROVE len[j] <= both
    <3>1. j \in 1 .. k - 1 \/ j = k
      OBVIOUS
    <3>2. j \in 1 .. n
      OBVIOUS
    <3>3. len[j] \in Nat
      BY <1>3, <3>2
    <3>. QED BY <2>1, <2>2, <2>3, <3>1, <3>3
  <2>5. k \in 0 .. n
    OBVIOUS
  <2>. QED BY <2>4, <2>5
<1>7. n \in Good
  <2>1. \A k \in 1 .. n : k - 1 \in Good => k \in Good
    BY <1>6
  <2>2. n \in 0 .. n
    OBVIOUS
  <2>. HIDE DEF Good
  <2>. QED BY <1>5, <2>1, <2>2, CountingUp
<1>8. PICK m \in Nat : \A j \in 1 .. n : len[j] <= m
  BY <1>7
<1>9. S \subseteq 0 .. m /\ S # {} /\ 0 \in S
  BY <1>3, <1>4, <1>8
<1>10. \E x \in S : \A y \in S : y <= x
  BY <1>9, BoundedSetHasAGreatest
<1>11. S = {0} \cup {Len(calls[k].input) : k \in DOMAIN calls}
  BY <1>1, <1>2, <1>4
<1>12. PICK x : x = ChatLongest(calls)
  OBVIOUS
<1>13. x \in S /\ \A y \in S : y <= x
  BY <1>10, <1>11, <1>12 DEF ChatLongest
<1>14. \A k \in 1 .. n : len[k] \in S
  BY <1>4
<1>15. n = 0 => S = {0}
  BY <1>4
<1>. QED BY <1>2, <1>9, <1>12, <1>13, <1>14, <1>15

\* The frames of some chunks.
FramesWith(nulls, s) == [k \in DOMAIN s |-> ChatFrame(Nulled(nulls, s[k]))]

LEMMA FramesWithHas ==
  ASSUME NEW nulls, NEW s, Listed(s), NEW n \in Nat, n = Len(s)
  PROVE  /\ Listed(FramesWith(nulls, s)) /\ Len(FramesWith(nulls, s)) = n
         /\ \A k \in 1 .. n : FramesWith(nulls, s)[k] = ChatFrame(Nulled(nulls, s[k]))
<1>1. PICK F : F = FramesWith(nulls, s)
  OBVIOUS
<1>2. DOMAIN s = 1 .. n
  BY ListHas
<1>3. F = [k \in 1 .. n |-> ChatFrame(Nulled(nulls, s[k]))]
  BY <1>1, <1>2 DEF FramesWith
<1>4. F = [k \in 1 .. n |-> F[k]] /\ \A k \in 1 .. n : F[k] = ChatFrame(Nulled(nulls, s[k]))
  BY <1>3
<1>5. Listed(F) /\ Len(F) = n
  BY <1>4, MappedList
<1>. QED BY <1>1, <1>4, <1>5

LEMMA FramesWithJoin ==
  ASSUME NEW nulls, NEW s, NEW t, Listed(s), Listed(t)
  PROVE  FramesWith(nulls, s \o t) = FramesWith(nulls, s) \o FramesWith(nulls, t)
<1>1. PICK m \in Nat : m = Len(s)
  BY ListHas
<1>2. PICK n \in Nat : n = Len(t)
  BY ListHas
<1>3. PICK all : all = s \o t
  OBVIOUS
<1>4. Listed(all) /\ Len(all) = m + n
      /\ all = [k \in 1 .. m + n |-> IF k <= m THEN s[k] ELSE t[k - m]]
  <2>1. IsJoin(all, s, t)
    BY <1>3, JoinIs
  <2>. QED BY <1>1, <1>2, <2>1 DEF IsJoin
<1>5. PICK F, G, H : F = FramesWith(nulls, s) /\ G = FramesWith(nulls, t) /\ H = FramesWith(nulls, all)
  OBVIOUS
<1>6. Listed(F) /\ Len(F) = m /\ \A k \in 1 .. m : F[k] = ChatFrame(Nulled(nulls, s[k]))
  BY <1>1, <1>5, FramesWithHas
<1>7. Listed(G) /\ Len(G) = n /\ \A k \in 1 .. n : G[k] = ChatFrame(Nulled(nulls, t[k]))
  BY <1>2, <1>5, FramesWithHas
<1>8. H = [k \in 1 .. m + n |-> ChatFrame(Nulled(nulls, all[k]))]
  <2>1. DOMAIN all = 1 .. m + n
    BY <1>4, ListHas
  <2>. QED BY <1>5, <2>1 DEF FramesWith
<1>9. F \o G = [k \in 1 .. m + n |-> IF k <= m THEN F[k] ELSE G[k - m]]
  <2>1. IsJoin(F \o G, F, G)
    BY <1>6, <1>7, JoinIs
  <2>. QED BY <1>6, <1>7, <2>1 DEF IsJoin
<1>10. ASSUME NEW k \in 1 .. m + n
       PROVE  ChatFrame(Nulled(nulls, all[k])) = IF k <= m THEN F[k] ELSE G[k - m]
  <2>1. CASE k <= m
    <3>1. k \in 1 .. m
      BY <2>1
    <3>. QED BY <1>4, <1>6, <2>1, <3>1
  <2>2. CASE ~(k <= m)
    <3>1. k - m \in 1 .. n
      BY <2>2
    <3>. QED BY <1>4, <1>7, <2>2, <3>1
  <2>. QED BY <2>1, <2>2
<1>11. H = F \o G
  BY <1>8, <1>9, <1>10
<1>. QED BY <1>3, <1>5, <1>11

LEMMA FramesWithOne ==
  ASSUME NEW nulls, NEW c
  PROVE  FramesWith(nulls, <<c>>) = <<ChatFrame(Nulled(nulls, c))>>
<1>1. PICK s : s = <<c>>
  OBVIOUS
<1>2. DOMAIN s = 1 .. 1 /\ s[1] = c
  BY <1>1
<1>3. FramesWith(nulls, s) = [k \in 1 .. 1 |-> ChatFrame(Nulled(nulls, s[k]))]
  BY <1>2 DEF FramesWith
<1>4. \A k \in 1 .. 1 : k = 1
  OBVIOUS
<1>5. FramesWith(nulls, s) = [k \in 1 .. 1 |-> ChatFrame(Nulled(nulls, c))]
  BY <1>2, <1>3, <1>4
<1>. QED BY <1>1, <1>5

ChatTexts(text)       == [k \in DOMAIN text |-> [ChatChunk EXCEPT !.text = <<text[k]>>]]
ChatRefusals(refusal) == [k \in DOMAIN refusal |-> [ChatChunk EXCEPT !.refusal = <<refusal[k]>>]]
ChatFragments(calls)  == [n \in 1 .. ChatLongest(calls) |-> ChatCallsGoOn(calls, n)]

LEMMA ChatTextsReach ==
  ASSUME NEW nulls, IsNulls(nulls), NEW z, z = ChatUsage(nulls), NEW d, NEW nz, NEW pending,
         NEW C, Listed(C), NEW u, NEW txt, Listed(txt), NEW s, s = ChatTexts(txt)
  PROVE  /\ Listed(s)
         /\ Reaches(d, z, WithText(nz, pending, C, u, <<>>), FramesWith(nulls, s),
                          WithText(nz, pending, C, u, txt))
<1>1. PICK n \in Nat : n = Len(txt)
  BY ListHas
<1>2. DOMAIN txt = 1 .. n
  BY <1>1, ListHas
<1>3. Listed(s) /\ Len(s) = n
  <2>1. s = [k \in 1 .. n |-> s[k]]
    BY <1>2 DEF ChatTexts
  <2>. QED BY <2>1, MappedList
<1>4. PICK F : F = FramesWith(nulls, s)
  OBVIOUS
<1>5. Len(F) = n /\ \A k \in 1 .. n : F[k] = ChatFrame(Nulled(nulls, s[k]))
  BY <1>3, <1>4, FramesWithHas
<1>6. ASSUME NEW k \in 1 .. n
      PROVE  Decode("chat", d, F[k]) = Yields(d, <<RawText(txt[k])>> \o CountsTold(z))
  <2>1. PICK x, one, none : x = txt[k] /\ one = <<x>> /\ none = <<>>
    OBVIOUS
  <2>2. s[k] = [ChatChunk EXCEPT !.text = one]
    BY <1>2, <2>1 DEF ChatTexts
  <2>3. s[k] = Chunk(one, none, none, none, none)
    BY <2>1, <2>2, ChunkIs
  <2>4. PICK p : p = Chunk(one, none, none, none, nulls)
    OBVIOUS
  <2>5. Nulled(nulls, s[k]) = p
    BY <2>1, <2>3, <2>4, NulledIs
  <2>6. Decode("chat", d, ChatFrame(p)) = Yields(d, <<RawText(x)>> \o CountsTold(z))
    BY <2>1, <2>4, ChatTellsText
  <2>. QED BY <1>5, <2>1, <2>5, <2>6
<1>7. Reaches(d, z, WithText(nz, pending, C, u, <<>>), F, WithText(nz, pending, C, u, txt))
  BY <1>1, <1>5, <1>6, ChatTextRuns
<1>. QED BY <1>3, <1>4, <1>7

LEMMA ChatRefusalsReach ==
  ASSUME NEW nulls, IsNulls(nulls), NEW z, z = ChatUsage(nulls), NEW d, NEW nz, NEW pending,
         NEW C, Listed(C), C # <<>> => Last(C).part # "refusal", NEW u, NEW open,
         NEW txt, Listed(txt), NEW s, s = ChatRefusals(txt)
  PROVE  /\ Listed(s)
         /\ Reaches(d, z, Held(nz, pending, C, u, open), FramesWith(nulls, s),
                          WithRefusal(nz, pending, C, u, open, txt))
<1>1. PICK n \in Nat : n = Len(txt)
  BY ListHas
<1>2. DOMAIN txt = 1 .. n
  BY <1>1, ListHas
<1>3. Listed(s) /\ Len(s) = n
  <2>1. s = [k \in 1 .. n |-> s[k]]
    BY <1>2 DEF ChatRefusals
  <2>. QED BY <2>1, MappedList
<1>4. PICK F : F = FramesWith(nulls, s)
  OBVIOUS
<1>5. Len(F) = n /\ \A k \in 1 .. n : F[k] = ChatFrame(Nulled(nulls, s[k]))
  BY <1>3, <1>4, FramesWithHas
<1>6. ASSUME NEW k \in 1 .. n
      PROVE  Decode("chat", d, F[k]) = Yields(d, <<RawRefusal(txt[k])>> \o CountsTold(z))
  <2>1. PICK x, one, none : x = txt[k] /\ one = <<x>> /\ none = <<>>
    OBVIOUS
  <2>2. s[k] = [ChatChunk EXCEPT !.refusal = one]
    BY <1>2, <2>1 DEF ChatRefusals
  <2>3. s[k] = Chunk(none, one, none, none, none)
    BY <2>1, <2>2, ChunkIs
  <2>4. PICK p : p = Chunk(none, one, none, none, nulls)
    OBVIOUS
  <2>5. Nulled(nulls, s[k]) = p
    BY <2>1, <2>3, <2>4, NulledIs
  <2>6. Decode("chat", d, ChatFrame(p)) = Yields(d, <<RawRefusal(x)>> \o CountsTold(z))
    BY <2>1, <2>4, ChatTellsRefusal
  <2>. QED BY <1>5, <2>1, <2>5, <2>6
<1>7. Reaches(d, z, Held(nz, pending, C, u, open), F, WithRefusal(nz, pending, C, u, open, txt))
  BY <1>1, <1>5, <1>6, ChatRefusalRuns
<1>. QED BY <1>3, <1>4, <1>7

LEMMA ReachesByOne ==
  ASSUME NEW d, NEW z, NEW a, NEW b, DOMAIN a = AsmFields, DOMAIN b = AsmFields,
         a.status = "incomplete", b.status = "incomplete", NEW f, Steps(d, z, a, f, b)
  PROVE  Reaches(d, z, a, <<f>>, b)
<1>1. PICK p, F : p = [k \in 0 .. 1 |-> IF k = 0 THEN a ELSE b] /\ F = <<f>>
  OBVIOUS
<1>2. p[0] = a /\ p[1] = b /\ Len(F) = 1 /\ F[1] = f
  BY <1>1
<1>3. \A k \in 0 .. 1 : DOMAIN p[k] = AsmFields /\ p[k].status = "incomplete"
  <2>1. \A k \in 0 .. 1 : k = 0 \/ k = 1
    OBVIOUS
  <2>. QED BY <1>2, <2>1
<1>4. \A k \in 1 .. 1 : Steps(d, z, p[k - 1], F[k], p[k])
  <2>1. \A k \in 1 .. 1 : k = 1 /\ k - 1 = 0
    OBVIOUS
  <2>. QED BY <1>2, <2>1
<1>5. PICK n \in Nat : n = 1
  OBVIOUS
<1>6. Reaches(d, z, p[0], F, p[n])
  BY <1>2, <1>3, <1>4, <1>5, ReachesStepwise
<1>. QED BY <1>1, <1>2, <1>5, <1>6

LEMMA ReachesNowhere ==
  ASSUME NEW d, NEW z, NEW a, DOMAIN a = AsmFields, a.status = "incomplete",
         NEW F, Len(F) = 0
  PROVE  Reaches(d, z, a, F, a)
<1>1. PICK p : p = [k \in 0 .. 0 |-> a]
  OBVIOUS
<1>2. p[0] = a /\ \A k \in 0 .. 0 : DOMAIN p[k] = AsmFields /\ p[k].status = "incomplete"
  BY <1>1
<1>3. PICK n \in Nat : n = 0
  OBVIOUS
<1>4. \A k \in 1 .. n : Steps(d, z, p[k - 1], F[k], p[k])
  BY <1>3
<1>5. Reaches(d, z, p[0], F, p[n])
  BY <1>2, <1>3, <1>4, ReachesStepwise
<1>. QED BY <1>2, <1>3, <1>5

LEMMA ChatBeginReaches ==
  ASSUME NEW nulls, IsNulls(nulls), NEW z, z = ChatUsage(nulls), NEW d, NEW nz, NEW C, NEW u, NEW open,
         NEW calls, Listed(calls), NEW n \in Nat, n = Len(calls),
         NEW ids, \A k \in 1 .. n : ids[k] = calls[k].id,
         NEW args, \A k \in 1 .. n : args[k] = <<>>
  PROVE  Reaches(d, z, Held(nz, <<>>, C, u, open), FramesWith(nulls, <<ChatCallsBegin(calls)>>),
                       Held(nz, Slots(n, ids, args), C, u, open))
<1>1. DOMAIN calls = 1 .. n
  BY ListHas
<1>2. PICK X : X = [k \in DOMAIN calls |-> [index |-> k - 1, id |-> <<calls[k].id>>, json |-> <<>>]]
  OBVIOUS
<1>3. Listed(X) /\ Len(X) = n
  <2>1. X = [k \in 1 .. n |-> X[k]]
    BY <1>1, <1>2
  <2>. QED BY <2>1, MappedList
<1>4. ASSUME NEW k \in 1 .. n PROVE ChatCallDeltas(X[k]) = <<RawToolStart(k - 1, ids[k])>>
  <2>1. PICK c, i, id, one : c = X[k] /\ i = k - 1 /\ id = ids[k] /\ one = <<id>>
    OBVIOUS
  <2>2. c = [index |-> i, id |-> one, json |-> <<>>]
    BY <1>1, <1>2, <2>1
  <2>3. c.index = i /\ c.id = one /\ c.json = <<>>
    BY <2>2
  <2>4. one # <<>> /\ one[1] = id
    BY <2>1
  <2>5. PICK t : t = <<RawToolStart(i, id)>>
    OBVIOUS
  <2>6. t \o <<>> = t
    BY <2>5, OneListed, JoinedWithNothing
  <2>7. ChatCallDeltas(c) = t \o <<>>
    BY <2>3, <2>4, <2>5 DEF ChatCallDeltas
  <2>. QED BY <2>1, <2>5, <2>6, <2>7
<1>5. PICK none, chunk, p : /\ none = <<>> /\ chunk = ChatCallsBegin(calls)
                            /\ p = Chunk(none, none, X, none, nulls)
  OBVIOUS
<1>6. chunk = Chunk(none, none, X, none, none)
  <2>1. chunk = [ChatChunk EXCEPT !.calls = X]
    BY <1>2, <1>5 DEF ChatCallsBegin
  <2>. QED BY <1>5, <2>1, ChunkIs
<1>7. Nulled(nulls, chunk) = p
  BY <1>5, <1>6, NulledIs
<1>8. PICK f : f = ChatFrame(p)
  OBVIOUS
<1>9. Decode("chat", d, f) = Yields(d, CallDeltas(X) \o CountsTold(z))
  BY <1>3, <1>5, <1>8, ChatTellsCalls
<1>10. PICK a, b : a = Held(nz, <<>>, C, u, open) /\ b = Held(nz, Slots(n, ids, args), C, u, open)
  OBVIOUS
<1>11. Steps(d, z, a, f, b)
  BY <1>3, <1>4, <1>9, <1>10, ChatBegins
<1>12. DOMAIN a = AsmFields /\ DOMAIN b = AsmFields /\ a.status = "incomplete" /\ b.status = "incomplete"
  BY <1>10, HeldHas
<1>13. Reaches(d, z, a, <<f>>, b)
  BY <1>11, <1>12, ReachesByOne
<1>14. FramesWith(nulls, <<chunk>>) = <<f>>
  BY <1>7, <1>8, FramesWithOne
<1>. QED BY <1>5, <1>10, <1>13, <1>14

LEMMA ChatGoesOnList ==
  ASSUME NEW calls, Listed(calls), NEW n \in Nat, n = Len(calls), NEW m \in Nat, m > 0,
         NEW inputs, \A k \in 1 .. n : inputs[k] = calls[k].input,
         \A k \in 1 .. n : Listed(inputs[k]),
         NEW L, Listed(L), Len(L) = n, \A k \in 1 .. n : L[k] = ChatCallGoesOn(calls[k], k, m)
  PROVE  ListOfLists(L) /\ \A k \in 1 .. n : Gives(L[k], k, inputs[k], m)
<1>3. ASSUME NEW k \in 1 .. n PROVE Listed(L[k]) /\ Gives(L[k], k, inputs[k], m)
  <2>1. PICK call, input, list, i : call = calls[k] /\ input = inputs[k] /\ list = L[k] /\ i = k - 1
    OBVIOUS
  <2>2. input = call.input /\ list = ChatCallGoesOn(call, k, m)
    BY <2>1
  <2>3. CASE Len(input) < m
    <3>1. list = <<>>
      BY <2>2, <2>3 DEF ChatCallGoesOn
    <3>. QED BY <2>1, <2>3, <3>1, Nothing DEF Gives
  <2>4. CASE ~(Len(input) < m)
    <3>1. PICK x, more : x = input[m] /\ more = <<x>>
      OBVIOUS
    <3>2. PICK c : c = [index |-> i, id |-> <<>>, json |-> more]
      OBVIOUS
    <3>3. list = <<c>>
      BY <2>1, <2>2, <2>4, <3>1, <3>2 DEF ChatCallGoesOn
    <3>4. c.index = i /\ c.id = <<>> /\ c.json = more
      BY <3>2
    <3>5. more # <<>>
      BY <3>1
    <3>6. PICK t : t = <<RawToolArgs(i, more)>>
      OBVIOUS
    <3>7. <<>> \o t = t
      BY <3>6, OneListed, NothingBefore
    <3>8. ChatCallDeltas(c) = <<>> \o t
      BY <3>4, <3>5, <3>6 DEF ChatCallDeltas
    <3>9. ChatCallDeltas(c) = <<RawToolArgs(k - 1, <<input[m]>>)>>
      BY <2>1, <3>1, <3>6, <3>7, <3>8
    <3>10. Listed(list)
      BY <3>3, OneListed
    <3>. QED BY <2>1, <2>4, <3>3, <3>9, <3>10 DEF Gives
  <2>. QED BY <2>3, <2>4
<1>4. \A k \in 1 .. n : Listed(L[k])
  BY <1>3
<1>5. \A k \in 1 .. n : Gives(L[k], k, inputs[k], m)
  BY <1>3
<1>6. ListOfLists(L)
  BY <1>4 DEF ListOfLists
<1>. QED BY <1>5, <1>6

LEMMA ChatFragmentsReach ==
  ASSUME NEW nulls, IsNulls(nulls), NEW z, z = ChatUsage(nulls), NEW d, NEW nz, NEW C, NEW u, NEW open,
         NEW calls, Listed(calls), NEW n \in Nat, n = Len(calls), NEW ids,
         NEW inputs, \A k \in 1 .. n : inputs[k] = calls[k].input,
         \A k \in 1 .. n : Listed(inputs[k]),
         NEW none, \A k \in 1 .. n : none[k] = <<>>,
         NEW s, s = ChatFragments(calls)
  PROVE  /\ Listed(s)
         /\ Reaches(d, z, Held(nz, Slots(n, ids, none), C, u, open), FramesWith(nulls, s),
                          Held(nz, Slots(n, ids, inputs), C, u, open))
<1>1. PICK longest \in Nat : /\ longest = ChatLongest(calls)
                             /\ \A k \in 1 .. n : Len(inputs[k]) <= longest
  <2>1. \A k \in 1 .. n : Listed(calls[k].input)
    OBVIOUS
  <2>2. /\ ChatLongest(calls) \in Nat
        /\ \A k \in 1 .. n : Len(calls[k].input) <= ChatLongest(calls)
    BY <2>1, LongestIs
  <2>. QED BY <2>2
<1>2. s = [m \in 1 .. longest |-> ChatCallsGoOn(calls, m)]
  BY <1>1 DEF ChatFragments
<1>3. Listed(s) /\ Len(s) = longest
  <2>1. s = [m \in 1 .. longest |-> s[m]]
    BY <1>2
  <2>. QED BY <2>1, MappedList
<1>4. PICK F : F = FramesWith(nulls, s)
  OBVIOUS
<1>5. Len(F) = longest /\ \A m \in 1 .. longest : F[m] = ChatFrame(Nulled(nulls, s[m]))
  BY <1>3, <1>4, FramesWithHas
<1>6. PICK args : args = [m \in 0 .. longest |-> [k \in 1 .. n |-> Taken(inputs[k], m)]]
  OBVIOUS
<1>7. PICK a : a = [m \in 0 .. longest |-> Held(nz, Slots(n, ids, args[m]), C, u, open)]
  OBVIOUS
<1>8. \A m \in 0 .. longest : DOMAIN a[m] = AsmFields /\ a[m].status = "incomplete"
  BY <1>7, HeldHas
<1>9. ASSUME NEW m \in 1 .. longest PROVE Steps(d, z, a[m - 1], F[m], a[m])
  <2>1. m \in 0 .. longest /\ m - 1 \in 0 .. longest /\ m \in Nat /\ m > 0
    OBVIOUS
  <2>2. PICK L, X : L = [k \in DOMAIN calls |-> ChatCallGoesOn(calls[k], k, m)] /\ X = FlattenSeq(L)
    OBVIOUS
  <2>3. ListOfLists(L) /\ Len(L) = n /\ \A k \in 1 .. n : Gives(L[k], k, inputs[k], m)
    <3>1. DOMAIN calls = 1 .. n
      BY ListHas
    <3>2. L = [k \in 1 .. n |-> L[k]] /\ \A k \in 1 .. n : L[k] = ChatCallGoesOn(calls[k], k, m)
      BY <2>2, <3>1
    <3>3. Listed(L) /\ Len(L) = n
      BY <3>2, MappedList
    <3>4. ListOfLists(L) /\ \A k \in 1 .. n : Gives(L[k], k, inputs[k], m)
      BY <2>1, <3>2, <3>3, ChatGoesOnList
    <3>. QED BY <3>3, <3>4
  <2>4. Listed(X)
    BY <2>2, <2>3, FlatIsListed
  <2>5. PICK e, chunk, p : e = <<>> /\ chunk = s[m] /\ p = Chunk(e, e, X, e, nulls)
    OBVIOUS
  <2>6. chunk = Chunk(e, e, X, e, e)
    <3>1. chunk = [ChatChunk EXCEPT !.calls = X]
      BY <1>2, <2>2, <2>5 DEF ChatCallsGoOn
    <3>. QED BY <2>5, <3>1, ChunkIs
  <2>7. Nulled(nulls, chunk) = p
    BY <2>5, <2>6, NulledIs
  <2>8. PICK f : f = ChatFrame(p)
    OBVIOUS
  <2>9. F[m] = f
    BY <1>5, <2>5, <2>7, <2>8
  <2>10. Decode("chat", d, f) = Yields(d, CallDeltas(X) \o CountsTold(z))
    BY <2>4, <2>5, <2>8, ChatTellsCalls
  <2>11. PICK v, w : v = args[m - 1] /\ w = args[m]
    OBVIOUS
  <2>12. \A k \in 1 .. n : v[k] = Taken(inputs[k], m - 1) /\ w[k] = Taken(inputs[k], m)
    BY <1>6, <2>1, <2>11
  <2>13. Decode("chat", d, f) = Yields(d, CallDeltas(FlattenSeq(L)) \o CountsTold(z))
    BY <2>2, <2>10
  <2>14. Steps(d, z, Held(nz, Slots(n, ids, v), C, u, open), f, Held(nz, Slots(n, ids, w), C, u, open))
    BY <2>1, <2>3, <2>12, <2>13, ChatGoesOn
  <2>15. /\ a[m - 1] = Held(nz, Slots(n, ids, v), C, u, open)
         /\ a[m] = Held(nz, Slots(n, ids, w), C, u, open)
    BY <1>7, <2>1, <2>11
  <2>. QED BY <2>9, <2>14, <2>15
<1>10. Reaches(d, z, a[0], F, a[longest])
  BY <1>5, <1>8, <1>9, ReachesStepwise
<1>11. /\ a[0] = Held(nz, Slots(n, ids, none), C, u, open)
       /\ a[longest] = Held(nz, Slots(n, ids, inputs), C, u, open)
  <2>1. 0 \in 0 .. longest /\ longest \in 0 .. longest /\ 0 \in Nat
    OBVIOUS
  <2>2. PICK v, w : v = args[0] /\ w = args[longest]
    OBVIOUS
  <2>3. \A k \in 1 .. n : v[k] = none[k] /\ w[k] = inputs[k]
    <3>. TAKE k \in 1 .. n
    <3>1. PICK input : input = inputs[k]
      OBVIOUS
    <3>2. Listed(input) /\ Len(input) <= longest
      BY <1>1, <3>1
    <3>3. Taken(input, 0) = <<>> /\ Taken(input, longest) = input
      BY <2>1, <3>2, TakenGrows
    <3>4. v[k] = Taken(input, 0) /\ w[k] = Taken(input, longest)
      BY <1>6, <2>1, <2>2, <3>1
    <3>. QED BY <3>1, <3>3, <3>4
  <2>4. \A i \in 0 .. n - 1 : i + 1 \in 1 .. n
    OBVIOUS
  <2>5. Slots(n, ids, v) = Slots(n, ids, none) /\ Slots(n, ids, w) = Slots(n, ids, inputs)
    BY <2>3, <2>4 DEF Slots
  <2>. QED BY <1>7, <2>1, <2>2, <2>5
<1>. QED BY <1>3, <1>4, <1>10, <1>11

\* The chunk in which the calls begin, if there are any.
ChatBeginning(calls) == IF calls = <<>> THEN <<>> ELSE <<ChatCallsBegin(calls)>>

LEMMA NoneReaches ==
  ASSUME NEW nulls, NEW z, NEW d, NEW a, DOMAIN a = AsmFields, a.status = "incomplete",
         NEW s, s = <<>>
  PROVE  Listed(s) /\ Reaches(d, z, a, FramesWith(nulls, s), a)
<1>1. Listed(s) /\ Len(s) = 0
  BY Nothing
<1>2. PICK n \in Nat : n = 0
  OBVIOUS
<1>3. Len(FramesWith(nulls, s)) = n
  BY <1>1, <1>2, FramesWithHas
<1>. QED BY <1>1, <1>2, <1>3, ReachesNowhere

LEMMA ChatBeginningReaches ==
  ASSUME NEW nulls, IsNulls(nulls), NEW z, z = ChatUsage(nulls), NEW d, NEW nz, NEW C, NEW u, NEW open,
         NEW calls, Listed(calls), NEW n \in Nat, n = Len(calls),
         NEW ids, \A k \in 1 .. n : ids[k] = calls[k].id,
         NEW args, \A k \in 1 .. n : args[k] = <<>>,
         NEW s, s = ChatBeginning(calls)
  PROVE  /\ Listed(s)
         /\ Reaches(d, z, Held(nz, <<>>, C, u, open), FramesWith(nulls, s),
                          Held(nz, Slots(n, ids, args), C, u, open))
<1>1. PICK a : a = Held(nz, <<>>, C, u, open)
  OBVIOUS
<1>2. DOMAIN a = AsmFields /\ a.status = "incomplete"
  BY <1>1, HeldHas
<1>3. CASE calls = <<>>
  <2>1. s = <<>> /\ n = 0
    BY <1>3 DEF ChatBeginning
  <2>2. Held(nz, Slots(n, ids, args), C, u, open) = a
    BY <1>1, <2>1, SlotsAreNone
  <2>3. Listed(s) /\ Reaches(d, z, a, FramesWith(nulls, s), a)
    BY <1>2, <2>1, NoneReaches
  <2>. QED BY <1>1, <2>2, <2>3
<1>4. CASE calls # <<>>
  <2>1. s = <<ChatCallsBegin(calls)>>
    BY <1>4 DEF ChatBeginning
  <2>2. Listed(s)
    BY <2>1, OneListed
  <2>3. Reaches(d, z, Held(nz, <<>>, C, u, open), FramesWith(nulls, <<ChatCallsBegin(calls)>>),
                       Held(nz, Slots(n, ids, args), C, u, open))
    BY ChatBeginReaches
  <2>. QED BY <2>1, <2>2, <2>3
<1>. QED BY <1>3, <1>4

\* The parts of a chat before its calls.
Spoken(text, refusal) ==
  (IF text = <<>> THEN <<>> ELSE <<TextPart(text)>>)
    \o (IF refusal = <<>> THEN <<>> ELSE <<RefusalPart(refusal)>>)

LEMMA TextIsHeld ==
  ASSUME NEW nz, NEW u, NEW txt
  PROVE  \E o : WithText(nz, <<>>, <<>>, u, txt)
                  = Held(nz, <<>>, IF txt = <<>> THEN <<>> ELSE <<TextPart(txt)>>, u, o)
<1>1. Append(<<>>, TextPart(txt)) = <<TextPart(txt)>>
  OBVIOUS
<1>2. CASE txt = <<>>
  BY <1>2 DEF WithText
<1>3. CASE txt # <<>>
  BY <1>1, <1>3 DEF WithText
<1>. QED BY <1>2, <1>3

LEMMA RefusalIsHeld ==
  ASSUME NEW nz, NEW u, NEW o, NEW C, Listed(C), NEW txt
  PROVE  WithRefusal(nz, <<>>, C, u, o, txt)
           = Held(nz, <<>>, C \o (IF txt = <<>> THEN <<>> ELSE <<RefusalPart(txt)>>), u, o)
<1>1. CASE txt = <<>>
  BY <1>1, JoinedWithNothing DEF WithRefusal
<1>2. CASE txt # <<>>
  <2>1. PICK x : x = RefusalPart(txt)
    OBVIOUS
  <2>2. C \o <<x>> = Append(C, x)
    BY JoinedWithOne
  <2>. QED BY <1>2, <2>1, <2>2 DEF WithRefusal
<1>. QED BY <1>1, <1>2

LEMMA SpokenReaches ==
  ASSUME NEW nulls, IsNulls(nulls), NEW z, z = ChatUsage(nulls), NEW d, NEW nz, NEW u,
         NEW no, no = FALSE,
         NEW text, Listed(text), NEW refusal, Listed(refusal),
         NEW s, s = ChatTexts(text), NEW t, t = ChatRefusals(refusal),
         NEW C, C = Spoken(text, refusal)
  PROVE  /\ Listed(s) /\ Listed(t) /\ Listed(C)
         /\ \E o : Reaches(d, z, Held(nz, <<>>, <<>>, u, no), FramesWith(nulls, s \o t),
                           Held(nz, <<>>, C, u, o))
<1>1. PICK none : none = <<>>
  OBVIOUS
<1>2. PICK B : B = IF text = <<>> THEN <<>> ELSE <<TextPart(text)>>
  OBVIOUS
<1>3. Listed(none) /\ Listed(B)
  BY <1>1, <1>2, Nothing, OneListed
<1>4. B # <<>> => Last(B).part # "refusal"
  <2>1. PICK x : x = TextPart(text)
    OBVIOUS
  <2>2. x.part # "refusal"
    BY <2>1 DEF TextPart
  <2>3. Last(<<x>>) = x
    BY DEF Last
  <2>. QED BY <1>2, <2>1, <2>2, <2>3
<1>5. PICK a : a = Held(nz, none, none, u, no)
  OBVIOUS
<1>6. a = WithText(nz, none, none, u, <<>>)
  BY <1>5, TextBegins
<1>7. PICK b : b = WithText(nz, none, none, u, text)
  OBVIOUS
<1>8. Listed(s) /\ Reaches(d, z, a, FramesWith(nulls, s), b)
  BY <1>3, <1>6, <1>7, ChatTextsReach
<1>9. PICK o : b = Held(nz, none, B, u, o)
  BY <1>1, <1>2, <1>7, TextIsHeld
<1>10. PICK c : c = WithRefusal(nz, none, B, u, o, refusal)
  OBVIOUS
<1>11. Listed(t) /\ Reaches(d, z, b, FramesWith(nulls, t), c)
  BY <1>3, <1>4, <1>9, <1>10, ChatRefusalsReach
<1>12. C = B \o (IF refusal = <<>> THEN <<>> ELSE <<RefusalPart(refusal)>>)
  BY <1>2 DEF Spoken
<1>13. c = Held(nz, none, C, u, o)
  BY <1>1, <1>3, <1>10, <1>12, RefusalIsHeld
<1>14. Listed(C)
  BY <1>3, <1>12, Nothing, OneListed, Joined
<1>15. PICK F, G : F = FramesWith(nulls, s) /\ G = FramesWith(nulls, t)
  OBVIOUS
<1>16. Listed(F) /\ Listed(G) /\ FramesWith(nulls, s \o t) = F \o G
  <2>1. \A x : Listed(x) => Listed(FramesWith(nulls, x))
    <3>. SUFFICES ASSUME NEW x, Listed(x) PROVE Listed(FramesWith(nulls, x))
      OBVIOUS
    <3>1. PICK n \in Nat : n = Len(x)
      BY ListHas
    <3>. QED BY <3>1, FramesWithHas
  <2>. QED BY <1>8, <1>11, <1>15, <2>1, FramesWithJoin
<1>17. Reaches(d, z, a, F \o G, c)
  BY <1>8, <1>11, <1>15, <1>16, ReachesOn
<1>. QED BY <1>1, <1>5, <1>8, <1>11, <1>13, <1>14, <1>16, <1>17

\* The chunks before the one that says why the answer finished.
ChatTold(text, refusal, calls) ==
  ChatTexts(text) \o ChatRefusals(refusal) \o ChatBeginning(calls) \o ChatFragments(calls)

LEMMA FramesWithListed ==
  ASSUME NEW nulls, NEW s, Listed(s)
  PROVE  Listed(FramesWith(nulls, s))
<1>1. PICK n \in Nat : n = Len(s)
  BY ListHas
<1>. QED BY <1>1, FramesWithHas

LEMMA ReachesOnWith ==
  ASSUME NEW nulls, NEW d, NEW z, NEW a, NEW b, NEW c, NEW s, NEW t, Listed(s), Listed(t),
         Reaches(d, z, a, FramesWith(nulls, s), b), Reaches(d, z, b, FramesWith(nulls, t), c)
  PROVE  Listed(s \o t) /\ Reaches(d, z, a, FramesWith(nulls, s \o t), c)
<1>1. PICK F, G : F = FramesWith(nulls, s) /\ G = FramesWith(nulls, t)
  OBVIOUS
<1>2. Listed(F) /\ Listed(G) /\ FramesWith(nulls, s \o t) = F \o G
  BY <1>1, FramesWithListed, FramesWithJoin
<1>3. Reaches(d, z, a, F \o G, c)
  BY <1>1, <1>2, ReachesOn
<1>4. Listed(s \o t)
  BY Joined
<1>. QED BY <1>2, <1>3, <1>4

\* The ids and the arguments of some calls.
CallsAre(calls, n, ids, inputs) ==
  /\ Listed(calls) /\ n = Len(calls)
  /\ \A k \in 1 .. n : ids[k] = calls[k].id
  /\ \A k \in 1 .. n : inputs[k] = calls[k].input
  /\ \A k \in 1 .. n : Listed(inputs[k])

\* frames tell all of it, whether or not a text is left open.
ReachesOpenOrNot(d, z, a, frames, nz, pending, C, u) ==
  \E open : Reaches(d, z, a, frames, Held(nz, pending, C, u, open))

LEMMA ChatToldReaches ==
  ASSUME NEW nulls, IsNulls(nulls), NEW z, z = ChatUsage(nulls), NEW d, NEW nz, NEW u,
         NEW no, no = FALSE,
         NEW text, Listed(text), NEW refusal, Listed(refusal),
         NEW C, C = Spoken(text, refusal),
         NEW calls, NEW n \in Nat, NEW ids, NEW inputs, CallsAre(calls, n, ids, inputs),
         NEW s, s = ChatTold(text, refusal, calls)
  PROVE  /\ Listed(s) /\ Listed(C)
         /\ ReachesOpenOrNot(d, z, Held(nz, <<>>, <<>>, u, no), FramesWith(nulls, s),
                  nz, Slots(n, ids, inputs), C, u)
<1>0. /\ Listed(calls) /\ n = Len(calls)
      /\ \A k \in 1 .. n : ids[k] = calls[k].id
      /\ \A k \in 1 .. n : inputs[k] = calls[k].input
      /\ \A k \in 1 .. n : Listed(inputs[k])
  BY DEF CallsAre
<1>1. PICK A, B, I, G : /\ A = ChatTexts(text) /\ B = ChatRefusals(refusal)
                        /\ I = ChatBeginning(calls) /\ G = ChatFragments(calls)
  OBVIOUS
<1>2. PICK a0 : a0 = Held(nz, <<>>, <<>>, u, no)
  OBVIOUS
<1>3. /\ Listed(A) /\ Listed(B) /\ Listed(C)
      /\ \E o : Reaches(d, z, a0, FramesWith(nulls, A \o B), Held(nz, <<>>, C, u, o))
  BY <1>1, <1>2, SpokenReaches
<1>4. PICK o : Reaches(d, z, a0, FramesWith(nulls, A \o B), Held(nz, <<>>, C, u, o))
  BY <1>3
<1>5. PICK none : none = [k \in 1 .. n |-> <<>>]
  OBVIOUS
<1>6. \A k \in 1 .. n : none[k] = <<>>
  BY <1>5
<1>7. PICK a1, a2, a3 : /\ a1 = Held(nz, <<>>, C, u, o)
                        /\ a2 = Held(nz, Slots(n, ids, none), C, u, o)
                        /\ a3 = Held(nz, Slots(n, ids, inputs), C, u, o)
  OBVIOUS
<1>8. Listed(I) /\ Reaches(d, z, a1, FramesWith(nulls, I), a2)
  BY <1>0, <1>1, <1>6, <1>7, ChatBeginningReaches
<1>9. Listed(G) /\ Reaches(d, z, a2, FramesWith(nulls, G), a3)
  <2>1. /\ Listed(G)
        /\ Reaches(d, z, Held(nz, Slots(n, ids, none), C, u, o), FramesWith(nulls, G),
                         Held(nz, Slots(n, ids, inputs), C, u, o))
    BY <1>0, <1>1, <1>6, ChatFragmentsReach
  <2>. QED BY <1>7, <2>1
<1>10. PICK AB : AB = A \o B
  OBVIOUS
<1>11. Listed(AB) /\ Reaches(d, z, a0, FramesWith(nulls, AB), a1)
  BY <1>3, <1>4, <1>7, <1>10, Joined
<1>12. PICK ABI : ABI = AB \o I
  OBVIOUS
<1>13. Listed(ABI) /\ Reaches(d, z, a0, FramesWith(nulls, ABI), a2)
  BY <1>8, <1>11, <1>12, ReachesOnWith
<1>14. Listed(ABI \o G) /\ Reaches(d, z, a0, FramesWith(nulls, ABI \o G), a3)
  BY <1>9, <1>13, ReachesOnWith
<1>15. s = ABI \o G
  BY <1>1, <1>10, <1>12 DEF ChatTold
<1>. QED BY <1>2, <1>3, <1>7, <1>14, <1>15 DEF ReachesOpenOrNot

LEMMA ChatTellsMeta ==
  ASSUME NEW d, NEW F, NEW U, NEW none, none = <<>>, NEW p, p = Chunk(none, none, none, F, U)
  PROVE  Decode("chat", d, ChatFrame(p)) = Yields(d, ChatMeta(p)) /\ p.finish = F /\ p.usage = U
<1>1. p.text = none /\ p.refusal = none /\ p.calls = none /\ p.finish = F /\ p.usage = U
  BY ChatReads
<1>2. [k \in DOMAIN none |-> RawText(none[k])] = <<>> /\ [k \in DOMAIN none |-> RawRefusal(none[k])] = <<>>
  OBVIOUS
<1>3. [k \in DOMAIN none |-> ChatCallDeltas(none[k])] = <<>>
  OBVIOUS
<1>4. PICK t : t = ChatMeta(p)
  OBVIOUS
<1>5. Listed(t)
  BY <1>4, Nothing, OneListed DEF ChatMeta
<1>6. <<>> \o <<>> = <<>> /\ <<>> \o t = t
  BY <1>5, Nothing, JoinedWithNothing, NothingBefore
<1>7. ChatDeltas(p) = ((<<>> \o <<>>) \o FlattenSeq(<<>>)) \o t
  BY <1>1, <1>2, <1>3, <1>4 DEF ChatDeltas
<1>8. ChatDeltas(p) = t
  BY <1>6, <1>7, Nothing
<1>9. Decode("chat", d, ChatFrame(p)) = Yields(d, ChatDeltas(p))
  BY ChatReads
<1>. QED BY <1>1, <1>4, <1>8, <1>9

LEMMA ChatTellsFinish ==
  ASSUME NEW nulls, IsNulls(nulls), NEW z, z = ChatUsage(nulls), NEW d, NEW reason,
         NEW none, none = <<>>, NEW one, one = <<reason>>,
         NEW p, p = Chunk(none, none, none, one, nulls)
  PROVE  Decode("chat", d, ChatFrame(p)) = Yields(d, <<RawMeta(ChatStatus(reason), z)>>)
<1>1. Decode("chat", d, ChatFrame(p)) = Yields(d, ChatMeta(p)) /\ p.finish = one /\ p.usage = nulls
  BY ChatTellsMeta
<1>2. one # <<>> /\ one[1] = reason
  OBVIOUS
<1>3. ChatMeta(p) = <<RawMeta(ChatStatus(reason), z)>>
  BY <1>1, <1>2 DEF ChatMeta
<1>. QED BY <1>1, <1>3

LEMMA ChatTellsUsage ==
  ASSUME NEW d, NEW u, u \in [1 .. 3 -> Nat], NEW none, none = <<>>,
         NEW p, p = Chunk(none, none, none, none, u)
  PROVE  Decode("chat", d, ChatFrame(p)) = Yields(d, <<RawMeta("none", u)>>) /\ u # NoUsage
<1>1. Decode("chat", d, ChatFrame(p)) = Yields(d, ChatMeta(p)) /\ p.finish = none /\ p.usage = u
  BY ChatTellsMeta
<1>2. Len(u) = 3 /\ u # <<>>
  <2>1. u = [k \in 1 .. 3 |-> u[k]]
    OBVIOUS
  <2>2. PICK n \in Nat : n = 3
    OBVIOUS
  <2>3. Listed(u) /\ Len(u) = n
    BY <2>1, <2>2, MappedList
  <2>. QED BY <2>2, <2>3, ListHas
<1>3. ChatUsage(u) = u
  BY <1>2 DEF ChatUsage
<1>4. ChatMeta(p) = <<RawMeta("none", u)>>
  BY <1>1, <1>2, <1>3 DEF ChatMeta
<1>. QED BY <1>1, <1>2, <1>4 DEF NoUsage

LEMMA SettlesToEnd ==
  ASSUME NEW dialect, NEW s, NEW t, NEW F, NEW G, Listed(F), Listed(G), NEW response,
         Settles(dialect, s, F, t, response), Ends(dialect, t, G, response)
  PROVE  Ends(dialect, s, F \o G, response)
<1>1. PICK u : Settles(dialect, t, G, u, response) /\ Assembled(Closed(u.asm)) = response
  BY DEF Ends
<1>2. Settles(dialect, s, F \o G, u, response)
  BY <1>1, SettlesOn
<1>. QED BY <1>1, <1>2 DEF Ends

LEMMA ChatStatusSaid ==
  ASSUME NEW reason
  PROVE  ChatStatus(reason) # "none"
BY DEF ChatStatus

LEMMA ChatSettled ==
  ASSUME NEW nz, NEW n \in Nat, NEW ids, NEW inputs, NEW C, Listed(C), NEW st, NEW us, NEW open,
         NEW a, a = Ending(nz, Slots(n, ids, inputs), C, st, us, open),
         NEW parts, CallsMade(parts, nz, n, ids, inputs),
         NEW response, response.content = C \o parts
  PROVE  Settled(a, response)
<1>1. ClosesTo(a, C \o parts, st, us)
  BY SlotsFlushed
<1>. QED BY <1>1 DEF Settled, ClosesTo

\* Some frames, then the one that says why the answer finished.
LEMMA ChatFinishes ==
  ASSUME NEW nulls, IsNulls(nulls), NEW z, z = ChatUsage(nulls), NEW d, NEW nz,
         NEW n \in Nat, NEW ids, NEW inputs, NEW C, Listed(C), NEW o,
         NEW a, DOMAIN a = AsmFields, a.usage = NoUsage, a = With(a, NoUsage),
         NEW F, Listed(F), Reaches(d, z, a, F, Held(nz, Slots(n, ids, inputs), C, NoUsage, o)),
         NEW reason, NEW none, none = <<>>, NEW one, one = <<reason>>,
         NEW p, p = Chunk(none, none, none, one, nulls),
         NEW status, status = ChatStatus(reason),
         NEW parts, CallsMade(parts, nz, n, ids, inputs),
         NEW response, response.content = C \o parts
  PROVE  Settles("chat", At(d, a), F \o <<ChatFrame(p)>>,
                 At(d, Ending(nz, Slots(n, ids, inputs), C, status, z, o)), response)
<1>1. PICK pending : pending = Slots(n, ids, inputs)
  OBVIOUS
<1>2. LaterUsage(NoUsage, z) = z
  BY DEF LaterUsage
<1>3. PICK b : b = Held(nz, pending, C, NoUsage, o)
  OBVIOUS
<1>4. \E later : /\ LaterUsage(later, z) = z
                 /\ Leads("chat", At(d, With(a, NoUsage)), F, At(d, With(b, later)))
  BY <1>1, <1>2, <1>3 DEF Reaches
<1>5. PICK later : /\ LaterUsage(later, z) = z
                   /\ Leads("chat", At(d, a), F, At(d, With(b, later)))
  BY <1>4
<1>6. PICK c, e, s, t : /\ c = Held(nz, pending, C, later, o)
                        /\ e = Ending(nz, pending, C, status, z, o)
                        /\ s = At(d, c) /\ t = At(d, e)
  OBVIOUS
<1>7. s.asm = c /\ t.asm = e
  BY <1>6 DEF At
<1>8. With(b, later) = c
  BY <1>3, <1>6, HeldWith
<1>9. Settles("chat", At(d, a), F, s, response)
  BY <1>5, <1>6, <1>8, LeadsSettles
<1>10. PICK f : f = ChatFrame(p)
  OBVIOUS
<1>11. Decode("chat", d, f) = Yields(d, <<RawMeta(status, z)>>)
  BY <1>10, ChatTellsFinish
<1>12. status # "none"
  BY ChatStatusSaid
<1>13. Fed("chat", s, f) = t
  BY <1>5, <1>6, <1>11, <1>12, FedMeta
<1>14. Settled(s.asm, response)
  <2>1. c.status = "incomplete"
    BY <1>6, HeldHas
  <2>. QED BY <1>7, <2>1 DEF Settled
<1>15. Settled(t.asm, response)
  BY <1>1, <1>6, <1>7, ChatSettled
<1>16. Settles("chat", s, <<f>>, t, response)
  BY <1>13, <1>14, <1>15, SettlesByOne
<1>17. PICK G : G = <<f>>
  OBVIOUS
<1>18. Listed(G)
  BY <1>17, OneListed
<1>19. Settles("chat", At(d, a), F \o G, t, response)
  BY <1>9, <1>16, <1>17, <1>18, SettlesOn
<1>. QED BY <1>1, <1>6, <1>10, <1>17, <1>19

\* The counts, if they were asked for, and the sentinel.
LEMMA ChatCounts ==
  ASSUME NEW d, NEW nz, NEW n \in Nat, NEW ids, NEW inputs, NEW C, Listed(C), NEW o, NEW z,
         NEW u, u \in [1 .. 3 -> Nat], NEW none, none = <<>>,
         NEW p, p = Chunk(none, none, none, none, u), NEW status,
         NEW parts, CallsMade(parts, nz, n, ids, inputs),
         NEW response, response.content = C \o parts
  PROVE  Settles("chat", At(d, Ending(nz, Slots(n, ids, inputs), C, status, z, o)), <<ChatFrame(p)>>,
                         At(d, Ending(nz, Slots(n, ids, inputs), C, status, u, o)), response)
<1>1. PICK pending : pending = Slots(n, ids, inputs)
  OBVIOUS
<1>2. PICK a, b, s, t : /\ a = Ending(nz, pending, C, status, z, o)
                        /\ b = Ending(nz, pending, C, status, u, o)
                        /\ s = At(d, a) /\ t = At(d, b)
  OBVIOUS
<1>3. s.decoder = d /\ s.asm = a /\ t = [decoder |-> d, asm |-> b] /\ t.asm = b
  BY <1>2 DEF At
<1>4. PICK f : f = ChatFrame(p)
  OBVIOUS
<1>5. Decode("chat", d, f) = Yields(d, <<RawMeta("none", u)>>) /\ u # NoUsage
  BY <1>4, ChatTellsUsage
<1>6. LaterStatus(status, "none") = status /\ LaterUsage(z, u) = u
  BY <1>5 DEF LaterStatus, LaterUsage
<1>7. Quiet(Absorb(a, RawMeta("none", u)))
        = Ending(nz, pending, C, LaterStatus(status, "none"), LaterUsage(z, u), o)
  BY <1>2, MetaTold
<1>8. Quiet(Absorb(a, RawMeta("none", u))) = b
  BY <1>2, <1>6, <1>7
<1>9. Fed("chat", s, f) = [decoder |-> d, asm |-> Quiet(Absorb(a, RawMeta("none", u)))]
  BY <1>3, <1>5, FedOne
<1>10. Settled(s.asm, response) /\ Settled(t.asm, response)
  BY <1>1, <1>2, <1>3, ChatSettled
<1>11. t = Fed("chat", s, f)
  BY <1>3, <1>8, <1>9
<1>12. Settles("chat", s, <<f>>, t, response)
  BY <1>10, <1>11, SettlesByOne
<1>. QED BY <1>1, <1>2, <1>4, <1>12

LEMMA ChatSentinelEnds ==
  ASSUME NEW d, NEW nz, NEW n \in Nat, NEW ids, NEW inputs, NEW C, Listed(C), NEW o, NEW u, NEW status,
         NEW parts, CallsMade(parts, nz, n, ids, inputs), NEW content, content = C \o parts,
         NEW response, response = [content |-> content, status |-> status, usage |-> u]
  PROVE  Ends("chat", At(d, Ending(nz, Slots(n, ids, inputs), C, status, u, o)), <<ChatSentinel>>, response)
<1>1. PICK pending : pending = Slots(n, ids, inputs)
  OBVIOUS
<1>2. PICK a : a = Ending(nz, pending, C, status, u, o)
  OBVIOUS
<1>3. Assembled(Closed(a)) = response
  <2>1. ClosesTo(a, content, status, u)
    BY <1>1, <1>2, SlotsFlushed
  <2>. QED BY <2>1 DEF ClosesTo
<1>4. Decode("chat", d, ChatSentinel) = Ignores(d)
  BY ChatSentinelIgnored
<1>5. Ends("chat", At(d, a), <<ChatSentinel>>, response)
  BY <1>2, <1>3, <1>4, LastSaysNothing
<1>. QED BY <1>1, <1>2, <1>5

\* All chunks of a chat but the counts and the sentinel.
ChatSaid(r) == ChatTold(r.text, r.refusal, r.calls) \o <<[ChatChunk EXCEPT !.finish = <<r.finish>>]>>

LEMMA ChatChunksAre ==
  ASSUME NEW r
  PROVE  ChatChunks(r) = ChatSaid(r)
BY DEF ChatChunks, ChatSaid, ChatTold, ChatTexts, ChatRefusals, ChatBeginning, ChatFragments

LEMMA ChatFramesAre ==
  ASSUME NEW r, NEW s, s = ChatChunks(r), Listed(s), NEW none, none = <<>>,
         NEW nulls, nulls = IF r.usage = NoUsage THEN <<>> ELSE <<"null">>,
         NEW p, p = Chunk(none, none, none, none, r.usage)
  PROVE  /\ r.usage = NoUsage => ChatFrames(r) = FramesWith(nulls, s) \o <<ChatSentinel>>
         /\ r.usage # NoUsage =>
              ChatFrames(r) = (FramesWith(nulls, s) \o <<ChatFrame(p)>>) \o <<ChatSentinel>>
<1>1. CASE r.usage = NoUsage
  <2>1. \A c : Nulled(nulls, c) = c
    BY <1>1 DEF Nulled
  <2>2. FramesWith(nulls, s) = [k \in DOMAIN s |-> ChatFrame(s[k])]
    BY <2>1 DEF FramesWith
  <2>. QED BY <1>1, <2>2 DEF ChatFrames
<1>2. CASE r.usage # NoUsage
  <2>1. nulls # <<>>
    BY <1>2
  <2>2. \A c : Nulled(nulls, c) = [c EXCEPT !.usage = <<"null">>]
    BY <2>1 DEF Nulled
  <2>3. FramesWith(nulls, s) = [k \in DOMAIN s |-> ChatFrame([s[k] EXCEPT !.usage = <<"null">>])]
    BY <2>2 DEF FramesWith
  <2>4. [ChatChunk EXCEPT !.usage = r.usage] = p
    BY ChunkIs
  <2>. QED BY <1>2, <2>3, <2>4 DEF ChatFrames
<1>. QED BY <1>1, <1>2

LEMMA ChatPartsAre ==
  ASSUME NEW nz, \A args : Ended(nz, args) = IF args = <<>> THEN EmptyObject ELSE args,
         NEW calls, Listed(calls), NEW n \in Nat, n = Len(calls),
         NEW ids, \A k \in 1 .. n : ids[k] = calls[k].id,
         NEW inputs, \A k \in 1 .. n : inputs[k] = calls[k].input
  PROVE  CallsMade([k \in DOMAIN calls |-> ChatCall(calls[k])], nz, n, ids, inputs)
<1>1. PICK parts : parts = [k \in DOMAIN calls |-> ChatCall(calls[k])]
  OBVIOUS
<1>2. DOMAIN calls = 1 .. n
  BY ListHas
<1>3. parts = [k \in 1 .. n |-> parts[k]] /\ \A k \in 1 .. n : parts[k] = ChatCall(calls[k])
  BY <1>1, <1>2
<1>4. Listed(parts) /\ Len(parts) = n
  BY <1>3, MappedList
<1>5. \A k \in 1 .. n : parts[k] = CallPart(ids[k], Ended(nz, inputs[k]))
  BY <1>3 DEF ChatCall
<1>. QED BY <1>1, <1>4, <1>5 DEF CallsMade

LEMMA ChatEnds ==
  ASSUME NEW nz, NEW no, no = FALSE, NEW r, IsChatAnswer(r),
         \A args : Ended(nz, args) = IF args = <<>> THEN EmptyObject ELSE args
  PROVE  /\ Listed(ChatFrames(r))
         /\ Ends("chat", At(ChatDecoder, Held(nz, <<>>, <<>>, NoUsage, no)),
                 ChatFrames(r), ChatParse(r))
<1>1. PICK d, text, refusal, calls, reason, usage :
        /\ d = ChatDecoder /\ text = r.text /\ refusal = r.refusal /\ calls = r.calls
        /\ reason = r.finish /\ usage = r.usage
  OBVIOUS
<1>2. /\ Listed(text) /\ Listed(refusal) /\ Listed(calls)
      /\ \A k \in DOMAIN calls : Listed(calls[k].input)
      /\ usage = NoUsage \/ usage \in [1 .. 3 -> Nat]
  <2>1. /\ IsList(text) /\ IsList(refusal) /\ IsList(calls)
        /\ \A call \in Range(calls) : IsList(call.input)
        /\ usage = NoUsage \/ usage \in [1 .. 3 -> Nat]
    BY <1>1 DEF IsChatAnswer
  <2>2. \A k \in DOMAIN calls : calls[k] \in Range(calls)
    BY DEF Range
  <2>. QED BY <2>1, <2>2 DEF IsList, Listed
<1>3. PICK n \in Nat : n = Len(calls)
  BY <1>2, ListHas
<1>4. DOMAIN calls = 1 .. n
  BY <1>2, <1>3, ListHas
<1>5. PICK ids, inputs : ids = [k \in 1 .. n |-> calls[k].id] /\ inputs = [k \in 1 .. n |-> calls[k].input]
  OBVIOUS
<1>6. \A k \in 1 .. n : ids[k] = calls[k].id
  BY <1>5
<1>7. \A k \in 1 .. n : inputs[k] = calls[k].input
  BY <1>5
<1>8. \A k \in 1 .. n : Listed(inputs[k])
  BY <1>2, <1>4, <1>7
<1>9. PICK parts, C, content, status :
        /\ parts = [k \in DOMAIN calls |-> ChatCall(calls[k])]
        /\ C = Spoken(text, refusal) /\ content = C \o parts /\ status = ChatStatus(reason)
  OBVIOUS
<1>10. CallsMade(parts, nz, n, ids, inputs)
  BY <1>2, <1>3, <1>6, <1>7, <1>9, ChatPartsAre
<1>11. PICK response : response = [content |-> content, status |-> status, usage |-> usage]
  OBVIOUS
<1>12. ChatParse(r) = response
  BY <1>1, <1>9, <1>11 DEF ChatParse, Spoken
<1>13. response.content = C \o parts
  BY <1>9, <1>11
<1>14. PICK none, one, nulls : /\ none = <<>> /\ one = <<reason>>
                               /\ nulls = IF usage = NoUsage THEN <<>> ELSE <<"null">>
  OBVIOUS
<1>15. IsNulls(nulls)
  BY <1>14 DEF IsNulls
<1>16. PICK z : z = ChatUsage(nulls)
  OBVIOUS
<1>17. PICK a, told : a = Held(nz, <<>>, <<>>, NoUsage, no) /\ told = ChatTold(text, refusal, calls)
  OBVIOUS
<1>18. /\ Listed(told) /\ Listed(C)
       /\ \E o : Reaches(d, z, a, FramesWith(nulls, told), Held(nz, Slots(n, ids, inputs), C, NoUsage, o))
  <2>1. /\ Listed(told) /\ Listed(C)
        /\ \E o : Reaches(d, z, Held(nz, <<>>, <<>>, NoUsage, no), FramesWith(nulls, told),
                          Held(nz, Slots(n, ids, inputs), C, NoUsage, o))
    <3>1. CallsAre(calls, n, ids, inputs)
      BY <1>2, <1>3, <1>6, <1>7, <1>8 DEF CallsAre
    <3>2. Listed(text) /\ Listed(refusal) /\ C = Spoken(text, refusal) /\ told = ChatTold(text, refusal, calls)
      BY <1>2, <1>9, <1>17
    <3>3. Listed(told) /\ Listed(C) /\ ReachesOpenOrNot(d, z, Held(nz, <<>>, <<>>, NoUsage, no), FramesWith(nulls, told),
                nz, Slots(n, ids, inputs), C, NoUsage)
      BY <1>15, <1>16, <3>1, <3>2, ChatToldReaches
    <3>. QED BY <3>3 DEF ReachesOpenOrNot
  <2>. QED BY <1>17, <2>1
<1>19. PICK o : Reaches(d, z, a, FramesWith(nulls, told), Held(nz, Slots(n, ids, inputs), C, NoUsage, o))
  BY <1>18
<1>20. DOMAIN a = AsmFields /\ a.usage = NoUsage /\ a = With(a, NoUsage)
  BY <1>17, HeldHas, HeldWith
<1>21. PICK F : F = FramesWith(nulls, told)
  OBVIOUS
<1>22. Listed(F)
  BY <1>18, <1>21, FramesWithListed
<1>23. PICK p, f : p = Chunk(none, none, none, one, nulls) /\ f = ChatFrame(p)
  OBVIOUS
<1>24. PICK s : s = At(d, a)
  OBVIOUS
<1>25. PICK E : E = Ending(nz, Slots(n, ids, inputs), C, status, z, o)
  OBVIOUS
<1>26. Settles("chat", s, F \o <<f>>, At(d, E), response)
  <2>1. Reaches(d, z, a, F, Held(nz, Slots(n, ids, inputs), C, NoUsage, o))
    BY <1>19, <1>21
  <2>2. Settles("chat", At(d, a), F \o <<ChatFrame(p)>>,
                At(d, Ending(nz, Slots(n, ids, inputs), C, status, z, o)), response)
    <3>1. none = <<>> /\ one = <<reason>> /\ p = Chunk(none, none, none, one, nulls)
      BY <1>14, <1>23
    <3>2. status = ChatStatus(reason) /\ Listed(C)
      BY <1>9, <1>18
    <3>. QED BY <1>10, <1>13, <1>15, <1>16, <1>20, <1>22, <2>1, <3>1, <3>2, ChatFinishes
  <2>. QED BY <1>23, <1>24, <1>25, <2>2
<1>27. PICK said : said = ChatSaid(r)
  OBVIOUS
<1>28. Listed(said) /\ FramesWith(nulls, said) = F \o <<f>>
  <2>1. PICK last, list : last = [ChatChunk EXCEPT !.finish = one] /\ list = <<last>>
    OBVIOUS
  <2>2. said = told \o list
    BY <1>1, <1>14, <1>17, <1>27, <2>1 DEF ChatSaid
  <2>3. Listed(list)
    BY <2>1, OneListed
  <2>4. last = Chunk(none, none, none, one, none)
    BY <1>14, <2>1, ChunkIs
  <2>5. Nulled(nulls, last) = p
    BY <1>14, <1>15, <1>23, <2>4, NulledIs
  <2>6. FramesWith(nulls, list) = <<f>>
    BY <1>23, <2>1, <2>5, FramesWithOne
  <2>7. Listed(told \o list)
    BY <1>18, <2>3, Joined
  <2>8. FramesWith(nulls, told \o list) = FramesWith(nulls, told) \o FramesWith(nulls, list)
    BY <1>18, <2>3, FramesWithJoin
  <2>. QED BY <1>21, <2>2, <2>6, <2>7, <2>8
<1>29. PICK G, S : G = F \o <<f>> /\ S = <<ChatSentinel>>
  OBVIOUS
<1>30. Listed(G) /\ Listed(S)
  BY <1>22, <1>29, ListedAndOne, OneListed
<1>31. PICK q, u : q = Chunk(none, none, none, none, usage) /\ u = ChatFrame(q)
  OBVIOUS
<1>32. /\ usage = NoUsage => ChatFrames(r) = G \o S
       /\ usage # NoUsage => ChatFrames(r) = (G \o <<u>>) \o S
  <2>1. said = ChatChunks(r)
    BY <1>27, ChatChunksAre
  <2>2. PICK t, W : t = ChatChunks(r) /\ W = ChatFrames(r)
    OBVIOUS
  <2>3. Listed(t) /\ FramesWith(nulls, t) = G
    BY <1>28, <1>29, <2>1, <2>2
  <2>4. nulls = (IF r.usage = NoUsage THEN <<>> ELSE <<"null">>) /\ q = Chunk(none, none, none, none, r.usage)
    BY <1>1, <1>14, <1>31
  <2>5. /\ r.usage = NoUsage => W = FramesWith(nulls, t) \o <<ChatSentinel>>
        /\ r.usage # NoUsage =>
             W = (FramesWith(nulls, t) \o <<ChatFrame(q)>>) \o <<ChatSentinel>>
    <3>1. none = <<>> /\ Listed(t)
      BY <1>14, <2>3
    <3>. QED BY <2>2, <2>4, <3>1, ChatFramesAre
  <2>6. /\ r.usage = NoUsage => W = G \o <<ChatSentinel>>
        /\ r.usage # NoUsage => W = (G \o <<ChatFrame(q)>>) \o <<ChatSentinel>>
    BY <2>3, <2>5
  <2>. QED BY <1>1, <1>29, <1>31, <2>2, <2>6
<1>33. CASE usage = NoUsage
  <2>1. z = usage
    BY <1>14, <1>15, <1>16, <1>33, NullsCount
  <2>2. Ends("chat", At(d, E), S, response)
    BY <1>9, <1>10, <1>11, <1>18, <1>25, <1>29, <2>1, ChatSentinelEnds
  <2>3. Ends("chat", s, G \o S, response)
    BY <1>26, <1>29, <1>30, <2>2, SettlesToEnd
  <2>4. Listed(G \o S)
    BY <1>30, Joined
  <2>. QED BY <1>1, <1>12, <1>17, <1>24, <1>32, <1>33, <2>3, <2>4
<1>34. CASE usage # NoUsage
  <2>1. usage \in [1 .. 3 -> Nat]
    BY <1>2, <1>34
  <2>2. PICK L : L = Ending(nz, Slots(n, ids, inputs), C, status, usage, o)
    OBVIOUS
  <2>3. PICK one2 : one2 = <<u>>
    OBVIOUS
  <2>4. Settles("chat", At(d, E), one2, At(d, L), response)
    BY <1>10, <1>13, <1>14, <1>18, <1>25, <1>31, <2>1, <2>2, <2>3, ChatCounts
  <2>5. Listed(one2)
    BY <2>3, OneListed
  <2>6. Settles("chat", s, G \o one2, At(d, L), response)
    BY <1>26, <1>29, <1>30, <2>4, <2>5, SettlesOn
  <2>7. Ends("chat", At(d, L), S, response)
    BY <1>9, <1>10, <1>11, <1>18, <1>29, <2>2, ChatSentinelEnds
  <2>8. PICK H : H = G \o one2
    OBVIOUS
  <2>9. Listed(H) /\ Listed(H \o S)
    BY <1>30, <2>5, <2>8, Joined
  <2>10. Ends("chat", s, H \o S, response)
    BY <1>30, <2>6, <2>7, <2>8, <2>9, SettlesToEnd
  <2>. QED BY <1>1, <1>12, <1>17, <1>24, <1>32, <1>34, <2>3, <2>8, <2>9, <2>10
<1>. QED BY <1>33, <1>34

-----------------------------------------------------------------------------
(* Every answer *)

LEMMA StartIs ==
  ASSUME NEW dialect, NEW no, no = FALSE
  PROVE  Start(dialect) = At(NewDecoder(dialect), Held(Normalizes(dialect), <<>>, <<>>, NoUsage, no))
BY DEF Start, At, Held, NewAssembler, InitialStatus

LEMMA SortedEnds ==
  ASSUME NEW nz, nz = TRUE
  PROVE  \A args : IsSpelled(args) => Ended(nz, args) = Canonical(args)
BY EndedSorted

LEMMA WrittenEnds ==
  ASSUME NEW nz, nz = FALSE
  PROVE  /\ \A args : args # <<>> => Ended(nz, args) = args
         /\ \A args : Ended(nz, args) = IF args = <<>> THEN EmptyObject ELSE args
BY DEF Ended

AnswerFrames(a) ==
  CASE a.dialect = "anthropic" -> AnthropicFrames(a.answer)
    [] a.dialect = "gemini"    -> GeminiFrames(a.answer)
    [] a.dialect = "chat"      -> ChatFrames(a.answer)
    [] a.dialect = "responses" -> ResponsesFrames(a.answer)

LEMMA FramesEnd ==
  ASSUME NEW a, a.dialect \in Dialects, IsAnswer(a)
  PROVE  /\ Listed(AnswerFrames(a))
         /\ Ends(a.dialect, Start(a.dialect), AnswerFrames(a), Parse(a.dialect, a.answer))
<1>1. PICK dialect, r : dialect = a.dialect /\ r = a.answer
  OBVIOUS
<1>2. PICK no : no = FALSE
  OBVIOUS
<1>3. PICK nz : nz = Normalizes(dialect)
  OBVIOUS
<1>4. Start(dialect) = At(NewDecoder(dialect), Held(nz, <<>>, <<>>, NoUsage, no))
  BY <1>2, <1>3, StartIs
<1>5. CASE dialect = "anthropic"
  <2>1. nz = TRUE
    BY <1>3, <1>5 DEF Normalizes
  <2>2. \A args : IsSpelled(args) => Ended(nz, args) = Canonical(args)
    BY <2>1, SortedEnds
  <2>3. IsAnthropicAnswer(r)
    BY <1>1, <1>5 DEF IsAnswer
  <2>4. NewDecoder(dialect) = AnthropicDecoder /\ Parse(dialect, r) = AnthropicParse(r)
    BY <1>5 DEF NewDecoder, Parse
  <2>5. AnswerFrames(a) = AnthropicFrames(r)
    BY <1>1, <1>5 DEF AnswerFrames
  <2>6. /\ Listed(AnthropicFrames(r))
        /\ Ends("anthropic", At(AnthropicDecoder, Held(nz, <<>>, <<>>, NoUsage, no)),
                 AnthropicFrames(r), AnthropicParse(r))
    BY <1>2, <2>2, <2>3, AnthropicEnds
  <2>. QED BY <1>1, <1>4, <1>5, <2>4, <2>5, <2>6
<1>6. CASE dialect = "gemini"
  <2>1. nz = TRUE
    BY <1>3, <1>6 DEF Normalizes
  <2>2. \A args : IsSpelled(args) => Ended(nz, args) = Canonical(args)
    BY <2>1, SortedEnds
  <2>3. IsInteraction(r)
    BY <1>1, <1>6 DEF IsAnswer
  <2>4. NewDecoder(dialect) = GeminiDecoder /\ Parse(dialect, r) = GeminiParse(r)
    BY <1>6 DEF NewDecoder, Parse
  <2>5. AnswerFrames(a) = GeminiFrames(r)
    BY <1>1, <1>6 DEF AnswerFrames
  <2>6. /\ Listed(GeminiFrames(r))
        /\ Ends("gemini", At(GeminiDecoder, Held(nz, <<>>, <<>>, NoUsage, no)),
                 GeminiFrames(r), GeminiParse(r))
    BY <1>2, <2>2, <2>3, GeminiEnds
  <2>. QED BY <1>1, <1>4, <1>6, <2>4, <2>5, <2>6
<1>7. CASE dialect = "chat"
  <2>1. nz = FALSE
    <3>1. Normalizes(dialect) = FALSE
      BY <1>7 DEF Normalizes
    <3>. QED BY <1>3, <3>1
  <2>2. \A args : Ended(nz, args) = IF args = <<>> THEN EmptyObject ELSE args
    BY <2>1, WrittenEnds
  <2>3. IsChatAnswer(r)
    BY <1>1, <1>7 DEF IsAnswer
  <2>4. NewDecoder(dialect) = ChatDecoder /\ Parse(dialect, r) = ChatParse(r)
    BY <1>7 DEF NewDecoder, Parse
  <2>5. AnswerFrames(a) = ChatFrames(r)
    BY <1>1, <1>7 DEF AnswerFrames
  <2>6. /\ Listed(ChatFrames(r))
        /\ Ends("chat", At(ChatDecoder, Held(nz, <<>>, <<>>, NoUsage, no)),
                 ChatFrames(r), ChatParse(r))
    BY <1>2, <2>2, <2>3, ChatEnds
  <2>. QED BY <1>1, <1>4, <1>7, <2>4, <2>5, <2>6
<1>8. CASE dialect = "responses"
  <2>1. nz = FALSE
    <3>1. Normalizes(dialect) = FALSE
      BY <1>8 DEF Normalizes
    <3>. QED BY <1>3, <3>1
  <2>2. \A args : args # <<>> => Ended(nz, args) = args
    BY <2>1, WrittenEnds
  <2>3. IsResponse(r)
    BY <1>1, <1>8 DEF IsAnswer
  <2>4. NewDecoder(dialect) = ResponsesDecoder /\ Parse(dialect, r) = ResponsesParse(r)
    BY <1>8 DEF NewDecoder, Parse
  <2>5. AnswerFrames(a) = ResponsesFrames(r)
    BY <1>1, <1>8 DEF AnswerFrames
  <2>6. /\ Listed(ResponsesFrames(r))
        /\ Ends("responses", At(ResponsesDecoder, Held(nz, <<>>, <<>>, NoUsage, no)),
                 ResponsesFrames(r), ResponsesParse(r))
    BY <1>2, <2>2, <2>3, ResponsesEnds
  <2>. QED BY <1>1, <1>4, <1>8, <2>4, <2>5, <2>6
<1>. QED BY <1>1, <1>5, <1>6, <1>7, <1>8 DEF Dialects

LEMMA AnswerEnds ==
  ASSUME NEW a \in Answers
  PROVE  /\ Listed(FramesOf(a))
         /\ Ends(a.dialect, Start(a.dialect), FramesOf(a), Parse(a.dialect, a.answer))
<1>1. a.dialect \in Dialects /\ IsAnswer(a)
  BY AnswersAreFramed, AnswersAreDocumented DEF Dialects
<1>2. PICK dialect, F, response : /\ dialect = a.dialect /\ F = AnswerFrames(a)
                                  /\ response = Parse(dialect, a.answer)
  OBVIOUS
<1>3. Listed(F) /\ Ends(dialect, Start(dialect), F, response)
  BY <1>1, <1>2, FramesEnd
<1>4. PICK G : G = <<KeepAlive>>
  OBVIOUS
<1>5. Listed(G)
  BY <1>4, OneListed
<1>6. FramesOf(a) = G \o F
  BY <1>2, <1>4 DEF FramesOf, AnswerFrames
<1>7. PICK d, nz, no, h : /\ d = NewDecoder(dialect) /\ nz = Normalizes(dialect) /\ no = FALSE
                          /\ h = Held(nz, <<>>, <<>>, NoUsage, no)
  OBVIOUS
<1>8. Start(dialect) = At(d, h)
  BY <1>7, StartIs
<1>9. Decode(dialect, d, KeepAlive) = Ignores(d)
  <2>1. ~HasPayload(KeepAlive)
    BY DEF HasPayload, KeepAlive
  <2>. QED BY <2>1 DEF Decode
<1>10. KeptOf(Decode(dialect, d, KeepAlive), d)
  BY <1>9 DEF KeptOf
<1>11. Leads(dialect, At(d, h), <<KeepAlive>>, At(d, h))
  BY <1>7, <1>10, OneKept
<1>12. Ends(dialect, At(d, h), G \o F, response)
  BY <1>3, <1>4, <1>5, <1>8, <1>11, LeadsToEnd
<1>13. Listed(G \o F)
  BY <1>3, <1>5, Joined
<1>. QED BY <1>2, <1>6, <1>8, <1>12, <1>13

-----------------------------------------------------------------------------
(* What was sent, decoded as far as it has come *)

\* A failure that is reported changes nothing that was told.
LEMMA ErrorSaysNothing ==
  ASSUME NEW a, a.dialect \in Dialects, NEW d
  PROVE  Decode(a.dialect, d, ErrorOf(a)).deltas = <<>>
<1>1. PICK dialect, f : dialect = a.dialect /\ f = ErrorOf(a)
  OBVIOUS
<1>2. CASE dialect = "anthropic"
  <2>1. f = Frame("error", [index |-> 0])
    BY <1>1, <1>2 DEF ErrorOf, AnthropicError
  <2>2. HasPayload(f) /\ f.event = "error"
    BY <2>1 DEF HasPayload, Frame
  <2>3. Decode(dialect, d, f) = AnthropicDecode(d, f)
    BY <1>2, <2>2 DEF Decode
  <2>4. AnthropicDecode(d, f) = Fails(d)
    BY <2>2 DEF AnthropicDecode
  <2>. QED BY <1>1, <2>3, <2>4 DEF Fails
<1>3. CASE dialect = "gemini"
  <2>1. f = Frame("none", [event |-> "error", index |-> 0])
    BY <1>1, <1>3 DEF ErrorOf, GeminiError
  <2>2. HasPayload(f) /\ Payload(f).event = "error"
    BY <2>1 DEF HasPayload, Payload, Frame
  <2>3. Decode(dialect, d, f) = GeminiDecode(d, f)
    BY <1>3, <2>2 DEF Decode
  <2>4. GeminiDecode(d, f) = Ignores(d) \/ GeminiDecode(d, f) = Fails(d)
    BY <2>2 DEF GeminiDecode
  <2>. QED BY <1>1, <2>3, <2>4 DEF Fails, Ignores, Yields
<1>4. CASE dialect = "responses"
  <2>1. f = Frame("error", [index |-> 0])
    BY <1>1, <1>4 DEF ErrorOf, ResponsesError
  <2>2. HasPayload(f) /\ f.event = "error"
    BY <2>1 DEF HasPayload, Frame
  <2>3. Decode(dialect, d, f) = ResponsesDecode(d, f)
    BY <1>4, <2>2 DEF Decode
  <2>4. ResponsesDecode(d, f) = Fails(d)
    BY <2>2 DEF ResponsesDecode
  <2>. QED BY <1>1, <2>3, <2>4 DEF Fails
<1>5. CASE dialect = "chat"
  <2>1. PICK p : p = [ChatChunk EXCEPT !.error = TRUE]
    OBVIOUS
  <2>2. f = Frame("none", p)
    BY <1>1, <1>5, <2>1 DEF ErrorOf, ChatError, ChatFrame
  <2>3. p.error = TRUE
    BY <2>1 DEF ChatChunk
  <2>4. HasPayload(f) /\ Payload(f) = p
    BY <2>2 DEF HasPayload, Payload, Frame
  <2>5. Decode(dialect, d, f) = ChatDecode(d, f)
    BY <1>5, <2>4 DEF Decode
  <2>6. ChatDecode(d, f) = Ignores(d) \/ ChatDecode(d, f) = Fails(d)
    <3>1. CASE f = ChatSentinel
      BY <3>1 DEF ChatDecode
    <3>2. CASE f # ChatSentinel
      BY <2>3, <2>4, <3>2 DEF ChatDecode
    <3>. QED BY <3>1, <3>2
  <2>. QED BY <1>1, <2>5, <2>6 DEF Fails, Ignores, Yields
<1>. QED BY <1>1, <1>2, <1>3, <1>4, <1>5 DEF Dialects

\* frames, decoded from the start, lead to t.
Comes(dialect, frames, t) == \E p : Runs(p, dialect, Start(dialect), frames, t)

LEMMA ComesAtFirst ==
  ASSUME NEW dialect
  PROVE  Comes(dialect, <<>>, Start(dialect))
<1>1. PICK s, none : s = Start(dialect) /\ none = <<>>
  OBVIOUS
<1>2. PICK p : p = [k \in 0 .. 0 |-> s]
  OBVIOUS
<1>3. Len(none) = 0 /\ p[0] = s
  BY <1>1, <1>2, Nothing
<1>4. Path(p, dialect, none)
  BY <1>3 DEF Path
<1>. QED BY <1>1, <1>3, <1>4 DEF Comes, Runs

LEMMA ComesOn ==
  ASSUME NEW dialect, NEW F, Listed(F), NEW t, Comes(dialect, F, t), NEW f, NEW u, u = Fed(dialect, t, f)
  PROVE  Comes(dialect, Append(F, f), u)
<1>1. PICK G : G = <<f>>
  OBVIOUS
<1>2. Listed(G) /\ Len(G) = 1 /\ G[1] = f
  BY <1>1, OneListed
<1>3. PICK q : q = [k \in 0 .. 1 |-> IF k = 0 THEN t ELSE u]
  OBVIOUS
<1>4. q[0] = t /\ q[1] = u /\ (\A k \in 1 .. 1 : k = 1 /\ k - 1 = 0)
  BY <1>3
<1>5. Path(q, dialect, G)
  BY <1>2, <1>4 DEF Path
<1>6. Runs(q, dialect, t, G, u)
  BY <1>2, <1>4, <1>5 DEF Runs
<1>7. PICK m \in Nat, n \in Nat : m = Len(F) /\ n = Len(G)
  BY <1>2, ListHas
<1>8. PICK s : s = Start(dialect)
  OBVIOUS
<1>9. PICK p : Runs(p, dialect, s, F, t)
  BY <1>8 DEF Comes
<1>10. \E r : Runs(r, dialect, s, F \o G, u) /\ Chained(r, p, m, q, n)
  BY <1>2, <1>6, <1>7, <1>9, RunsOn
<1>11. Append(F, f) = F \o G
  BY <1>1, JoinedWithOne
<1>. QED BY <1>8, <1>10, <1>11 DEF Comes

\* A path is at rest between two frames.
LEMMA QuietTwice ==
  ASSUME NEW a
  PROVE  Quiet(Quiet(a)) = Quiet(a)
BY DEF Quiet

LEMMA AtRest ==
  ASSUME NEW a, DOMAIN a = AsmFields, a = [x \in AsmFields |-> a[x]], a.out = <<>>
  PROVE  Quiet(a) = a
BY DEF Quiet

LEMMA PathIsQuiet ==
  ASSUME NEW dialect, NEW frames, NEW m \in Nat, m = Len(frames),
         NEW p, Path(p, dialect, frames), p[0] = Start(dialect)
  PROVE  \A k \in 0 .. m : p[k].asm = Quiet(p[k].asm)
<1>. TAKE k \in 0 .. m
<1>1. CASE k = 0
  <2>1. PICK a : a = NewAssembler(Normalizes(dialect))
    OBVIOUS
  <2>2. p[k].asm = a
    BY <1>1, <2>1 DEF Start
  <2>3. DOMAIN a = AsmFields /\ a = [x \in AsmFields |-> a[x]] /\ a.out = <<>>
    BY <2>1 DEF NewAssembler, AsmFields
  <2>4. Quiet(a) = a
    BY <2>3, AtRest
  <2>. QED BY <2>2, <2>4
<1>2. CASE k # 0
  <2>1. k \in 1 .. m
    BY <1>2
  <2>2. p[k] = Fed(dialect, p[k - 1], frames[k])
    BY <2>1 DEF Path
  <2>3. PICK b : b = AbsorbAll(p[k - 1].asm, Decode(dialect, p[k - 1].decoder, frames[k]).deltas)
    OBVIOUS
  <2>4. p[k].asm = Quiet(b)
    BY <2>2, <2>3 DEF Fed
  <2>. QED BY <2>4, QuietTwice
<1>. QED BY <1>1, <1>2

\* The same frames lead the same way.
PathUpTo(p, dialect, frames, j) == \A k \in 1 .. j : p[k] = Fed(dialect, p[k - 1], frames[k])

AlikeUpTo(F, G, j) == \A k \in 1 .. j : F[k] = G[k]

LEMMA SameWay ==
  ASSUME NEW dialect, NEW F, NEW G, NEW j \in Nat, AlikeUpTo(F, G, j),
         NEW p, NEW q, p[0] = q[0], PathUpTo(p, dialect, F, j), PathUpTo(q, dialect, G, j)
  PROVE  p[j] = q[j]
<1>. DEFINE Good == {k \in 0 .. j : p[k] = q[k]}
<1>1. 0 \in Good
  OBVIOUS
<1>2. ASSUME NEW k \in 1 .. j, k - 1 \in Good PROVE k \in Good
  <2>1. p[k - 1] = q[k - 1] /\ F[k] = G[k] /\ k \in 0 .. j
    BY <1>2 DEF AlikeUpTo
  <2>2. p[k] = Fed(dialect, p[k - 1], F[k])
    BY DEF PathUpTo
  <2>3. q[k] = Fed(dialect, q[k - 1], G[k])
    BY DEF PathUpTo
  <2>. QED BY <2>1, <2>2, <2>3
<1>3. \A k \in 1 .. j : k - 1 \in Good => k \in Good
  BY <1>2
<1>4. \A k \in 0 .. j : k \in Good
  <2>. HIDE DEF Good
  <2>. QED BY <1>1, <1>3, CountingUp
<1>5. j \in 0 .. j
  OBVIOUS
<1>. QED BY <1>4, <1>5

\* The first n frames of the answer a are sent, and perhaps a failure after them.
SentOf(snt, a, n) ==
  /\ snt.dialect = a.dialect /\ snt.answer = a.answer
  /\ Len(snt.frames) \in Nat
  /\ \A k \in 1 .. Len(snt.frames) :
       \/ k <= n /\ snt.frames[k] = FramesOf(a)[k]
       \/ k = n + 1 /\ snt.frames[k] = ErrorOf(a)
  /\ snt.fault = "none" => snt.frames = FramesOf(a)

\* dec are the first of the frames sent.
FirstOf(dec, frames) ==
  Listed(dec) /\ Len(dec) <= Len(frames) /\ \A k \in 1 .. Len(dec) : dec[k] = frames[k]

\* Wherever it stops, what has come of an answer has settled, and all of it makes
\* the response.
LEMMA FirstOfAnswer ==
  ASSUME NEW a \in Answers, NEW snt, NEW n \in 0 .. Len(FramesOf(a)), SentOf(snt, a, n),
         NEW dec, FirstOf(dec, snt.frames), NEW response, response = Parse(a.dialect, a.answer),
         NEW t, Comes(a.dialect, dec, t)
  PROVE  /\ Settled(t.asm, response)
         /\ dec = FramesOf(a) => Assembled(Closed(t.asm)) = response
<1>1. PICK dialect, F, s : dialect = a.dialect /\ F = FramesOf(a) /\ s = Start(dialect)
  OBVIOUS
<1>2. Listed(F) /\ Ends(dialect, s, F, response)
  BY <1>1, AnswerEnds
<1>3. PICK N \in Nat : N = Len(F)
  BY <1>2, ListHas
<1>4. PICK u : Settles(dialect, s, F, u, response) /\ Assembled(Closed(u.asm)) = response
  BY <1>2 DEF Ends
<1>5. PICK p : Runs(p, dialect, s, F, u) /\ \A k \in 0 .. N : Settled(p[k].asm, response)
  BY <1>3, <1>4 DEF Settles
<1>6. /\ p[0] = s /\ p[N] = u
      /\ \A k \in 1 .. N : p[k] = Fed(dialect, p[k - 1], F[k])
  BY <1>3, <1>5 DEF Runs, Path
<1>7. PICK m \in Nat : m = Len(dec)
  BY ListHas DEF FirstOf
<1>8. PICK q : Runs(q, dialect, s, dec, t)
  BY <1>1 DEF Comes
<1>9. /\ q[0] = s /\ q[m] = t /\ Path(q, dialect, dec)
      /\ \A k \in 1 .. m : q[k] = Fed(dialect, q[k - 1], dec[k])
  BY <1>7, <1>8 DEF Runs, Path
<1>10. n \in Nat /\ n <= N
  BY <1>1, <1>3
<1>11. ASSUME NEW k \in 1 .. m
       PROVE  (k <= n /\ dec[k] = F[k]) \/ (k = n + 1 /\ dec[k] = ErrorOf(a))
  <2>1. k \in 1 .. Len(snt.frames) /\ dec[k] = snt.frames[k]
    <3>1. m <= Len(snt.frames) /\ dec[k] = snt.frames[k]
      BY <1>7 DEF FirstOf
    <3>2. Len(snt.frames) \in Nat
      BY DEF SentOf
    <3>. QED BY <3>1, <3>2
  <2>. QED BY <1>1, <2>1 DEF SentOf
<1>12. ASSUME NEW j \in Nat, j <= m, j <= n PROVE q[j] = p[j]
  <2>1. AlikeUpTo(dec, F, j)
    <3>1. \A k \in 1 .. j : k \in 1 .. m /\ k # n + 1
      BY <1>10, <1>12
    <3>. QED BY <1>11, <3>1 DEF AlikeUpTo
  <2>2. PathUpTo(q, dialect, dec, j)
    <3>1. \A k \in 1 .. j : k \in 1 .. m
      BY <1>12
    <3>. QED BY <1>9, <3>1 DEF PathUpTo
  <2>3. PathUpTo(p, dialect, F, j)
    <3>1. \A k \in 1 .. j : k \in 1 .. N
      BY <1>10, <1>12
    <3>. QED BY <1>6, <3>1 DEF PathUpTo
  <2>4. q[0] = p[0]
    BY <1>6, <1>9
  <2>. QED BY <2>1, <2>2, <2>3, <2>4, SameWay
<1>13. ASSUME dec = FramesOf(a) PROVE Assembled(Closed(t.asm)) = response
  <2>1. m = N /\ dec = F
    BY <1>1, <1>3, <1>7, <1>13
  <2>2. AlikeUpTo(dec, F, m)
    BY <2>1 DEF AlikeUpTo
  <2>3. PathUpTo(q, dialect, dec, m) /\ PathUpTo(p, dialect, F, m)
    BY <1>6, <1>9, <2>1 DEF PathUpTo
  <2>4. q[0] = p[0]
    BY <1>6, <1>9
  <2>5. q[m] = p[m]
    BY <2>2, <2>3, <2>4, SameWay
  <2>. QED BY <1>4, <1>6, <1>9, <2>1, <2>5
<1>14. CASE m <= n
  <2>1. t = p[m] /\ m \in 0 .. N
    BY <1>9, <1>10, <1>12, <1>14
  <2>2. Settled(t.asm, response)
    BY <1>5, <2>1
  <2>. QED BY <1>13, <2>2
<1>15. CASE ~(m <= n)
  <2>1. m \in 1 .. m /\ m = n + 1 /\ dec[m] = ErrorOf(a)
    <3>1. m \in 1 .. m
      BY <1>10, <1>15
    <3>. QED BY <1>11, <1>15, <3>1
  <2>2. m - 1 = n /\ n <= m
    BY <1>10, <2>1
  <2>3. PICK v : v = q[n]
    OBVIOUS
  <2>4. v = p[n]
    BY <1>10, <1>12, <2>2, <2>3
  <2>5. t = Fed(dialect, v, ErrorOf(a))
    BY <1>9, <2>1, <2>2, <2>3
  <2>6. Decode(dialect, v.decoder, ErrorOf(a)).deltas = <<>>
    <3>1. a.dialect \in Dialects
      BY AnswersAreFramed DEF Dialects
    <3>. QED BY <1>1, <3>1, ErrorSaysNothing
  <2>7. t.asm = Quiet(v.asm)
    <3>1. AbsorbAll(v.asm, <<>>) = v.asm
      BY AbsorbNone
    <3>2. t.asm = Quiet(AbsorbAll(v.asm, Decode(dialect, v.decoder, ErrorOf(a)).deltas))
      BY <2>5 DEF Fed
    <3>. QED BY <2>6, <3>1, <3>2
  <2>8. v.asm = Quiet(v.asm)
    <3>1. \A k \in 0 .. m : q[k].asm = Quiet(q[k].asm)
      BY <1>1, <1>7, <1>9, PathIsQuiet
    <3>2. n \in 0 .. m
      BY <1>10, <2>2
    <3>. QED BY <2>3, <3>1, <3>2
  <2>9. Settled(t.asm, response)
    <3>1. n \in 0 .. N
      BY <1>10
    <3>2. Settled(p[n].asm, response)
      BY <1>5, <3>1
    <3>. QED BY <2>4, <2>7, <2>8, <3>2
  <2>. QED BY <1>13, <2>9
<1>. QED BY <1>14, <1>15

\* Calls that are finished leave the status alone, and so does the end of the body.
SameStatus(a, b) == DOMAIN b = AsmFields /\ b.status = a.status

LEMMA FinishCallKeepsStatus ==
  ASSUME NEW a, DOMAIN a = AsmFields, NEW slot
  PROVE  SameStatus(a, FinishCall(a, slot))
<1>1. PICK b : b = FinishCall(a, slot)
  OBVIOUS
<1>2. CASE slot \notin DOMAIN a.pending
  <2>1. b = a
    BY <1>1, <1>2 DEF FinishCall
  <2>. QED BY <1>1, <2>1 DEF SameStatus
<1>3. CASE slot \in DOMAIN a.pending
  <2>1. \E x, y, z : b = [a EXCEPT !.pending = x, !.captured = y, !.out = z]
    BY <1>1, <1>3 DEF FinishCall
  <2>2. PICK x, y, z : b = [a EXCEPT !.pending = x, !.captured = y, !.out = z]
    BY <2>1
  <2>3. DOMAIN b = AsmFields /\ b.status = a.status
    BY <2>2 DEF AsmFields
  <2>. QED BY <1>1, <2>3 DEF SameStatus
<1>. QED BY <1>2, <1>3

LEMMA ClosedKeepsStatus ==
  ASSUME NEW a, IsAsm(a)
  PROVE  Closed(a).status = a.status
<1>1. PICK m \in Nat : m = Cardinality(DOMAIN a.pending)
  BY FS_CardinalityType DEF IsAsm
<1>. DEFINE after == CHOOSE f : FlushLoop(f, a, m)
<1>2. Flushed(a) = after[m]
  BY <1>1 DEF Flushed, FlushLoop
<1>3. FlushLoop(after, a, m)
  BY FlushLoopRuns
<1>. HIDE DEF after
<1>4. \A n \in 0 .. m :
        after[n] = IF n = 0 THEN a ELSE FinishCall(after[n - 1], LowestSlot(after[n - 1]))
  BY <1>3 DEF FlushLoop
<1>. DEFINE Good == {k \in 0 .. m : SameStatus(a, after[k])}
<1>5. 0 \in Good
  <2>1. 0 \in 0 .. m /\ after[0] = a
    BY <1>4
  <2>. QED BY <2>1 DEF SameStatus, IsAsm
<1>6. ASSUME NEW k \in 1 .. m, k - 1 \in Good PROVE k \in Good
  <2>1. SameStatus(a, after[k - 1]) /\ k \in 0 .. m /\ k # 0
    BY <1>6
  <2>2. PICK b, slot : b = after[k - 1] /\ slot = LowestSlot(b)
    OBVIOUS
  <2>3. after[k] = FinishCall(b, slot)
    BY <1>4, <2>1, <2>2
  <2>4. DOMAIN b = AsmFields /\ b.status = a.status
    BY <2>1, <2>2 DEF SameStatus
  <2>5. SameStatus(b, after[k])
    BY <2>3, <2>4, FinishCallKeepsStatus
  <2>6. SameStatus(a, after[k])
    BY <2>4, <2>5 DEF SameStatus
  <2>. QED BY <2>1, <2>6
<1>7. \A k \in 1 .. m : k - 1 \in Good => k \in Good
  BY <1>6
<1>8. \A k \in 0 .. m : k \in Good
  <2>. HIDE DEF Good
  <2>. QED BY <1>5, <1>7, CountingUp
<1>9. PICK b : b = Flushed(a)
  OBVIOUS
<1>10. DOMAIN b = AsmFields /\ b.status = a.status
  <2>1. m \in 0 .. m
    OBVIOUS
  <2>. QED BY <1>2, <1>8, <1>9, <2>1 DEF SameStatus
<1>11. \E x, y : Closed(a) = [b EXCEPT !.finished = x, !.out = y]
  BY <1>9 DEF Closed
<1>12. PICK x, y : Closed(a) = [b EXCEPT !.finished = x, !.out = y]
  BY <1>11
<1>. QED BY <1>10, <1>12 DEF AsmFields

LEMMA SendingIs ==
  ASSUME NEW snt \in Sendings
  PROVE  \E a \in Answers : \E n \in 0 .. Len(FramesOf(a)) : SentOf(snt, a, n)
<1>1. PICK a \in Answers, newline \in Newlines :
        \/ snt = SentWhole(a, newline)
        \/ \E n \in 0 .. Len(FramesOf(a)) - 1 : snt = SentFailing(a, newline, n)
        \/ snt = SentEndless(a, newline, Len(FramesOf(a)) - 1)
  BY DEF Sendings, Newlines
<1>2. PICK F : F = FramesOf(a)
  OBVIOUS
<1>3. Listed(F) /\ Len(F) \in Nat \ {0}
  BY <1>2, AnswerIsFramed DEF WellFramed
<1>4. PICK N \in Nat \ {0} : N = Len(F)
  BY <1>3
<1>5. ASSUME NEW n \in 0 .. N - 1
      PROVE  /\ Listed(SubSeq(F, 1, n)) /\ Len(SubSeq(F, 1, n)) = n
             /\ \A k \in 1 .. n : SubSeq(F, 1, n)[k] = F[k]
  <2>1. PICK S : F \in Seq(S)
    BY <1>3 DEF Listed
  <2>2. PICK G : G = SubSeq(F, 1, n)
    OBVIOUS
  <2>3. n \in Nat /\ \A k \in 1 .. n : k \in 1 .. N
    OBVIOUS
  <2>4. G = [k \in 1 .. n |-> F[k]]
    BY <2>1, <2>2
  <2>5. \A k \in 1 .. n : F[k] \in S
    BY <1>4, <2>1, <2>3
  <2>6. G \in Seq(S) /\ Len(G) = n
    BY <2>3, <2>4, <2>5
  <2>7. \A k \in 1 .. n : G[k] = F[k]
    BY <2>4
  <2>. QED BY <2>2, <2>6, <2>7, ListIs
<1>6. ASSUME snt = SentWhole(a, newline) PROVE SentOf(snt, a, N)
  <2>1. snt.dialect = a.dialect /\ snt.answer = a.answer /\ snt.frames = F
    BY <1>2, <1>6 DEF SentWhole
  <2>. QED BY <1>2, <1>4, <2>1 DEF SentOf
<1>7. ASSUME NEW n \in 0 .. N - 1, snt = SentFailing(a, newline, n) PROVE SentOf(snt, a, n)
  <2>1. PICK G, e, H : G = SubSeq(F, 1, n) /\ e = ErrorOf(a) /\ H = G \o <<e>>
    OBVIOUS
  <2>2. /\ snt.dialect = a.dialect /\ snt.answer = a.answer /\ snt.frames = H
        /\ snt.fault = "error"
    BY <1>2, <1>7, <2>1 DEF SentFailing
  <2>3. Listed(G) /\ Len(G) = n /\ \A k \in 1 .. n : G[k] = F[k]
    BY <1>5, <2>1
  <2>4. H = Append(G, e)
    BY <2>1, <2>3, JoinedWithOne
  <2>5. Len(H) = n + 1 /\ H[n + 1] = e /\ \A k \in 1 .. n : H[k] = F[k]
    BY <2>3, <2>4, JoinedWithOne
  <2>6. \A k \in 1 .. n + 1 : (k <= n /\ H[k] = F[k]) \/ (k = n + 1 /\ H[k] = e)
    BY <2>5
  <2>. QED BY <1>2, <2>1, <2>2, <2>5, <2>6 DEF SentOf
<1>8. ASSUME snt = SentEndless(a, newline, N - 1) PROVE SentOf(snt, a, N - 1)
  <2>1. PICK n \in 0 .. N - 1 : n = N - 1
    OBVIOUS
  <2>2. PICK G : G = SubSeq(F, 1, n)
    OBVIOUS
  <2>3. /\ snt.dialect = a.dialect /\ snt.answer = a.answer /\ snt.frames = G
        /\ snt.fault = "endless"
    BY <1>2, <1>8, <2>1, <2>2 DEF SentEndless
  <2>4. Len(G) = n /\ \A k \in 1 .. n : G[k] = F[k]
    BY <1>5, <2>2
  <2>. QED BY <1>2, <2>1, <2>3, <2>4 DEF SentOf
<1>9. N \in 0 .. N /\ N - 1 \in 0 .. N /\ \A n \in 0 .. N - 1 : n \in 0 .. N
  OBVIOUS
<1>. QED BY <1>1, <1>2, <1>4, <1>6, <1>7, <1>8, <1>9

-----------------------------------------------------------------------------
(* The inductive invariant *)

\* The assembler, its queue aside, is where the frames decoded so far lead, and
\* after the end of the body it makes the response that it would have made there.
FollowsTo(t) ==
  /\ Comes(sent.dialect, decoded, t)
  /\ ~closed => t.decoder = decoder /\ t.asm = Quiet(asm)
  /\ closed => Assembled(asm) = Assembled(Closed(t.asm)) /\ asm.status = t.asm.status

Following == sent \in Sendings /\ \E t : FollowsTo(t)

LEMMA FollowsAtFirst == StreamInit => Following
<1>. SUFFICES ASSUME StreamInit PROVE Following
  OBVIOUS
<1>1. PICK dialect, t : dialect = sent.dialect /\ t = Start(dialect)
  OBVIOUS
<1>2. Comes(dialect, <<>>, t)
  BY <1>1, ComesAtFirst
<1>3. /\ decoded = <<>> /\ closed = FALSE /\ sent \in Sendings
      /\ decoder = NewDecoder(dialect) /\ asm = NewAssembler(Normalizes(dialect))
  BY <1>1 DEF StreamInit
<1>4. t.decoder = decoder /\ t.asm = asm
  BY <1>1, <1>3 DEF Start
<1>5. DOMAIN asm = AsmFields /\ asm = [x \in AsmFields |-> asm[x]] /\ asm.out = <<>>
  BY <1>3 DEF NewAssembler, AsmFields
<1>6. Quiet(asm) = asm
  BY <1>5, AtRest
<1>. QED BY <1>1, <1>2, <1>3, <1>4, <1>6 DEF Following, FollowsTo

LEMMA FollowsOn == StreamInv /\ Following /\ [StreamNext]_streamVars => Following'
<1>. SUFFICES ASSUME StreamInv, Following, [StreamNext]_streamVars PROVE Following'
  OBVIOUS
<1>1. PICK t : FollowsTo(t)
  BY DEF Following
<1>2. /\ sent \in Sendings
      /\ Comes(sent.dialect, decoded, t)
      /\ ~closed => t.decoder = decoder /\ t.asm = Quiet(asm)
      /\ closed => Assembled(asm) = Assembled(Closed(t.asm)) /\ asm.status = t.asm.status
  BY <1>1 DEF Following, FollowsTo
<1>3. (~closed => Working(seen, asm)) /\ (closed => Over(seen, asm))
  BY DEF StreamInv, Telling
<1>4. CASE HandOver
  <2>1. /\ asm.out # <<>> /\ HandedOver(asm, asm')
        /\ closed' = closed /\ sent' = sent /\ decoded' = decoded /\ decoder' = decoder
    BY <1>4 DEF HandOver, HandedOver
  <2>2. Listed(seen) /\ Listed(asm.out) /\ DOMAIN asm = AsmFields
    BY <1>3 DEF Working, IsAsm, Over
  <2>3. asm'.captured = asm.captured /\ asm'.status = asm.status /\ asm'.usage = asm.usage
    BY <2>1, <2>2 DEF HandedOver, AsmFields
  <2>4. Assembled(asm') = Assembled(asm)
    BY <2>3 DEF Assembled
  <2>5. Quiet(asm') = Quiet(asm)
    BY <2>1 DEF Quiet, HandedOver
  <2>. QED BY <1>2, <2>1, <2>3, <2>4, <2>5 DEF Following, FollowsTo
<1>5. CASE DecodeFrame
  <2>1. PICK dialect, f, step :
          dialect = sent.dialect /\ f = FrameOf(buffer) /\ step = Decode(dialect, decoder, f)
    OBVIOUS
  <2>2. /\ asm.out = <<>> /\ ~closed /\ asm' = AbsorbAll(asm, step.deltas)
        /\ decoder' = step.decoder /\ decoded' = Append(decoded, f)
        /\ closed' = closed /\ sent' = sent
    BY <1>5, <2>1 DEF DecodeFrame, MayDecode
  <2>3. Quiet(asm) = asm
    <3>1. DOMAIN asm = AsmFields /\ asm = [x \in AsmFields |-> asm[x]]
      BY <1>3, <2>2 DEF Working, IsAsm
    <3>. QED BY <2>2, <3>1, AtRest
  <2>4. t.decoder = decoder /\ t.asm = asm
    BY <1>2, <2>2, <2>3
  <2>5. PICK u : u = Fed(dialect, t, f)
    OBVIOUS
  <2>6. u.decoder = decoder' /\ u.asm = Quiet(asm')
    BY <2>1, <2>2, <2>4, <2>5 DEF Fed
  <2>7. Listed(decoded)
    BY DEF StreamInv, Arrives, Arriving, InPlace
  <2>8. Comes(dialect, Append(decoded, f), u)
    BY <1>2, <2>1, <2>5, <2>7, ComesOn
  <2>. QED BY <1>2, <2>1, <2>2, <2>6, <2>8 DEF Following, FollowsTo
<1>6. CASE BodyEnds
  <2>1. /\ asm.out = <<>> /\ ~closed /\ closed' = TRUE /\ asm' = Closed(asm)
        /\ sent' = sent /\ decoded' = decoded
    BY <1>6 DEF BodyEnds, BodyMayEnd, Waiting
  <2>2. IsAsm(asm)
    BY <1>3, <2>1 DEF Working
  <2>3. Quiet(asm) = asm
    <3>1. DOMAIN asm = AsmFields /\ asm = [x \in AsmFields |-> asm[x]]
      BY <2>2 DEF IsAsm
    <3>. QED BY <2>1, <3>1, AtRest
  <2>4. t.asm = asm
    BY <1>2, <2>1, <2>3
  <2>5. asm'.status = asm.status
    BY <2>1, <2>2, ClosedKeepsStatus
  <2>. QED BY <1>2, <2>1, <2>4, <2>5 DEF Following, FollowsTo
<1>7. CASE (\E n \in 1 .. MaxChunk : TakeChunk(n)) \/ BodyBreaks \/ Finish
  <2>1. /\ asm' = asm /\ decoder' = decoder /\ decoded' = decoded /\ closed' = closed
        /\ sent' = sent
    BY <1>7 DEF TakeChunk, BodyBreaks, Finish
  <2>. QED BY <1>2, <2>1 DEF Following, FollowsTo
<1>8. CASE UNCHANGED streamVars
  BY <1>2, <1>8 DEF streamVars, Following, FollowsTo
<1>. QED BY <1>4, <1>5, <1>6, <1>7, <1>8 DEF StreamNext

LEMMA FollowingHolds == StreamSpec => []Following
<1>1. StreamInit => Following
  BY FollowsAtFirst
<1>2. StreamInv /\ Following /\ [StreamNext]_streamVars => Following'
  BY FollowsOn
<1>. QED BY <1>1, <1>2, StreamInvHolds, PTL DEF StreamSpec

\* What the frames decoded so far make, of an answer that was sent.
LEMMA FollowedIs ==
  ASSUME StreamInv, NEW t, FollowsTo(t), sent \in Sendings
  PROVE  /\ Settled(t.asm, Parse(sent.dialect, sent.answer))
         /\ sent.fault = "none" /\ decoded = sent.frames
              => Assembled(Closed(t.asm)) = Parse(sent.dialect, sent.answer)
<1>1. PICK a \in Answers : \E n \in 0 .. Len(FramesOf(a)) : SentOf(sent, a, n)
  BY SendingIs
<1>2. PICK n \in 0 .. Len(FramesOf(a)) : SentOf(sent, a, n)
  BY <1>1
<1>3. /\ sent.dialect = a.dialect /\ sent.answer = a.answer
      /\ sent.fault = "none" => sent.frames = FramesOf(a)
  BY <1>2 DEF SentOf
<1>4. FirstOf(decoded, sent.frames)
  BY DEF StreamInv, Arrives, Arriving, InPlace, FirstOf
<1>5. Comes(a.dialect, decoded, t)
  BY <1>3 DEF FollowsTo
<1>6. PICK response : response = Parse(a.dialect, a.answer)
  OBVIOUS
<1>7. /\ Settled(t.asm, response)
      /\ decoded = FramesOf(a) => Assembled(Closed(t.asm)) = response
  BY <1>2, <1>4, <1>5, <1>6, FirstOfAnswer
<1>. QED BY <1>3, <1>6, <1>7

-----------------------------------------------------------------------------
(* The theorems *)

(* However an answer was cut, once None has come without an error the response of
   the stream is the one that generate reads off the same answer, part for part
   (the decoders of the four dialects, absorb and close). *)
THEOREM DrainedIsAlwaysTheResponse == StreamSpec => []DrainedIsTheResponse
<1>1. StreamInv /\ Following => DrainedIsTheResponse
  <2>. SUFFICES ASSUME StreamInv, Following, drained, Whole, ~failed, sent.fault = "none"
                PROVE  Assembled(asm) = Parse(sent.dialect, sent.answer)
    BY DEF DrainedIsTheResponse
  <2>1. PICK t : FollowsTo(t)
    BY DEF Following
  <2>2. closed
    BY DEF StreamInv, Telling
  <2>3. decoded = sent.frames
    BY <2>2, ArrivesInOrder DEF StreamInv, FramesArriveWhole
  <2>4. Assembled(Closed(t.asm)) = Parse(sent.dialect, sent.answer)
    BY <2>1, <2>3, FollowedIs DEF Following
  <2>. QED BY <2>1, <2>2, <2>4 DEF FollowsTo
<1>. QED BY <1>1, StreamInvHolds, FollowingHolds, PTL

(* A response whose status is not incomplete has all of the content, wherever the
   bytes of its answer stopped (RawDelta::Meta comes after the content). *)
THEOREM FinishedIsAlwaysWhole == StreamSpec => []FinishedIsWhole
<1>1. StreamInv /\ Following => FinishedIsWhole
  <2>. SUFFICES ASSUME StreamInv, Following, closed, asm.status # "incomplete"
                PROVE  asm.captured = Parse(sent.dialect, sent.answer).content
    BY DEF FinishedIsWhole
  <2>1. PICK t : FollowsTo(t)
    BY DEF Following
  <2>2. Assembled(asm) = Assembled(Closed(t.asm)) /\ t.asm.status # "incomplete"
    BY <2>1 DEF FollowsTo
  <2>3. Settled(t.asm, Parse(sent.dialect, sent.answer))
    BY <2>1, FollowedIs DEF Following
  <2>4. Closed(t.asm).captured = Parse(sent.dialect, sent.answer).content
    BY <2>2, <2>3 DEF Settled
  <2>5. asm.captured = Closed(t.asm).captured
    BY <2>2 DEF Assembled
  <2>. QED BY <2>4, <2>5
<1>. QED BY <1>1, StreamInvHolds, FollowingHolds, PTL

=============================================================================
