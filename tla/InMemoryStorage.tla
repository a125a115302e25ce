--------------------------- MODULE InMemoryStorage ---------------------------
(***************************************************************************)
(* builtin/memory.rs: the transcript of one conversation, the window that  *)
(* decides what of it a load sends, and the cached summary that stands for *)
(* the groups the window drops.                                            *)
(*                                                                         *)
(* Every method takes &mut self, so the operations of one storage never    *)
(* overlap.  The one await is the summarizing call inside load; a load     *)
(* dropped while it waits has changed nothing, which is a stuttering step. *)
(*                                                                         *)
(* The text of a summary is what a model wrote about some turns.  It is    *)
(* modelled by those turns, each at its place in the transcript, so that a *)
(* property can ask what a summary stands for.                             *)
(***************************************************************************)
EXTENDS Transcript

CONSTANTS
  Windows,     \* the windows a caller may set: ByGroups(k), ByTokens(b), NoWindow
  Batches,     \* what one append may write, each a sequence of messages
  MaxMessages  \* bound: the longest transcript

\* Every turn that some append may write.
Turns == UNION {{b[i] : i \in DOMAIN b} : b \in Batches}

\* A message that a summary was put in.
Summarizes(m) == \E k \in DOMAIN m.parts : m.parts[k].kind = "summary"

\* Conversation::send appends the turn it sent and the answer to it, so no
\* append is empty.  A summary is put in a view alone, and is not a turn.
ASSUME BatchesAssumption ==
  /\ \A b \in Batches : b \in Seq(Turns) /\ b # <<>>
  /\ \A m \in Turns : ~Summarizes(m) /\ TokenCost(m) \in Nat

ASSUME WindowsAssumption ==
  \A w \in Windows : w \in [by : {"groups", "tokens", "none"}, size : Nat]

ASSUME MaxMessagesAssumption == MaxMessages \in Nat

VARIABLES
  messages,    \* every turn held, oldest first
  summary,     \* the cached summary; NoSummary for None
  config,      \* the window set, and whether a summarizer is
  view         \* what the last load returned; <<>> once the transcript moves on

memoryVars == <<messages, summary, config, view>>

ByGroups(k) == [by |-> "groups", size |-> k]
ByTokens(b) == [by |-> "tokens", size |-> b]
NoWindow    == [by |-> "none", size |-> 0]

Configs == [window : Windows, summarizing : BOOLEAN]

\* A summary that covers no group is never made: load asks for one only when
\* the window drops something.
NoSummary == [covers |-> 0, stands |-> <<>>]

\* The turns of the `covers` oldest groups, pinned ones left out, each at its
\* place.
Dropped(h, covers) == [i \in {j \in Oldest(h, covers) : ~Pinned(h[j])} |-> h[i]]

SummaryMessage(s) == Msg("user", <<[kind |-> "summary", stands |-> s.stands]>>)

\* A count that the turns read back do not have is dropped.
Restored(h, s) == IF s.covers <= GroupCount(h) THEN s ELSE NoSummary

-----------------------------------------------------------------------------
(* load *)

Cut(window, h) ==
  CASE window.by = "groups" -> CutByGroups(h, window.size)
    [] window.by = "tokens" -> CutByTokens(h, window.size)
    [] OTHER                -> 0

\* keep.div_ceil(2), and budget / 2.
Half(window) ==
  IF window.by = "groups" THEN ByGroups((window.size + 1) \div 2)
  ELSE [window EXCEPT !.size = @ \div 2]

Windowed(window, h) ==
  IF window.by = "none" THEN h ELSE Reassemble(h, Cut(window, h))

\* A cached summary serves when it covers all that the window must drop.
Serves(s, needed) == s.covers >= needed

\* A slip: the summary is made of what the window drops and recorded at the
\* deeper cut.
FreshOfNeeded(window, h) ==
  [covers |-> Cut(Half(window), h), stands |-> Dropped(h, Cut(window, h))]

\* A new summary, at the cut of half the window.
Fresh(window, h) ==
  [covers |-> Cut(Half(window), h), stands |-> Dropped(h, Cut(Half(window), h))]

Summarized(h, s) ==
  Preamble(h, s.covers) \o <<SummaryMessage(s)>> \o InView(h, s.covers)

\* The view and the cache a load leaves; `answers` is whether the summarizer
\* would return a text.
LoadOutcome(h, s, c, answers) ==
  LET needed == Cut(c.window, h)
      used   == IF Serves(s, needed) THEN s ELSE Fresh(c.window, h)
  IN IF \/ ~c.summarizing
        \/ needed = 0
        \/ ~Serves(s, needed) /\ ~answers
     THEN [view |-> Windowed(c.window, h), summary |-> s]
     ELSE [view |-> Summarized(h, used), summary |-> used]

-----------------------------------------------------------------------------
(* The operations of the storage *)

MemoryInit(c) ==
  /\ messages = <<>>
  /\ summary = NoSummary
  /\ config = c
  /\ view = <<>>

MemoryLoad(answers) ==
  LET outcome == LoadOutcome(messages, summary, config, answers)
  IN /\ view' = outcome.view
     /\ summary' = outcome.summary
     /\ UNCHANGED <<messages, config>>

MemoryAppend(batch) ==
  /\ messages' = messages \o batch
  /\ view' = <<>>
  /\ UNCHANGED <<summary, config>>

\* A slip: the transcript goes and its summary stays.
ClearKeepingSummary ==
  /\ messages' = <<>>
  /\ view' = <<>>
  /\ UNCHANGED <<summary, config>>

MemoryClear ==
  /\ messages' = <<>>
  /\ summary' = NoSummary
  /\ view' = <<>>
  /\ UNCHANGED config

\* Turns are told apart: a batch brings none that is held already.
Fits(batch) ==
  /\ Len(messages) + Len(batch) <= MaxMessages
  /\ \A i \in DOMAIN messages, j \in DOMAIN batch : messages[i] # batch[j]

Init == \E c \in Configs : MemoryInit(c)

Next ==
  \/ \E answers \in BOOLEAN : MemoryLoad(answers)
  \/ \E batch \in Batches : Fits(batch) /\ MemoryAppend(batch)
  \/ MemoryClear

Spec == Init /\ [][Next]_memoryVars

-----------------------------------------------------------------------------
(* Properties *)

\* The transcript the cache was made from, if it is still a prefix of what is
\* held, closed those groups.
StandsFor(s, h) ==
  s.covers > 0 =>
    /\ s.covers < GroupCount(h)
    /\ s.stands = Dropped(h, s.covers)

(* The comment on `struct Summary`: turns are only ever appended, so the same
   count of groups means the same turns.  However the transcript grew since
   the summary was made, the groups it is counted to cover are those it was
   made from, and the newest group is not among them (else load would index
   past the groups, or show the model a turn as summarized that was not). *)
SummaryIsOfItsGroups == StandsFor(summary, messages)

\* The summary message of a view, if it carries one.
SummaryIn(v) ==
  {v[k].parts[1].stands : k \in {n \in DOMAIN v : Summarizes(v[n])}}

\* When a summary is sent in place of the dropped turns, no turn is lost: each
\* one held is in the view or among those that the summary stands for.
NothingVanishes ==
  \A stands \in SummaryIn(view), i \in DOMAIN messages :
    \/ \E k \in DOMAIN view : view[k] = messages[i]
    \/ i \in DOMAIN stands /\ stands[i] = messages[i]

\* The turns of a view that the window counts.
Counted(v) == Pick(v, {k \in DOMAIN v : ~Pinned(v[k]) /\ ~Summarizes(v[k])})

\* A summary rides on top of the window and never widens it: the turns still in
\* view are among those the plain window would send, and they are the newest.
ViewIsWithinTheWindow ==
  view # <<>> =>
    LET sent == Counted(view)
        kept == Counted(Windowed(config.window, messages))
    IN /\ Len(sent) <= Len(kept)
       /\ sent = SubSeq(kept, Len(kept) - Len(sent) + 1, Len(kept))

(* What a load returns tells the whole transcript and no more than the window
   allows, whether its summary was cached, made anew at the deeper cut, or could
   not be made (load and summary). *)
ViewTellsTheWhole == NothingVanishes /\ ViewIsWithinTheWindow

=============================================================================
