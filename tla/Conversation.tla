---------------------------- MODULE Conversation ----------------------------
(***************************************************************************)
(* conversation.rs: a send loads the transcript from a backend, adds the   *)
(* caller's turn, repairs the whole, runs the tool loop over it, and only  *)
(* then appends the turn and what the run added.                           *)
(*                                                                         *)
(* The backend is any implementation of Storage (storage.rs) that keeps    *)
(* what it is given in order: it returns a window by groups, or a suffix   *)
(* cut anywhere, and its append and clear may fail.  &mut self keeps two   *)
(* sends of one conversation apart.  The future of a send may be dropped   *)
(* at any await, and everything it held goes with it.                      *)
(***************************************************************************)
EXTENDS AgentLoop

CONSTANTS
  CallerTurns, \* what a caller may send
  Keeps,       \* the sizes of window a backend may have
  MaxStored    \* bound: the longest transcript that a send starts from

ASSUME ConversationAssumption ==
  /\ CallerTurns \subseteq Message
  /\ Keeps \subseteq Nat

VARIABLES
  stored,      \* what the backend holds
  turn         \* the caller's turn of the send under way

conversationVars == <<loopVars, stored, turn>>

Idle == phase = "idle"

\* What load may return.
Views(t) == {WindowByGroups(t, k) : k \in Keeps} \cup Suffixes(t)

\* A slip: the pass runs on what was loaded, and the turn is pushed after it.
PreparedEarly(view, message) == Append(Repair(view), message)

\* The transcript that a send would run over.
Prepared(view, message) == Repair(Append(view, message))

\* Unless repair took the turn or a part of it, it is last and whole.
Accepted(history, message) ==
  history # <<>> /\ history[Len(history)] = message

\* No send is under way, and what one held is gone.
BecomeIdle ==
  /\ phase' = "idle"
  /\ given' = <<>> /\ transcript' = <<>> /\ turns' = 0 /\ choice' = "auto"
  /\ calls' = <<>> /\ begun' = 0 /\ finished' = {} /\ outputs' = <<>>
  /\ stop' = "none"
  /\ turn' = <<>>

\* A turn that is not accepted is refused, and nothing changes.
Send(message) ==
  /\ Idle
  /\ Len(stored) < MaxStored
  /\ \E view \in Views(stored) :
       LET history == Prepared(view, message)
       IN Accepted(history, message) /\ StartRun(history)
  /\ turn' = message
  /\ UNCHANGED stored

\* A slip: the boundary is the length before the turn was pushed.
NewTurnsTwice == <<turn>> \o SubSeq(transcript, Len(given), Len(transcript))

\* The caller's turn, and history.split_off(before).
NewTurns == <<turn>> \o SubSeq(transcript, Len(given) + 1, Len(transcript))

Store ==
  /\ phase = "done"
  /\ stored' = stored \o NewTurns
  /\ BecomeIdle

\* A backend that fails in the middle of an append, or a process that dies
\* there (JsonlStorage), keeps the turns it reached.
StoreCutShort ==
  /\ phase = "done"
  /\ \E k \in 1 .. Len(NewTurns) - 1 : stored' = stored \o SubSeq(NewTurns, 1, k)
  /\ BecomeIdle

\* The run failed, or append did, or the send was dropped.
SendAbandoned ==
  /\ ~Idle
  /\ BecomeIdle
  /\ UNCHANGED stored

\* A backend whose clear fails keeps whatever it did not reach.
Clear ==
  /\ Idle /\ stored # <<>>
  /\ stored' \in Suffixes(stored)
  /\ UNCHANGED <<loopVars, turn>>

\* No provider gives an id twice, in this transcript or in what it was cut from.
FreshReply(reply) ==
  /\ FreshCalls(reply)
  /\ \A k \in DOMAIN CallsOf(reply), i \in DOMAIN stored :
       ~HasCall(stored[i], CallsOf(reply)[k]) /\ ~HasResult(stored[i], CallsOf(reply)[k])

\* And no caller answers a call twice: repair would keep the second answer,
\* wherever it came.
AnswersOnce(message) ==
  \A id \in CallId : HasResult(message, id) => \A i \in DOMAIN stored : ~HasResult(stored[i], id)

ConversationInit ==
  /\ stored = <<>>
  /\ phase = "idle"
  /\ given = <<>> /\ transcript = <<>> /\ turns = 0 /\ choice = "auto"
  /\ calls = <<>> /\ begun = 0 /\ finished = {} /\ outputs = <<>>
  /\ stop = "none"
  /\ turn = <<>>

Progress ==
  \/ Ask
  \/ GiveUp
  \/ RequestFails
  \/ \E reply \in Replies : FreshReply(reply) /\ ReplyArrives(reply)
  \/ \E i \in DOMAIN calls : CallFinishes(i)

ConversationNext ==
  \/ \E message \in CallerTurns : AnswersOnce(message) /\ Send(message)
  \/ Progress /\ UNCHANGED <<stored, turn>>
  \/ Store
  \/ StoreCutShort
  \/ SendAbandoned
  \/ Clear

ConversationSpec == ConversationInit /\ [][ConversationNext]_conversationVars

-----------------------------------------------------------------------------
(* Properties *)

(* Whatever the backend cut, and whatever earlier runs left in it (a call whose
   reply was cut short, a run that ended at its turn bound), every request of
   every run is one that a provider accepts. *)
EveryRequestOfAConversationIsSendable ==
  phase = "asking" => Sendable(WithoutSystem(transcript))

(* A turn of text alone is never refused: repair may take a tool exchange that
   the backend cut apart, but never the caller's own words. *)
TextIsNeverRefused ==
  Idle => \A view \in Views(stored), message \in CallerTurns :
            /\ message.parts # <<>>
            /\ \A k \in DOMAIN message.parts : message.parts[k].kind = "text"
            => Accepted(Prepared(view, message), message)

\* The calls the last stored message leaves to be answered.
Pending ==
  {id \in CallId : stored # <<>> /\ HasCall(stored[Len(stored)], id)}

(* Tool approval by a person: when the transcript stops at an unanswered call,
   a turn of the results that answer it is accepted, through any window.  The
   pass would otherwise drop the call one step before its answer arrives. *)
ApprovalIsAccepted ==
  Idle /\ Pending # {} =>
    \A message \in CallerTurns, k \in Keeps :
      OnlyResults(message) /\ (\A id \in CallId : HasResult(message, id) <=> id \in Pending)
        => Accepted(Prepared(WindowByGroups(stored, k), message), message)

(* The boundary between what was loaded and what is new survives the repair
   that shifts it: a run adds to the backend the caller's turn, the model's
   replies and the results of their calls, and never a turn loaded from it. *)
OnlyNewTurnsAreStored ==
  [][Len(stored') > Len(stored) =>
       LET added == SubSeq(stored', Len(stored) + 1, Len(stored'))
       IN /\ stored' = stored \o added
          /\ added[1] = turn
          /\ \A i \in 2 .. Len(added) :
               /\ added[i].role \in {"assistant", "tool"}
               /\ \A id \in CallId, j \in DOMAIN stored :
                    HasCall(added[i], id) => ~HasCall(stored[j], id)]_conversationVars

\* The messages of group k, its pinned ones left out.
GroupAt(t, k) == Between(t, k - 1, k)

(* The comment on InMemoryStorage::window: "A group is a message, except that an
   assistant turn requesting tools and the results answering it are one group."
   So a window of k groups is k messages and the results of their calls. *)
GroupsAreExchanges ==
  \A k \in 1 .. GroupCount(stored) :
    \A i, j \in GroupAt(stored, k) : i < j => OnlyResults(stored[j])

=============================================================================
