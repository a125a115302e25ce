---------------------------- MODULE JsonlStorage ----------------------------
(***************************************************************************)
(* builtin/jsonl.rs: the conversation in a file, one JSON record per line, *)
(* read whole by open and held in an InMemoryStorage from then on.         *)
(*                                                                         *)
(* A file is modelled by what reading it finds: the version its header     *)
(* gives, its turns, its last summary, whether a line of it does not parse *)
(* (`damaged`), and whether bytes follow its last newline (`torn`).  Every *)
(* write adds whole lines at the end, so a write cut short leaves some of  *)
(* its lines and perhaps the start of the next; a line written after such  *)
(* a fragment is glued to it, and neither parses.                          *)
(*                                                                         *)
(* `images` are the contents a loss of power may leave: those since the    *)
(* last sync_data.  A process that dies leaves `file`.                     *)
(***************************************************************************)
EXTENDS InMemoryStorage

CONSTANTS
  SummaryWriteMayTear, \* a summary may be written in part and its load go on
  CallerReopens,       \* a caller drops a storage whose append or clear failed
  MaxImages            \* bound: the contents unsettled at a time

ASSUME EnvironmentAssumption ==
  SummaryWriteMayTear \in BOOLEAN /\ CallerReopens \in BOOLEAN /\ MaxImages \in Nat

VARIABLES
  file,    \* what the file holds, as the next reader would find it
  images,  \* what it may hold after a loss of power
  open,    \* whether some process has it open
  acked    \* the turns held when an append was last acknowledged

memory     == memoryVars
jsonlVars  == <<messages, summary, config, view, file, images, open, acked>>

Version == 1

-----------------------------------------------------------------------------
(* The contents of the file *)

FileOf(version, turns, torn) ==
  [version |-> version, turns |-> turns, summary |-> NoSummary,
   damaged |-> FALSE, torn |-> torn]

\* No line at all.
Blank  == FileOf(0, <<>>, FALSE)
Headed == FileOf(Version, <<>>, FALSE)

\* A file of a later format, its last line torn.
Newer(turns) == FileOf(Version + 1, turns, TRUE)

Torn(f)  == [f EXCEPT !.torn = TRUE]
Whole(f) == [f EXCEPT !.torn = FALSE]

\* Nothing precedes the last newline: `complete == 0`.
Empty(f)    == Whole(f) = Blank
Readable(f) == ~f.damaged /\ f.version <= Version

WithTurns(f, turns) ==
  CASE turns = <<>> -> f
    [] turns # <<>> /\ f.torn ->
         [f EXCEPT !.turns = @ \o Tail(turns), !.damaged = TRUE, !.torn = FALSE]
    [] OTHER -> [f EXCEPT !.turns = @ \o turns]

WithSummary(f, s) ==
  IF f.torn THEN [f EXCEPT !.damaged = TRUE, !.torn = FALSE]
  ELSE [f EXCEPT !.summary = s]

\* What `write` may have done when it does not return Ok: some of the lines,
\* the start of one more, or all of them and no sync.
TurnsInPart(f, turns) ==
  {WithTurns(f, SubSeq(turns, 1, k)) : k \in 0 .. Len(turns)}
    \cup {Torn(WithTurns(f, SubSeq(turns, 1, k))) : k \in 0 .. Len(turns) - 1}

SummaryInPart(f, s) == {f, Torn(f), WithSummary(f, s)}
HeaderInPart        == {Blank, FileOf(0, <<>>, TRUE), Headed}

\* A slip: sync_data is left out.
NeverSynced(f) == file' = f /\ images' = images \cup {f}

\* A write that returns Ok ends in a sync, which settles all that came before.
Synced(f) == file' = f /\ images' = {f}

\* One that does not leaves one of `outcomes`, and any of them on the disk.
Unsynced(outcomes) ==
  /\ Cardinality(images \cup outcomes) <= MaxImages
  /\ file' \in outcomes
  /\ images' = images \cup outcomes

-----------------------------------------------------------------------------
(* Opening and leaving *)

Restore(f, c) ==
  /\ messages' = f.turns
  /\ summary' = Restored(f.turns, f.summary)
  /\ config' = c
  /\ view' = <<>>
  /\ open' = TRUE

Closed ==
  /\ messages' = <<>>
  /\ summary' = NoSummary
  /\ view' = <<>>
  /\ open' = FALSE
  /\ UNCHANGED config

\* A slip: the fragment after the last newline is left where it is.
OpenKeepingTail(c) ==
  /\ ~open
  /\ Readable(file)
  /\ ~Empty(file)
  /\ Restore(file, c)
  /\ UNCHANGED <<file, images, acked>>

Open(c) ==
  /\ ~open
  /\ Readable(file)
  /\ ~Empty(file)
  /\ Unsynced({Whole(file)})
  /\ Restore(file, c)
  /\ UNCHANGED acked

OpenNew(c) ==
  /\ ~open
  /\ Empty(file)
  /\ Synced(Headed)
  /\ Restore(Headed, c)
  /\ UNCHANGED acked

\* The header could not be written, or the process died writing it.
OpenNewCutShort ==
  /\ ~open
  /\ Empty(file)
  /\ Unsynced(HeaderInPart)
  /\ UNCHANGED <<memory, open, acked>>

\* The fragment is cut off before any line is read.
OpenRefused ==
  /\ ~open
  /\ ~Readable(file)
  /\ Unsynced({Whole(file)})
  /\ UNCHANGED <<memory, open, acked>>

\* The storage is dropped, or its process ends.
Drop ==
  /\ open
  /\ Closed
  /\ UNCHANGED <<file, images, acked>>

PowerLoss ==
  /\ \E image \in images : Synced(image)
  /\ Closed
  /\ UNCHANGED acked

\* After an Err the caller may go on with the storage it has.
Failed ==
  \/ Closed
  \/ ~CallerReopens /\ UNCHANGED <<memory, open>>

-----------------------------------------------------------------------------
(* The operations of Storage *)

\* The cache did not change, or the new one was written.
Load(answers) ==
  /\ open
  /\ MemoryLoad(answers)
  /\ IF summary'.covers = summary.covers
     THEN UNCHANGED <<file, images>>
     ELSE Synced(WithSummary(file, summary'))
  /\ UNCHANGED <<open, acked>>

\* Its write failed, and the load goes on all the same.
LoadUnstored(answers) ==
  /\ open
  /\ MemoryLoad(answers)
  /\ summary'.covers # summary.covers
  /\ Unsynced({f \in SummaryInPart(file, summary') :
                 SummaryWriteMayTear \/ f # Torn(file)})
  /\ UNCHANGED <<open, acked>>

\* The process died in that write.
LoadCutShort ==
  /\ open
  /\ LET fresh == LoadOutcome(messages, summary, config, TRUE).summary
     IN /\ fresh.covers # summary.covers
        /\ Unsynced(SummaryInPart(file, fresh))
  /\ Closed
  /\ UNCHANGED acked

\* A slip: memory first, and the turns held whatever becomes of the write.
AppendMemoryFirst(batch) ==
  /\ open
  /\ Fits(batch)
  /\ \/ Synced(WithTurns(file, batch))
     \/ Unsynced(TurnsInPart(file, batch))
  /\ MemoryAppend(batch)
  /\ acked' = messages'
  /\ UNCHANGED open

AppendTurns(batch) ==
  /\ open
  /\ Fits(batch)
  /\ Synced(WithTurns(file, batch))
  /\ MemoryAppend(batch)
  /\ acked' = messages'
  /\ UNCHANGED open

AppendCutShort(batch) ==
  /\ open
  /\ Fits(batch)
  /\ Unsynced(TurnsInPart(file, batch))
  /\ Failed
  /\ UNCHANGED acked

Clear ==
  /\ open
  /\ Synced(Headed)
  /\ MemoryClear
  /\ acked' = <<>>
  /\ UNCHANGED open

\* set_len did nothing, or emptied the file and the header did not follow.
\* The caller asked for the turns to go, so none is promised any longer.
ClearCutShort ==
  /\ open
  /\ Unsynced({file} \cup HeaderInPart)
  /\ acked' = <<>>
  /\ Failed

JsonlInit ==
  /\ file \in {Blank} \cup {Newer(batch) : batch \in Batches}
  /\ images = {file}
  /\ open = FALSE
  /\ acked = <<>>
  /\ \E c \in Configs : MemoryInit(c)

JsonlNext ==
  \/ \E c \in Configs : Open(c) \/ OpenNew(c)
  \/ OpenNewCutShort
  \/ OpenRefused
  \/ Drop
  \/ PowerLoss
  \/ \E answers \in BOOLEAN : Load(answers) \/ LoadUnstored(answers)
  \/ LoadCutShort
  \/ \E batch \in Batches : AppendTurns(batch) \/ AppendCutShort(batch)
  \/ Clear
  \/ ClearCutShort

JsonlSpec == JsonlInit /\ [][JsonlNext]_jsonlVars

-----------------------------------------------------------------------------
(* Properties *)

FilesWith(s) ==
  [version : 0 .. Version + 1, turns : Seq(Turns), summary : {s},
   damaged : BOOLEAN, torn : BOOLEAN]

IsFile(f) == f \in FilesWith(f.summary)

(* What is held and what is on the disk have their types, and the file is
   always one of the contents that a loss of power may leave. *)
JsonlTypeOK ==
  /\ messages \in Seq(Turns)
  /\ acked \in Seq(Turns)
  /\ open \in BOOLEAN
  /\ file \in images
  /\ \A f \in images : IsFile(f)

Extends(longer, shorter) ==
  /\ Len(shorter) <= Len(longer)
  /\ \A i \in DOMAIN shorter : longer[i] = shorter[i]

(* "The file first, so memory never holds a turn the disk lacks" (append): an
   open storage holds the turns that the next process will read, in order, and
   no fragment is left for the next write to be glued to. *)
MemoryIsTheFile == open => messages = file.turns /\ ~file.torn

(* Once an append is acknowledged, its turns and all those before them are
   found by whoever opens the file next, whatever write fails or is cut short
   and whenever the process or the machine stops: open never refuses the file
   as damaged, and never finds it shorter. *)
AcknowledgedSurvive ==
  \A f \in images : ~f.damaged /\ Extends(f.turns, acked)

(* The summary that open restores, from whatever the file holds after a crash,
   stands for the groups it is counted to cover. *)
StoredSummaryIsOfItsGroups ==
  \A f \in images : StandsFor(Restored(f.turns, f.summary), f.turns)

Durable == INSTANCE DurableTranscript
             WITH log <- file.turns, possible <- {f.turns : f \in images}

(* A JsonlStorage is a durable transcript: its file never shows a reader turns
   that the operations of DurableTranscript would not. *)
ImplementsDurableTranscript == Durable!Spec

=============================================================================
