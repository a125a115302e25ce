\* Every dialect, both kinds of line end, chunks of up to seven bytes, a failure
\* reported at every frame, and bodies longer than either ceiling.
SPECIFICATION StreamSpec
CONSTANTS
  Answers <- MCAnswers
  MaxChunk = 7
  MaxFrame = 15
  MaxStream = 110
INVARIANTS
  FramesArriveWhole
  DrainedIsTheResponse
  EventsAddUp
  FinishedIsWhole
PROPERTIES
  ResponseIsFinal
  Drains
\* A drained stream takes no step.
CHECK_DEADLOCK FALSE
