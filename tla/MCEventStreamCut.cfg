\* A body that stops within the arguments of a call.
SPECIFICATION StreamSpec
CONSTANTS
  Answers <- MCAnswers
  MaxChunk = 7
  MaxFrame = 15
  MaxStream = 110
INVARIANT ToolCallsAreWhole
CHECK_DEADLOCK FALSE
