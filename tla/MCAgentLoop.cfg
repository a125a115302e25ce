\* Four calls in one turn under a ceiling of two, and runs of up to three turns.
SPECIFICATION LoopSpec
CONSTANTS
  c1 = c1
  c2 = c2
  c3 = c3
  c4 = c4
  c5 = c5
  c6 = c6
  c7 = c7
  CallId <- MCCallId
  Body <- MCBody
  TokenCost <- MCTokenCost
  MaxConcurrent = 2
  MaxTurns = 3
  HasSystem = TRUE
  Required = TRUE
  Registered <- MCRegistered
  NameOf <- MCNameOf
  DeniedNames = {"h"}
  Replies <- MCReplies
  Histories <- MCHistories
INVARIANTS
  CeilingHolds
  OutputsAreTheirCalls
  RunKeepsTheGiven
PROPERTY
  RunEnds
\* A run that is over takes no step.
CHECK_DEADLOCK FALSE
