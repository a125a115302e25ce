\* A summary that is written in part, whose load goes on.
SPECIFICATION JsonlSpec
CONSTANTS
  CallId <- MCCallId
  Body <- MCBody
  TokenCost <- MCTokenCost
  Windows <- MCWindows
  Batches <- MCBatches
  MaxMessages = 5
  SummaryWriteMayTear = TRUE
  CallerReopens = TRUE
  MaxImages = 6
INVARIANT
  AcknowledgedSurvive
