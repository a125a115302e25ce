\* Every window but the one that keeps nothing.
SPECIFICATION Spec
CONSTANTS
  CallId <- MCCallId
  Body <- MCBody
  TokenCost <- MCTokenCost
  Windows <- MCWindows
  Batches <- MCBatches
  MaxMessages = 8
INVARIANTS
  SummaryIsOfItsGroups
  ViewTellsTheWhole
