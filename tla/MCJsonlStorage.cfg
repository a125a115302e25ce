\* Any write may fail or be cut short; after an Err the file is opened anew.
SPECIFICATION JsonlSpec
CONSTANTS
  CallId <- MCCallId
  Body <- MCBody
  TokenCost <- MCTokenCost
  Windows <- MCWindows
  Batches <- MCBatches
  MaxMessages = 5
  SummaryWriteMayTear = FALSE
  CallerReopens = TRUE
  MaxImages = 6
INVARIANTS
  MemoryIsTheFile
  AcknowledgedSurvive
  StoredSummaryIsOfItsGroups
PROPERTY
  ImplementsDurableTranscript
