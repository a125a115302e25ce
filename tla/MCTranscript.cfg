\* Every transcript of up to five messages, each id called at most once.
SPECIFICATION Spec
CONSTANTS
  c1 = c1
  c2 = c2
  CallId <- MCCallId
  Body <- MCBody
  TokenCost <- MCTokenCost
  Messages <- MCMessages
  MaxLen = 5
  Budgets = {0, 3, 5, 8}
  ReusedIds = FALSE
INVARIANTS
  LoopsAgree
  RepairIsSound
  WindowsAreSound
  TokenWindowIsTight
  RepairedIsAccepted
  TranscriptIsSentWhole
PROPERTY
  OlderGroupsAreSettled
CHECK_DEADLOCK FALSE
