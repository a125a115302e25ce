\* The groups of what a conversation stores.
SPECIFICATION ConversationSpec
CONSTANTS
  c1 = c1
  c2 = c2
  c3 = c3
  c4 = c4
  CallId <- MCCallId
  Body <- MCBody
  TokenCost <- MCTokenCost
  MaxConcurrent = 2
  MaxTurns = 2
  HasSystem = TRUE
  Required = FALSE
  Registered <- MCRegistered
  NameOf <- MCNameOf
  DeniedNames = {}
  Replies <- MCReplies
  Histories <- NoHistories
  CallerTurns <- MCCallerTurns
  Keeps = {1, 2, 3}
  MaxStored = 5
INVARIANT
  GroupsAreExchanges
