\* Three calls about the address or the merging, two about the question.
SPECIFICATION RequestSpec
CONSTANTS
  Lower <- MCLower
  Telling <- MCTelling
  BaseParts <- MCBaseParts
  DefaultMaxTokens = "4096"
  Answers <- MCAnswers
  Auths <- MCAuths
  HeaderNames <- MCHeaderNames
  QueryNames <- MCQueryNames
  Overlays <- MCOverlays
  Settings <- MCSettings
  Schemas <- MCSchemas
  Merged = {"temperature", "maxTokens"}
  MaxCalls <- MCMaxCalls
INVARIANTS
  HeadersGoOutOnce
  SecretsAreNeverPrinted
  PrintedUrlIsTheSentOne
  LaterFieldsWin
  NothingAskedIsDropped
  RewrittenSchemasAreStrict
  RewrittenSchemasKeepTheirMeaning
\* What is posted takes no step.
CHECK_DEADLOCK FALSE
