\* One call, which asks for an answer with an optional member that cannot be null.
SPECIFICATION RequestSpec
CONSTANTS
  Lower <- MCLower
  Telling <- MCTelling
  BaseParts <- MCBaseParts
  DefaultMaxTokens = "4096"
  Answers <- MCAnswers
  Auths <- MCAuths
  HeaderNames <- MCHeaderNames
  QueryNames <- MCQueryNames
  Overlays <- MCOverlays
  Settings <- MCSettings
  Schemas <- MCUntypedSchemas
  Merged = {"temperature", "maxTokens"}
  MaxCalls <- MCOneCall
INVARIANT AbsentMayBeNull
CHECK_DEADLOCK FALSE
