\* Up to three attempts, three hops, five bytes of body and three bytes in print.
SPECIFICATION RetrySpec
CONSTANTS
  Home <- MCHome
  Urls <- MCUrls
  Statuses <- MCStatuses
  Asked <- MCAsked
  Bodies <- MCBodies
  MaxRedirects = 3
  MaxBody = 5
  BodyInMessage = 3
  MaxRetryAfter = 6
  MaxAttempts = 3
  MaxBackoff = 3
INVARIANTS
  CredentialStaysHome
  AnswersAreWhole
  PrintedBodiesAreReadable
  RetriesAreWarranted
  WaitFollowsTheEndpoint
PROPERTY
  CallReturns
\* A call that has returned takes no step.
CHECK_DEADLOCK FALSE
