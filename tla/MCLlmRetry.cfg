SPECIFICATION FairSpec
CONSTANTS
  MaxAttempts = 3
  MaxExtraMS = 6
  BaseDelayMS = 1
  MaxDelayMS = 4
  Jitter = TRUE
  RetryAfters = {0, 3, 9}
  Statuses = {400, 401, 402, 403, 404, 422, 429, 500, 503, 529}
  Texts <- SmallTexts
  MaxCalls = 2
  OwnsHTTP = TRUE
INVARIANT RetryIsBounded
INVARIANT QuotaNeverRetried
INVARIANT JournalIsComplete
INVARIANT GivesUpOnlyWhenSpent
INVARIANT OneLateRequest
PROPERTY EveryCompleteReturns
CHECK_DEADLOCK FALSE
