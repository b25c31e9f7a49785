CONSTANTS
  b1 = b1
  b2 = b2
  Buckets = {b1, b2}
  Dispatchers = {d1, d2}
  MaxWebhookAttempts = 1
  WebhookBatchSize = 2
  MaxEvents <- MCMaxEvents
  MaxLost = 1
  MaxCrashes = 1
SPECIFICATION QueueSpec
SYMMETRY Symmetry
INVARIANTS SentIsCurrent FailedIsExhausted AttemptsBounded
PROPERTIES SettledStays
CHECK_DEADLOCK FALSE
