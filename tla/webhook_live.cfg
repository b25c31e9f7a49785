CONSTANTS
  b1 = b1
  b2 = b2
  Buckets = {b1, b2}
  Dispatchers = {d1}
  MaxWebhookAttempts = 2
  WebhookBatchSize = 1
  MaxEvents <- MCMaxEvents
  MaxLost = 0
  MaxCrashes = 1
SPECIFICATION FairQueueSpec
PROPERTIES QueuedSettles
CHECK_DEADLOCK FALSE
