CONSTANTS
  MaxOffset = 3
  NotJSON = {2}
  maxRetries = 2
  ErrLimit = 1
  MaxRestarts = 2
SPECIFICATION FairConsumerSpec
INVARIANTS CommitPassesOnlyDecided UnhealthyIffEnded
PROPERTIES CommittedNeverRewinds DeliveryEnds StopEndsLoop
CHECK_DEADLOCK FALSE
