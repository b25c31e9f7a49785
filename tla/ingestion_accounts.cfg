CONSTANTS
  MaxOffset = 2
  NotJSON = {}
  maxRetries = 1
  ErrLimit = 0
  MaxRestarts = 1
  Events <- MCEvents
  Raw = {}
  OpWorkers = {o1}
  AnWorkers = {a1}
  PipelineBufferSize = 1
  BatchSize = 2
  MaxCallers = 1
  MaxBuilds = 2
  None = None
SPECIFICATION IngestionSpec
INVARIANTS CommittedIsAccounted RefusedIsRedelivered
CHECK_DEADLOCK FALSE
