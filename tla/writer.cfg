CONSTANTS
  Events = {e1, e2}
  Raw = {e1}
  OpWorkers = {o1, o2}
  AnWorkers = {a1}
  PipelineBufferSize = 1
  BatchSize = 2
  MaxCallers = 1
SPECIFICATION FairWriterSpec
INVARIANTS Conservation StrandedOnlyByRace SyncOperationalFirst StrandedBound
PROPERTIES PipesAreSinks StopReturns EnqueuedSettles
CHECK_DEADLOCK FALSE
