CONSTANTS
  p1 = p1
  p2 = p2
  r1 = r1
  r2 = r2
  h1 = h1
  Plants <- MCPlants
  Processes <- MCProcesses
  Callers <- MCCallers
  ProcessOf <- MCProcessOf
  NoPlant = NoPlant
  CacheSize = 1
  plantsBefore = {p2}
  MaxOffset = 3
  PlantOf <- MCPlantOf
  Malformed = {}
  Invalid = {1}
  TestHandlers = {h1}
  maxRetries = 1
  MaxDisturbances = 1
SPECIFICATION ProcessingSpec
INVARIANTS ProcessingTypeOK AnswersJustified StatusNotBehindCommit AcceptedOncePerDelivery
CHECK_DEADLOCK FALSE
