CONSTANTS
  Requests <- MCRequests
  ClientOf <- MCClientOf
  NoLimiter = "none"
  Burst = 2
  cleanupAge = 3
  Patience = 1
  MaxTime = 4
  Ids = {1, 2}
  Operation <- MCOperation
  IdOf <- MCIdOf
  NameOf <- MCNameOf
  DescriptionOf <- MCDescriptionOf
  examplesBefore <- MCExamplesBefore
SPECIFICATION RestSpec
INVARIANTS SerialUnlessRaced HandledWithinRate
PROPERTIES IsClientBuckets
CHECK_DEADLOCK FALSE
