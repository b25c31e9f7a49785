CONSTANTS
  r1 = r1
  r2 = r2
  c1 = c1
  c2 = c2
  c3 = c3
  Replicas = {r1, r2}
  Conns = {c1, c2, c3}
  PoolOf <- MCPoolOf
  NoConn = NoConn
  MaxDepth = 2
  WebhookEnabled = FALSE
SPECIFICATION FairCoordinatorSpec
INVARIANTS ExclusiveWhileSessionLives StoppedIsQuiet
PROPERTIES CoordinatorStops LateLoopsEnd
CHECK_DEADLOCK FALSE
