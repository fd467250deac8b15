\* The same replicas.
CONSTANTS
  p1 = p1
  p2 = p2
  p3 = p3
  Replicas = {p1, p2, p3}
  PoolMax <- MCPoolMax
  Retries = 1
  Ahead = 2
  LastMonth = 1
SPECIFICATION Spec
INVARIANT NoConcurrentMigrations
