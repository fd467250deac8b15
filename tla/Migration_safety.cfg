\* Three replicas, one of them with a pool of a single client; the month may end.
CONSTANTS
  p1 = p1
  p2 = p2
  p3 = p3
  Replicas = {p1, p2, p3}
  PoolMax <- MCPoolMax
  Retries = 1
  Ahead = 2
  LastMonth = 1
SPECIFICATION FairSpec
INVARIANTS
  TypeOK
  SuccessMeansComplete
  SomeoneSucceeds
PROPERTY MigrationEnds
\* Every replica may be done.
CHECK_DEADLOCK FALSE
