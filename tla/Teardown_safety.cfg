\* Three connections and a pool of two clients, a worker of a cluster or a single process.
CONSTANTS
  r1 = r1
  r2 = r2
  r3 = r3
  Requests = {r1, r2, r3}
  PoolMax = 2
SPECIFICATION FairSpec
INVARIANTS
  TypeOK
  ClientsMeetAnOpenPool
  WarmNeverMeetsQuit
  CleanExitSeversNothing
PROPERTY ShutdownEnds
\* The process ends.
CHECK_DEADLOCK FALSE
