\* Two POSTs and a GET, two processes, pools of one client.
CONSTANTS
  p1 = p1
  p2 = p2
  g1 = g1
  w1 = w1
  w2 = w2
  u1 = u1
  u2 = u2
  u3 = u3
  NoRow = NoRow
  Garbage = Garbage
  MinLength = 2
  Posts <- MCPosts
  Gets <- MCGets
  Procs = {w1, w2}
  Host <- MCHost
  PoolMax = 1
  CommitAckLost = TRUE
  MaxId = 2
  Aliases <- MCAliases
  AliasOf <- MCAliasOf
  Routable <- MCRoutable
  Urls = {u1, u2, u3}
  Clean <- MCClean
  ValidUrls = {u1}
SPECIFICATION Spec
INVARIANTS
  TypeOK
  CollisionFree
  CacheIsDurable
  AnswersAreDurable
  ReadYourWrites
  ClientsAccounted
PROPERTIES
  KeepsPromise
\* Every request is answered once; nothing is left to do after the last one.
CHECK_DEADLOCK FALSE
