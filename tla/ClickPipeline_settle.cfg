\* Every failure of a command or a query, one worker.
CONSTANTS
  c1 = c1
  c2 = c2
  bad = bad
  garbage = garbage
  poison = poison
  t1 = t1
  t2 = t2
  v1 = v1
  v2 = v2
  d1 = d1
  Clicks = {c1, c2, bad, poison}
  Kind <- MCKind
  Trackers = {t1}
  Workers = {v1}
  Drainers = {}
  MaxBuffer = 1
  BatchSize = 2
  Faults = {"redis", "lpop", "connect", "transient", "proxied", "persistent", "commit", "ack", "rpush"}
SPECIFICATION FairSpec
INVARIANT BufferBound
PROPERTY EventuallySettled
