\* Every fault there is; a flush worker and a caller of processBufferedClicks.
CONSTANTS
  c1 = c1
  c2 = c2
  bad = bad
  garbage = garbage
  poison = poison
  t1 = t1
  t2 = t2
  v1 = v1
  v2 = v2
  d1 = d1
  Clicks = {c1, garbage, poison}
  Kind <- MCKind
  Trackers = {t1, t2}
  Workers = {v1}
  Drainers = {d1}
  MaxBuffer = 1
  BatchSize = 2
  Faults = {"redis", "lpop", "resend", "connect", "transient", "proxied", "persistent", "commit", "ack", "rpush", "stop", "crash"}
SPECIFICATION Spec
INVARIANTS
  TypeOK
  StoredAtMostOnce
  CountedBeforeBuffered
PROPERTY LostOnlyWhereGivenUp
SYMMETRY MCSymmetry
