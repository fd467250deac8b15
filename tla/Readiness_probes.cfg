\* Two probes, a request and a pool of two clients.
CONSTANTS
  p1 = p1
  p2 = p2
  u1 = u1
  k1 = k1
  k2 = k2
  Probes = {p1, p2}
  Users = {u1}
  Conns = {k1, k2}
  Nobody = Nobody
  MaxAhead = 2
SPECIFICATION FairSpec
INVARIANTS
  TypeOK
  ReadyIsTrue
  ClientsReturn
PROPERTIES
  ProbeEnds
  Recovers
