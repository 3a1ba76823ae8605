SPECIFICATION StoreSpec
CONSTANTS
  Keys = {k1, k2, k3}
  Clients = {c1, c2}
  Workers = {w1, w2}
  Requests = {r1, r2, r3}
  Shards = {s1, s2}
  MaxInflight = 2
  None = None
INVARIANTS
  NobodyIsStranded
  StoreOutlivesItsReads
SYMMETRY Interchangeable
PROPERTIES
  QuietOnceClosed
  ImplementsRegistry
CHECK_DEADLOCK FALSE
