SPECIFICATION Safety
CONSTANTS
  Conns = {c1, c2, c3}
  Ids = {i1, u1}
  OwnIds = {u1}
  None = None
SYMMETRY ConnSymmetry
INVARIANTS TypeOK LateFailureIsRemoved GaugeCountsOpen OpenIsReachable CloseShutsEveryone
CHECK_DEADLOCK FALSE
