SPECIFICATION Safety
CONSTANTS
  Conns = {c1, c2, c3}
  Ids = {i1}
  None = None
  OwnIds = {}
INVARIANTS OneOpenPerId
CHECK_DEADLOCK FALSE
