SPECIFICATION MCSpec
CONSTANTS
  Conns = {1, 2}
  Ids = {i1}
  OwnIds = {}
  None = None
  Msgs = {m1}
  Retries = 1
INVARIANTS UnicastTypeOK OncePerWorker
PROPERTIES ClientsAreServed
CHECK_DEADLOCK FALSE
