SPECIFICATION MCSpec
CONSTANTS
  Conns = {c1, c2}
  Ids = {i1}
  OwnIds = {}
  None = None
  AuthEnabled = TRUE
  AllowAnonymous = TRUE
  Talkers = {c1}
INVARIANTS ServerTypeOK MemberHadPermission EventsInOrder
PROPERTIES EveryoneReturns
CHECK_DEADLOCK FALSE
