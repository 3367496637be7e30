SPECIFICATION MCSpec
CONSTANTS
  m1 = m1
  m2 = m2
  n1 = n1
  n2 = n2
  Msgs = {m1, m2}
  Nodes = {n1, n2}
  NoId = NoId
  Retries = 1
  MaxRepeats = 1
INVARIANTS TypeOK OncePerTTL RemoteSeesFrame
PROPERTIES SubscriptionsGoOn
CHECK_DEADLOCK FALSE
