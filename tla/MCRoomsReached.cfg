SPECIFICATION Spec
CONSTANTS
  Callers = {p1}
  Names = {lobby}
  Objs = {o1}
  Ids = {i1, i2}
  Conns = {c1, c2}
  Limits = {1}
  None = None
  MaxJoins = 2
INVARIANTS ConnectedMemberIsReached
CHECK_DEADLOCK FALSE
