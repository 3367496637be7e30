SPECIFICATION Spec
CONSTANTS
  Callers = {p1, p2}
  Names = {lobby}
  Objs = {o1, o2}
  Ids = {i1, i2}
  Conns = {c1, c2, c3}
  Limits = {0, 1}
  None = None
  MaxJoins = 3
SYMMETRY RoomsSymmetry
INVARIANTS TypeOK WithinLimit MetricsAgree
PROPERTIES ImplementsRoster
CHECK_DEADLOCK FALSE
