SPECIFICATION Spec
CONSTANTS
  Publishers = {p1}
  Loops = {broadcastLoop, roomLoop}
  RoomLoops = {roomLoop}
  Remote = {m1}
  Never = Never
  TTL = 1
  Gap = 2
  Period = 2
  MaxTime = 4
  MaxOwn = 2
INVARIANTS TypeOK
PROPERTIES AtMostOncePerTTL CleanupsApart CleanupIsComplete
CHECK_DEADLOCK FALSE
