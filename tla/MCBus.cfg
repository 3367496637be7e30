SPECIFICATION MCSpec
CONSTANTS
  Subs = {1, 2}
  Msgs = {m1, f1}
  Foreign = {f1}
  Cap = 1
  Batch = 2
  MaxDeliver = 2
  MaxStream = 2
  None = None
  Nodes = {n1, n2}
  Names = {a, b}
  Tries = 2
INVARIANTS TypeOK OkMeansTaken NothingForgottenUnread LostOnlyToStaleWrite
PROPERTIES ImplementsBus InOrderOnce ChannelsClose HandedOrGivenUp
CHECK_DEADLOCK FALSE
