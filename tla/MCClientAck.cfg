SPECIFICATION Spec
CONSTANTS
  Senders = {s1}
  Closers = {}
  Reader = reader
  Writer = writer
  NoFrame = NoFrame
  Cap = 1
  MaxSends = 1
PROPERTIES AckAnswered
CHECK_DEADLOCK FALSE
