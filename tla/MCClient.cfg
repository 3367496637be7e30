SPECIFICATION Spec
CONSTANTS
  Senders = {s1}
  Closers = {k1}
  Reader = reader
  Writer = writer
  NoFrame = NoFrame
  Cap = 2
  MaxSends = 2
INVARIANTS TypeOK NoGapNoReorder AckTellsTheTruth ShutdownIsABarrier
PROPERTIES LoopsEnd ImplementsPipe
CHECK_DEADLOCK FALSE
