CONSTANTS
  QueueCap = 2
  InterruptCap = 1
  ResizeCap = 1
  MergeCap = 2
  ReadCap = 2
  MaxStalls = 1
  MaxSent = 3
  MaxInterrupts = 1
  MaxResizes = 2
  MaxInbound = 2
SPECIFICATION FairSpec
INVARIANTS TypeOK NoSilentEnd AllOutputFirst InterruptSoon
PROPERTIES ImplementsFeed ExecAnswered PumpEnds SizeApplied
CHECK_DEADLOCK FALSE
