CONSTANTS
  a = a
  b = b
  Terminals <- TwoTerminals
  FirstTabs <- TwoTabs
  Slots <- TwoSlots
  MaxConns = 2
  MaxPushes = 2
  MaxOps = 2
  MaxEvents = 1
  MaxRefusals = 1
SPECIFICATION FairSpec
INVARIANTS TypeOK OneWorker
PROPERTIES TransfersEnd ComparisonEnds
