CONSTANTS
  a = a
  b = b
  Terminals <- TwoTerminals
  FirstTabs <- TwoTabs
  Slots <- TwoSlots
  MaxConns = 1
  MaxPushes = 2
  MaxOps = 2
  MaxEvents = 2
  MaxRefusals = 0
SPECIFICATION Spec
INVARIANT TransferToItsHost
