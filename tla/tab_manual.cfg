CONSTANTS
  Max = 2
  OfflineCap = 1
SPECIFICATION Spec
INVARIANT ManualStays
