CONSTANTS
  Max = 2
  OfflineCap = 2
SPECIFICATION FairSpec
INVARIANTS TypeOK AttemptUndisturbed
PROPERTIES OfflineKept RetryComes EndIsSeen ConnectingEnds
