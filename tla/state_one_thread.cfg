CONSTANTS
  window = window
  cli = cli
  i1 = i1
  i2 = i2
  i3 = i3
  NoInode = NoInode
  Threads <- OneThread
  Versions <- TwoVersions
  Dates <- TwoDates
  Inodes <- TwoInodes
  MaxIds = 2
SPECIFICATION Spec
INVARIANT TypeOK
PROPERTIES SeenNeverFalls DecisionsKept ClientIdStable
