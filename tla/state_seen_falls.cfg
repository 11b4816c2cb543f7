CONSTANTS
  window = window
  cli = cli
  i1 = i1
  i2 = i2
  i3 = i3
  NoInode = NoInode
  Threads <- TwoThreads
  Versions <- TwoVersions
  Dates <- OneDate
  Inodes <- ThreeInodes
  MaxIds = 1
SPECIFICATION Spec
PROPERTIES SeenNeverFalls
