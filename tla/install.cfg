CONSTANTS
  gui = gui
  cli = cli
  Nobody = Nobody
  Editions <- AllEditions
  Procs <- TwoProcs
  Guis <- OneGui
  Files <- TwoFiles
  InitFiles <- TwoFiles
  Scripts = {}
  Exe <- Names
  Packages <- TwoPackages
  MaxVersion = 2
  MaxOps = 2
SPECIFICATION FairSpec
INVARIANTS TypeOK NoProgramLost LostOnlyBySpoiling FailureRestores
  SuccessInstalls
PROPERTIES BackupIsPrevious LockReleased ImplementsProgramSet
CHECK_DEADLOCK FALSE
