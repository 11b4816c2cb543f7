CONSTANTS
  MaxVersion = 2
  Offers <- AllOffers
SPECIFICATION FairSpec
INVARIANTS TypeOK FlagsAgree CancelIsForThisTask
PROPERTIES InstallAsked CheckAnswered QueuedInstallBegins
CHECK_DEADLOCK FALSE
