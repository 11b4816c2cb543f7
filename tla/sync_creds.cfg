CONSTANTS
  a = a
  b = b
  h = h
  p = p
  q = q
  NoPassword = NoPassword
  Devices <- TwoDevices
  CredDevices <- TwoDevices
  Hosts <- OneHost
  Values <- OneValue
  Passwords <- TwoPasswords
  New = 1
  NewPassword = p
  Refusals <- AllRefusals
  MaxClock = 2
  MaxEdits = 1
  Faults <- ButFailure
  MaxFaults = 1
  MaxTies = 0
SPECIFICATION FairSpec
PROPERTY PasswordsConverge
CHECK_DEADLOCK FALSE
