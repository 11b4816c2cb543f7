CONSTANTS
  a = a
  b = b
  h = h
  p = p
  q = q
  NoPassword = NoPassword
  Devices <- TwoDevices
  CredDevices <- NoDevice
  Hosts <- OneHost
  Values <- TwoValues
  Passwords <- OnePassword
  New = 1
  NewPassword = p
  Refusals <- AllRefusals
  MaxClock = 3
  MaxEdits = 2
  Faults <- AllFaults
  MaxFaults = 1
  MaxTies = 0
SPECIFICATION FairSpec
INVARIANT TypeOK
PROPERTIES Converges NoResurrection
CHECK_DEADLOCK FALSE
