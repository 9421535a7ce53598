SPECIFICATION FairSpec
CONSTANTS
  None = None
  Boot = boot
  Requests = {boot, r1}
  Users = {u1}
  AccountIds = {i1, i2}
  MaxAttempts = 2
  VerifyRestored = TRUE
  MaxStarts = 1
  MaxRestarts = 1
PROPERTIES
  RequestsEnd
  RestoreEnds
CHECK_DEADLOCK FALSE
