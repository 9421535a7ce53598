SPECIFICATION Spec
CONSTANTS
  None = None
  Boot = boot
  Requests = {boot, r1, r2}
  Users = {u1}
  AccountIds = {i1, i2, i3}
  MaxAttempts = 2
  VerifyRestored = FALSE
  MaxStarts = 3
  MaxRestarts = 0
SYMMETRY LoginSymmetry
INVARIANTS
  EntriesMatchWaits
  UnracedAccountsAgree
  BulkTakesTurns
PROPERTIES
  PendingStatusHasEntry
CHECK_DEADLOCK FALSE
