SPECIFICATION Spec
CONSTANTS
  Accounts = {a1, a2}
  MaxRequests = 3
  MaxCrashes = 1
  NoRecord = NoRecord
INVARIANTS
  StoppedStaysStopped
CHECK_DEADLOCK FALSE
