SPECIFICATION FairSpec
CONSTANTS
  Accounts = {a1, a2}
  MaxRequests = 3
  MaxCrashes = 1
  NoRecord = NoRecord
INVARIANTS
  RepeatsCostACrash
  RowFollowsMemory
PROPERTIES
  EveryRowIsServed
  WorkerReturns
CHECK_DEADLOCK FALSE
