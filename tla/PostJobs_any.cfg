SPECIFICATION Spec
CONSTANTS
  Jobs = {j1}
  Accounts = {a1}
  Requests = {q1, q2, q3}
  Ops = {"create", "stop", "pause", "resume", "retry", "delete"}
  Whens = {"now"}
  Targets <- AllAccounts
  MaxInFlight = 2
  MaxRuns = 3
  Stalls = TRUE
  NoJob = NoJob
  NoAccount = NoAccount
INVARIANTS
  TypeOK
  AtMostOnePost
  SuccessMeansPosted
  NoLostJob
PROPERTIES
  ImplementsDelivery
CHECK_DEADLOCK FALSE
