SPECIFICATION FairSpec
CONSTANTS
  Jobs = {j1, j2}
  Accounts = {a1}
  Requests = {q1, q2, q3}
  Ops = {"create", "stop", "retry", "delete"}
  Whens = {"now", "future"}
  Targets <- SomeEmpty
  MaxInFlight = 1
  MaxRuns = 3
  Stalls = FALSE
  NoJob = NoJob
  NoAccount = NoAccount
PROPERTIES
  EveryJobEnds
