SPECIFICATION Spec
CONSTANTS
  Jobs = {j1}
  Accounts = {a1, a2}
  Requests = {q1, q2, q3, q4}
  Ops = {"create", "stop", "delete"}
  Whens = {"now", "past", "future", "invalid"}
  Targets <- AllAccounts
  MaxInFlight = 1
  MaxRuns = 3
  Stalls = FALSE
  NoJob = NoJob
  NoAccount = NoAccount
INVARIANTS
  SettledJobAddsUp
PROPERTIES
  StopHolds
