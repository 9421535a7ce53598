SPECIFICATION Spec
CONSTANTS
  Requests = {q1, q2}
  Targets = 2
  MaxLogins = 20
SYMMETRY RequestSymmetry
VIEW Relevant
INVARIANTS
  ReadOnlyToolsNeverWrite
  WritesAreReported
  LimitHolds
  DeadSessionsAreDropped
PROPERTIES
  TransientFailureKeepsSession
