SPECIFICATION Spec
CONSTANTS
  Threads = {t1}
  Streams = {s1, s2}
  Targets = {x1, x2}
  NoTarget = NoTarget
  RecallLimit = 2
  MaxRuns = 2
  MaxResumes = 2
SYMMETRY EngagementSymmetry
INVARIANTS
  EffectsAreDecided
  NoSecondApproach
CHECK_DEADLOCK FALSE
