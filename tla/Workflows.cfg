SPECIFICATION Spec
CONSTANTS
  s1 = s1
  Streams = {s1}
  Graphs = {"recovery", "risk", "content"}
  Backends = {"memory", "sqlite"}
  Proxies = {"proxy"}
  MaxAttempts = 2
  Policies = {"continue"}
  MaxRevisions = 2
  Edits = {"edit"}
  MaxRuns = 2
  MaxResumes = 2
INVARIANTS
  EffectsAreAnswered
  LoginsAreBounded
  
PROPERTIES
  StreamsEnd
