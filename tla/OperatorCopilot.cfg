SPECIFICATION Spec
CONSTANTS
  Streams = {s1, s2}
  Positions = {1, 2}
  CallIds = {1, 2}
  ReadTools = {"read"}
  WriteTools = {"write"}
  OtherTools = {"unknown"}
  Registered = {"read", "write", "unknown"}
  Plans <- SomePlans
  Edits <- SomeEdits
  MaxRuns = 2
  MaxResumes = 2
SYMMETRY StreamSymmetry
INVARIANTS
  TypeOK
  BlockedNeverRuns
  WritesAreDecided
  ExecutesWhatWasApproved
  SuccessWasRun
PROPERTIES
  NoCallRunsTwice
