SPECIFICATION FairSpec
CONSTANTS
  Threads = {t1, t2}
  Streams = {s1}
  Capacity = 2
  MaxChanges = 4
  Error = Error
INVARIANTS
  TypeOK
  NoMissedChange
  NoListenerLeaks
PROPERTIES
  ChangesAreShown
CHECK_DEADLOCK FALSE
