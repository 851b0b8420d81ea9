SPECIFICATION FairSpec
CONSTANTS
  QueueSize = 2
  RingSize = 2
  MaxSent = 3
  MaxConns = 2
INVARIANTS
  TypeOK
  ReplayIsRecent
  Accounted
PROPERTIES
  EntriesArrive
  SessionLearned
CHECK_DEADLOCK FALSE
