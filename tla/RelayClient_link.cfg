SPECIFICATION FairSpec
CONSTANTS
  m1 = m1 snapshot = snapshot None = None
  Messages = {m1}
  Jobs = {snapshot}
  Urgent = {}
  Window = 1
  QueueLimit = 2
  MaxFingerprints = 1
  MaxSockets = 2
  MaxDrops = 1
  MaxCrashes = 1
INVARIANTS TypeOK OneSocket
PROPERTIES AppliedOnce Drains
CHECK_DEADLOCK FALSE
