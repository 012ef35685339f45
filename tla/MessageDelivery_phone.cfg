SPECIFICATION FairSpec
CONSTANTS
  w1 = w1 w2 = w2 m1 = m1 m2 = m2 a1 = a1 a2 = a2 b1 = b1
  Monitors = {w1, w2}
  Messages = {m1, m2}
  Copies = {a1, a2, b1}
  Of <- MessageOf
  MaxLeaders = 1
  MaxFaults = 1
INVARIANTS TypeOK OneRun AcceptedTaken
PROPERTIES RefusalKept Answered
CHECK_DEADLOCK FALSE
