SPECIFICATION FairQueueSpec
CONSTANTS
  j1 = j1  w1 = w1  App = App
  Jobs = {j1}
  Workers = {w1}
  Conversation <- Alone
  CreatedAt <- First
  Immediate = {}
  MaxLeaders = 1
  JournalFirst = FALSE
  CanCancelFailed = TRUE
  LongOutage = FALSE
  Overdue = TRUE
  MaxCrashes = 1
  MaxFaults = 1
  MaxLosses = 1
INVARIANTS QueueTypeOK BodyOutlivesJob
PROPERTIES QueueSettles
CHECK_DEADLOCK FALSE
