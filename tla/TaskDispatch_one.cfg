SPECIFICATION Spec
CONSTANTS
  j1 = j1  j2 = j2  w1 = w1  w2 = w2
  Jobs = {j1, j2}
  Workers = {w1}
  Conversation <- OneConversation
  CreatedAt <- InOrder
  Immediate = {j2}
  MaxLeaders = 1
  JournalFirst = TRUE
  CanCancelFailed = TRUE
  LongOutage = TRUE
  Overdue = TRUE
  MaxCrashes = 1
  MaxFaults = 1
INVARIANTS SavedSuccessNotFailed
PROPERTIES Implements HeldBehindUnsettled
CHECK_DEADLOCK FALSE
