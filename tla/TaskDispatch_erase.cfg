SPECIFICATION Spec
CONSTANTS
  j1 = j1  j2 = j2  w1 = w1  w2 = w2
  Jobs = {j1}
  Workers = {w1, w2}
  Conversation <- OneConversation
  CreatedAt <- InOrder
  Immediate = {}
  MaxLeaders = 2
  JournalFirst = TRUE
  CanCancelFailed = TRUE
  LongOutage = FALSE
  Overdue = FALSE
  MaxCrashes = 1
  MaxFaults = 1
INVARIANTS AtMostOneStart
CHECK_DEADLOCK FALSE
