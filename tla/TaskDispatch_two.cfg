SPECIFICATION Spec
CONSTANTS
  j1 = j1  j2 = j2  w1 = w1  w2 = w2
  Jobs = {j1}
  Workers = {w1, w2}
  Conversation <- OneConversation
  CreatedAt <- InOrder
  Immediate = {}
  MaxLeaders = 2
  JournalFirst = FALSE
  CanCancelFailed = TRUE
  LongOutage = TRUE
  Overdue = TRUE
  MaxCrashes = 1
  MaxFaults = 1
INVARIANTS TypeOK AtMostOneStart OutcomeHonest ReplayProtected
CHECK_DEADLOCK FALSE
