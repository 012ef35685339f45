SPECIFICATION Spec
CONSTANTS w1 = w1 w2 = w2 a = a safe = safe risky = risky None = None
  Waiters = {w1, w2}
  RequestId <- SameRequest
  Contents = {safe, risky}
  PendingAge = 0
  Retention = 1
  MaxRecords = 2
  AnswerAge = 1
  MaxTime = 2
  MaxAnswers = 2
SYMMETRY Symmetry
INVARIANTS TypeOK OutcomeAgreed CardsAgree 
CHECK_DEADLOCK FALSE
