SPECIFICATION FairSpec
CONSTANTS
  t1 = t1 t2 = t2 r1 = r1 r2 = r2 None = None
  Transfers = {t1, t2}
  CreatedAt <- InOrder
  Receivers = {r1, r2}
  Instances <- Three
INVARIANTS TypeOK OneNativeExecution SourceWaits
PROPERTIES AnsweredOnce
CHECK_DEADLOCK FALSE
