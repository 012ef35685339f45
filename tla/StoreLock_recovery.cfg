SPECIFICATION FairSpec
CONSTANTS
  p1 = p1  p2 = p2  p3 = p3
  Procs = {p1, p2, p3}
  NoOwner = NoOwner
  CanCrash = TRUE
  CanStall = FALSE
INVARIANTS TypeOK ExclusionAmongLiving
PROPERTIES LiveOwnerKept LeftoverRecovered
CHECK_DEADLOCK FALSE
