SPECIFICATION FairSpec
CONSTANTS
  c1 = c1  c2 = c2  s1 = s1  s2 = s2  s3 = s3  s4 = s4  s5 = s5  m1 = m1  m2 = m2  m3 = m3  p = p  None = None
  Computers = {c1, c2}
  Sessions = {s1, s2, s3, s4, s5}
  First = s1
  Home <- HomeOf
  Moves = {m1, m2, m3, p}
  From <- FromOf
  To <- ToOf
  Prepared = {p}
  Rank <- RankOf
  MaxNow = 5
  Instances <- All
INVARIANTS TypeOK
PROPERTIES Settles MovedStaysMoved
CHECK_DEADLOCK FALSE
