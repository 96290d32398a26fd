SPECIFICATION FairSpec
CONSTANTS
  MYSQLs = {m1, m2}
  Workers = {w1, w2, w3, w4}
  NULL = NULL
  m1 = m1
  m2 = m2
  w1 = w1
  w2 = w2
  w3 = w3
  w4 = w4
INVARIANT TypeOK
INVARIANT OneOwner
INVARIANT Counted
PROPERTY GoesOn
