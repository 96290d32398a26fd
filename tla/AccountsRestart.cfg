SPECIFICATION FairSpec
CONSTANTS
  Names = {n1, n2}
  Passwords = {p1, p2}
  None = None
  Blank = Blank
  Workers = {w1, w2}
  NoOne = NoOne
  NoRequest = NoRequest
  MaxRuns = 2
  n1 = n1
  n2 = n2
  p1 = p1
  p2 = p2
  w1 = w1
  w2 = w2
INVARIANT TypeOK
INVARIANT OneAccount
PROPERTY LoginRight
PROPERTY Answered
CHECK_DEADLOCK FALSE
