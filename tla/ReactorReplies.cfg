SPECIFICATION Spec
CONSTANTS
  Conns = {c1, c2}
  NoConn = NoConn
  Workers = {w1, w2}
  Main = Main
  Fds = {0}
  MAX_FD = 1
  MaxRequests = 1
  TIMESLOT = 1
  ReplySize = 2
  MaxSends = 2
  ReuseBusy = FALSE
  EmptyFiles = TRUE
  c1 = c1
  c2 = c2
  w1 = w1
  w2 = w2
INVARIANT TypeOK
INVARIANT Handshake
INVARIANT AlarmToken
INVARIANT ConnExclusive
INVARIANT RepliesBelong
SYMMETRY Symmetry
CHECK_DEADLOCK FALSE
