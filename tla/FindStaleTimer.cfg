SPECIFICATION Spec
CONSTANTS
  Conns = {c1, c2}
  NoConn = NoConn
  Workers = {w1}
  Main = Main
  Fds = {0}
  MAX_FD = 1
  MaxRequests = 1
  TIMESLOT = 1
  ReplySize = 1
  MaxSends = 1
  ReuseBusy = TRUE
  EmptyFiles = FALSE
  c1 = c1
  c2 = c2
  w1 = w1
PROPERTY OnlyIdleClosed
CHECK_DEADLOCK FALSE
