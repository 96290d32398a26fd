SPECIFICATION FairSpec
CONSTANTS
  READ_BUFFER_SIZE = 16
  MaxBody = 2
  MaxRequests = 1
  BodySplit = TRUE
PROPERTY GetsVerdict
CHECK_DEADLOCK FALSE
