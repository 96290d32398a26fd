SPECIFICATION FairSpec
CONSTANTS
  READ_BUFFER_SIZE = 14
  MaxBody = 3
  MaxRequests = 2
  BodySplit = FALSE
INVARIANT TypeOK
INVARIANT Understood
PROPERTY GetsVerdict
CHECK_DEADLOCK FALSE
