SPECIFICATION FairSpec
CONSTANTS
  m_split_lines = 2
  max_queue_size = 2
  MaxLines = 6
  MaxDay = 2
  MaxCrashes = 1
INVARIANT TypeOK
INVARIANT EachOnce
INVARIANT InOrder
INVARIANT Overshoot
INVARIANT SmallLoss
PROPERTY GetsWritten
CHECK_DEADLOCK FALSE
