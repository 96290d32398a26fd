SPECIFICATION FairSpec
CONSTANTS
  Items = {a, b}
  Consumers = {p1, p2}
  max_size = 3
  Garbage = Garbage
  p1 = p1
  p2 = p2
  a = a
  b = b
INVARIANT TypeOK
INVARIANT NoSleeper
PROPERTY ImplementsQueue
PROPERTY Drains
