SPECIFICATION Spec
CONSTANTS
  Timers = {t1, t2, t3, t4}
  t1 = t1
  t2 = t2
  t3 = t3
  t4 = t4
  NULL = NULL
  LIFETIME = 2
  MaxNow = 5
INVARIANT TypeOK
INVARIANT WellLinked
PROPERTY ImplementsTimerSet
SYMMETRY Symmetry
