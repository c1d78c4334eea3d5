\* Two threads that call every operation, three actions, some delayed.
SPECIFICATION Spec
CONSTANTS
  t1 = t1
  t2 = t2
  Threads = {t1, t2}
  Sleepers = {t1, t2}
  NoOwner = NoOwner
  Delays = {0, 1, 2}
  MaxElements = 3
  MaxTime = 3
SYMMETRY Symmetry
INVARIANTS TypeOK OneRunner NoSelfDeadlock WakeupNotLost
PROPERTIES ImplementsDeferredActions
