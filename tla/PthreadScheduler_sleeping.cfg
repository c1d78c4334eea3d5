\* A single thread, a delayed action and one without delay.
SPECIFICATION FairSpec
CONSTANTS
  t1 = t1
  t2 = t2
  Threads = {t1}
  Sleepers = {t1}
  NoOwner = NoOwner
  Delays = {0, 1}
  MaxElements = 2
  MaxTime = 3
PROPERTIES NothingDeferredBeforeSleeping
