\* One thread that sleeps and one that does not.
SPECIFICATION FairSpec
CONSTANTS
  t1 = t1
  t2 = t2
  Threads = {t1, t2}
  Sleepers = {t1}
  NoOwner = NoOwner
  Delays = {0, 2}
  MaxElements = 2
  MaxTime = 3
INVARIANTS NoOversleep
PROPERTIES DelayedEventuallyRuns DeferredEventuallyRuns WakeupEventuallyConsumed
