SPECIFICATION FairSpec
CONSTANTS
  t1 = t1
  t2 = t2
  t3 = t3
  NoThread = NoThread
  Threads = {t1, t2, t3}
  Conds = {"cond", "shared", "exclusive", "upgrade", t1, t2, t3}
  Objects = {"mutex", "latch", "event", "semaphore", "sliding", "future", "shared_mutex"}
  Strays = {t1}
  MaxCalls = 2
  Untimed = {t1, t2}
  Count = 2
  Resetters = {t3}
  MinInitial = 1
  MaxInitial = 1
  Counts = {1}
  max_difference = 1
  Limits = {2, 3}
  FutureCalls = 1
  Converters = {t1, t2}
INVARIANT TypeOK
INVARIANT HeldByRight
INVARIANT FreeIsOffered
INVARIANT RunOnce
PROPERTY ReturnsWhenOpen
PROPERTY NobodyIsForgotten
CHECK_DEADLOCK FALSE
