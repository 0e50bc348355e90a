SPECIFICATION FairSpec
CONSTANTS
  t1 = t1
  t2 = t2
  t3 = t3
  NoThread = NoThread
  Threads = {t1, t2, t3}
  Conds = {"cond", "shared", "exclusive", "upgrade", t1, t2, t3}
  Objects = {"semaphore"}
  Strays = {}
  MaxCalls = 2
  Untimed = {t1, t2}
  Count = 2
  Resetters = {t3}
  MinInitial = 0
  MaxInitial = 0
  Counts = {1, 2}
  max_difference = 1
  Limits = {2, 3}
  FutureCalls = 1
  Converters = {t1, t2}
PROPERTY NobodyIsForgotten
CHECK_DEADLOCK FALSE
