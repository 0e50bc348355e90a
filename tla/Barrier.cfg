SPECIFICATION FairSpec
CONSTANTS
  t1 = t1
  t2 = t2
  t3 = t3
  NoThread = NoThread
  Threads = {t1, t2, t3}
  Strays = {t1}
  Conds = {"cond"}
  number_of_threads = 2
  barrier_flag = 8
  MaxWaits = 4
INVARIANT TotalCountsInside
INVARIANT DestroyedWhenEmpty
PROPERTY KeepsPromise
PROPERTY EntryIsReached
CHECK_DEADLOCK FALSE
