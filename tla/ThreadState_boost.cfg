SPECIFICATION Spec
CONSTANTS
  t1 = t1
  w1 = w1
  w2 = w2
  r1 = r1
  r2 = r2
  NoThread = NoThread
  Threads = {t1}
  Workers = {w1, w2}
  Requests = {r1, r2}
  Yields = {"pending", "pending_boost"}
  Strays = {"timer"}
  AbortSuspended = FALSE
  MaxTag = 6
  MaxBirths = 1
SYMMETRY Symmetry
INVARIANT ExecutedOnce
