SPECIFICATION Spec
CONSTANTS
  t1 = t1
  t2 = t2
  w1 = w1
  w2 = w2
  r1 = r1
  r2 = r2
  NoThread = NoThread
  Threads = {t1, t2}
  Workers = {w1, w2}
  Requests = {r1, r2}
  Yields = {"pending", "pending_boost"}
  Strays = {}
  AbortSuspended = FALSE
  MaxTag = 4
  MaxBirths = 1
SYMMETRY Symmetry
INVARIANT TypeOK
INVARIANT ExecutedOnce
INVARIANT HeldOnce
INVARIANT NoSpuriousWake
