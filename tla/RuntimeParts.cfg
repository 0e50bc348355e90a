SPECIFICATION FairSpec
CONSTANTS
  Parts = {"termination", "queues", "port", "credits", "loop", "views", "weights"}
  N = 3
  Parcels = {1, 2}
  Q = 2
  MaxCreated = 3
  MaxTerminated = 1
  MinSteal = 2
  Schedulers = {"local", "static"}
  Dests = {1, 2}
  Putters = {"put"}
  MaxParcels = 2
  MaxConnections = 2
  PerLocality = 2
  MaxFaults = 1
  SizeT = 256
  Slots = {1, 2, 3}
  Hosts = {"here", "there"}
  Splitters = {1, 2}
  LogInitial = 2
  MaxRequests = 3
  MaxSends = 3
  Sizes = {0, 1, 3, 5, 8}
  Strides = {1, 2, 3, 9}
  CoreCounts = {1, 2}
  TaskCounts = {1, 2}
  Parameters = {"auto", "static", "dynamic", "guided", "seq"}
  ChunkSizes = {0, 2}
  Share = 3
  Spread = 4
  Workers = {1, 2}
  Invocations = {1, 2, 3}
  Suspending = {3}
  Loops = {1, 2}
  Classes = 2
  MaxScore = 2
  MaxLoops = 2
INVARIANT TypeOK
INVARIANT DetectedIfReported
INVARIANT NoWorkLeftBehind
INVARIANT ConnectionsAreCounted
INVARIANT CreditsAreConserved
INVARIANT NoEarlyFree
INVARIANT LoopIsComplete
INVARIANT ReductionIsComplete
 
PROPERTY EverythingSettles
CHECK_DEADLOCK FALSE
