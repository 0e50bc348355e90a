SPECIFICATION FairSpec
CONSTANTS
  u1 = u1
  u2 = u2
  u3 = u3
  u4 = u4
  Parts = {"wait_some", "frame", "guard", "channel", "once"}
  Kinds = {"wait_some", "when_some", "when_any"}
  Size = 3
  MaxYields = 2
  Strays = {"none", "armed"}
  Frames = {"wait_all", "when_all", "when_each", "dataflow", "then", "then_future", "unwrap"}
  Width = 3
  Tasks = {1, 2, 3}
  Guards = {1, 2}
  Users = {u1, u2, u3, u4}
  Blocking = {u1}
  Callers = {1, 2, 3}
  MaxThrows = 2
INVARIANT TypeOK
INVARIANT NotBeforeReady
INVARIANT WokenOnce
INVARIANT OneWalker
INVARIANT OnceAndInOrder
INVARIANT NothingWalksAfterReturn
INVARIANT GuardsExclude
INVARIANT NodesAreFreedOnce
INVARIANT ValuesReachGetters
INVARIANT CloseReleasesGetters
INVARIANT CalledOnce
PROPERTY EverybodyGetsOn
CHECK_DEADLOCK FALSE
