SPECIFICATION Spec
CONSTANTS
  Snapshot = {"s1", "s2"}
  NoSnapshot = NoSnapshot
  Tree = {"r1", "r2", "d", "e"}
  Root <- SomeRoots
  Nodes <- SomeNodes
  Target <- SomeTargets
  NoTarget = NoTarget
  Conn = {c1}
  Blobs = 2
  Capacity = 1
  Ttl = 1
  MaxTime = 2
  MaxStarts = 2
INVARIANTS TypeOK ShowsChosen ServesBound QuietOffScreen
PROPERTIES RefreshStays ServerEnds
