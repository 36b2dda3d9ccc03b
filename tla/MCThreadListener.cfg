SPECIFICATION MCFairSpec
CONSTANTS
  Conns = {c1, c2}
  None = None
  MaxOps = 1
  MaxLoads = 2
  MaxListeners = 2
  MaxRemovals = 1
INVARIANTS UnloadSparesSubscribers ServedUnlessOverlapped
PROPERTIES UnloadIsReleased IdleThreadIsUnloaded
CHECK_DEADLOCK FALSE
