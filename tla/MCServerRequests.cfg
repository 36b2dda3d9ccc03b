SPECIFICATION FairSpec
CONSTANTS
  Conns = {c1, c2}
  None = None
  MaxAsks = 1
  MaxTurns = 1
  MaxJoins = 1
INVARIANTS OpenRequestsAreShown
PROPERTIES NoRequestLeftOpen ResolvedIsLast RespondersFinish LoopComesBack
CHECK_DEADLOCK FALSE
