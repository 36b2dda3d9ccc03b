SPECIFICATION FairSpec
CONSTANTS
    MaxRequests = 2
    Keys = {k1}
    NoKey = NoKey
    Conns = {c1, c2}
    NoConn = NoConn
    SingleClientMode = TRUE
CHECK_DEADLOCK FALSE
INVARIANTS TypeOK ConflictsInOrder OneDrainerPerQueue ClosedIsQuiet GracefulExitIsQuiet
PROPERTIES EveryRequestSettles LoopComesBack ImplementsFifoAccess
