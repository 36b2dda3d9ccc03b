SPECIFICATION FairSpec
CONSTANTS
    Clients = {a, b}
    None = None
    QueueLimit = 2
    MaxItems = 2
    MaxFailures = 3
    MaxResumes = 1
INVARIANTS LoadedInOrder
PROPERTIES LogSpec EveryCallReturns
CHECK_DEADLOCK FALSE
