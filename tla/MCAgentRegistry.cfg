SPECIFICATION Spec
CONSTANTS
    Spawns = {s1, s2, s3}
    Closes = {c1, c2}
    Threads = {t1, t2}
    RootThread = RootThread
    Paths = {p1}
    RootPath = RootPath
    NoPath = NoPath
    NoThread = NoThread
    MaxThreads = 2
    MaxUnloads = 1
SYMMETRY AgentSymmetry
INVARIANTS TypeOK CountCoversAgents PathsAreExclusive
CHECK_DEADLOCK FALSE
