SPECIFICATION Spec
CONSTANTS
    Cmds = {c0, c1, c2}
    Managed = {}
    Background = {c0}
    Ids = {1, 2, 3}
    None = None
    MaxProcesses = 2
    Protected = 1
    MaxAborts = 1
SYMMETRY CommandSymmetry
INVARIANTS OneEnd StoreIsBounded RunningIsReachable
PROPERTIES InterruptSparesProcesses
CHECK_DEADLOCK FALSE
