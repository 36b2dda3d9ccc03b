SPECIFICATION FairSpec
CONSTANTS
    Cmds = {c1, c2}
    Managed = {c1, c2}
    Background = {c2}
    Ids = {1, 2}
    None = None
    MaxProcesses = 1
    Protected = 0
    MaxAborts = 1
INVARIANTS RegistrationsEnd
PROPERTIES EveryCommandEnds DenialStopsProcess
CHECK_DEADLOCK FALSE
