SPECIFICATION FairSpec
CONSTANTS
    Hosts = {h1}
    Requests = {r1, r2}
    Calls = {c1, c2}
    None = None
    MaxDrops = 1
    MaxAborts = 1
INVARIANTS OneOwnerPerHost SessionAnswerIsKept SettledHostIsNotAskedAgain DenialStopsCall
PROPERTIES EveryRequestIsDecided
CHECK_DEADLOCK FALSE
