SPECIFICATION Spec
CONSTANTS
    Users = {u1}
    Mails = {m1}
    Triggers = {m1}
    Injections = {j1}
    MaxTurns = 2
    MaxInterrupts = 0
    MaxCompacts = 1
    MaxReviews = 1
INVARIANTS RunningIsReachable SteeredInputIsHeld
CHECK_DEADLOCK FALSE
