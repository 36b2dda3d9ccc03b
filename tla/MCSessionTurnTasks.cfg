SPECIFICATION Spec
CONSTANTS
    Users = {u1, u2}
    Mails = {m1}
    Triggers = {m1}
    Injections = {}
    MaxTurns = 3
    MaxInterrupts = 0
    MaxCompacts = 0
    MaxReviews = 0
INVARIANTS AtMostOneTask
CHECK_DEADLOCK FALSE
