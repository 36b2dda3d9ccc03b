SPECIFICATION FairSpec
CONSTANTS
    Users = {u1}
    Mails = {m1}
    Triggers = {m1}
    Injections = {}
    MaxTurns = 2
    MaxInterrupts = 1
    MaxCompacts = 0
    MaxReviews = 1
PROPERTIES TurnsEnd SessionComesToRest TriggersAreDelivered
CHECK_DEADLOCK FALSE
