SPECIFICATION Spec
CONSTANTS
    Clients = {a, b}
    None = None
    QueueLimit = 2
    MaxItems = 2
    MaxFailures = 1
    MaxResumes = 1
INVARIANT ConfirmedIsLoaded
CHECK_DEADLOCK FALSE
