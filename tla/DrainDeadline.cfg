CONSTANTS
    p1 = p1
    p2 = p2
    p3 = p3
    Pods <- TwoPods
    DisableEviction = FALSE
    SkipOverdue = TRUE
    HasTimeout = TRUE
    HasCancel = FALSE
    GetsFail = TRUE
SPECIFICATION FairSpec
PROPERTIES
    ImplementsRemoval
    Returns
    ResultsReceived
CHECK_DEADLOCK FALSE
