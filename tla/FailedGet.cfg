CONSTANTS
    p1 = p1
    p2 = p2
    p3 = p3
    Pods <- TwoPods
    DisableEviction = FALSE
    SkipOverdue = FALSE
    HasTimeout = TRUE
    HasCancel = FALSE
    GetsFail = TRUE
SPECIFICATION Spec
INVARIANT ToldWhenGone
CHECK_DEADLOCK FALSE
