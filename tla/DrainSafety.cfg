CONSTANTS
    p1 = p1
    p2 = p2
    p3 = p3
    Pods <- ThreePods
    DisableEviction = FALSE
    SkipOverdue = TRUE
    HasTimeout = TRUE
    HasCancel = TRUE
    GetsFail = TRUE
SPECIFICATION Spec
SYMMETRY Symmetric
INVARIANTS
    TypeOK
    NoGoroutineLeft
    VerdictExact
    NilMeansGone
    ErrorMeansPending
    ToldOnce
CHECK_DEADLOCK FALSE
