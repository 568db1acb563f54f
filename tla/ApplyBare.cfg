\* The error of a replacement that fails (violation).
SPECIFICATION Spec
CONSTANTS
    a1 = a1
    a2 = a2
    Appliers <- TwoAppliers
    Specs <- Contents
    Desired <- DesiredXY
    Shape <- TwoShapes
    Replaceable = TRUE
    Finalizers = TRUE
    RequestsFail = FALSE
    MaxEdits = 2
CHECK_DEADLOCK FALSE
INVARIANT BareMeansBare
