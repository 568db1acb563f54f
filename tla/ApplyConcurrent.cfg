\* Two appliers of different shapes, with replacement, finalizers and failures.
SPECIFICATION Spec
CONSTANTS
    a1 = a1
    a2 = a2
    Appliers <- TwoAppliers
    Specs <- Contents
    Desired <- DesiredXY
    Shape <- TwoShapes
    Replaceable = TRUE
    Finalizers = TRUE
    RequestsFail = TRUE
    MaxEdits = 2
CHECK_DEADLOCK FALSE
INVARIANTS TypeOK  NoBlindOverwrite
