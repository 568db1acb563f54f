\* One pod of every kind, every option.
SPECIFICATION FiltersSpec
CONSTANTS
    p1 = p1
    p2 = p2
    NoPod = NoPod
    NodePods <- OnePod
    Kinds <- EveryKind
CHECK_DEADLOCK FALSE
INVARIANTS FiltersTypeOK Protected FinishedListed
