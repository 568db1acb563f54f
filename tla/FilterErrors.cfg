\* Two pods of a few kinds: errors that never reach the caller (violation).
SPECIFICATION FiltersSpec
CONSTANTS
    p1 = p1
    p2 = p2
    NoPod = NoPod
    NodePods <- TwoPods
    Kinds <- FewKinds
CHECK_DEADLOCK FALSE
INVARIANT ErrorsReported
