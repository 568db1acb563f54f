CONSTANTS
    p1 = p1
    p2 = p2
    p3 = p3
    p4 = p4
    r1 = r1
    r2 = r2
    n1 = n1
    n2 = n2
    Unowned = Unowned
    Pods <- AllPods
    Sets <- BothSets
    Owner <- OwnerOf
    Nodes <- BothNodes
    NodeOf <- PlacedOn
    Cordoning = {n1}
    Claimants = {p2}
    Skipped = {p4}
    Latecomers = {p3}
    Attached = {p1, p3}
    MaxMishaps = 1
SPECIFICATION Spec
INVARIANTS
    TypeOK
    ScaledBack
    LeftUpIsTold
    
    ClaimOutlivesPod
    NilMeansRenewed
    NilMeansDrained
PROPERTIES
    DetachedWhenEvicted
    TaintsKept
CHECK_DEADLOCK FALSE
