CONSTANTS
    Absent = Absent
    NoItem = NoItem
    Unanswered = Unanswered
    Containers = {c1, c2}
    MaxConditions = 2
    MaxReplicas = 2
    Waits <- EveryWait
    Jobs = {"StreamLogsV2", "Executef"}
SPECIFICATION FairSpec
INVARIANTS
    TypeOK
    NilMeansServing
    
    StreamedOnce
    LogsMeanSucceeded
PROPERTIES
    ServingIsNoticed
    Returns
CHECK_DEADLOCK FALSE
