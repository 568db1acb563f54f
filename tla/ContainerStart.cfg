CONSTANTS
    Absent = Absent
    NoItem = NoItem
    Unanswered = Unanswered
    Containers = {c1, c2}
    MaxConditions = 2
    MaxReplicas = 2
    Waits <- EveryWait
    Jobs = {"StreamLogsV2", "Executef"}
SPECIFICATION Spec
INVARIANTS
    StartedMeansStarted
CHECK_DEADLOCK FALSE
