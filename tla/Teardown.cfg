SPECIFICATION FairSpec
CONSTANTS
    Scope <- K8gb
    Offered = {"k8gb"}
    Mode = "Full"
    Arriving <- K8gbReports
    MaxChanges = 3
INVARIANTS UsagesInTime NeverBlocked
PROPERTIES OrderKept ChangeEnds
CHECK_DEADLOCK FALSE
