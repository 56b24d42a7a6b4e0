SPECIFICATION FairSpec
CONSTANTS
    InitParams <- Staged
    EditParams <- Switched
    Arriving <- DecidingReports
    MaxEdits = 1
    MaxFaults = 1
    MaxConflicts = 1
INVARIANTS
    ConflictUninstallsNothing
    QuietIsSteady
PROPERTIES
    GatesRespected
    Converges
CHECK_DEADLOCK FALSE
