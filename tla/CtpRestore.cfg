SPECIFICATION FairSpec
CONSTANTS
    InitParams <- Backup
    EditParams <- NoEdit
    Arriving <- BackupReports
    MaxConflicts = 0
    MaxEdits = 0
    MaxFaults = 1
INVARIANTS
    RestoredOnce
CHECK_DEADLOCK FALSE
