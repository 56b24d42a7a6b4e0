SPECIFICATION Spec
CONSTANTS
    InitParams <- Backup
    EditParams <- OffAndKeep
    Arriving <- BackupReports
    MaxConflicts = 0
    MaxEdits = 1
    MaxFaults = 0
PROPERTIES
    NothingLostInProvision
CHECK_DEADLOCK FALSE
