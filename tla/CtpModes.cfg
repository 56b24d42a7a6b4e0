SPECIFICATION Spec
CONSTANTS
    InitParams <- ModeSwitches
    EditParams <- ModeSwitches
    Arriving <- BackupReports
    MaxConflicts = 0
    MaxEdits = 2
    MaxFaults = 0
INVARIANTS
    TypeOK
    NoVerbBeyondModes
    ProvisionOrphans
    KeptWhileLive
CHECK_DEADLOCK FALSE
