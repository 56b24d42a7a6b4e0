SPECIFICATION FairSpec
CONSTANTS
    Scope <- Backup
    Offered = {"backup"}
    Mode = "Full"
    Arriving = {}
    MaxChanges = 0
PROPERTY DrainedAndKept
CHECK_DEADLOCK FALSE
