SPECIFICATION UpgradeSpec
CONSTANTS
    c1 = c1
    c2 = c2
    c3 = c3
    Ctps = {c1, c2, c3}
    Ident <- ThreeIdents
    Secrets = {s1}
    NoSecret = NoSecret
    NoOne = NoOne
    Times = {0, 1}
    MaxEdits = 0
    MaxAborts = 0
INVARIANTS
    OneOwner
    UpgradeRestsSettled
PROPERTIES
    UpgradeSettles
CHECK_DEADLOCK FALSE
