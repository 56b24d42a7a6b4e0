SPECIFICATION FairSpec
CONSTANTS
    c1 = c1
    c2 = c2
    c3 = c3
    Ctps = {c1, c2}
    Ident <- TwoIdents
    Secrets = {s1, s2}
    NoSecret = NoSecret
    NoOne = NoOne
    Times = {1}
    MaxEdits = 4
    MaxAborts = 0
PROPERTIES
    UniqueReferenceGranted
CHECK_DEADLOCK FALSE
