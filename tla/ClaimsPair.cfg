SPECIFICATION FairSpec
CONSTANTS
    c1 = c1
    c2 = c2
    c3 = c3
    Ctps = {c1, c2}
    Ident <- TwoIdents
    Secrets = {s1, s2}
    NoSecret = NoSecret
    NoOne = NoOne
    Times = {1, 2}
    MaxEdits = 3
    MaxAborts = 1
INVARIANTS
    TypeOK
    IInv
    SharedOnlyByRace
    RestIsJust
PROPERTIES
    NeverStripsLive
    Implements
    ConflictSurfaces
    FreeSecretGranted
CHECK_DEADLOCK FALSE
