SPECIFICATION FairSpec
CONSTANTS
    c1 = c1
    c2 = c2
    noTag = noTag
    Ctps = {c1, c2}
    Id <- Ids
    Location <- Region
    Zones = {"z1", "z2"}
    Overrides <- TagsGiven
    NoTag <- noTag
    Start <- Plain
    Choices <- Moved
    MaxChanges = 1
PROPERTIES GlueStable
CHECK_DEADLOCK FALSE
