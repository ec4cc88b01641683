SPECIFICATION FairSpec
CONSTANTS
    c1 = c1
    c2 = c2
    b2 = b2
    b1 = b1
    d1 = d1
    p1 = p1
    p2 = p2
    Creators = {c1,c2,d1}
    Builders = {b1,b2}
    Projects = {p1,p2}
    Project <- ProjectOf
    NoRow = NoRow
    NoImage = NoImage
    Settings <- Scenarios
CHECK_DEADLOCK FALSE
INVARIANTS
    TypeOK
    SyncedIsThere
    OneSync
    QuietIsClean
PROPERTIES
    WaitEnds
