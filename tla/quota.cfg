SPECIFICATION Spec
CONSTANTS
    v1 = v1
    v2 = v2
    v3 = v3
    s1 = s1
    Objs = {v1,v2,v3,s1}
    Resources = {"volumes","volumes_type","snapshots","gigabytes"}
    Of <- Taken
    Limit <- Quota
    Day = 4
    MaxClock = 5
    Settings <- Scenarios
CHECK_DEADLOCK FALSE
INVARIANTS
    TypeOK
    ReservedIsPending
    ClaimsCovered
    WithinLimit
    QuietIsExact
    OrphansHaveDied
