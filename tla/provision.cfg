SPECIFICATION FairSpec
CONSTANTS
    PVols = {p1,p2}
    Kinds = {"image","other"}
    RetryLimit = 1
    Requests = {r1,r2}
    Boot = Boot
    ForceFrom = {"deleting","error_deleting"}
    Faults = {"image","create","lost","resent","build","timeout","map","metadata","delete","stuck","poll","unmap"}
    MaxCrashes = 1
    NoVol = NoVol
CHECK_DEADLOCK FALSE
INVARIANTS
    TypeOK
    NoLeak
    MappedIsThere
PROPERTIES
    HandlersEnd
    KeepsLifecycle
