SPECIFICATION Spec
CONSTANTS
    Snaps = {s1,s2}
    Requests = {r1,r2,r3,r4}
    Boot = Boot
    Cascades = {TRUE, FALSE}
    Forces = {"create","volume"}
    Faults = {"create","delete","volume","stuck","late","metadata","cast_create","cast_volume"}
    MaxCrashes = 0
    NoSnap = NoSnap
SYMMETRY Symmetry
CHECK_DEADLOCK FALSE
INVARIANTS
    TypeOK
    DestroyedWasRemoved
    AvailableHasData
    
    DeletingHasWorker
