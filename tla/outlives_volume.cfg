SPECIFICATION Spec
CONSTANTS
    Snaps = {s1,s2}
    Requests = {r1,r2}
    Boot = Boot
    Cascades = {TRUE, FALSE}
    Forces = {"create","delete","volume"}
    Faults = {}
    MaxCrashes = 0
    NoSnap = NoSnap

CHECK_DEADLOCK FALSE
INVARIANTS
    NoSnapshotOfDeleted
