SPECIFICATION FairSpec
CONSTANTS
    Snaps = {s1,s2}
    Requests = {r1,r2}
    Boot = Boot
    Cascades = {TRUE, FALSE}
    Forces = {"volume"}
    Faults = {"create","metadata","delete","volume","busy","late","cast_delete"}
    MaxCrashes = 1
    NoSnap = NoSnap

CHECK_DEADLOCK FALSE
PROPERTIES
    HandlersEnd
