SPECIFICATION FairSpec
CONSTANTS
    Instances = {i1,i2}
    Local = {}
    AttIds = {a1,a2}
    CallIds = {c1,c2}
    Ops = {"delete","force_delete"}
    Faults = {"connect", "attach", "virt_attach", "terminate", "mode"}
    MaxCrashes = 1
    NoInst = NoInst
    NoAtt = NoAtt
    NoCall = NoCall
    Nobody = Nobody
    Gone = Gone
CHECK_DEADLOCK FALSE
PROPERTIES
    AttachingEnds
