SPECIFICATION Spec
CONSTANTS
    Instances = {i1,i2,i3}
    Local = {}
    AttIds = {a1,a2,a3}
    CallIds = {c1,c2}
    Ops = {"delete"}
    Faults = {"virt_detach", "detach", "delete", "busy", "cast"}
    MaxCrashes = 0
    NoInst = NoInst
    NoAtt = NoAtt
    NoCall = NoCall
    Nobody = Nobody
    Gone = Gone
CHECK_DEADLOCK FALSE
SYMMETRY Symmetry
INVARIANTS
    TypeOK
    OneOwner
    ConnectedHasRow
    DestroyedIsFree
PROPERTIES
    DeletingIsKept
    OnlyOwnerDetaches
