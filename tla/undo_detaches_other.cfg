SPECIFICATION Spec
CONSTANTS
    Instances = {i1,i2}
    Local = {}
    AttIds = {a1,a2}
    CallIds = {c1,c2}
    Ops = {}
    Faults = {"timeout"}
    MaxCrashes = 0
    NoInst = NoInst
    NoAtt = NoAtt
    NoCall = NoCall
    Nobody = Nobody
    Gone = Gone
CHECK_DEADLOCK FALSE
SYMMETRY Symmetry
PROPERTIES
    OnlyOwnerDetaches
