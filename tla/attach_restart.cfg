SPECIFICATION Spec
CONSTANTS
    Instances = {i1,i2}
    Local = {i1,i2}
    AttIds = {a1,a2}
    CallIds = {c1,c2}
    Ops = {"force_delete","extend","upload_force"}
    Faults = {"timeout","extend"}
    MaxCrashes = 1
    NoInst = NoInst
    NoAtt = NoAtt
    NoCall = NoCall
    Nobody = Nobody
    Gone = Gone
CHECK_DEADLOCK FALSE
SYMMETRY Symmetry
CONSTRAINT JobsApart
INVARIANTS
    RowsUnique
    NoPhantomUse
