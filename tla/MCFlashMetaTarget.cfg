CONSTANTS
    k1 = k1
    k2 = k2
    Key = {k1, k2}
    ObjCount = 2
    Disturbances = {}
    MaxSeq = 3
    MaxLog = 3
SPECIFICATION Spec
INVARIANT DeleteFindsTarget
