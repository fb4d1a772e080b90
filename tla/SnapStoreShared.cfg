CONSTANTS
    ObjCount = 3
    Block = {1, 2}
    Disturbances = {"shared_object"}
    MaxSeq = 3
    MaxWrites = 4
SPECIFICATION Spec
INVARIANT SnapshotsKeepData
