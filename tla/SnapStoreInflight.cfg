CONSTANTS
    ObjCount = 3
    Block = {1, 2}
    Disturbances = {"inflight_source"}
    MaxSeq = 3
    MaxWrites = 4
SPECIFICATION Spec
INVARIANT VolumeKeepsData
