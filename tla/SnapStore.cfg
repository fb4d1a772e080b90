CONSTANTS
    ObjCount = 3
    Block = {1, 2}
    Disturbances = {}
    MaxSeq = 3
    MaxWrites = 4
SPECIFICATION FairSpec
INVARIANTS
    TypeOK
    SnapshotsReadBack
    VolumeReadsBack
    CopySourceKept
    NobodyLeftWaiting
PROPERTY WritesAnswered
