CONSTANTS
    Block = {b1, b2}
    Disturbances = {"slow_write", "snapshot", "newer_entry", "two_newer", "query_fails", "disk_fails"}
    MaxSeq = 3
    MaxWrites = 3
    MaxOutstanding = 1
    MaxOutages = 2
    MaxDisturbances = 1
SYMMETRY BlockSymmetry
SPECIFICATION Spec
INVARIANTS
    ReplicaReadsLikePrimary
    NothingLeftBehind
    ReplicaChainOrdered
CHECK_DEADLOCK FALSE
