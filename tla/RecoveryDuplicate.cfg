CONSTANTS
    Block = {b1, b2}
    Disturbances = {}
    MaxSeq = 3
    MaxWrites = 3
    MaxOutstanding = 1
    MaxOutages = 2
    MaxDisturbances = 0
SYMMETRY BlockSymmetry
SPECIFICATION Spec
INVARIANT EntryCanBeInserted
CHECK_DEADLOCK FALSE
