CONSTANTS
    ZoneSize = 2
    Disturbances = {"sync_save"}
    MaxRecords = 4
    MaxExternal = 1
SPECIFICATION Spec
INVARIANT RestartKeepsWrites
