CONSTANTS
    ZoneSize = 2
    Disturbances = {"sync_save", "startup_save_error", "log_error"}
    MaxRecords = 5
    MaxExternal = 2
SPECIFICATION FairSpec
INVARIANTS
    TypeOK
    RestartRecoversLog
    MemoryIsDurable
    CurrentZoneIntact
    ReplayStaysInZone
    CompactionImageExact
    RecordsPartitioned
PROPERTIES
    PhaseAdvances
    ImplementsDurableLog
    TriggerCompletes
    LogIsAbsorbed
