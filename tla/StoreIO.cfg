CONSTANTS
    Iocb = {i1, i2}
    RepIocb = {r1}
    Block = {b1, b2}
    IoDepth = 1
    StartCounts = {1}
    Disturbances = {"close_race", "late_original", "no_iocb", "requeued", "recovery_read", "uninit_count", "conductor_silent", "conductor_refuses", "disk_error", "reply_race", "not_primary"}
    MaxReq = 2
    MaxConns = 2
    MaxRecoveryReads = 1
    MaxDisturbances = 1
SPECIFICATION FairSpec
INVARIANTS
    AckedOnEveryReplica
    IocbFreedLast
    ThrottleAccounted
PROPERTY EveryRequestSettled
CHECK_DEADLOCK FALSE
