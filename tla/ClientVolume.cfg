CONSTANTS
    Iocb = {a, b}
    Disturbances = {"close_race", "read_refused", "reopen_fails"}
    Reads = {2}
    MaxReq = 3
    MaxVer = 2
    MaxLosses = 1
SPECIFICATION FairSpec
INVARIANTS
    IocbInOnePlace
    AnsweredAtMostOnce
    TimedOutReplyNeverSeen
    ReplyBuffersKept
PROPERTY EveryRequestAnswered
CHECK_DEADLOCK FALSE
