SPECIFICATION FairSpec
CONSTANTS
    Session = {s1, s2}
    User = {u1}
    Worker = {w1}
    HasOverflow = TRUE
    OnpremCap = 0
    OverflowCap = 1
    RedisLock = TRUE
    LockExpires = TRUE
    ApiFails = TRUE
    CrashAllowed = FALSE
    MaxLate = 2
    None = None
INVARIANTS
    TypeOK
PROPERTIES
    ExpiredIsReaped ProgressIsKept
CHECK_DEADLOCK FALSE
