SPECIFICATION Spec
CONSTANTS
    Session = {s1, s2, s3}
    User = {u1, u2, u3}
    Worker = {w1, w2}
    HasOverflow = FALSE
    OnpremCap = 1
    OverflowCap = 1
    RedisLock = TRUE
    LockExpires = FALSE
    ApiFails = TRUE
    CrashAllowed = TRUE
    MaxLate = 0
    None = None
SYMMETRY Symmetry
INVARIANTS OneSessionPerUser
    QuotaOverrunIsBounded
PROPERTY ProgressIsKept
CHECK_DEADLOCK FALSE
