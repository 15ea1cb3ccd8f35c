SPECIFICATION FairSpec
CONSTANTS
    OnpremVM = {v1}
    CloudVM = {i1}
    Observer = {o1, watcher}
    Watcher = watcher
    ApiFails = TRUE
    MaxRestarts = 1
    CountCap = 2
INVARIANTS
    TypeOK
    EachResultCountedOnce
PROPERTIES
    ReadyIsNotFailed
    RunningIsRecorded
CHECK_DEADLOCK FALSE
