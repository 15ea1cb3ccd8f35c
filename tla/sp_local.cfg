SPECIFICATION Spec
CONSTANTS
    Session = {s1}
    Worker = {w1, w2}
    Consumer = consumer
    NumSteps = 3
    MaxHintLevel = 2
    Enrolment = {e1}
    EnrolmentOf <- OneEnrolment
    QueueBound = 1
    EventCap = 1
    Persistent = FALSE
    Validator = "mock"
    CrashAllowed = TRUE
    DbMayFail = FALSE
    KafkaMayLose = FALSE
    None = None
SYMMETRY WorkerSymmetry
INVARIANTS
    TypeOK
    StepsPassInOrder
CHECK_DEADLOCK FALSE
