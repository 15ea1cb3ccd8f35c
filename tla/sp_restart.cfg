SPECIFICATION Spec
CONSTANTS
  Session = {s1}
  Worker = {w1}
  Consumer = consumer
  NumSteps = 2
  MaxHintLevel = 0
  Enrolment = {e1}
  EnrolmentOf <- OneEnrolment
  QueueBound = 1
  EventCap = 1
  Persistent = TRUE
  Validator = "kafka"
  CrashAllowed = TRUE
  DbMayFail = TRUE
  KafkaMayLose = TRUE
  None = None
SYMMETRY WorkerSymmetry
INVARIANTS StepsPassInOrder ShownProgressIsEarned CompletionIsEarned
    NoUnverifiedPass CompletionIsUnderWay
CHECK_DEADLOCK FALSE
