SPECIFICATION FairSpec
CONSTANTS
  Session = {s1}
  Worker = {w1}
  Consumer = consumer
  NumSteps = 1
  MaxHintLevel = 0
  Enrolment = {e1}
  EnrolmentOf <- OneEnrolment
  QueueBound = 1
  EventCap = 1
  Persistent = TRUE
  Validator = "kafka"
  CrashAllowed = FALSE
  DbMayFail = FALSE
  KafkaMayLose = FALSE
  None = None
CHECK_DEADLOCK FALSE
PROPERTY ValidatingResolves
