SPECIFICATION Spec
CONSTANTS
  CheckSet <- AllChecks
  MaxChecks = 2
  Links = {"ok", "deadline", "error"}
INVARIANTS TypeOK PassIsTrue FailureIsTheLearners
CHECK_DEADLOCK FALSE
