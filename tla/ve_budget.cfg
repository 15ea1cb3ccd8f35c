SPECIFICATION Spec
CONSTANTS
  p1 = p1
  p2 = p2
  valid = valid
  invalid = invalid
  garbled = garbled
  Partition = {p1}
  Request = {valid}
  PartitionOf <- TwoPartitions
  Kind <- EachKind
  NumChecks = 1
  CheckTimeout = 2
  HandlerTimeout = 2
  MaxDLQTries = 1
  MaxFaults = 2
  None = None
INVARIANTS FatalIsTransient
CHECK_DEADLOCK FALSE
