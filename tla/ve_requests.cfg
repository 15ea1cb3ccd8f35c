SPECIFICATION FairSpec
CONSTANTS
  p1 = p1
  p2 = p2
  valid = valid
  invalid = invalid
  garbled = garbled
  Partition = {p1, p2}
  Request = {valid, invalid, garbled}
  PartitionOf <- TwoPartitions
  Kind <- EachKind
  NumChecks = 2
  CheckTimeout = 2
  HandlerTimeout = 2
  MaxDLQTries = 2
  MaxFaults = 3
  None = None
INVARIANTS NothingSkipped OnlyCheckedPass
PROPERTIES RequestsAreSettled ImplementsDelivery
CHECK_DEADLOCK FALSE
