CONSTANTS
  Backends = {"realm"}
  RegisterAccessors = {p1}
  InterruptAccessors = {v1}
  QueueSize = 2
  Keys = {0, 1, 2, 3}
  KeyRange = 8
  MaxSizeEventIdMap = 2
  CheckedActivation = TRUE
  MaxVersion = 7
  MaxValue = 3
  MaxInFlight = 1
SPECIFICATION Spec
INVARIANT SmallerVersionIsReplaced
CHECK_DEADLOCK FALSE
