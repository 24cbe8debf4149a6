CONSTANTS
  Backends = {"trigger", "realm", "data"}
  RegisterAccessors = {p1}
  InterruptAccessors = {v1}
  QueueSize = 2
  Keys = {0, 1, 3}
  KeyRange = 4
  MaxSizeEventIdMap = 2
  CheckedActivation = TRUE
  MaxVersion = 5
  MaxValue = 3
  MaxInFlight = 1
SPECIFICATION Spec
INVARIANTS DomainInv NewestValueArrives
PROPERTIES AccessorViews SameTriggerSameVersion
CHECK_DEADLOCK FALSE
