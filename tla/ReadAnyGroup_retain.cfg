CONSTANTS
  PushElements <- MCPushElements
  PollElements <- MCPollElements
  Members <- MCMembers
  QueueSize = 2
  MaxPushes = 3
  MaxEarly = 0
  MaxHeld = 2
  Retaining = {TRUE}
SPECIFICATION ReadAnySpec
INVARIANT Completed
CHECK_DEADLOCK FALSE
