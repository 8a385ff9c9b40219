SPECIFICATION Safety
CONSTANTS
  MaxRequests = 1
  MaxAgents = 1
  MaxCalls = 1
  MaxBargeIns = 1
  Kinds = {"text"}
INVARIANTS
  CameraReleased
CHECK_DEADLOCK FALSE
