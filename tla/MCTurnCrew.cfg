SPECIFICATION Safety
CONSTANTS
  MaxRequests = 3
  MaxAgents = 2
  MaxCalls = 2
  MaxBargeIns = 1
  Kinds = {"text", "watch", "unwatch", "alert", "blank"}
INVARIANTS
  CrewAccountedFor WatchKeepsCamera
PROPERTIES
  QuietAfterDone
CHECK_DEADLOCK FALSE
