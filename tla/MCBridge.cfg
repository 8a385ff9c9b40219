SPECIFICATION FairSpec
CONSTANTS
  MaxSessions = 3
  MaxHeard = 3
  MaxInbox = 1
  Modes = {"auto", "on", "off"}
INVARIANTS
  OneLostPerBreak
PROPERTY
  HeardGetsOut ImplementsOutboxAbs
CHECK_DEADLOCK FALSE
