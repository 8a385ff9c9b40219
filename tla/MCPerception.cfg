SPECIFICATION FairSpec
CONSTANTS
  MaxSessions = 2
  MaxCommands = 4
  MaxDown = 2
  MaxUp = 2
INVARIANTS
  HeadsetIsHeard OneChannel
PROPERTY
  BackendLearns UnaskedOnlyByLateStart
CHECK_DEADLOCK FALSE
