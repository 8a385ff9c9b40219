SPECIFICATION FairSpec
CONSTANTS
  MaxReplies = 3
  BargeLimit = 2
  SilenceLimit = 2
  MaxFrames = 4
  GraceFrames = 2
INVARIANTS
  NotLeftDeaf
PROPERTIES
  OneInterruption RecordingEnds
