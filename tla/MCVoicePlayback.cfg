SPECIFICATION FairSpec
CONSTANTS
  MaxReplies = 2
  BargeLimit = 2
  SilenceLimit = 2
  MaxFrames = 4
  GraceFrames = 2
INVARIANT
  PlaybackStops
