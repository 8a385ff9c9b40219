SPECIFICATION Spec
CONSTANTS
  Providers = {"mock", "openai", "compatible", "anthropic"}
  MaxMessages = 4
  MaxToolSteps = 2
  MaxParallel = 2
  MaxBargeIns = 2
INVARIANTS
  HealsByItself PicturesWithQuestion
CHECK_DEADLOCK FALSE
