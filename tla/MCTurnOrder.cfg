SPECIFICATION LoopSpec
CONSTANTS
  MaxRequests = 3
  MaxAgents = 1
  MaxCalls = 1
  MaxBargeIns = 2
  Kinds = {"text", "interaction", "settings"}
INVARIANTS
  OneTurn ServedInOrder Answered OnlyTheTurnIsCut
PROPERTIES
  NoTurnAfterClose ImplementsTurnAbs EveryRequestEnds BargeInIsPrompt ShutdownIsPrompt
CHECK_DEADLOCK FALSE
