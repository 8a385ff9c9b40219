SPECIFICATION Spec
CONSTANTS
  MaxObjects = 2
  MaxSessions = 2
  MaxDown = 2
  MaxUp = 1
  Widgets = {"panel", "timer", "media"}
  Contents = {"first"}
  Layouts = TRUE
INVARIANTS
  MirrorsSession RefsResolve TimersMatchHolograms
PROPERTY
  ImplementsMirrorAbs
CHECK_DEADLOCK FALSE
