CONSTANTS
  NoId = 2
  MemSize = 4
  PageSize = 2
  Breakpoints <- MCBreakpoints
  Situations <- MCSituations
  MaxDepth = 1
  MaxSteps = 2
  MaxAsks = 3
SPECIFICATION Spec
INVARIANTS TypeOK PauseJustified RunsPastNothing
PROPERTY IsSession
