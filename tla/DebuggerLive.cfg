CONSTANTS
  NoId = 1
  MemSize = 4
  PageSize = 2
  Breakpoints <- MCBreakpoints
  Situations <- MCSituations
  MaxDepth = 1
  MaxSteps = 2
  MaxAsks = 2
SPECIFICATION FairSpec
PROPERTIES RequestsAnswered LeavesWithDebugger
