CONSTANTS
  NoId = 3
  MemSize = 4
  PageSize = 2
  Breakpoints <- MCBreakpoints
  Situations <- MCSituations
SPECIFICATION SpecTable
INVARIANTS TableOK ReportsFirstTripped
