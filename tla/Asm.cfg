CONSTANTS
  Page = 8
  MaxDepth = 2
  Main <- MCMain
  Programs <- MCPrograms
  TakesArg <- MCTakesArg
  Uppercased <- MCUppercased
SPECIFICATION Spec
INVARIANTS TypeOK NodesOwned IsLayout SymbolsAgree EveryByteMapped WarningsExact
