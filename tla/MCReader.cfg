CONSTANTS
  Text <- MCText
  Calls <- DatumCalls
  CellsOf <- DatumCells
  Interned <- MCInterned
  INITIAL_CAPACITY = 2
  MaxSymbols = 3
SPECIFICATION Spec
INVARIANTS TypeOK ReadsDatum SymbolsUnique InBounds NothingLost FaultsOnlyWhere
CHECK_DEADLOCK FALSE
