CONSTANTS
  MaxFrames = 3
  MaxPromises = 1
  MaxCalls = 3
  MaxSize = 5
  Var = {x, y}
  Datum = {d}
  None = None
  Unbound = Unbound
  Capacity0 = 1
SPECIFICATION Spec
INVARIANTS TypeOK ReleasesLiveFrames ForcedHasValue
PROPERTIES ImplementsScopes OnlyDefineMoves
CHECK_DEADLOCK FALSE
