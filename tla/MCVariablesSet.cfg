CONSTANTS
  MaxFrames = 1
  MaxPromises = 0
  MaxCalls = 2
  MaxSize = 4
  Var = {x, y}
  Datum = {d}
  None = None
  Unbound = Unbound
  Capacity0 = 1
SPECIFICATION Spec
INVARIANT SlotInEnvironment
CHECK_DEADLOCK FALSE
