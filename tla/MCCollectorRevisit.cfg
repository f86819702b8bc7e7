CONSTANTS
  Cell = {c1, c2, c3}
  NoCell = NoCell
  Width = 2
  Capacity = 2
  MaxHandles = 1
SPECIFICATION Spec
SYMMETRY CellSymmetry
INVARIANTS
  NeverRevisitsFreed
CHECK_DEADLOCK FALSE
