\* Three cells of two slots, a root buffer of two: collections start in the
\* middle of the mutator's operations.
CONSTANTS
  Cell = {c1, c2, c3}
  NoCell = NoCell
  Width = 2
  Capacity = 2
  MaxHandles = 1
SPECIFICATION Spec
SYMMETRY CellSymmetry
INVARIANTS
  TypeOK
  NoFaultButRevisits
  LiveNeverFreed
  CountsExact
  GarbageIsFindable
  BufferConsistent
  BufferBounded
PROPERTIES
  ImplementsUntilExposed
CHECK_DEADLOCK FALSE
