\* A root buffer larger than the heap: the only collection is that of qz_free.
CONSTANTS
  Cell = {c1, c2}
  NoCell = NoCell
  Width = 2
  Capacity = 3
  MaxHandles = 3
SPECIFICATION FairSpec
PROPERTIES
  ImplementsHeap
  OperationsReturn
