CONSTANTS
  c1 = c1
  c2 = c2
  c3 = c3
  Null = Null
  Atom = Atom
  Cell <- MCCell
  Heaps <- MCHeaps
  Kept <- MCKept
  RefcountBits = 2
  Programs <- MCPrograms
SPECIFICATION Spec
INVARIANT ComparesPairs
CHECK_DEADLOCK FALSE
