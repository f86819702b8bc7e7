\* Every structure of three cells; written twice, or two of its cells compared.
CONSTANTS
  c1 = c1
  c2 = c2
  c3 = c3
  Null = Null
  Atom = Atom
  Cell <- MCCell
  Heaps <- MCHeaps
  Kept <- MCKept
  RefcountBits = 2
  Programs <- MCPrograms
SPECIFICATION Spec
INVARIANTS
  TypeOK
  DirtOnlyBehindTails
  PrintsUpToMarks
  EqualAnswers
  FailsOnlyWhere
PROPERTIES
  InfoKept
  WriteReturns
CHECK_DEADLOCK FALSE
