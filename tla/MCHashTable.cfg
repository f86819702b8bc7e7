\* Three keys, a value and the unspecified one; every hash function into eight of
\* sixteen words.  The table grows twice.
CONSTANTS
  Key = {k1, k2, k3}
  Value = {v1, None}
  None = None
  Absent = Absent
  Word = 16
  Hashes = {0, 1, 2, 3, 7, 13, 14, 15}
  InitCapacity = 2
  MaxCapacity = 8
SPECIFICATION Spec
INVARIANTS
  TypeOK
  SearchIsExact
  ProbeTerminates
  LoadBounded
PROPERTIES
  ImplementsMap
