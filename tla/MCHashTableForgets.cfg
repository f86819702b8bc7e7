CONSTANTS
  Key = {k1, k2, k3}
  Value = {v1, None}
  None = None
  Absent = Absent
  Word = 8
  Hashes = {0, 3, 6, 7}
  InitCapacity = 4
  MaxCapacity = 8
SPECIFICATION Spec
PROPERTIES
  BoundStaysBound
CHECK_DEADLOCK FALSE
