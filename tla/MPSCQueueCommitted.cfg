SPECIFICATION Spec
CONSTANTS
  Producers = {p1, p2}
  Capacity = 2
  Items = 1
  None = None
INVARIANT ReadsOnlyCommitted
